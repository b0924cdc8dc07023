# Formal model of the QP platform backend

TLA+ modules, TLC runs and TLAPS proofs for the NestJS/TypeORM/PostgreSQL
backend in this repository (`src/src/...`). Every module is written from the
code; where a comment or a document says something else, section 4 says so.
`PROJECT.json` names, for every definition, the lines it stands for, for every
property a mutation of the model that breaks it, and for every hazard the line
where it bites and the properties that watch it.

Contents: 1 the system, 2 the modules, 3 the runs, 4 disagreements and
observations, 5 fairness, 6 the proofs, 7 what is not modelled, 8 what is left.

## 1. The system

The backend is one Node process (or several replicas) over one PostgreSQL
database and a Redis. Requests interleave at every `await`. TypeORM's
`dataSource.transaction` takes one pool connection; a service called from inside
it that opens its own transaction or uses an injected repository runs on
*another* connection, so it commits by itself and does not see the caller's
uncommitted rows. Rows are protected only where the code asks for
`pessimistic_write`; everything else is read, compute, save, and
`repository.save` writes back every column of the copy that differs from the
row. These facts are behind most of what is hard in this code.

| Component | State | Operations | Talks to | Hard behaviour |
|---|---|---|---|---|
| Market balances (`market-balance.service.ts`) | one balance row per user | credit/debit under a row lock, supply cap | everything that moves QP | interleaving, locks, cap |
| Order book (`order-book.service.ts`) | order rows, trade rows, trading flags | create + match, cancel, suspend, bar | balances, settlement, revenue, bridge | row locks, deadlock, partial rollback |
| Bridge and netting (`cross-facilitator-engine`, `netting-engine`) | AI cash per facilitator, synthetic orders, netting tasks | execute, fund, rebalance, run, complete, cancel | balances, order book | unlocked copies, advisory lock per connection |
| Settlements (`settlement.service.ts`) | settlement records | create, confirm by webhook, expire | order book | order against the trade's commit, repeated webhooks |
| Revenue (`revenue.service.ts`) | revenue records, platform balance | trade fee, transaction fee | balances, subscriptions | two row locks, fire and forget |
| Facilitator transactions (`facilitator-transaction`, `payment-facilitator`) | deposit/withdrawal rows, event log, accounts | register, create, five webhook handlers | providers, balances | duplicates, races, crashes, ids that do not lead back |
| AI participant (`ai-participant.service.ts`) | breaker, daily volume, standing orders | tick every 5 s | order book | overlapping ticks, breaker |
| Balance cache (`facilitator-balance.service.ts`) | Redis keys | read, invalidate | providers, webhooks | write-back of an old answer |
| QP accounts (`qpoints-transaction.service.ts`) | accounts, transactions, journal | deposit, transfer, withdraw, review | ledger, revenue, fraud score | unlocked balances, strings from decimal columns |
| Wallets, payments, E-Play | wallet rows, payments, licences | pay, refund, top up, buy | each other | compensation by hand, crashes between calls |
| FI products and institutions | deposits, policies, claims, loans; minted supply | create, mature, file, review; mint, settle | QP accounts | flagged transfers taken as paid, checks outside the transaction |
| Tabs, orders, rides, subscriptions, workflows, community | status rows, counters | life cycles | payments, notifications | stale copies written back, repeated calls |
| Authentication and terms of service | token blacklist, codes, acceptances | refresh, logout, try a code, accept | Redis, users | check then act |
| AI module, chat | stored features, plugins, signed models, inferences, search index, sockets | rules, jobs, events | database, models, sockets | process-local copies of rows, crash of background work |
| Catalogue, profiles, personal tools, ... | single rows | create/update/delete | - | natural keys without an index, soft delete |

What makes the central components correct: a balance changes by whole
movements and never below zero; an order trades at most its quantity, and
orders, trades, settlements and balances tell the same story; a payment
reported by a provider is applied exactly once; a status has the history it
claims; a counter counts; a call that begins ends. Many of these hold only as
long as two calls do not overlap in a particular way. Then the property names
that overlap with a history variable and claims the rest, so that it says both
what can go wrong and that nothing else can.

## 2. The modules

### The market

`QPLedger` is the abstract specification: balances that change by one whole
credit, debit or fee at a time and never become negative. Two modules implement
it, `MarketBalance` and `WalletPayments`; both refinements are checked and proved.

`MarketBalance`: a request is a process; its transaction is a sequence of
statements (`LockRow` = INSERT..ON CONFLICT + SELECT..FOR UPDATE, `CheckCap` = SUM
over all rows, `Commit` = save + commit). `holder` is the row lock, `seen`/`seenAI`
the copies the code works on. `StartSettle` is the two-transaction transfer of
`settlement/initiate`. `Fail` may end any transaction at any statement.

`OrderBook`: `createOrder` is a process per call: `Admit` reads the flags, `Open`
starts the transaction (a sell checks its balance), `Select` is the snapshot of the
counter-order query, `LockNext` the row locks it takes one after the other
(TypeORM's `getOne` sends no LIMIT, so FOR UPDATE locks *every* matching row),
`Match` the decision, `TradeLeg` the `adjustBalance` calls, `Settle` the settlement
and the fired fee, `Commit` the end. The own rows of the transaction live in
`fills`; `status` and `filled` are what is committed. Balance legs go to `bal` at
once and are remembered in `moved` until the trade commits. After a commit without
trades the call may go over the bridge (`BridgeRead` .. `BridgeMark`). `Cancel`, the
trading flags, `ChargeFee`, PostgreSQL's `DeadlockVictim` and `Fault` complete the
environment. A foreign key on `trade_id` refuses the settlement of an uncommitted
trade; that failure is a `Fault` at the settlement, so the model also covers a
table without the key.

`FacilitatorTx`: deposits and withdrawals through an external provider. The
creating call (limit check, PENDING row, request, second save) and the webhook
deliveries (look up event id, find row, save status, move QP, record event id) are
processes whose steps are single database calls. `Report` is the provider, `Deliver`
a webhook request, which may be a repetition.

`ProviderPayments`: the same payments seen from the adapters: which provider a
user is registered with, under which id each adapter stores a payment, under which
its webhook asks for it, and what amount moves. Handlers run one after the other
there; the interleaving is `FacilitatorTx`.

`BridgeCash`: the platform's cash per facilitator. A call is a process that
trades over the bridge, funds, or runs, completes or cancels netting tasks; `cash`
changes by copies read without a lock, `held` is the row lock from an UPDATE to
the commit, `task` the netting tasks, and `messy`, `drained` remember the overlaps and
rebalancings that the properties except.

`Settlements` (records, early and repeated webhooks, nightly expiry),
`AiParticipant` and `BalanceCache` (read through, write back, invalidate, expiry; a
fetch that fails is passed on and not cached) complete the market. A tick of
`AiParticipant` lists its open orders, restores the missing standing orders venue by
venue and manages the inventory behind a breaker. Ticks may overlap, every reading may
fail, the bridges it finds active are any set, since trades and fundings suspend and
open them, and the book's bridge may open a filled or cancelled order again (`Revive`).

### QP accounts, wallets and products

`QPAccounts`: accounts nobody locks before computing with them. A call reads its
copies (`ReadSrc`, `ReadDst`), is refused or scored (`Assess`), and in one transaction
writes the numbers it computed (`WriteSrc`, `WriteDst`: an UPDATE waits for another's
row lock and then overwrites its result) and commits record, balances and journal.
A flagged call commits only its record; `BeginReview` later approves or rejects it.
Decimal columns arrive as strings and the review adds to them without parsing:
`Join` and the balance `NaN` are what that does. `overwritten` and `reviewed` remember
which accounts were written from an out-of-date copy or by an approval. Amounts are
tenths of a QP, whole and at most 50 QP, where both fees are at their minimum.

`WalletPayments`: wallets under a row lock, and payments, refunds, top-ups and
purchases of digital assets around them, with the compensations the code writes by
hand and a crash between any two calls. `FiProducts`: term deposits, insurance
policies and claims, loan applications and credit reports, each a row and one or two
transfers. `Institutions`: minting against a cap and settlement between
institutions, checked on rows read before their transaction. Their QP accounts are
rows that transfers, fees and approvals write too, also between that check and the
UPDATE; the module keeps what those do to one account (`ReadAccount`, `SaveAccount`,
`ReviewAccount`), and `stale` and `crossed` remember the writes that undo or undercut
the institution's. `Tabs`: the credit tab of a customer. A save reads the row once more
and updates the columns in which the call's copy differs, so that one call's limit can
meet another's balance (`crossed`).

### Life cycles

`OrderLifecycle`, `Rides`, `Subscriptions`, `Workflows` and `Community` model one row
or a few that several calls read, decide on and write back. `Authentication` is
login: rotation and blacklist of token pairs, verification and reset codes.
`TermsOfService` shows, accepts and requires the terms while deployments change
them.

`Records` models what the remaining tables have in common, rows of one natural
key under overlapping requests, and its last part says for each table how the code
handles it: whether the key is looked for, indexed or neither, whether removed rows
still hold it, which status moves are allowed, whether a save writes a column, the
whole copy or an increment. A run chooses a table and explores it, so every table
is checked against the same four properties.

### The AI module and the chat

`AiPricing`, `AiRanking` and `AiInsights` are the rules that price, judge, rank and
forecast, as functions of a request, with every threshold, clamp and blend with a
model's answer; their properties are monotonicity, fairness and consistency over
all requests of a grid around the thresholds. `SearchIndex` is the TF-IDF index all
searches of a process share; a search gives the best `topN` documents. `Inferences` (jobs, model counter, workflow steps),
`FeatureStore` (features, cache, pipelines), `Plugins` (row and compiled function) and
`Provenance` (signed models) are its stateful services. `Chat` is the gateway and the REST service in front of the same
tables: sockets that leave at an await, rooms, rate limit, messages that are stored some
awaits before the send that throws, read marks set by id after the message was found,
and a restart between any two steps.

### Composition

`MoneyProducts`, `LifeCycles` and `Operations` instantiate these modules side by
side. They are specifications in their own right: their constants are the parts'
constants, their assumption is the conjunction of the parts' assumptions, and a last
section, "the instance that TLC checks", defines the small values that the
configuration gives to the constants. (`MCMarketBalance`, `MCOrderBook`, `MCFacilitatorTx`
and `MCQPAccounts` do the same for a single module.)

Modules grouped in one composition take no lock that another waits for, and what one
of them writes into another's rows is in both: other services' writes to an
institution's QP account are actions of `Institutions`, the bridge's write to an order
of the participant is `Revive` in `AiParticipant`, its suspensions are in what
`ReadBridges` finds. So it is enough that `part`, chosen in the first state, says which
module this behaviour follows while the others rest. That keeps the state space a sum
instead of a product; the price is that such a run says nothing about calls from one
part into another. Where a module calls another (an FI product calls `transfer`, a
purchase the wallet), the outcomes of the callee are in the caller's module.

### The proofs

`MarketBalanceProofs`, `OrderBookProofs`, `FacilitatorTxProofs` and `QPAccountsProofs`
extend the module they are about; `MoneyProductsProofs`, `LifeCyclesProofs` and
`OperationsProofs` extend a composition and prove first the theorems of its parts, then
those of the whole. `SumLemmas` is what they share about sums, induction on finite
sets, minima and maxima.

## 3. The runs

| Run | Question | Bounds | Distinct states |
|---|---|---|---|
| `market_balance` | no lost update, no negative balance, refinement of the ledger, every transaction ends | 3 users, 2 requests at once, 3 jobs | 227 thousand |
| `order_book` | orders, trades, settlements and balances agree; every call ends | 4 calls, 1 fault, 1 cancel | 54 thousand |
| `order_book_bridge` | balances stay explained with the bridge | 3 calls, 2 facilitators, 1 fault, 1 flag change | 727 thousand |
| `facilitator_tx` | nothing is applied twice, a recorded success is a credit, the daily limit | 3 transactions, 4 webhook requests, 2 at once, 1 crash | 1.04 million |
| `qp_accounts` | what unlocked copies can and cannot do to balances and journal; every call ends | 2 accounts, 3 calls, 2 reviews, 1 fault | 156 thousand |
| `money_products` | what records say about money is so; nothing is paid twice; wallets refine the ledger; calls end | five parts, below | 668 thousand |
| `life_cycles` | statuses have their history, one holder, counters count, charges have a reason, secrets admit once | eleven parts, below | 1.31 million |
| `operations` | cash is booked, automatic work is done once, answers are true, advice follows its reasons, records settle | nine parts, below | 650 thousand |

and the four runs of section 4 that expect a violation.

The parts and their bounds:

* `money_products`. *wallets*: 2 users, one without a wallet, 4 calls, 1 fault or
  crash. *products*: 4 calls, 1 fault. *institutions*: 2 institutions, 3 calls, 1
  failed transaction, 1 reading or approval by another service. *providers*: 3 payments of two users in two countries over
  six providers and the mock. *tabs*: 4 calls, 1 failure.
* `life_cycles`. *orders*: 1 order, 4 calls, 1 failure. *rides*: 2 requests at once
  out of four menus, 2 drivers, a PIN limit of 2. *subscriptions*: 2 subscriptions, 2
  desks, 2 months. *tokens*: 2 pairs, 2 visits. *codes*: 2 codes, 2 tries at once, a
  limit of 2. *workflows*: 2 runs, 1 cancel, 2 steps, 1 crash. *communities*: 4 calls
  on one user's membership, 1 failure. *records*: every table, 2 rows of one key, 4
  calls. *plugins*: 4 calls, 1 failure. *models*: 2 versions, 2 shards, 4
  signatures. *terms*: 1 user, 2 sessions, 2 deployments over 3 versions and 2 texts.
* `operations`. *bridge*: 3 facilitators, 4 calls, 1 fault. *settlement*: 2 trades, 2
  webhooks. *participant*: 2 ticks, 1 bridge, 2 orders, each slot opened again once.
  *cache*: 2 readers, 2 changes of the balance.
  *answers*: one request from the grids. *search*: 2 entities, 3 saves, `topN` up to 2. *chat*: 3
  sockets of 2 users, 1 message, 2 calls, 1 event a window. *inferences*: 2 inferences, 1 administrator, 1
  count he may set, 2 failures. *features*: 1 entity, 2 pipelines, 3 calls, 1 failure.

Why they are enough: the code's critical sections have two statements (look, then
write), so two calls show every race between them; a third gives a follow-up to
what the race left, and a fourth a call on the row that the first created. Menus
let each call be of every kind that meets the others on the same row. Limits
(attempts, cap, daily limit, rate) are 1 to 4 and are reached and passed. One fault
or crash at any statement shows every half-done call; the workflow of two steps can
stop before, between and after its steps. Four order-book calls are the least with
a deadlock of two buyers over two sells, one of which is committed late. The proofs
of section 6 cover any number of users, requests, calls, transactions and webhook
deliveries.

The properties of the composed runs are conjunctions of the parts' properties,
each under the part it is about:

| Property | Parts and what they contribute |
|---|---|
| `MoneyExplained` | wallets `WalletExplained`; institutions `QPIsConserved`, `MintedWithinCap`, `NotOverdrawn`; providers `BookedIsAmount`; tabs `BalanceExplained`, `WithinLimit` |
| `RecordsTellMoney` | wallets `StatusTellsMoney`, `PurchaseIsWhole`; products `DepositsAreFunded`, `LockedFundsHaveRecord`, `PoliciesArePaidFor`; providers `ReportedIsBooked`; tabs `StatusIsDecided` |
| `PaidOnce` | wallets `RefundsArePaid`; products `NoSecondPayout`, `NoClaimAfterPayout`; providers `BookedIsPaid` |
| `RecordsFollow` | orders, workflows, records, plugins, models, terms: a status has the history it claims |
| `OneHolder` | rides, subscriptions, communities, records, models, terms: one driver, subscription, row, version, acceptance |
| `CountersExplained` | rides, codes, communities, records, plugins: a counter is the number of events, up to named overlaps |
| `ChargesHaveReason` | subscriptions, rides: months due are paid, cancelled ones not charged, a reward has its completion |
| `SecretsAdmitOnce` | tokens, codes: exchanged once, refused after logout, used once, no password change without a code |
| `CashKept`, `DoneOnce` | bridge, participant, chat, inferences, features: cash booked on both sides, no second task, order, event, count, pipeline run or feature row |
| `AnswersTrue` | settlement, cache, search, chat, features: what is answered is so |
| `AdviceFits` | answers: prices, verdicts, rankings and forecasts move the way their reasons do |
| `RecordsSettle` | settlement, cache, chat, search, inferences, bridge: final states stay, and calls, pending records, stale values and inferences end |

## 4. Disagreements and observations

Four runs expect a violation; each quotes a sentence of the repository that the
code does not keep.

| Run | What the repository says | What the code does |
|---|---|---|
| `rollback` | a failed settlement rolls back the trade | the balance legs have committed in transactions of their own and stay |
| `bridge_double_fill` | row locks prevent double-fills | the bridge reads the counter order without a lock |
| `webhook_twice` | the unique constraint prevents double processing under concurrent delivery | it is inserted after the work is done |
| `approval` | approving processes the flagged transaction | the stored amount is a string: 1 QP approved on 2 QP leaves 21 QP, transfers and withdrawals leave NaN |

What the modules show besides; each is in the actions or in the exception a
property names.

*Market.* The cap check sums rows nobody locks, the AI row included. A bridge trade
credits the buyer before the seller is debited. Funding opens a suspended
bridge as soon as it holds its reserve and does not ask again the rule that suspended
it (less than a tenth of the outflow left); rebalancing drains a source without closing
its bridge. The bridge sets the status of the counter order from its copy, so a standing
order of the AI participant that was cancelled or filled meanwhile is open again beside
its replacement. The comment on `createSettlement` (settlement.service.ts:37) says that
records without a webhook remain PENDING; the nightly job sets them to FAILED after
seven days, which is what `RecordsSettle` checks. The netting
engine's advisory lock is taken on whatever pool connection the query gets, so it
does not exclude a second run. `broadcastOrderBook` has no caller.

*Payments by providers.* Stripe deposits are stored by session id and looked up by
other ids, so none is ever credited. Flutterwave's event id lacks the status, so a
failed attempt hides the success that follows. MTN MoMo's webhook is given no secret
and refuses everything. MoMo and Wise use a prefix of the user id as request id, the
same for every payment of a user. All webhook endpoints sit behind the class-level
`JwtAuthGuard` (qpoints-market.controller.ts:66-68). M-Pesa pays a rounded amount and
the exact one is debited. A payout reported paid whose debit is refused stays
completed without a debit; a deposit that failed and later succeeds escapes the
daily limit.

*QP accounts and products.* A transfer to oneself creates money; two approvals of
one transaction journal twice. The score for approval is reached only when the
fraud check throws. Services take a transfer that is stored for approval as paid.
`approveLoan` always throws (`toFixed` on a string, loans.service.ts:133), so no loan
is ever active. An institution's minted supply is overwritten by concurrent issues.
Concurrent settlements overdraw it, and so does one settlement when another service
takes from the account between its check and its UPDATE, since the UPDATE subtracts
unconditionally. Two refunds of one payment that overlap pay it back twice: the payment
is set to REFUNDED after the money has moved (payments.service.ts:94-95). E-Play's licence lock locks nothing.

*Life cycles.* A return set to REFUNDED again is paid again. A ride with a fare
cannot be completed (its update throws), its status moves without a driver or PIN,
and a referral completed twice pays twice. Renewing a cancelled subscription charges
and reactivates it; the revenue row is saved before the transaction commits. The
blacklist entry of a logout expires before the refresh token; the phone verification
accepts password reset codes. A member who left cannot join again, a second ban
decrements the counter again. A cancelled workflow is overwritten by its run, and one
interrupted by a crash stays RUNNING. A whole-row save revives a soft-deleted row,
re-inserts a hard-deleted one and takes counters back. Where the unique index counts
removed rows, a removed favourite, interest or membership can never be added again;
where there is no index, two crossing creates leave two rows. A stale charge reopens
a closed tab. The terms' acceptance compares the version and not the text
(qpoints-tos.service.ts:258 says both).

*AI module and chat.* Search results are positions, not ids, so the re-ranking
never applies; the index is emptied by each search. `searchProducts` ignores the
status for matches by name. No supply means no surge; bookings always pass equal
demand and supply. One more fraud signal can lower the score; orders and wallet
payments can never be blocked by it. The planner forecasts from the oldest 90 rows.
The chat server is never set, so a message is stored and some awaits later its sender
is told of an error, or of nothing when he has left. A message deleted after it was found
is still marked as read, and REST marks deleted messages in bulk. An inference is completed and then failed when counting it fails; a workflow
step counts as complete when its inference is only stored. A failed extraction counts
as a successful pipeline without records. A plugin's run writes back the status it
read. A rolled-back model version still verifies. Nobody subscribes to the event bus.

## 5. Fairness

The event loop and the database serve every runnable statement, so the next
statement of a call or transaction is fair. In `MarketBalance` and `OrderBook` it is
strong fairness, because a statement that waits for a row lock is enabled only while
the lock is free; PostgreSQL queues waiters in arrival order, so a waiter cannot be
passed for ever. Elsewhere weak fairness of "some call takes a step" is enough, since
every call runs once and gives its locks up for good. Timers are fair because they
are the scheduler's or Redis's (`ExpireStaleSettlements` every night, `GrowOld`, the
time to live in `BalanceCache`). Background inferences are fair while the process
lives (`Process`); after a `Crash` nothing resumes them, and the property says so.
Starting requests, administrators, providers, faults, crashes and flag changes are
never fair. In the composed runs each part's fairness is conjoined; it constrains
only the part that runs.

## 6. The proofs

Every theorem holds for every value of the constants that its module's assumption
admits: any number of users, rows, calls, requests, faults and limits. The
assumptions say that the constants are of their sorts, that markers such as `NoRow`
are none of the values they stand for the lack of, and that what the code sums or
counts is finite; the code gives each of them, and TLC evaluates them on every run.

The argument is the same throughout. No property below is inductive: it speaks of
rows, and says nothing about what a call in the middle of its work is about to write.
The inductive invariant of a module therefore has one named *shape* for each
thing that must be known of a call at each of its steps: what it has read, whether its
copy is still the row, what it has done and has still to do. The step lemma has one
case per action; a *frame* lemma says what a step of one call leaves alone for the
others. Each shape was checked by TLC on the runs' instances before it was proved.

`SumLemmas`: the theorems about balances and counters sum over sets. The library's
induction takes an operator as a parameter, which the provers cannot instantiate, so
`SubsetInduction` states induction on a finite set with a set of good subsets in the
place of a predicate. From it follow how `SumFunctionOnSet` unfolds and what one
update adds to it, comparisons of sums, minima (`MinInNat`) and maxima (`Greatest`).

### The market

`MarketBalanceProofs` (from `BalanceAssumption`): `TypeCorrect`; `CopiesAreCurrent`;
`Refinement` (`ImplementsLedger`); `SupplyCapped` (`SupplyWithinCap`). The invariant
adds to the types what each statement knows: a request that passed the check is
covered by its copy, a fee at its second step has found the fee covered, the first leg
of a settlement is a debit. Without the lock facts in `CopyIsCurrent` the saved value
"copy + delta" could not be related to the committed balance, and neither
non-negativity nor the refinement would be inductive. `CommitRefines` and `FeeRefines`
map the two writing steps to steps of the ledger; all others stutter. `SupplyCapped`
adds `CapInv`: as long as no credit has escaped the check, all balances together with
the one credit that has passed it stay within the cap.

`OrderBookProofs` (from the assumption of `OrderBook`): `TypeCorrect` and `UnitsCorrect`
(`EveryUnitExplained`), bridge included. `IInv` says what rows exist (`RowShape`), that a
call takes no more than it asked for (`TakenShape`), that it trades with committed
orders whose rows it locks and fills (`FillShape`, `CurShape`), that fees follow trades
(`FeeShape`) and that `moved` holds the legs of the trades so far (`MovedShape`,
`SurplusShape`); a balance is then the sum over all calls of what they traded, paid and
moved. `BookCorrect` (`BookAgreesWithTrades`), `NothingIsLeft` (`NothingOfferedIsLeft`)
and `CancelCorrect` (`CancelIsFinal`) are proved for a book whose calls find the bridge
unavailable (`NoBridge`), which the run `order_book` also checks: with the bridge they
are false, and `bridge_double_fill` shows it. They add `BookInv`: what a running call has
been offered and has locked (`SlotBook`), and that a row holds what the committed trades
made of it (`RowBook`).

`FacilitatorTxProofs` (from `FacilitatorAssumption`) proves every invariant of the run
`facilitator_tx` under `Overlap = FALSE`, that is while two deliveries for one
transaction do not overlap; `webhook_twice` shows that without it the first of them is
false. `TypeCorrect`, `AppliedOnce`, `RecordedCorrect`, `BalanceCorrect`, `LimitCorrect`.
The invariant says that one delivery at a time works on a transaction (`Alone`), how
far a call is that has left a row in its present status (`RowShape`), that only reported
events are delivered and recorded (`ReportShape`), what a delivery knows at each step
(`DeliveryShape`) and that what was applied is completed (`AppliedShape`). That a
transaction is unapplied when its delivery saves it needs `AppliedShape`, which needs
that nobody takes "completed" back, which needs `RowShape` and `Alone`. `LimitCorrect`
counts rows together with the checks not yet followed by one (`Room`), since the rows
alone are not bounded inductively.

`QPAccountsProofs` (from `QPAccountsAssumption`): `TypeCorrect` (balances stay in Nat or
NaN), `JournalCorrect`, two reviews of one transaction included, `BalanceCorrect`
(`BalanceExplained`) and `LossesCorrect` (`LossesAreWholeLegs`). To the types come what a
call and a review know (`CallShape`, `ReviewShape`) and who may hold a row (`LockShape`);
`MoneyInv` says that every copy a call computes with, however old, is the opening
balance plus a set of whole legs (`CopyShape`), that who commits holds every row of its
transaction (`HeldShape`), and that a transaction under review completes only by an
approval (`ReviewedShape`). An overwritten account loses whole legs and nothing else,
because the number written came from such a copy.

### `OperationsProofs`

* Bridge (`BridgeCashBooked`, `BridgeReserveKept`, `OneOpenTask`, `ClosedTaskStays`).
  `RowsInv`, `TasksInv` and `KindInv` are what rows, tasks and steps go together;
  `CopyInv` says that what a call has read of a row no other call writes is still so
  when it writes, and `AloneInv` that two calls write a common row only if it is
  `messy`. `NetInv` and `PriorInv` follow a netting run from its snapshot to its tasks
  and order it after the calls that had ended when it began.
* Settlements (`SuccessCompletes`, `ConfirmedIsFinal`): the records of a trade are made
  together and once (`RecordShape`), and a delivery whose records existed finds all of
  them and has completed those it has left behind (`HookShape`).
* Balance cache (`ShownAnnounced`, by `CacheInv`): what is cached, and what a reader is
  about to write, is as new as the last announcement, unless an invalidation has met a
  fetch or found no Redis.
* AI participant (`BreakerHeld`, `StandingOnce`, `StandingRestored`): no slot has more
  orders than were placed in all and the breaker counts every order (`AiCounts`); while
  ticks do not overlap a slot to be filled has no order but those opened again
  (`AloneShape`); what a tick has
  looked at is open, lost since or still to be filled (`LookedShape`).
* Search index (`SearchFinds`, `IndexOfTheRemembered`, `EmptiedForEver`, by `SearchInv`),
  chat (`PresentIsConnected`, `RateHeld`, `SenderToldError`, `LettersStay`, by `ChatInv`).
* Inferences (`InferencesCounted`, `InferenceRows`, `FlowKeepsItsClaim`,
  `InferencesMoveOn`): the row that goes with each stage (`StageShape`), a copy of the
  model that has at most the count there is (`CopiedShape`), what was counted
  (`RowsShape`), and what the workflow has stored so far (`WorkShape`).
* Features (`FeaturesAreTold`): the rows the calls may still make keep to the bound
  (`OwedShape`), one run per pipeline (`PipelineShape`), what a run has saved and has
  still to save are what it computes (`LoadShape`), one row and one newest value
  while no writers cross (`OneRowShape`, `FreshValue`).
* Answers (`AdviceFollowsReasons`): with the types of the requests (`AnswerTypes`),
  fares follow demand and supply through their bands, caps and roundings
  (`DemandSurgeGrows`, `FactorsKeep`, `FareGrows`), discounts sales (`DiscountGrows`) and
  offers the risk of leaving (`OfferGrows`), the lemmas for any number where the run has
  a grid, but for supplies, which divide six; wishes follow their urgency
  (`WishesGrow`) and plans the use (`AdviceGoesWithUse`), and days after those the
  planner reads change no forecast (`LaterDaysUnread`).
* The whole: `OperationTypes` (`TypeOK`), `CashIsKept` (`CashKept`), `WorkDoneOnce`
  (`DoneOnce`), `AnswersAreTrue` (`AnswersTrue`), and `RecordsStay`, the safe half of
  `RecordsSettle`.

### `MoneyProductsProofs`

* Wallets (`WalletTypes`, `Refinement`, `WalletCorrect`, `StatusCorrect`,
  `RefundsCorrect`, `PurchaseCorrect`): who saves a wallet holds its lock and a current
  copy that covers the movement (`LockShape`); each kind of call has its steps, and its
  movements and records at each (`PayShape`, `RefundShape`, `TopUpShape`, `BuyShape`).
  The refinement maps the save under the lock to one step of `QPLedger`.
* Institutions (`BankTypes`, `CapCorrect`, `CoverCorrect`, `BooksCorrect`): a call whose
  transaction is open works on what its check has seen, unless another of its kind is
  open for its institution or another service has lowered the account (`FlightInv`),
  and what other services have read is no debt (`SeenInv`); books are sums over the journal.
* Providers (`BookedAmount`, `BookedWhatWasPaid`, `ReportedBooked`): the first account
  of a user is what its provider's adapter answered (`AccountShape`), a payment the
  provider has taken is stored under its id and completed once paid (`PaymentShape`),
  and an event handled after the payment was made has completed it (`EventShape`).
* Tabs (`TabWithinLimit`, `TabBalance`, `TabStatus`): every copy is within its limit as
  the tab is (`CopiesWithin`), what an update is about to write is its request applied to
  the row it compared with (`NewShape`), and the balance is a sum over the rows told of.
* Products (`DepositFunded`, `LockedHasRecord`, `PolicyPaidFor`, `PaidOutOnce`,
  `NothingFiledLater`): `DepositShape`, `PolicyShape` and `DecisionShape` give the order
  of transfer, row and compensation; `LaterShape` says that a call that begins after
  another has paid and closed pays and files nothing more.
* The whole: `MoneyTypes` (`TypeOK`), `MoneyIsExplained` (`MoneyExplained`),
  `RecordsTell` (`RecordsTellMoney`), `NothingPaidTwice` (`PaidOnce`),
  `LedgerImplemented` (`WalletsAreALedger`).

### `LifeCyclesProofs`

* Logins (`LoginTypes`, `TokenExchangedOnce`, `LoggedOutRefused`, `TriesBounded`,
  `CodeOnce`, `PasswordNeedsCode`): a logged-out pair stays listed as long as its access
  token lives (`OutShape`), of a pair that no two refreshes held one refresh holds it
  (`ExchangeShape`); what a try knows of its code (`TryShape`, `UseShape`), and that the
  count is behind the wrong tries by at most a full count for each lost write
  (`CountShape`).
* Terms (`ActedWithConsent`, `AcceptedWhatWasShown`, `AcceptedOnceEach`): what was shown
  had been published (`ShownShape`), and what a request is about to insert was shown
  (`SessionShape`). Signed models (`OfferedVersion`, `RefusedForReason`): `ClientShape`.
* Workflows (`CompletedWhole`, `CompletedOnceEach`, `RunningHasRunner`): what a run is
  about to do, of its copy and of the steps it has executed (`FlowShape`), one
  completion more than overwrites at most (`TimesShape`), and that a running row has a
  run or one that was cut off (`RunnerShape`).
* Communities (`MembersCounted`, `BannedForGood`): the member count is short of the
  members by the sum of what the requests have still to add (`MembersShape`).
* Rides (`PinsBounded`, `DriverOnce`, `RewardsEarned`): a saving request has read a row
  that allowed it (`RideCalls`), what was compared or assigned is in the row or was lost
  by a stale save (`RideCounts`), and the rewards due are counted with those paid
  (`RewardShape`).
* Plugins (`RowIsTold`, `OwnCodeRuns`): a call that holds a copy made it of the present
  row unless somebody wrote since (`UserShape`, `RowTold`); what runs is the present
  row's code (`CodeOfRow`).
* Tables (`RowTypes`, `KeyHasOneRow`, `EndIsKept`, `TalliesAreTold`): for every table,
  what a request has read is still in the row or was overtaken (`RequestShape`), and
  which rows of a key may live beside each other (`OneEach`).
* Subscriptions (`SubscriptionTypes`, `OneSubscriptionEach`, `FeesHaveReason`): a
  request's copy is of a row that began and was paid for (`DeskShape`), and every active
  subscription but the first took a write decided on old rows (`WriteShape`).
* Orders (`OrdersFollow`): where a call may be and what it has found (`ClerkShape`,
  `ReturnShape`), that an order has one creator until its items are added
  (`CreateShape`), that it was given away at most as often as it was ready
  (`PickupShape`), and that the call that moved it saves its row (`BroughtShape`).
* The whole: `LifeCycleTypes` (`TypeOK`), `StatusesAreEarned` (`RecordsFollow`),
  `HolderIsAlone` (`OneHolder`), `CountersTell` (`CountersExplained`), `ChargesAreDue`
  (`ChargesHaveReason`), `SecretsWorkOnce` (`SecretsAdmitOnce`).

The theorems about a whole rest on `PartsBehave`: the variables of a part that is not
followed never change, and those of the one that is follow its next-state relation, so
every behaviour of the composition is a behaviour of every part, and a property of a
part is one of the whole.

### What the proofs changed in the model

An attempt that fails for a good reason says something about the model. Corrections
made for that reason, each read again in the code: a refund is only asked for with
the amount of its payment; a purchase is reversed by the error path only after its
record is saved; a request about a session, delivery or return is about that row's own
order, and an order is created by one call; statuses of rows are those of the three
enumerations; overlapping `CASE` guards were made disjoint; the adapter of a country is
the first configured one by `Min` and not by a filtered sequence. Assumptions that
the proofs brought to light, and that the code justifies, were added: entities of the
search index are not named by positions, amounts of provider payments are positive,
tasks are completed or cancelled in a netting run, the menus of calls are typed, and
what is counted is finite.

### Only model-checked

All liveness, because fairness and ENABLED are out of the prover's reach:
`EveryJobEnds`, `CallsEnd` of every module, and the eventual half of `RecordsSettle`.
The rest of `AdviceFits` (`AdviceFollowsReasons` proves seven of its properties):
verdicts, likeness, rankings, insights and trends compare the answers on a grid, several
hold for the code's tables of constants and not for all values, and they rest on roots,
folds and `CHOOSE`. The properties of `OrderBook` that need `NoBridge` are not proved,
because not true, with the bridge.

## 7. What is not modelled

Formatting, HTTP, signatures, password hashing, notification texts, provider
payloads and exact decimal arithmetic where no property is about them (amounts are
small naturals; the fixed price makes quantity and cash the same number). A deadlock
inside the second bridge transaction and a cap refusal inside a trade are folded
into `Fault`. Read-only queries, reports and statistics are left out.

Code without a caller is not modelled: `payment-facilitator.transfer` and its
adapters, `deliverEvent` of the outbound webhooks, loan repayment and the overdue
sweep (no call can make a loan active), `chargeQp` of payments,
`chargeTransactionFee` of revenue, `AISearchService.search` and `indexBatch`,
`updatePlugin` and `loadAllPlugins`. Outside the repository's own logic are the
TensorFlow models and training scripts, OpenAI, maps, files and credit bureaus;
bootstrapping, configuration, interceptors and health checks have no state.
`PROJECT.json` gives the status of each component and the reason.

The connection pool is not in `OrderBook`: every `createOrder` needs a second
connection while it holds the first, so as many calls at once as the pool has
connections wait for each other. That needs no model to see and would hide every
other liveness result, so `CallsEnd` assumes a pool larger than the calls in progress.

## 8. What is left

* What `AdviceFollowsReasons` leaves of `AiPricing`, `AiRanking` and `AiInsights`: the
  properties would have to say for which thresholds and tables of constants they hold.
* `OrderBook` with the bridge: a weaker statement than `BookAgreesWithTrades` that
  survives bridge fills, and its proof.
* The components that `PROJECT.json` lists as `partly`: loans would need an approval
  that can succeed; the outbound webhooks, a caller of `deliverEvent`.
* Calls from one part of a composition into another, which are modelled by their
  outcomes in the caller.
