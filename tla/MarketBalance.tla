---------------------------- MODULE MarketBalance ----------------------------
(***************************************************************************)
(* The market balance of each user (table q_point_market_balances) and the *)
(* database transactions that change it: MarketBalanceService.adjustBalance *)
(* and RevenueService.chargeTradeFee.  Each request is a process that runs  *)
(* one transaction statement at a time; SELECT ... FOR UPDATE takes a row   *)
(* lock that commit or rollback releases.  A missing row counts as zero,    *)
(* which is what every reader of the table makes of it.                     *)
(***************************************************************************)
EXTENDS Integers, FiniteSets, Functions

CONSTANTS Users,     \* account holders, the AI participant included
          AI,        \* AI_PARTICIPANT_ID
          Requests,  \* requests in flight at once
          NoRequest, \* the holder of a row that is not locked
          NoUser,    \* a job without a second leg
          Amounts,   \* the sizes of a credit or debit
          Fee,       \* TRADE_FEE_QP
          Cap,       \* QPOINTS_TOTAL_SUPPLY
          Genesis,   \* the balances before the first request
          MaxJobs    \* bound: jobs started in one behaviour

ASSUME BalanceAssumption ==
    /\ AI \in Users /\ IsFiniteSet(Users)
    /\ NoUser \notin Users
    /\ NoRequest \notin Requests
    /\ Amounts \subseteq Nat \ {0}
    /\ Fee \in Nat \ {0}
    /\ Cap \in Nat
    /\ Genesis \in [Users -> Nat]
    /\ MaxJobs \in Nat

VARIABLES bal,      \* committed balance of each row
          holder,   \* the request holding the row lock of each user
          pc,       \* where each request is
          usr,      \* the row it works on (the taker, for a fee)
          delta,    \* the signed amount it applies
          payee,    \* the user its second leg credits, or NoUser
          seen,     \* the balance it read from the row of usr
          seenAI,   \* the balance it read from the AI row (fees only)
          jobs,     \* number of jobs started so far
          escaped   \* users whose credit has escaped the supply cap (history)

vars == <<bal, holder, pc, usr, delta, payee, seen, seenAI, jobs, escaped>>

Steps == {"idle", "lock", "locked", "write", "capped",
          "feeLock", "feeLocked", "feePay"}

\* The steps at which a request holds the lock of the row of usr.
Holding == {"locked", "write", "capped", "feeLocked", "feePay"}

Moves == Amounts \cup {-a : a \in Amounts}

Init ==
    /\ bal = Genesis
    /\ holder = [u \in Users |-> NoRequest]
    /\ pc = [r \in Requests |-> "idle"]
    /\ usr \in [Requests -> {AI}]
    /\ delta = [r \in Requests |-> 0]
    /\ payee = [r \in Requests |-> NoUser]
    /\ seen = [r \in Requests |-> 0]
    /\ seenAI = [r \in Requests |-> 0]
    /\ jobs = 0
    /\ escaped = {}

-----------------------------------------------------------------------------
(* Starting a job.                                                          *)

Start(r, u, step) ==
    /\ pc[r] = "idle"
    /\ jobs < MaxJobs
    /\ jobs' = jobs + 1
    /\ pc' = [pc EXCEPT ![r] = step]
    /\ usr' = [usr EXCEPT ![r] = u]
    /\ UNCHANGED <<bal, holder, seen, seenAI, escaped>>

\* adjustBalance(u, d): a trade leg, a deposit, a withdrawal or an issue.
StartAdjust(r, u, d) ==
    /\ Start(r, u, "lock")
    /\ delta' = [delta EXCEPT ![r] = d]
    /\ payee' = [payee EXCEPT ![r] = NoUser]

\* settlement/initiate: debit the source, then credit the destination, each
\* in a transaction of its own.
StartSettle(r, from, to, a) ==
    /\ Start(r, from, "lock")
    /\ delta' = [delta EXCEPT ![r] = -a]
    /\ payee' = [payee EXCEPT ![r] = to]

\* chargeTradeFee(u): fired by the order book after a match.
StartFee(r, u) ==
    /\ Start(r, u, "feeLock")
    /\ UNCHANGED <<delta, payee>>

-----------------------------------------------------------------------------
(* The transaction of adjustBalance.                                        *)

\* Mutant: the row is read without FOR UPDATE.
LockRowPlainSelect(r) ==
    /\ pc[r] = "lock"
    /\ seen' = [seen EXCEPT ![r] = bal[usr[r]]]
    /\ pc' = [pc EXCEPT ![r] = "locked"]
    /\ UNCHANGED <<bal, holder, usr, delta, payee, seenAI, jobs, escaped>>

\* INSERT ... ON CONFLICT DO NOTHING, then SELECT ... FOR UPDATE: waits until
\* no other transaction holds the row, and reads its committed balance.
LockRow(r) ==
    /\ pc[r] = "lock"
    /\ holder[usr[r]] = NoRequest
    /\ holder' = [holder EXCEPT ![usr[r]] = r]
    /\ seen' = [seen EXCEPT ![r] = bal[usr[r]]]
    /\ pc' = [pc EXCEPT ![r] = "locked"]
    /\ UNCHANGED <<bal, usr, delta, payee, seenAI, jobs, escaped>>

\* Mutant: the check for a negative result is missing.
CoveredUnchecked(r) == TRUE

Covered(r) == seen[r] + delta[r] >= 0

NeedsCapCheck(r) == delta[r] > 0 /\ usr[r] # AI

\* Mutant: the credit itself is not counted.
CheckCapWithoutDelta(r) ==
    /\ pc[r] = "locked"
    /\ Covered(r)
    /\ NeedsCapCheck(r)
    /\ pc' = [pc EXCEPT ![r] =
                IF SumFunctionOnSet(bal, Users) > Cap THEN "capped" ELSE "write"]
    /\ escaped' = IF \E q \in Requests : pc[q] = "write" THEN escaped \cup {usr[r]} ELSE escaped
    /\ UNCHANGED <<bal, holder, usr, delta, payee, seen, seenAI, jobs>>

\* SUM(balance) over the rows as they are committed now: the rows of other
\* users are not locked.
CheckCap(r) ==
    /\ pc[r] = "locked"
    /\ Covered(r)
    /\ NeedsCapCheck(r)
    /\ pc' = [pc EXCEPT ![r] =
                IF SumFunctionOnSet(bal, Users) + delta[r] > Cap
                THEN "capped" ELSE "write"]
    /\ escaped' = IF \E q \in Requests : pc[q] = "write" THEN escaped \cup {usr[r]} ELSE escaped
    /\ UNCHANGED <<bal, holder, usr, delta, payee, seen, seenAI, jobs>>

\* The locks r holds are released when its transaction ends.
Release(r) ==
    holder' = [u \in Users |-> IF holder[u] = r THEN NoRequest ELSE holder[u]]

\* Save the row and commit.  A settlement goes on with its second leg.
Commit(r) ==
    /\ \/ pc[r] = "write"
       \/ pc[r] = "locked" /\ Covered(r) /\ ~NeedsCapCheck(r)
    /\ bal' = [bal EXCEPT ![usr[r]] = seen[r] + delta[r]]
    /\ escaped' = IF usr[r] = AI /\ delta[r] > 0 THEN escaped \cup {AI} ELSE escaped
    /\ Release(r)
    /\ IF payee[r] = NoUser
       THEN /\ pc' = [pc EXCEPT ![r] = "idle"]
            /\ UNCHANGED <<usr, delta, payee>>
       ELSE /\ pc' = [pc EXCEPT ![r] = "lock"]
            /\ usr' = [usr EXCEPT ![r] = payee[r]]
            /\ delta' = [delta EXCEPT ![r] = -delta[r]]
            /\ payee' = [payee EXCEPT ![r] = NoUser]
    /\ UNCHANGED <<seen, seenAI, jobs>>

\* Mutant: the connection is not rolled back after an exception.
GiveUpLeaksLocks(r) ==
    /\ pc' = [pc EXCEPT ![r] = "idle"]
    /\ UNCHANGED <<bal, holder, usr, delta, payee, seen, seenAI, jobs, escaped>>

\* A transaction that ends without a write: its locks go, its job is over.
GiveUp(r) ==
    /\ Release(r)
    /\ pc' = [pc EXCEPT ![r] = "idle"]
    /\ UNCHANGED <<bal, usr, delta, payee, seen, seenAI, jobs, escaped>>

\* BadRequestException: the debit is not covered, or the cap would be passed.
Reject(r) ==
    /\ \/ pc[r] = "locked" /\ ~Covered(r)
       \/ pc[r] = "capped"
    /\ GiveUp(r)

-----------------------------------------------------------------------------
(* The transaction of chargeTradeFee.                                       *)

LockTaker(r) ==
    /\ pc[r] = "feeLock"
    /\ holder[usr[r]] = NoRequest
    /\ holder' = [holder EXCEPT ![usr[r]] = r]
    /\ seen' = [seen EXCEPT ![r] = bal[usr[r]]]
    /\ pc' = [pc EXCEPT ![r] = "feeLocked"]
    /\ UNCHANGED <<bal, usr, delta, payee, seenAI, jobs, escaped>>

\* A taker who cannot pay is let off.
SkipFee(r) ==
    /\ pc[r] = "feeLocked"
    /\ seen[r] < Fee
    /\ GiveUp(r)

\* Mutant: the AI row is read without FOR UPDATE.
LockPlatformPlainSelect(r) ==
    /\ pc[r] = "feeLocked"
    /\ seen[r] >= Fee
    /\ seenAI' = [seenAI EXCEPT ![r] = IF usr[r] = AI THEN seen[r] - Fee ELSE bal[AI]]
    /\ pc' = [pc EXCEPT ![r] = "feePay"]
    /\ UNCHANGED <<bal, holder, usr, delta, payee, seen, jobs, escaped>>

\* The taker's row is saved inside the transaction, then the AI row is locked
\* and read.  When the taker is the AI it reads its own uncommitted save.
LockPlatform(r) ==
    /\ pc[r] = "feeLocked"
    /\ seen[r] >= Fee
    /\ holder[AI] \in {NoRequest, r}
    /\ holder' = [holder EXCEPT ![AI] = r]
    /\ seenAI' = [seenAI EXCEPT ![r] = IF usr[r] = AI THEN seen[r] - Fee ELSE bal[AI]]
    /\ pc' = [pc EXCEPT ![r] = "feePay"]
    /\ UNCHANGED <<bal, usr, delta, payee, seen, jobs, escaped>>

CommitFee(r) ==
    /\ pc[r] = "feePay"
    /\ bal' = [bal EXCEPT ![usr[r]] = seen[r] - Fee, ![AI] = seenAI[r] + Fee]
    /\ Release(r)
    /\ pc' = [pc EXCEPT ![r] = "idle"]
    /\ UNCHANGED <<usr, delta, payee, seen, seenAI, jobs, escaped>>

-----------------------------------------------------------------------------
\* A statement fails or the process dies: the open transaction rolls back and
\* a settlement between its legs stays half done.
Fail(r) ==
    /\ pc[r] # "idle"
    /\ GiveUp(r)

Begin(r) ==
    \E u \in Users :
        \/ \E d \in Moves : StartAdjust(r, u, d)
        \/ \E to \in Users, a \in Amounts : StartSettle(r, u, to, a)
        \/ StartFee(r, u)

Progress(r) ==
    \/ LockRow(r) \/ CheckCap(r) \/ Commit(r) \/ Reject(r)
    \/ LockTaker(r) \/ SkipFee(r) \/ LockPlatform(r) \/ CommitFee(r)

Next == \E r \in Requests : Begin(r) \/ Progress(r) \/ Fail(r)

Spec == Init /\ [][Next]_vars

\* PostgreSQL grants a contended row lock in arrival order, so a request that
\* keeps finding the row free in between is served at last.
FairSpec == Spec /\ \A r \in Requests : SF_vars(Progress(r))

-----------------------------------------------------------------------------
TypeOK ==
    /\ bal \in [Users -> Nat]
    /\ holder \in [Users -> Requests \cup {NoRequest}]
    /\ pc \in [Requests -> Steps]
    /\ usr \in [Requests -> Users]
    /\ delta \in [Requests -> Moves \cup {0}]
    /\ payee \in [Requests -> Users \cup {NoUser}]
    /\ seen \in [Requests -> Nat]
    /\ seenAI \in [Requests -> Int]
    /\ jobs \in 0..MaxJobs
    /\ escaped \subseteq Users
-----------------------------------------------------------------------------
(* Properties.                                                              *)

\* While a request holds a row lock its copy of the row is the committed
\* balance, so saving "copy + delta" loses no other movement (the reason
\* adjustBalance and chargeTradeFee read with a pessimistic_write lock).
CopyIsCurrent ==
    \A r \in Requests :
        /\ pc[r] \in Holding => holder[usr[r]] = r /\ seen[r] = bal[usr[r]]
        /\ pc[r] = "feePay" =>
             /\ holder[AI] = r
             /\ seenAI[r] = IF usr[r] = AI THEN bal[AI] - Fee ELSE bal[AI]

\* QP never exceed QPOINTS_TOTAL_SUPPLY, although the check sums rows that other
\* transactions are about to change.  Two kinds of credit escape it: one checked
\* while another has passed its check and not committed, and any credit of the
\* AI participant, which is not checked at all.
SupplyWithinCap ==
    escaped = {} /\ SumFunctionOnSet(Genesis, Users) <= Cap =>
        SumFunctionOnSet(bal, Users) <= Cap

\* adjustBalance and chargeTradeFee implement the ledger of QPLedger: every
\* step moves one whole credit, debit or fee, or nothing, and no balance ever
\* becomes negative, however the transactions interleave and fail.
Ledger == INSTANCE QPLedger WITH
    bal <- bal, Users <- Users, AI <- AI, Amounts <- Amounts, Fee <- Fee, Genesis <- Genesis
ImplementsLedger == Ledger!Spec

\* Every balance job ends: it commits, is refused or fails.  No two jobs wait
\* for each other's rows although a fee locks two of them.
EveryJobEnds == \A r \in Requests : pc[r] # "idle" ~> pc[r] = "idle"
=============================================================================
