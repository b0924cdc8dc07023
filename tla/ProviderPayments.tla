---------------------------- MODULE ProviderPayments ----------------------------
(***************************************************************************)
(* How a payment is found again when its provider reports it: what each    *)
(* provider's adapter stores as external id, under which id and event id   *)
(* its webhook asks for it, and what is paid and booked                    *)
(* (payment-facilitator.service.ts, facilitator-transaction.service.ts).   *)
(*                                                                         *)
(* Handlers run one after the other here; FacilitatorTx interleaves them.  *)
(* Requests are past the endpoints' guard and signature check.             *)
(***************************************************************************)
EXTENDS Integers, Sequences, FiniteSetsExt

CONSTANTS Payments, Users,
          UserOf,     \* whose payment it is
          KindOf,     \* "deposit" or "withdraw"
          Keys,       \* the providers with valid credentials of their own
          Defaults,   \* the default provider, one of these, which has a valid key; "mock"
                      \* without one
          Candidates, \* the providers a country prefers, in order
          Amount,     \* in halves of a currency unit, at least the minimum deposit
          MaxAccounts \* bound: accounts a user registers; payments use the first only

Providers == {"stripe", "paystack", "flutterwave", "mtn_momo", "mpesa", "wise", "mock"}

ProviderAssumption ==
    /\ UserOf \in [Payments -> Users]
    /\ KindOf \in [Payments -> {"deposit", "withdraw"}]
    /\ Keys \subseteq Providers \ {"mock"}
    /\ Defaults \subseteq Providers /\ Defaults # {}
    /\ DOMAIN Candidates \cap Providers = {}
    /\ \A c \in DOMAIN Candidates : Candidates[c] \in Seq(Providers)
    /\ Amount \in Nat \ {0} /\ MaxAccounts \in Nat

VARIABLES
    default,   \* the default provider of this deployment
    accounts,  \* the providers of a user, in the order of registration
    status,    \* of the transaction row
    by,        \* the provider it was created with
    ext,       \* the external id stored in the row
    outcome,   \* what has become of it at the provider
    stumbled,  \* payments whose first attempt failed at a hosted checkout (history)
    processed, \* webhook_events: the ids of the events handled
    told,      \* payments whose success was reported and recorded as processed (history)
    booked     \* QP moved for the payment, in halves

providerVars == <<default, accounts, status, by, ext, outcome, stumbled, processed, told, booked>>

Init ==
    /\ default \in Defaults
    /\ accounts = [u \in Users |-> <<>>]
    /\ status = [t \in Payments |-> "none"]
    /\ by = [t \in Payments |-> "none"]
    /\ ext = [t \in Payments |-> <<>>]
    /\ outcome = [t \in Payments |-> "none"]
    /\ stumbled = {}
    /\ processed = {}
    /\ told = {}
    /\ booked = [t \in Payments |-> 0]

-----------------------------------------------------------------------------
(* Registration: one row per user and provider, written again by the next.  *)

\* Keys that look like placeholders do not count.
Configured == Keys \cup ({default} \ {"mock"})

\* The first provider of a country that has credentials, else the mock.
GetPreferred(c) ==
    LET usable == {i \in DOMAIN Candidates[c] : Candidates[c][i] \in Configured} IN
    IF usable = {} THEN "mock" ELSE Candidates[c][Min(usable)]

\* A request names a provider, or a country, or neither.
Asks == Providers \cup DOMAIN Candidates \cup {"nothing"}
Resolved(a) ==
    IF a \in Providers THEN a
    ELSE IF a = "nothing" THEN default ELSE GetPreferred(a)

\* What each provider's adapter answers: an id the provider gave or checked, the
\* phone number as the user gave it, a made-up id, or an error.  The lookups of the
\* two banks use the default provider's key, whosever that is.
FlutterwaveTakes == IF default = "flutterwave" THEN {"checked"} ELSE {}
PaystackTakes == IF default = "paystack" THEN {"checked"} ELSE {}
MomoTakes   == IF "mtn_momo" \in Configured THEN {"checked"} ELSE {"made up"}
MpesaTakes  == {"as given"}
WiseTakes   == IF "wise" \in Configured THEN {"checked"} ELSE {"made up"}
StripeTakes == IF "stripe" \in Configured THEN {"checked"} ELSE {"made up"}

EnsureUserAccount(p) ==
    CASE p = "flutterwave" -> FlutterwaveTakes
      [] p = "paystack"    -> PaystackTakes
      [] p = "mtn_momo"    -> MomoTakes
      [] p = "mpesa"       -> MpesaTakes
      [] p = "wise"        -> WiseTakes
      [] p = "stripe"      -> StripeTakes
      [] OTHER             -> {"made up"}

\* Nothing is stored when the adapter throws.
RegisterUserAccount(u, a) ==
    LET p == Resolved(a) IN
    /\ Len(accounts[u]) < MaxAccounts
    /\ \A i \in DOMAIN accounts[u] : accounts[u][i].by # p
    /\ \E id \in EnsureUserAccount(p) :
          accounts' = [accounts EXCEPT ![u] = Append(@, [by |-> p, id |-> id])]
    /\ UNCHANGED <<default, status, by, ext, outcome, stumbled, processed, told, booked>>

\* The oldest account is the one payments use.
ResolveAccount(u) == accounts[u][1]

-----------------------------------------------------------------------------
(* The ids.  An id is a tuple; Key is the idempotency key "kind:user:uuid". *)

Key(t) == <<"key", KindOf[t], UserOf[t], t>>

\* 36 characters of the key end within the user's id: the same for every payment
\* of this kind of this user.
KeyPrefix(t) == <<"prefix", KindOf[t], UserOf[t]>>

Issued(p, t) == <<p, KindOf[t], t>>

\* What the adapters return as externalId: Stripe's session or payout, the
\* reference given to Paystack and Flutterwave and the id they give a transfer,
\* the shortened key for MoMo, M-Pesa's request or conversation, Wise's transfer.
StripeId(t)      == Issued("stripe", t)
PaystackId(t)    == IF KindOf[t] = "deposit" THEN Key(t) ELSE Issued("paystack", t)
FlutterwaveId(t) == IF KindOf[t] = "deposit" THEN Key(t) ELSE Issued("flutterwave", t)
MomoId(t)        == KeyPrefix(t)
MpesaId(t)       == Issued("mpesa", t)
WiseId(t)        == Issued("wise", t)

ExternalId(p, t) ==
    CASE p = "stripe" -> StripeId(t)
      [] p = "paystack" -> PaystackId(t)
      [] p = "flutterwave" -> FlutterwaveId(t)
      [] p = "mtn_momo" -> MomoId(t)
      [] p = "mpesa" -> MpesaId(t)
      [] p = "wise" -> WiseId(t)
      [] OTHER -> Issued("mock", t)

\* The id under which the provider must not see two requests.
RequestId(p, t) == IF p \in {"mtn_momo", "wise"} THEN KeyPrefix(t) ELSE Key(t)

\* M-Pesa takes whole units only, MoMo, Stripe and Paystack hundredths.
Paid(p) == IF p = "mpesa" THEN ((Amount + 1) \div 2) * 2 ELSE Amount

-----------------------------------------------------------------------------
(* createDeposit and createWithdrawal.                                      *)

Accepted(p, t) ==
    /\ p = "mock" \/ p \in Configured
    /\ ~(p = "wise" /\ KindOf[t] = "deposit")

\* The provider may refuse a request id it has seen.
Seen(p, t) == \E s \in Payments \ {t} : by[s] = p /\ outcome[s] # "none"
                                        /\ RequestId(p, s) = RequestId(p, t)

Create(t) ==
    LET p == ResolveAccount(UserOf[t]).by IN
    /\ status[t] = "none" /\ accounts[UserOf[t]] # <<>>
    /\ by' = [by EXCEPT ![t] = p]
    /\ \/ /\ Accepted(p, t)
          /\ status' = [status EXCEPT ![t] = "processing"]
          /\ ext' = [ext EXCEPT ![t] = ExternalId(p, t)]
          /\ outcome' = [outcome EXCEPT ![t] = "open"]
       \/ /\ ~Accepted(p, t) \/ Seen(p, t)
          /\ status' = [status EXCEPT ![t] = "failed"]
          /\ UNCHANGED <<ext, outcome>>
    /\ UNCHANGED <<default, accounts, stumbled, processed, told, booked>>

-----------------------------------------------------------------------------
(* The providers: a payment is paid or fails, and a hosted checkout lets    *)
(* the payer try again.  The mock reports nothing.                          *)

CanRetry(p, t) == KindOf[t] = "deposit" /\ p \in {"stripe", "flutterwave"}

Conclude(t, o) ==
    /\ by[t] # "mock"
    /\ outcome[t] = "open" \/ (outcome[t] = "failed" /\ o = "paid" /\ CanRetry(by[t], t))
    /\ outcome' = [outcome EXCEPT ![t] = o]
    /\ stumbled' = IF o = "failed" THEN stumbled \cup {t} ELSE stumbled
    /\ UNCHANGED <<default, accounts, status, by, ext, processed, told, booked>>

-----------------------------------------------------------------------------
(* Webhooks.  A report is [id |-> event id, asks |-> the id looked up,      *)
(* of |-> the kind looked for, does |-> what is done to the row].           *)

Report(id, asks, does) == [id |-> id, asks |-> asks, does |-> does]

\* A checkout session is asked for by the key it was opened with, its payment
\* by the id of the payment intent; both name an event of their own.
StripeReports(t) ==
    CASE KindOf[t] = "deposit" /\ outcome[t] = "paid" ->
           {Report(<<"session event", t>>, Key(t), "deposit"),
            Report(<<"intent event", t>>, Issued("intent", t), "deposit")}
      [] KindOf[t] = "deposit" /\ outcome[t] = "failed" ->
           {Report(<<"failed event", t>>, Issued("intent", t), "fail")}
      [] KindOf[t] = "withdraw" ->
           {Report(<<"payout event", t>>, StripeId(t),
                   IF outcome[t] = "paid" THEN "withdraw" ELSE "fail")}

\* Paystack reports no failed charge.
PaystackReports(t) ==
    {Report(<<"paystack", t, PaystackId(t)>>, PaystackId(t), d) :
       d \in IF outcome[t] = "paid" THEN {KindOf[t]}
             ELSE IF KindOf[t] = "withdraw" THEN {"fail"} ELSE {}}

\* The event id names the reference and the event, not its result; a charge
\* that did not succeed changes nothing.
FlutterwaveReports(t) ==
    {Report(<<"flutterwave", FlutterwaveId(t)>>, FlutterwaveId(t),
            IF outcome[t] = "paid" THEN KindOf[t]
            ELSE IF KindOf[t] = "withdraw" THEN "fail" ELSE "nothing")}

MpesaReports(t) ==
    {Report(<<"mpesa", MpesaId(t)>>, MpesaId(t),
            IF outcome[t] = "paid" THEN KindOf[t] ELSE "fail")}

\* The MoMo endpoint hands on no secret, so its handler rejects every request;
\* Wise and the mock have no endpoint.
Reports(t) ==
    IF outcome[t] \notin {"paid", "failed"} THEN {}
    ELSE CASE by[t] = "stripe" -> StripeReports(t)
           [] by[t] = "paystack" -> PaystackReports(t)
           [] by[t] = "flutterwave" -> FlutterwaveReports(t)
           [] by[t] = "mpesa" -> MpesaReports(t)
           [] OTHER -> {}

\* findOne by external id, and by type unless the report is a failure.
Found(r) ==
    {s \in Payments : /\ status[s] \notin {"none", "pending"}
                      /\ ext[s] = r.asks
                      /\ r.does \in {"fail", KindOf[s]}}

\* A deposit books what the provider reports, a withdrawal the row's amount.
Complete(s) ==
    IF status[s] = "completed" THEN UNCHANGED <<status, booked>>
    ELSE /\ status' = [status EXCEPT ![s] = "completed"]
         /\ booked' = [booked EXCEPT ![s] =
                         @ + (IF KindOf[s] = "deposit" THEN Paid(by[s]) ELSE Amount)]

FailTransaction(s) ==
    /\ status' = [status EXCEPT ![s] = IF @ = "completed" THEN @ ELSE "failed"]
    /\ UNCHANGED booked

\* A handled event is skipped; every other one is recorded, found or not.
Deliver(t, r) ==
    /\ r \in Reports(t)
    /\ r.id \notin processed
    /\ IF Found(r) = {} THEN UNCHANGED <<status, booked>>
       ELSE \E s \in Found(r) : IF r.does = "fail" THEN FailTransaction(s) ELSE Complete(s)
    /\ processed' = processed \cup {r.id}
    /\ UNCHANGED <<default, accounts, by, ext, outcome, stumbled>>
    /\ told' = IF outcome[t] = "paid" THEN told \cup {t} ELSE told

\* The provider has reported the success, and an earlier report with the same
\* event id made the handler skip it.
Skip(t, r) ==
    /\ r \in Reports(t)
    /\ r.id \in processed
    /\ told' = IF outcome[t] = "paid" THEN told \cup {t} ELSE told
    /\ UNCHANGED <<default, accounts, status, by, ext, outcome, stumbled, processed, booked>>

Next ==
    \/ \E u \in Users, a \in Asks : RegisterUserAccount(u, a)
    \/ \E t \in Payments :
         \/ Create(t)
         \/ Conclude(t, "paid") \/ Conclude(t, "failed")
         \/ \E r \in Reports(t) : Deliver(t, r) \/ Skip(t, r)

Spec == Init /\ [][Next]_providerVars

-----------------------------------------------------------------------------
TypeOK ==
    /\ default \in Providers
    /\ \A u \in Users : accounts[u] \in
          Seq([by : Providers, id : {"checked", "as given", "made up"}])
    /\ status \in [Payments -> {"none", "processing", "completed", "failed"}]
    /\ by \in [Payments -> Providers \cup {"none"}]
    /\ outcome \in [Payments -> {"none", "open", "paid", "failed"}]
    /\ stumbled \subseteq Payments /\ told \subseteq Payments

\* Where the ids do not lead back: a Stripe checkout is stored by its session and
\* asked for by its key, and Flutterwave's second report has the first one's id.
Lost(t) ==
    /\ KindOf[t] = "deposit"
    /\ by[t] = "stripe" \/ (by[t] = "flutterwave" /\ t \in stumbled)

\* A success that a provider reported, and that the platform acknowledged, is
\* booked, except where Lost says so.
ReportedIsBooked == \A t \in told : Lost(t) \/ booked[t] > 0

\* No QP moves for a payment that its provider has not made, whatever else the
\* same user pays and whoever else uses the provider, and none for a made-up account.
BookedIsPaid ==
    \A t \in Payments : booked[t] > 0 =>
        /\ outcome[t] = "paid"
        /\ ResolveAccount(UserOf[t]).by = by[t] /\ ResolveAccount(UserOf[t]).id # "made up"

\* What moves in QP is what the provider moved, once, up to the rounding of an
\* M-Pesa payout to whole units.
BookedIsAmount ==
    \A t \in Payments : booked[t] > 0 =>
        /\ Paid(by[t]) - booked[t] \in {0, 1}
        /\ booked[t] # Paid(by[t]) => KindOf[t] = "withdraw" /\ by[t] = "mpesa"
=============================================================================
