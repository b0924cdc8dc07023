---------------------------- MODULE WalletPayments ----------------------------
(***************************************************************************)
(* The cash wallets (wallets.service.ts) and the three services that move  *)
(* money through them: payments with refunds, top-ups of the GO wallet and *)
(* purchases of E-Play content.                                            *)
(*                                                                         *)
(* A wallet row is locked while it changes.  What the movement was for (a  *)
(* payment's status, a licence, a creator's earnings) is written in other  *)
(* database calls, before or after it, and repaired by hand on an error.   *)
(***************************************************************************)
EXTENDS Integers, FiniteSets, Functions

CONSTANTS Users, Calls, Nobody,
          Menu,        \* the requests call c may make
          Initial,     \* wallet balances at the start, NoWallet without a row
          NoWallet,
          MaxFaults    \* bound: database calls that fail, and crashes

Kinds == {"topUp", "pay", "refund", "buy"}

\* Amounts are positive (the DTOs and addBalance refuse others); a refund names
\* the call that created the payment, and returns its amount to its user.
Requests == [kind : Kinds, user : Users, amt : Nat \ {0}, of : Calls \cup {Nobody}]

WalletAssumption ==
    /\ Nobody \notin Users \cup Calls
    /\ Users # {} /\ IsFiniteSet(Calls)
    /\ NoWallet \notin Int
    /\ Initial \in [Users -> Nat \cup {NoWallet}]
    /\ Menu \in [Calls -> SUBSET Requests]
    /\ \A c \in Calls : \A r \in Menu[c] : r.kind = "refund" => r.of \in Calls
    /\ MaxFaults \in Nat

VARIABLES
    wallet,    \* committed balances
    lock,      \* the call whose transaction holds each wallet row
    at,        \* where each call is
    req,       \* its request
    sign,      \* whether its next wallet movement adds (1) or deducts (-1)
    copy,      \* the balance it read under the lock
    payment,   \* status of the payment each call created
    licence,   \* the licence each call created
    earned,    \* calls that have increased the creator's earnings
    moved,     \* what each call has added to its wallet so far (history)
    doubled,   \* payments of which two refunds have been on their way at once (history)
    disturbed, \* calls hit by a fault or a crash (history)
    faults

rows    == <<wallet, lock>>
records == <<payment, licence, earned>>
walletVars == <<rows, at, req, sign, copy, records, moved, doubled, disturbed, faults>>

Idle == [kind |-> "topUp", user |-> CHOOSE u \in Users : TRUE, amt |-> 1, of |-> Nobody]

Init ==
    /\ wallet = Initial
    /\ lock = [u \in Users |-> Nobody]
    /\ at = [c \in Calls |-> "idle"]
    /\ req = [c \in Calls |-> Idle]
    /\ sign = [c \in Calls |-> 1]
    /\ copy = [c \in Calls |-> 0]
    /\ payment = [c \in Calls |-> "none"]
    /\ licence = [c \in Calls |-> "none"]
    /\ earned = {} /\ doubled = {} /\ disturbed = {}
    /\ moved = [c \in Calls |-> 0]
    /\ faults = 0

Goto(c, step) == at' = [at EXCEPT ![c] = step]
Balance(u)    == IF wallet[u] = NoWallet THEN 0 ELSE wallet[u]
First(u)      == IF Initial[u] = NoWallet THEN 0 ELSE Initial[u]
Owner(c)      == req[c].user

-----------------------------------------------------------------------------
(* Before the wallet.                                                       *)

Begin(c) ==
    /\ at[c] = "idle"
    /\ \E r \in Menu[c] :
         /\ r.kind = "refund" =>
              payment[r.of] # "none" /\ req[r.of].user = r.user /\ req[r.of].amt = r.amt
         /\ req' = [req EXCEPT ![c] = r]
         /\ sign' = [sign EXCEPT ![c] = IF r.kind \in {"pay", "buy"} THEN -1 ELSE 1]
         /\ Goto(c, IF r.kind = "topUp" THEN "lock" ELSE "check")
    /\ UNCHANGED <<rows, copy, records, moved, doubled, disturbed, faults>>

\* The fraud check may block; a timeout lets the payment through.
CreatePayment(c) ==
    /\ at[c] = "check" /\ req[c].kind = "pay"
    /\ \/ Goto(c, "failed") /\ UNCHANGED payment
       \/ /\ payment' = [payment EXCEPT ![c] = "PENDING"]
          /\ Goto(c, "screen")
    /\ UNCHANGED <<rows, req, sign, copy, licence, earned, moved, doubled, disturbed, faults>>

\* Refunds of payment p between their check and the end of their record.
Refunding(p) ==
    {c \in Calls : req[c].kind = "refund" /\ req[c].of = p /\ at[c] \in {"lock", "save", "finish"}}

\* The payment stays COMPLETED until the money is back, so that a second refund
\* may pass as well.
CheckRefund(c) ==
    /\ at[c] = "check" /\ req[c].kind = "refund"
    /\ IF payment[req[c].of] = "COMPLETED"
       THEN /\ Goto(c, "lock")
            /\ doubled' = IF Refunding(req[c].of) = {} THEN doubled ELSE doubled \cup {req[c].of}
       ELSE Goto(c, "failed") /\ UNCHANGED doubled
    /\ UNCHANGED <<rows, req, sign, copy, records, moved, disturbed, faults>>

ActiveLicence(u) == \E c \in Calls : licence[c] = "active" /\ Owner(c) = u

\* FOR UPDATE locks the licences there are, and the transaction ends before the
\* purchase goes on.
CheckLicence(c) ==
    /\ at[c] = "check" /\ req[c].kind = "buy"
    /\ Goto(c, IF ActiveLicence(Owner(c)) THEN "failed" ELSE "screen")
    /\ UNCHANGED <<rows, req, sign, copy, records, moved, doubled, disturbed, faults>>

-----------------------------------------------------------------------------
(* addBalance and deductBalance.                                            *)

\* What a call does when a statement of it throws: a payment that was saved is
\* marked FAILED, a purchase that was charged is reversed.
AfterError(c) ==
    CASE req[c].kind = "pay" /\ at[c] \notin {"check", "fail"} -> "fail"
      [] req[c].kind = "buy" /\ at[c] \in {"earn", "license"}  -> "lock"
      [] OTHER                                                 -> "failed"

Throw(c) ==
    /\ Goto(c, AfterError(c))
    /\ sign' = [sign EXCEPT ![c] = 1]

\* deductBalance asks the fraud model first.
Screen(c) ==
    /\ at[c] = "screen"
    /\ \/ Goto(c, "lock") /\ UNCHANGED sign
       \/ Throw(c)
    /\ UNCHANGED <<rows, req, copy, records, moved, doubled, disturbed, faults>>

\* Mutant: only the existence of the wallet is checked.
CoveredByRow(c) == sign[c] = 1 \/ wallet[Owner(c)] # NoWallet

Covered(c) == sign[c] = 1 \/ (wallet[Owner(c)] # NoWallet /\ wallet[Owner(c)] >= req[c].amt)

\* Mutant: SELECT without FOR UPDATE.
PlainSelect(c) ==
    /\ at[c] = "lock"
    /\ Covered(c)
    /\ lock' = [lock EXCEPT ![Owner(c)] = c]
    /\ copy' = [copy EXCEPT ![c] = Balance(Owner(c))]
    /\ Goto(c, "save")
    /\ UNCHANGED <<wallet, req, sign, records, moved, doubled, disturbed, faults>>

\* addBalance inserts a missing row first, so that there is one to lock.
LockWallet(c) ==
    /\ at[c] = "lock"
    /\ lock[Owner(c)] = Nobody
    /\ Covered(c)
    /\ lock' = [lock EXCEPT ![Owner(c)] = c]
    /\ copy' = [copy EXCEPT ![c] = Balance(Owner(c))]
    /\ Goto(c, "save")
    /\ UNCHANGED <<wallet, req, sign, records, moved, doubled, disturbed, faults>>

\* No wallet, or too little in it.
Insufficient(c) ==
    /\ at[c] = "lock"
    /\ lock[Owner(c)] = Nobody
    /\ ~Covered(c)
    /\ Throw(c)
    /\ UNCHANGED <<rows, req, copy, records, moved, doubled, disturbed, faults>>

AfterSave(c) ==
    CASE req[c].kind = "buy" /\ sign[c] = 1  -> "failed"
      [] req[c].kind = "buy" /\ sign[c] = -1 -> "earn"
      [] OTHER                               -> "finish"

\* Mutant: the transaction is left open.
SaveAndHang(c) ==
    /\ at[c] = "save"
    /\ wallet' = [wallet EXCEPT ![Owner(c)] = copy[c] + sign[c] * req[c].amt]
    /\ moved' = [moved EXCEPT ![c] = @ + sign[c] * req[c].amt]
    /\ Goto(c, AfterSave(c))
    /\ UNCHANGED <<lock, req, sign, copy, records, doubled, disturbed, faults>>

SaveWallet(c) ==
    /\ at[c] = "save"
    /\ wallet' = [wallet EXCEPT ![Owner(c)] = copy[c] + sign[c] * req[c].amt]
    /\ lock' = [lock EXCEPT ![Owner(c)] = Nobody]
    /\ moved' = [moved EXCEPT ![c] = @ + sign[c] * req[c].amt]
    /\ Goto(c, AfterSave(c))
    /\ UNCHANGED <<req, sign, copy, records, doubled, disturbed, faults>>

\* Reading a wallet creates it; a second creator runs into the unique index.
OpenWallet(u) ==
    /\ wallet[u] = NoWallet
    /\ lock[u] = Nobody
    /\ wallet' = [wallet EXCEPT ![u] = 0]
    /\ UNCHANGED <<lock, at, req, sign, copy, records, moved, doubled, disturbed, faults>>

-----------------------------------------------------------------------------
(* After the wallet.                                                        *)

\* Mutant: a refund is not recorded with its payment.
FinishUnrecorded(c) ==
    /\ at[c] = "finish"
    /\ payment' = IF req[c].kind = "pay" THEN [payment EXCEPT ![c] = "COMPLETED"] ELSE payment
    /\ Goto(c, "done")
    /\ UNCHANGED <<rows, req, sign, copy, licence, earned, moved, doubled, disturbed, faults>>

\* The payment, the refund or the GO transaction is recorded.
Finish(c) ==
    /\ at[c] = "finish"
    /\ payment' = CASE req[c].kind = "pay"    -> [payment EXCEPT ![c] = "COMPLETED"]
                    [] req[c].kind = "refund" -> [payment EXCEPT ![req[c].of] = "REFUNDED"]
                    [] OTHER                  -> payment
    /\ Goto(c, "done")
    /\ UNCHANGED <<rows, req, sign, copy, licence, earned, moved, doubled, disturbed, faults>>

MarkFailed(c) ==
    /\ at[c] = "fail"
    /\ payment' = [payment EXCEPT ![c] = "FAILED"]
    /\ Goto(c, "failed")
    /\ UNCHANGED <<rows, req, sign, copy, licence, earned, moved, doubled, disturbed, faults>>

\* The creator's earnings, then revenue record and purchase count, then the
\* licence: each is a statement of its own.
Earn(c) ==
    /\ at[c] = "earn"
    /\ earned' = earned \cup {c}
    /\ Goto(c, "license")
    /\ UNCHANGED <<rows, req, sign, copy, payment, licence, moved, doubled, disturbed, faults>>

License(c) ==
    /\ at[c] = "license"
    /\ licence' = [licence EXCEPT ![c] = "active"]
    /\ Goto(c, "done")
    /\ UNCHANGED <<rows, req, sign, copy, payment, earned, moved, doubled, disturbed, faults>>

\* Streaming after the end of a rental marks the licence.
Expire(c) ==
    /\ licence[c] = "active"
    /\ licence' = [licence EXCEPT ![c] = "expired"]
    /\ UNCHANGED <<rows, at, req, sign, copy, payment, earned, moved, doubled, disturbed, faults>>

-----------------------------------------------------------------------------
Ended == {"idle", "done", "failed", "crashed"}

Disturb(c) ==
    /\ at[c] \notin Ended \cup {"screen"}
    /\ faults < MaxFaults
    /\ faults' = faults + 1
    /\ disturbed' = disturbed \cup {c}
    /\ lock' = [u \in Users |-> IF lock[u] = c THEN Nobody ELSE lock[u]]
    /\ UNCHANGED <<wallet, req, copy, records, moved, doubled>>

\* A database call fails, or the process dies; an open transaction rolls back.
Fault(c) == Disturb(c) /\ Throw(c)
Crash(c) == Disturb(c) /\ Goto(c, "crashed") /\ UNCHANGED sign

Step(c) ==
    \/ CreatePayment(c) \/ CheckRefund(c) \/ CheckLicence(c)
    \/ Screen(c) \/ LockWallet(c) \/ Insufficient(c) \/ SaveWallet(c)
    \/ Finish(c) \/ MarkFailed(c) \/ Earn(c) \/ License(c)

Next ==
    \/ \E c \in Calls : Begin(c) \/ Step(c) \/ Expire(c) \/ Fault(c) \/ Crash(c)
    \/ \E u \in Users : OpenWallet(u)

Spec == Init /\ [][Next]_walletVars

Fairness == WF_walletVars(\E c \in Calls : Step(c))
FairSpec == Spec /\ Fairness

-----------------------------------------------------------------------------
(* Properties.                                                              *)

TypeOK ==
    /\ wallet \in [Users -> Nat \cup {NoWallet}]
    /\ lock \in [Users -> Calls \cup {Nobody}]
    /\ at \in [Calls -> Ended \cup {"check", "screen", "lock", "save", "finish", "fail",
                                    "earn", "license"}]
    /\ req \in [Calls -> Requests]
    /\ sign \in [Calls -> {1, -1}]
    /\ copy \in [Calls -> Nat]
    /\ payment \in [Calls -> {"none", "PENDING", "COMPLETED", "FAILED", "REFUNDED"}]
    /\ licence \in [Calls -> {"none", "active", "expired"}]
    /\ earned \subseteq Calls /\ doubled \subseteq Calls /\ disturbed \subseteq Calls
    /\ moved \in [Calls -> Int]
    /\ faults \in 0..MaxFaults

\* What the calls have moved on the wallet of u.
Movements(u) == [c \in Calls |-> IF Owner(c) = u THEN moved[c] ELSE 0]

\* A wallet holds its first balance and the movements of the calls on it.
WalletExplained ==
    \A u \in Users : Balance(u) = First(u) + SumFunctionOnSet(Movements(u), Calls)

\* The status of a payment tells whether its money has left the wallet.  Only a
\* database fault or a crash of its call can make it FAILED, or leave it
\* PENDING, after the deduction.
StatusTellsMoney ==
    \A c \in Calls : req[c].kind = "pay" =>
        /\ payment[c] \in {"COMPLETED", "REFUNDED"} => moved[c] = -req[c].amt
        /\ payment[c] = "FAILED" /\ c \notin disturbed => moved[c] = 0
        /\ payment[c] = "PENDING" /\ at[c] \in Ended => c \in disturbed

PaidBack(c) == req[c].kind = "refund" /\ moved[c] > 0

\* Money comes back only for a payment that took it, and once, however often the
\* refund is asked for.  A second refund pays again only when it passed its check
\* before the first had recorded REFUNDED, or when a fault or a crash kept one of
\* the two, its money paid, from recording it.
RefundsArePaid ==
    /\ \A c \in Calls : PaidBack(c) => moved[req[c].of] = -req[c].amt
    /\ \A c, d \in Calls :
         c # d /\ PaidBack(c) /\ PaidBack(d) /\ req[c].of = req[d].of =>
             req[c].of \in doubled \/ c \in disturbed \/ d \in disturbed

\* A purchase ends with the charge, the licence and the creator's share, or with
\* neither charge nor licence (a share already credited stays); only a crash or a
\* second fault, during the reversal, leaves a charge without a licence.
PurchaseIsWhole ==
    \A c \in Calls : req[c].kind = "buy" /\ at[c] \in {"done", "failed"} =>
        /\ licence[c] # "none" => moved[c] = -req[c].amt /\ c \in earned
        /\ licence[c] = "none" /\ faults <= 1 => moved[c] = 0

\* Every call ends: the lock of a wallet is always given back.
CallsEnd == []<>(\A c \in Calls : at[c] \in Ended)
=============================================================================
