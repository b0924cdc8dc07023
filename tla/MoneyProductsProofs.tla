-------------------------- MODULE MoneyProductsProofs --------------------------
(***************************************************************************)
(* Proofs about MoneyProducts, part by part: the wallets, the products and *)
(* the institutions, the providers' payments and the tabs; last the        *)
(* properties of the whole.                                                *)
(***************************************************************************)
EXTENDS MoneyProducts, Sequences, SumLemmas

-----------------------------------------------------------------------------
(* Wallets.                                                                 *)

\* Who saves a row holds its lock and a current copy that covers the movement,
\* and a lock is held by a call that is about to save.
LockShape ==
    /\ \A u \in Users : lock[u] # Nobody => at[lock[u]] = "save" /\ Wa!Owner(lock[u]) = u
    /\ \A c \in Calls : at[c] = "save" =>
         lock[Wa!Owner(c)] = c /\ copy[c] = Wa!Balance(Wa!Owner(c)) /\ Wa!Covered(c)

\* A call that has begun works on a request of its menu; before, it has left
\* nothing.
BegunShape(c) ==
    /\ at[c] # "idle" => req[c] \in WalletMenu[c]
    /\ at[c] = "idle" =>
         req[c].kind = "topUp" /\ payment[c] = "none" /\ licence[c] = "none" /\ moved[c] = 0
    /\ payment[c] # "none" => req[c].kind = "pay"
    /\ licence[c] # "none" => req[c].kind = "buy"

\* Each kind of request has its own steps, and its movements and records at each.
PayShape(c) ==
    req[c].kind = "pay" =>
        /\ at[c] \notin {"earn", "license"}
        /\ at[c] = "check" => payment[c] = "none"
        /\ at[c] \in {"screen", "lock", "save", "finish", "fail"} => payment[c] = "PENDING"
        /\ at[c] \in {"check", "screen", "lock", "save"} => moved[c] = 0 /\ sign[c] = -1
        /\ at[c] \in {"finish", "done"} => moved[c] = -req[c].amt
        /\ at[c] = "done" <=> payment[c] \in {"COMPLETED", "REFUNDED"}
        /\ at[c] = "fail" \/ payment[c] = "FAILED" => moved[c] = 0 \/ c \in disturbed
        /\ at[c] \in {"failed", "crashed"} /\ payment[c] = "PENDING" => c \in disturbed

RefundShape(c) ==
    req[c].kind = "refund" =>
        /\ at[c] \notin {"screen", "fail", "earn", "license"}
        /\ req[c].of \in Calls /\ payment[req[c].of] # "none"
        /\ req[req[c].of].amt = req[c].amt
        /\ at[c] \in {"lock", "save", "finish"} \/ moved[c] > 0 =>
             payment[req[c].of] \in {"COMPLETED", "REFUNDED"}
        /\ at[c] \in {"check", "lock", "save"} => moved[c] = 0
        /\ sign[c] = 1

TopUpShape(c) ==
    req[c].kind = "topUp" =>
        at[c] \in {"lock", "save", "finish"} \cup Wa!Ended /\ sign[c] = 1

BuyShape(c) ==
    req[c].kind = "buy" =>
        /\ at[c] \notin {"finish", "fail"}
        /\ at[c] \in {"check", "screen"} => sign[c] = -1
        /\ at[c] \in {"check", "screen"} \/ (at[c] \in {"lock", "save"} /\ sign[c] = -1) =>
             moved[c] = 0
        /\ at[c] \in {"lock", "save"} /\ sign[c] = 1 => moved[c] = -req[c].amt /\ faults > 0
        /\ at[c] \in {"earn", "license", "done"} => moved[c] = -req[c].amt
        /\ at[c] \in {"earn", "license"} => sign[c] = -1
        /\ at[c] \in {"license", "done"} => c \in earned
        /\ at[c] = "done" <=> licence[c] # "none"
        /\ at[c] = "failed" => moved[c] = 0 \/ faults > 1

WalletCallShape(c) == BegunShape(c) /\ PayShape(c) /\ RefundShape(c) /\ TopUpShape(c) /\ BuyShape(c)

WalletInv == Wa!TypeOK /\ LockShape /\ \A c \in Calls : WalletCallShape(c)
-----------------------------------------------------------------------------
PaidStatuses == {"COMPLETED", "REFUNDED"}

\* What requests are made of.
LEMMA RequestTypes ==
  \A r \in Wa!Requests :
    /\ r.kind \in Wa!Kinds /\ r.user \in Users /\ r.amt \in Nat \ {0}
         /\ r.of \in Calls \cup {Nobody}
  BY DEF Wa!Requests

\* The request of a call is one of them.
LEMMA CallTypes ==
  ASSUME Wa!WalletAssumption, Wa!TypeOK, NEW c \in Calls
  PROVE  /\ req[c] \in Wa!Requests /\ req[c].kind \in Wa!Kinds /\ req[c].amt \in Nat \ {0}
         /\ Wa!Owner(c) \in Users /\ Wa!Owner(c) # Nobody /\ c # Nobody
         /\ Wa!Balance(Wa!Owner(c)) \in Nat
<1>1. req[c] \in Wa!Requests /\ wallet \in [Users -> Nat \cup {NoWallet}]
  BY DEF Wa!TypeOK
<1>2. req[c].kind \in Wa!Kinds /\ req[c].user \in Users /\ req[c].amt \in Nat \ {0}
  BY <1>1, RequestTypes
<1> QED
  BY <1>1, <1>2 DEF Wa!WalletAssumption, Wa!Owner, Wa!Balance

\* A step of c, as the other calls see it.
Frame(c) ==
    /\ \A o \in Calls \ {c} :
         /\ at'[o] = at[o] /\ req'[o] = req[o] /\ sign'[o] = sign[o] /\ copy'[o] = copy[o]
         /\ moved'[o] = moved[o] /\ licence'[o] = licence[o]
         /\ o \in earned' <=> o \in earned
         /\ payment'[o] = payment[o] \/ (payment[o] \in PaidStatuses
              /\ payment'[o] \in PaidStatuses)
    /\ payment[c] # "none" => req'[c] = req[c] /\ payment'[c] # "none"
    /\ payment[c] \in PaidStatuses => payment'[c] \in PaidStatuses
    /\ disturbed \subseteq disturbed'
    /\ faults' \in Nat /\ faults <= faults'

\* It preserves what the invariant says of them.
LEMMA OthersShape ==
  ASSUME Wa!WalletAssumption, WalletInv, Wa!TypeOK', NEW c \in Calls, Frame(c),
         NEW o \in Calls \ {c}
  PROVE  WalletCallShape(o)'
<1>1. /\ at'[o] = at[o] /\ req'[o] = req[o] /\ sign'[o] = sign[o]
      /\ moved'[o] = moved[o] /\ licence'[o] = licence[o]
      /\ o \in earned' <=> o \in earned
      /\ payment'[o] = payment[o] \/ (payment[o] \in PaidStatuses /\ payment'[o] \in PaidStatuses)
      /\ disturbed \subseteq disturbed' /\ faults' \in Nat /\ faults <= faults' /\ faults \in Nat
  BY DEF Frame, WalletInv, Wa!TypeOK, Wa!WalletAssumption
<1>2. WalletCallShape(o)
  BY DEF WalletInv
<1>3. BegunShape(o)'
  BY <1>1, <1>2 DEF WalletCallShape, BegunShape, PaidStatuses
<1>4. PayShape(o)'
  BY <1>1, <1>2 DEF WalletCallShape, PayShape, PaidStatuses
<1>5. RefundShape(o)'
  <2> SUFFICES ASSUME req[o].kind = "refund" PROVE RefundShape(o)'
    BY <1>1 DEF RefundShape
  <2>1. PICK d \in Calls : d = req[o].of /\ payment[d] # "none" /\ req[d].amt = req[o].amt
    BY <1>2 DEF WalletCallShape, RefundShape
  <2>2. /\ payment'[d] # "none" /\ req'[d] = req[d]
        /\ payment[d] \in PaidStatuses => payment'[d] \in PaidStatuses
    BY <2>1 DEF Frame, PaidStatuses
  <2> QED
    BY <1>1, <1>2, <2>1, <2>2 DEF WalletCallShape, RefundShape, PaidStatuses
<1>6. TopUpShape(o)' /\ BuyShape(o)'
  BY <1>1, <1>2 DEF WalletCallShape, TopUpShape, BuyShape
<1> QED
  BY <1>3, <1>4, <1>5, <1>6 DEF WalletCallShape

\* So a step of a call preserves the invariant if it does for its own call.
LEMMA StepWalletInv ==
  ASSUME Wa!WalletAssumption, WalletInv, Wa!TypeOK', NEW c \in Calls, Frame(c),
         WalletCallShape(c)', LockShape'
  PROVE  WalletInv'
  BY OthersShape DEF WalletInv

\* A step that neither takes, uses nor gives back a row lock.
LEMMA LocksKept ==
  ASSUME Wa!WalletAssumption, WalletInv, Wa!TypeOK', NEW c \in Calls, Frame(c), UNCHANGED Wa!rows,
         at[c] # "save", at'[c] # "save"
  PROVE  LockShape'
<1>1. UNCHANGED <<wallet, lock>>
  BY DEF Wa!rows
<1>2. ASSUME NEW u \in Users, lock'[u] # Nobody
      PROVE  at'[lock'[u]] = "save" /\ req'[lock'[u]].user = u
  <2>1. lock[u] \in Calls /\ at[lock[u]] = "save" /\ Wa!Owner(lock[u]) = u
    BY <1>1, <1>2 DEF WalletInv, LockShape, Wa!TypeOK
  <2>2. lock[u] # c
    BY <2>1
  <2> QED
    BY <1>1, <2>1, <2>2 DEF Frame, Wa!Owner
<1>3. ASSUME NEW o \in Calls, at'[o] = "save"
      PROVE  (lock[Wa!Owner(o)] = o /\ copy[o] = Wa!Balance(Wa!Owner(o)) /\ Wa!Covered(o))'
  <2>1. o # c /\ at[o] = "save"
    BY <1>3 DEF Frame
  <2>2. req'[o] = req[o] /\ sign'[o] = sign[o] /\ copy'[o] = copy[o]
    BY <2>1 DEF Frame
  <2> QED
    BY <1>1, <2>1, <2>2 DEF WalletInv, LockShape, Wa!Owner, Wa!Balance, Wa!Covered
<1> QED
  BY <1>2, <1>3 DEF LockShape, Wa!Owner
\* A step of a call away from its wallet.
LEMMA AsideWalletInv ==
  ASSUME Wa!WalletAssumption, WalletInv, Wa!TypeOK', NEW c \in Calls, Frame(c), UNCHANGED Wa!rows,
         at[c] # "save", at'[c] # "save", WalletCallShape(c)'
  PROVE  WalletInv'
  BY LocksKept, StepWalletInv

-----------------------------------------------------------------------------
(* Before the wallet.                                                       *)

\* A new call has moved nothing, and a refund names a payment that was made.
LEMMA BeginWalletInv ==
  ASSUME Wa!WalletAssumption, WalletInv, NEW c \in Calls, Wa!Begin(c)
  PROVE  WalletInv'
<1> USE DEF Wa!rows, Wa!records
<1>1. PICK r \in WalletMenu[c] :
        /\ r.kind = "refund" =>
             payment[r.of] # "none" /\ req[r.of].user = r.user /\ req[r.of].amt = r.amt
        /\ req' = [req EXCEPT ![c] = r]
        /\ sign' = [sign EXCEPT ![c] = IF r.kind \in {"pay", "buy"} THEN -1 ELSE 1]
        /\ at' = [at EXCEPT ![c] = IF r.kind = "topUp" THEN "lock" ELSE "check"]
  BY DEF Wa!Begin, Wa!Goto
<1>2. /\ at[c] = "idle" /\ payment[c] = "none" /\ licence[c] = "none" /\ moved[c] = 0
      /\ UNCHANGED <<wallet, lock, copy, payment, licence, earned, moved, doubled, disturbed,
                     faults>>
  BY DEF Wa!Begin, WalletInv, WalletCallShape, BegunShape
<1>3. r \in Wa!Requests /\ r.kind \in Wa!Kinds /\ (r.kind = "refund" => r.of \in Calls)
  <2>1. r \in Wa!Requests
    BY DEF Wa!WalletAssumption
  <2> QED
    BY <2>1, RequestTypes DEF Wa!WalletAssumption
<1>4. Wa!TypeOK'
  BY <1>1, <1>2, <1>3 DEF WalletInv, Wa!TypeOK
<1>5. Frame(c)
  BY <1>1, <1>2 DEF Frame, WalletInv, Wa!TypeOK, PaidStatuses
<1>6. req'[c] = r /\ at'[c] = (IF r.kind = "topUp" THEN "lock" ELSE "check")
      /\ sign'[c] = (IF r.kind \in {"pay", "buy"} THEN -1 ELSE 1)
  BY <1>1 DEF WalletInv, Wa!TypeOK
<1>7. r.kind = "refund" => r.of # c /\ req'[r.of] = req[r.of]
  BY <1>1, <1>2, <1>3 DEF WalletInv, Wa!TypeOK
<1>8. WalletCallShape(c)'
  BY <1>1, <1>2, <1>3, <1>6, <1>7 DEF WalletCallShape, BegunShape, PayShape, RefundShape,
       TopUpShape,
     BuyShape, Wa!Kinds, Wa!Ended
<1> QED
  BY <1>2, <1>4, <1>5, <1>6, <1>8, AsideWalletInv

\* A blocked payment leaves nothing, another one a PENDING record.
LEMMA CreatePaymentWalletInv ==
  ASSUME Wa!WalletAssumption, WalletInv, NEW c \in Calls, Wa!CreatePayment(c)
  PROVE  WalletInv'
<1> USE DEF Wa!rows, Wa!records
<1>1. /\ at[c] = "check" /\ req[c].kind = "pay" /\ WalletCallShape(c)
      /\ UNCHANGED <<wallet, lock, req, sign, copy, licence, earned, moved, disturbed, faults>>
      /\ \/ at'[c] = "failed" /\ payment' = payment
         \/ at'[c] = "screen" /\ payment'[c] = "PENDING"
  BY DEF Wa!CreatePayment, Wa!Goto, WalletInv, Wa!TypeOK
<1>2. Wa!TypeOK'
  BY DEF Wa!CreatePayment, Wa!Goto, WalletInv, Wa!TypeOK, Wa!Ended
<1>3. Frame(c)
  BY <1>1 DEF Wa!CreatePayment, Wa!Goto, Frame, WalletInv, Wa!TypeOK, PaidStatuses,
       WalletCallShape, PayShape,
     Wa!WalletAssumption
<1>4. WalletCallShape(c)'
  BY <1>1 DEF WalletCallShape, BegunShape, PayShape, RefundShape, TopUpShape, BuyShape
<1> QED
  BY <1>1, <1>2, <1>3, <1>4, AsideWalletInv

\* Only a completed payment is refunded.
LEMMA CheckRefundWalletInv ==
  ASSUME Wa!WalletAssumption, WalletInv, NEW c \in Calls, Wa!CheckRefund(c)
  PROVE  WalletInv'
<1> USE DEF Wa!rows, Wa!records
<1>1. /\ at[c] = "check" /\ req[c].kind = "refund" /\ WalletCallShape(c)
      /\ UNCHANGED <<wallet, lock, req, sign, copy, payment, licence, earned, moved, disturbed,
                     faults>>
      /\ at'[c] = IF payment[req[c].of] = "COMPLETED" THEN "lock" ELSE "failed"
  BY DEF Wa!CheckRefund, Wa!Goto, WalletInv, Wa!TypeOK
<1>2. Wa!TypeOK'
  <2>1. /\ at' \in [Calls -> Wa!Ended \cup {"check", "screen", "lock", "save", "finish", "fail",
                                         "earn", "license"}]
        /\ doubled' \subseteq Calls
    <3>1. req[c].of \in Calls
      BY <1>1 DEF WalletCallShape, RefundShape
    <3> QED
      BY <3>1 DEF Wa!CheckRefund, Wa!Goto, WalletInv, Wa!TypeOK, Wa!Ended
  <2> QED
    BY <1>1, <2>1 DEF WalletInv, Wa!TypeOK
<1>3. Frame(c)
  BY <1>1 DEF Wa!CheckRefund, Wa!Goto, Frame, WalletInv, Wa!TypeOK, Wa!WalletAssumption
<1>4. WalletCallShape(c)'
  BY <1>1 DEF WalletCallShape, BegunShape, PayShape, RefundShape, TopUpShape, BuyShape
<1> QED
  BY <1>1, <1>2, <1>3, <1>4, AsideWalletInv

\* The unlocked look for a licence changes nothing.
LEMMA CheckLicenceWalletInv ==
  ASSUME Wa!WalletAssumption, WalletInv, NEW c \in Calls, Wa!CheckLicence(c)
  PROVE  WalletInv'
<1> USE DEF Wa!rows, Wa!records
<1>1. /\ at[c] = "check" /\ req[c].kind = "buy" /\ WalletCallShape(c)
      /\ UNCHANGED <<wallet, lock, req, sign, copy, payment, licence, earned, moved, disturbed,
                     faults>>
      /\ at'[c] = "failed" \/ at'[c] = "screen"
  BY DEF Wa!CheckLicence, Wa!Goto, WalletInv, Wa!TypeOK
<1>2. Wa!TypeOK'
  BY DEF Wa!CheckLicence, Wa!Goto, WalletInv, Wa!TypeOK, Wa!Ended
<1>3. Frame(c)
  BY <1>1 DEF Wa!CheckLicence, Wa!Goto, Frame, WalletInv, Wa!TypeOK, Wa!WalletAssumption
<1>4. WalletCallShape(c)'
  BY <1>1 DEF WalletCallShape, BegunShape, PayShape, RefundShape, TopUpShape, BuyShape
<1> QED
  BY <1>1, <1>2, <1>3, <1>4, AsideWalletInv

\* A failing call adds what it still has to move, if anything.
LEMMA ThrowIs ==
  ASSUME Wa!TypeOK, NEW c \in Calls, Wa!Throw(c)
  PROVE  /\ at'[c] = Wa!AfterError(c) /\ sign'[c] = 1
         /\ \A o \in Calls \ {c} : at'[o] = at[o] /\ sign'[o] = sign[o]
         /\ at' \in [Calls -> Wa!Ended \cup {"check", "screen", "lock", "save", "finish", "fail",
                                          "earn", "license"}]
         /\ sign' \in [Calls -> {1, -1}]
  BY DEF Wa!Throw, Wa!Goto, Wa!TypeOK, Wa!AfterError, Wa!Ended

\* The fraud model lets the deduction through or refuses it.
LEMMA ScreenWalletInv ==
  ASSUME Wa!WalletAssumption, WalletInv, NEW c \in Calls, Wa!Screen(c)
  PROVE  WalletInv'
<1> USE DEF Wa!rows, Wa!records
<1>1. /\ at[c] = "screen" /\ WalletCallShape(c) /\ req[c].kind \in {"pay", "buy"}
      /\ UNCHANGED <<wallet, lock, req, copy, payment, licence, earned, moved, doubled, disturbed,
                     faults>>
  BY CallTypes DEF Wa!Screen, WalletInv, WalletCallShape, RefundShape, TopUpShape, Wa!Kinds,
       Wa!Ended
<1>2. /\ \/ at'[c] = "lock" /\ sign'[c] = sign[c]
         \/ at'[c] = (IF req[c].kind = "pay" THEN "fail" ELSE "failed") /\ sign'[c] = 1
      /\ \A o \in Calls \ {c} : at'[o] = at[o] /\ sign'[o] = sign[o]
      /\ Wa!TypeOK'
  <2>1. CASE Wa!Throw(c)
    BY <1>1, <2>1, ThrowIs DEF Wa!AfterError, WalletInv, Wa!TypeOK
  <2>2. CASE Wa!Goto(c, "lock") /\ UNCHANGED sign
    BY <1>1, <2>2 DEF Wa!Goto, WalletInv, Wa!TypeOK
  <2> QED
    BY <2>1, <2>2 DEF Wa!Screen
<1>3. Frame(c)
  BY <1>1, <1>2 DEF Frame, WalletInv, Wa!TypeOK, Wa!WalletAssumption
<1>4. WalletCallShape(c)'
  BY <1>1, <1>2 DEF WalletCallShape, BegunShape, PayShape, RefundShape, TopUpShape, BuyShape
<1> QED
  BY <1>1, <1>2, <1>3, <1>4, AsideWalletInv

\* A deduction that is not covered moves nothing; an addition always is.
LEMMA InsufficientWalletInv ==
  ASSUME Wa!WalletAssumption, WalletInv, NEW c \in Calls, Wa!Insufficient(c)
  PROVE  WalletInv'
<1> USE DEF Wa!rows, Wa!records
<1>1. /\ at[c] = "lock" /\ WalletCallShape(c) /\ sign[c] # 1 /\ req[c].kind \in {"pay", "buy"}
      /\ UNCHANGED <<wallet, lock, req, copy, payment, licence, earned, moved, disturbed, faults>>
  BY CallTypes DEF Wa!Insufficient, Wa!Covered, WalletInv, WalletCallShape, RefundShape,
       TopUpShape, Wa!Kinds
<1>2. /\ at'[c] = (IF req[c].kind = "pay" THEN "fail" ELSE "failed") /\ sign'[c] = 1
      /\ \A o \in Calls \ {c} : at'[o] = at[o] /\ sign'[o] = sign[o]
      /\ Wa!TypeOK'
  BY <1>1, ThrowIs DEF Wa!Insufficient, Wa!AfterError, WalletInv, Wa!TypeOK
<1>3. Frame(c)
  BY <1>1, <1>2 DEF Frame, WalletInv, Wa!TypeOK, Wa!WalletAssumption
<1>4. WalletCallShape(c)'
  BY <1>1, <1>2 DEF WalletCallShape, BegunShape, PayShape, RefundShape, TopUpShape, BuyShape,
       WalletInv, Wa!TypeOK
<1> QED
  BY <1>1, <1>2, <1>3, <1>4, AsideWalletInv
-----------------------------------------------------------------------------
(* After the wallet.                                                        *)

\* What was paid is recorded as paid, what was returned as refunded.
LEMMA FinishWalletInv ==
  ASSUME Wa!WalletAssumption, WalletInv, NEW c \in Calls, Wa!Finish(c)
  PROVE  WalletInv'
<1> USE DEF Wa!rows, Wa!records
<1>1. /\ at[c] = "finish" /\ at'[c] = "done" /\ WalletCallShape(c)
      /\ UNCHANGED <<wallet, lock, req, sign, copy, licence, earned, moved, disturbed, faults>>
      /\ payment' = CASE req[c].kind = "pay"    -> [payment EXCEPT ![c] = "COMPLETED"]
                      [] req[c].kind = "refund" -> [payment EXCEPT ![req[c].of] = "REFUNDED"]
                      [] OTHER                  -> payment
      /\ \A o \in Calls \ {c} : at'[o] = at[o]
  BY DEF Wa!Finish, Wa!Goto, WalletInv, Wa!TypeOK
<1>2. Wa!TypeOK'
  BY <1>1 DEF Wa!Finish, Wa!Goto, WalletInv, Wa!TypeOK, Wa!Ended
<1>3. CASE req[c].kind = "pay"
  <2>1. payment[c] = "PENDING" /\ payment'[c] = "COMPLETED"
        /\ \A o \in Calls \ {c} : payment'[o] = payment[o]
    BY <1>1, <1>3 DEF WalletCallShape, PayShape, WalletInv, Wa!TypeOK
  <2>2. Frame(c)
    BY <1>1, <1>2, <2>1 DEF Frame, WalletInv, Wa!TypeOK, Wa!WalletAssumption, PaidStatuses
  <2>3. WalletCallShape(c)'
    BY <1>1, <1>3, <2>1 DEF WalletCallShape, BegunShape, PayShape, RefundShape, TopUpShape, BuyShape
  <2> QED
    BY <1>1, <1>2, <2>2, <2>3, AsideWalletInv
<1>4. CASE req[c].kind = "refund"
  <2>1. PICK d \in Calls : d = req[c].of /\ payment[d] \in PaidStatuses
    BY <1>1, <1>4 DEF WalletCallShape, RefundShape, PaidStatuses
  <2>2. payment'[d] = "REFUNDED" /\ \A o \in Calls \ {d} : payment'[o] = payment[o]
    BY <1>1, <1>4, <2>1 DEF WalletInv, Wa!TypeOK
  <2>3. payment[c] = "none" /\ d # c
    BY <1>1, <1>4, <2>1 DEF WalletCallShape, BegunShape, PaidStatuses, WalletInv, Wa!TypeOK
  <2>4. Frame(c)
    BY <1>1, <1>2, <2>1, <2>2, <2>3 DEF Frame, WalletInv, Wa!TypeOK, Wa!WalletAssumption,
         PaidStatuses
  <2>5. WalletCallShape(c)'
    BY <1>1, <1>4, <2>1, <2>2, <2>3
       DEF WalletCallShape, BegunShape, PayShape, RefundShape, TopUpShape, BuyShape
  <2> QED
    BY <1>1, <1>2, <2>4, <2>5, AsideWalletInv
<1>5. CASE req[c].kind \notin {"pay", "refund"}
  <2>1. req[c].kind = "topUp" /\ payment' = payment
    BY <1>1, <1>5, CallTypes DEF WalletCallShape, BuyShape, Wa!Kinds, WalletInv
  <2>2. Frame(c)
    BY <1>1, <1>2, <2>1 DEF Frame, WalletInv, Wa!TypeOK, Wa!WalletAssumption
  <2>3. WalletCallShape(c)'
    BY <1>1, <2>1 DEF WalletCallShape, BegunShape, PayShape, RefundShape, TopUpShape, BuyShape,
         Wa!Ended
  <2> QED
    BY <1>1, <1>2, <2>2, <2>3, AsideWalletInv
<1> QED
  BY <1>3, <1>4, <1>5

\* A payment that failed before it was charged, or after a fault, is marked so.
LEMMA MarkFailedWalletInv ==
  ASSUME Wa!WalletAssumption, WalletInv, NEW c \in Calls, Wa!MarkFailed(c)
  PROVE  WalletInv'
<1> USE DEF Wa!rows, Wa!records
<1>1. /\ at[c] = "fail" /\ at'[c] = "failed" /\ WalletCallShape(c) /\ payment'[c] = "FAILED"
      /\ UNCHANGED <<wallet, lock, req, sign, copy, licence, earned, moved, disturbed, faults>>
      /\ \A o \in Calls \ {c} : at'[o] = at[o] /\ payment'[o] = payment[o]
  BY DEF Wa!MarkFailed, Wa!Goto, WalletInv, Wa!TypeOK
<1>2. Wa!TypeOK'
  BY <1>1 DEF Wa!MarkFailed, Wa!Goto, WalletInv, Wa!TypeOK, Wa!Ended
<1>3. req[c].kind = "pay" /\ payment[c] = "PENDING"
  BY <1>1, CallTypes
     DEF WalletCallShape, PayShape, RefundShape, TopUpShape, BuyShape, Wa!Kinds, Wa!Ended, WalletInv
<1>4. Frame(c)
  BY <1>1, <1>2, <1>3 DEF Frame, WalletInv, Wa!TypeOK, Wa!WalletAssumption, PaidStatuses
<1>5. WalletCallShape(c)'
  BY <1>1, <1>3 DEF WalletCallShape, BegunShape, PayShape, RefundShape, TopUpShape, BuyShape
<1> QED
  BY <1>1, <1>2, <1>4, <1>5, AsideWalletInv

\* The creator's share comes after the charge, the licence after the share.
LEMMA DeliverWalletInv ==
  ASSUME Wa!WalletAssumption, WalletInv, NEW c \in Calls, Wa!Earn(c) \/ Wa!License(c)
  PROVE  WalletInv'
<1> USE DEF Wa!rows, Wa!records
<1>1. /\ WalletCallShape(c) /\ at[c] \in {"earn", "license"}
      /\ UNCHANGED <<wallet, lock, req, sign, copy, payment, moved, disturbed, faults>>
      /\ \A o \in Calls \ {c} : /\ at'[o] = at[o] /\ licence'[o] = licence[o]
                                /\ o \in earned' <=> o \in earned
      /\ \/ at[c] = "earn" /\ at'[c] = "license" /\ c \in earned' /\ licence' = licence
         \/ at[c] = "license" /\ at'[c] = "done" /\ earned' = earned /\ licence'[c] = "active"
  BY DEF Wa!Earn, Wa!License, Wa!Goto, WalletInv, Wa!TypeOK
<1>2. Wa!TypeOK'
  BY <1>1 DEF Wa!Earn, Wa!License, Wa!Goto, WalletInv, Wa!TypeOK, Wa!Ended
<1>3. req[c].kind = "buy"
  BY <1>1, CallTypes
     DEF WalletCallShape, PayShape, RefundShape, TopUpShape, BuyShape, Wa!Kinds, Wa!Ended, WalletInv
<1>4. Frame(c)
  BY <1>1, <1>2 DEF Frame, WalletInv, Wa!TypeOK, Wa!WalletAssumption
<1>5. WalletCallShape(c)'
  BY <1>1, <1>3 DEF WalletCallShape, BegunShape, PayShape, RefundShape, TopUpShape, BuyShape
<1> QED
  BY <1>1, <1>2, <1>4, <1>5, AsideWalletInv

\* An expired licence stays a licence.
LEMMA ExpireWalletInv ==
  ASSUME Wa!WalletAssumption, WalletInv, NEW c \in Calls, Wa!Expire(c)
  PROVE  WalletInv'
<1> USE DEF Wa!rows, Wa!records
<1>1. /\ WalletCallShape(c) /\ licence[c] = "active" /\ licence'[c] = "expired"
      /\ UNCHANGED <<wallet, lock, at, req, sign, copy, payment, earned, moved, disturbed, faults>>
      /\ \A o \in Calls \ {c} : licence'[o] = licence[o]
  BY DEF Wa!Expire, WalletInv, Wa!TypeOK
<1>2. Wa!TypeOK'
  BY <1>1 DEF Wa!Expire, WalletInv, Wa!TypeOK
<1>3. req[c].kind = "buy" /\ at[c] = "done"
  BY <1>1 DEF WalletCallShape, BegunShape, BuyShape
<1>4. Frame(c)
  BY <1>1, <1>2 DEF Frame, WalletInv, Wa!TypeOK, Wa!WalletAssumption
<1>5. WalletCallShape(c)'
  BY <1>1, <1>3 DEF WalletCallShape, BegunShape, PayShape, RefundShape, TopUpShape, BuyShape
<1> QED
  BY <1>1, <1>2, <1>3, <1>4, <1>5, AsideWalletInv

-----------------------------------------------------------------------------
(* The wallet.                                                              *)

\* Taking the row lock reads a balance that nobody else can then change.
LEMMA LockWalletWalletInv ==
  ASSUME Wa!WalletAssumption, WalletInv, NEW c \in Calls, Wa!LockWallet(c)
  PROVE  WalletInv'
<1> USE DEF Wa!rows, Wa!records
<1>0. PICK u : u = req[c].user
  OBVIOUS
<1>1. /\ WalletCallShape(c) /\ at[c] = "lock" /\ at'[c] = "save" /\ Wa!Covered(c)
      /\ lock[u] = Nobody /\ lock' = [lock EXCEPT ![u] = c]
      /\ copy'[c] = Wa!Balance(u)
      /\ UNCHANGED <<wallet, req, sign, payment, licence, earned, moved, disturbed, faults>>
      /\ \A o \in Calls \ {c} : at'[o] = at[o] /\ copy'[o] = copy[o]
  BY <1>0 DEF Wa!LockWallet, Wa!Goto, Wa!Owner, WalletInv, Wa!TypeOK
<1>2. u \in Users /\ Wa!Balance(u) \in Nat /\ c # Nobody
  BY <1>0, CallTypes DEF WalletInv, Wa!Owner
<1>3. Wa!TypeOK'
  BY <1>0, <1>1, <1>2 DEF Wa!LockWallet, Wa!Owner, Wa!Goto, WalletInv, Wa!TypeOK
<1>4. Frame(c)
  BY <1>1, <1>3 DEF Frame, WalletInv, Wa!TypeOK, Wa!WalletAssumption
<1>5. WalletCallShape(c)'
  BY <1>1 DEF WalletCallShape, BegunShape, PayShape, RefundShape, TopUpShape, BuyShape, Wa!Ended
<1>6. LockShape'
  <2>1. lock'[u] = c /\ \A w \in Users \ {u} : lock'[w] = lock[w]
    BY <1>1, <1>2 DEF WalletInv, Wa!TypeOK
  <2>2. ASSUME NEW w \in Users, lock'[w] # Nobody
        PROVE  at'[lock'[w]] = "save" /\ req'[lock'[w]].user = w
    <3>1. CASE w = u
      BY <1>0, <1>1, <2>1, <3>1
    <3>2. CASE w # u
      <4>1. lock'[w] = lock[w] /\ lock[w] \in Calls /\ at[lock[w]] = "save"
            /\ req[lock[w]].user = w
        BY <2>1, <2>2, <3>2 DEF WalletInv, Wa!TypeOK, LockShape, Wa!Owner
      <4> QED
        BY <1>1, <4>1
    <3> QED
      BY <3>1, <3>2
  <2>3. ASSUME NEW o \in Calls, at'[o] = "save"
        PROVE  (lock[Wa!Owner(o)] = o /\ copy[o] = Wa!Balance(Wa!Owner(o)) /\ Wa!Covered(o))'
    <3>1. CASE o = c
      BY <1>0, <1>1, <2>1, <3>1 DEF Wa!Owner, Wa!Balance, Wa!Covered
    <3>2. CASE o # c
      <4>1. /\ at[o] = "save" /\ req[o].user \in Users
            /\ lock[req[o].user] = o /\ copy[o] = Wa!Balance(req[o].user) /\ Wa!Covered(o)
        BY <1>1, <2>3, <3>2, CallTypes DEF WalletInv, LockShape, Wa!Owner
      <4>2. req[o].user # u /\ o # Nobody
        BY <1>1, <4>1 DEF Wa!WalletAssumption
      <4> QED
        BY <1>1, <2>1, <3>2, <4>1, <4>2 DEF Wa!Owner, Wa!Balance, Wa!Covered
    <3> QED
      BY <3>1, <3>2
  <2> QED
    BY <2>2, <2>3 DEF LockShape, Wa!Owner
<1> QED
  BY <1>3, <1>4, <1>5, <1>6, StepWalletInv
\* Saving the row moves the amount, of the wallet as it is, and gives the lock back.
LEMMA SaveWalletWalletInv ==
  ASSUME Wa!WalletAssumption, WalletInv, NEW c \in Calls, Wa!SaveWallet(c)
  PROVE  WalletInv'
<1> USE DEF Wa!rows, Wa!records
<1>0. PICK u, m : u = req[c].user /\ m = sign[c] * req[c].amt
  OBVIOUS
<1>1. /\ WalletCallShape(c) /\ at[c] = "save" /\ at'[c] = Wa!AfterSave(c)
      /\ lock[u] = c /\ copy[c] = Wa!Balance(u) /\ Wa!Covered(c)
      /\ lock' = [lock EXCEPT ![u] = Nobody]
      /\ wallet' = [wallet EXCEPT ![u] = copy[c] + m]
      /\ moved' = [moved EXCEPT ![c] = moved[c] + m]
      /\ at' = [at EXCEPT ![c] = Wa!AfterSave(c)]
      /\ UNCHANGED <<req, sign, copy, payment, licence, earned, doubled, disturbed, faults>>
      /\ \A o \in Calls \ {c} : at'[o] = at[o]
  BY <1>0 DEF Wa!SaveWallet, Wa!Goto, Wa!Owner, WalletInv, Wa!TypeOK, LockShape
<1>2. /\ u \in Users /\ Wa!Balance(u) \in Nat /\ c # Nobody /\ req[c].amt \in Nat \ {0}
      /\ req[c].kind \in Wa!Kinds
      /\ sign[c] \in {1, -1} /\ moved[c] \in Int
  BY <1>0, CallTypes DEF WalletInv, Wa!Owner, Wa!TypeOK
<1>3. m = (IF sign[c] = 1 THEN req[c].amt ELSE -req[c].amt) /\ m \in Int
  BY <1>0, <1>2
<1>4. copy[c] + m \in Nat
  BY <1>0, <1>1, <1>2, <1>3 DEF Wa!Covered, Wa!Balance, Wa!Owner
<1>5. Wa!AfterSave(c) \in {"failed", "earn", "finish"}
  BY DEF Wa!AfterSave
<1>6. Wa!TypeOK'
  BY <1>1, <1>2, <1>3, <1>4, <1>5 DEF WalletInv, Wa!TypeOK, Wa!Ended
<1>7. moved'[c] = moved[c] + m /\ \A o \in Calls \ {c} : moved'[o] = moved[o]
  BY <1>1, <1>3 DEF WalletInv, Wa!TypeOK
<1>8. Frame(c)
  BY <1>1, <1>6, <1>7 DEF Frame, WalletInv, Wa!TypeOK, Wa!WalletAssumption
<1>9. WalletCallShape(c)'
  <2>1. CASE req[c].kind = "pay"
    BY <1>1, <1>2, <1>3, <1>7, <2>1
       DEF WalletCallShape, BegunShape, PayShape, RefundShape, TopUpShape, BuyShape, Wa!AfterSave
  <2>2. CASE req[c].kind = "refund"
    <3>1. req[c].of # c
      BY <1>1, <2>2 DEF WalletCallShape, BegunShape, RefundShape
    <3> QED
      BY <1>1, <1>2, <1>3, <1>7, <2>2, <3>1
         DEF WalletCallShape, BegunShape, PayShape, RefundShape, TopUpShape, BuyShape, Wa!AfterSave
  <2>3. CASE req[c].kind = "topUp"
    BY <1>1, <1>2, <1>3, <1>7, <2>3
       DEF WalletCallShape, BegunShape, PayShape, RefundShape, TopUpShape, BuyShape, Wa!AfterSave
  <2>4. CASE req[c].kind = "buy"
    <3>1. \/ sign[c] = 1 /\ at'[c] = "failed" /\ moved'[c] = 0
          \/ sign[c] = -1 /\ at'[c] = "earn" /\ moved'[c] = -req[c].amt
      <4>1. CASE sign[c] = 1
        <5>1. at[c] \in {"lock", "save"} /\ moved[c] = -req[c].amt /\ m = req[c].amt
          BY <1>1, <1>3, <2>4, <4>1 DEF WalletCallShape, BuyShape
        <5>2. moved'[c] = 0
          BY <1>2, <1>7, <5>1
        <5> QED
          BY <1>1, <2>4, <4>1, <5>2 DEF Wa!AfterSave
      <4>2. CASE sign[c] = -1
        <5>1. moved[c] = 0 /\ m = -req[c].amt
          BY <1>1, <1>3, <2>4, <4>2 DEF WalletCallShape, BuyShape
        <5>2. moved'[c] = -req[c].amt
          BY <1>2, <1>7, <5>1
        <5> QED
          BY <1>1, <2>4, <4>2, <5>2 DEF Wa!AfterSave
      <4> QED
        BY <1>2, <4>1, <4>2
    <3>2. BegunShape(c)'
      BY <1>1, <2>4, <3>1 DEF WalletCallShape, BegunShape
    <3>3. BuyShape(c)'
      BY <1>1, <2>4, <3>1 DEF WalletCallShape, BuyShape
    <3> QED
      BY <1>1, <2>4, <3>2, <3>3 DEF WalletCallShape, PayShape, RefundShape, TopUpShape
  <2> QED
    BY <1>2, <2>1, <2>2, <2>3, <2>4 DEF Wa!Kinds
<1>10. LockShape'
  <2>1. /\ lock'[u] = Nobody /\ \A w \in Users \ {u} : lock'[w] = lock[w] /\ wallet'[w] = wallet[w]
    BY <1>1, <1>2 DEF WalletInv, Wa!TypeOK
  <2>2. ASSUME NEW w \in Users, lock'[w] # Nobody
        PROVE  at'[lock'[w]] = "save" /\ req'[lock'[w]].user = w
    <3>1. w # u /\ lock'[w] = lock[w] /\ lock[w] \in Calls /\ at[lock[w]] = "save"
          /\ req[lock[w]].user = w
      BY <2>1, <2>2 DEF WalletInv, Wa!TypeOK, LockShape, Wa!Owner
    <3>2. lock[w] # c
      BY <1>0, <3>1
    <3> QED
      BY <1>1, <3>1, <3>2
  <2>3. ASSUME NEW o \in Calls, at'[o] = "save"
        PROVE  (lock[Wa!Owner(o)] = o /\ copy[o] = Wa!Balance(Wa!Owner(o)) /\ Wa!Covered(o))'
    <3>1. o # c
      BY <1>1, <1>5, <2>3
    <3>2. /\ at[o] = "save" /\ req[o].user \in Users
          /\ lock[req[o].user] = o /\ copy[o] = Wa!Balance(req[o].user) /\ Wa!Covered(o)
      BY <1>1, <2>3, <3>1, CallTypes DEF WalletInv, LockShape, Wa!Owner
    <3>3. req[o].user # u
      BY <1>1, <3>1, <3>2
    <3> QED
      BY <1>1, <2>1, <3>1, <3>2, <3>3 DEF Wa!Owner, Wa!Balance, Wa!Covered
  <2> QED
    BY <2>2, <2>3 DEF LockShape, Wa!Owner
<1> QED
  BY <1>6, <1>8, <1>9, <1>10, StepWalletInv
\* Opening a wallet that nobody holds leaves it empty.
LEMMA OpenWalletWalletInv ==
  ASSUME Wa!WalletAssumption, WalletInv, NEW u \in Users, Wa!OpenWallet(u)
  PROVE  WalletInv'
<1> USE DEF Wa!rows, Wa!records
<1>1. /\ wallet[u] = NoWallet /\ lock[u] = Nobody
      /\ UNCHANGED <<lock, at, req, sign, copy, payment, licence, earned, moved, disturbed, faults>>
      /\ wallet'[u] = 0 /\ \A w \in Users \ {u} : wallet'[w] = wallet[w]
  BY DEF Wa!OpenWallet, WalletInv, Wa!TypeOK
<1>2. Wa!TypeOK'
  BY <1>1 DEF Wa!OpenWallet, WalletInv, Wa!TypeOK
<1>3. \A c \in Calls : WalletCallShape(c)'
  BY <1>1 DEF WalletInv, WalletCallShape, BegunShape, PayShape, RefundShape, TopUpShape, BuyShape
<1>4. ASSUME NEW w \in Users, lock'[w] # Nobody
      PROVE  at'[lock'[w]] = "save" /\ req'[lock'[w]].user = w
  BY <1>1, <1>4 DEF WalletInv, LockShape, Wa!Owner
<1>5. ASSUME NEW o \in Calls, at'[o] = "save"
      PROVE  (lock[Wa!Owner(o)] = o /\ copy[o] = Wa!Balance(Wa!Owner(o)) /\ Wa!Covered(o))'
  <2>1. /\ lock[req[o].user] = o /\ copy[o] = Wa!Balance(req[o].user) /\ Wa!Covered(o)
        /\ req[o].user \in Users /\ o # Nobody
    BY <1>1, <1>5, CallTypes DEF WalletInv, LockShape, Wa!Owner
  <2>2. req[o].user # u
    BY <1>1, <2>1
  <2> QED
    BY <1>1, <2>1, <2>2 DEF Wa!Owner, Wa!Balance, Wa!Covered
<1> QED
  BY <1>2, <1>3, <1>4, <1>5 DEF WalletInv, LockShape, Wa!Owner

-----------------------------------------------------------------------------
(* Failures.                                                                *)

\* A call that is hit gives its locks back.
LEMMA UnlockWalletInv ==
  ASSUME Wa!WalletAssumption, WalletInv, Wa!TypeOK', NEW c \in Calls, Wa!Disturb(c), Frame(c),
         at'[c] # "save",
         WalletCallShape(c)'
  PROVE  WalletInv'
<1> USE DEF Wa!rows, Wa!records
<1>1. /\ lock' = [u \in Users |-> IF lock[u] = c THEN Nobody ELSE lock[u]]
      /\ wallet' = wallet
  BY DEF Wa!Disturb
<1>2. ASSUME NEW w \in Users, lock'[w] # Nobody
      PROVE  at'[lock'[w]] = "save" /\ req'[lock'[w]].user = w
  <2>1. lock'[w] = lock[w] /\ lock[w] # c /\ lock[w] \in Calls /\ at[lock[w]] = "save"
        /\ req[lock[w]].user = w
    BY <1>1, <1>2 DEF WalletInv, Wa!TypeOK, LockShape, Wa!Owner
  <2> QED
    BY <2>1 DEF Frame
<1>3. ASSUME NEW o \in Calls, at'[o] = "save"
      PROVE  (lock[Wa!Owner(o)] = o /\ copy[o] = Wa!Balance(Wa!Owner(o)) /\ Wa!Covered(o))'
  <2>1. /\ o # c /\ at[o] = "save"
        /\ req'[o] = req[o] /\ sign'[o] = sign[o] /\ copy'[o] = copy[o]
    BY <1>3 DEF Frame
  <2>2. /\ lock[req[o].user] = o /\ copy[o] = Wa!Balance(req[o].user) /\ Wa!Covered(o)
        /\ req[o].user \in Users
    BY <2>1, CallTypes DEF WalletInv, LockShape, Wa!Owner
  <2> QED
    BY <1>1, <2>1, <2>2 DEF Wa!Owner, Wa!Balance, Wa!Covered
<1>4. LockShape'
  BY <1>2, <1>3 DEF LockShape, Wa!Owner
<1> QED
  BY <1>4, StepWalletInv

\* What a hit leaves of a call.
LEMMA DisturbIs ==
  ASSUME Wa!WalletAssumption, WalletInv, NEW c \in Calls, Wa!Disturb(c)
  PROVE  /\ at[c] \in {"check", "lock", "save", "finish", "fail", "earn", "license"}
         /\ c \in disturbed' /\ disturbed \subseteq disturbed' /\ disturbed' \subseteq Calls
         /\ faults \in Nat /\ faults' = faults + 1 /\ faults' \in 0..MaxFaults
         /\ lock' \in [Users -> Calls \cup {Nobody}]
         /\ UNCHANGED <<wallet, req, copy, payment, licence, earned, moved, doubled>>
<1>1. MaxFaults \in Nat /\ faults \in 0..MaxFaults /\ faults < MaxFaults
  BY DEF Wa!WalletAssumption, WalletInv, Wa!TypeOK, Wa!Disturb
<1>2. at[c] \in {"check", "lock", "save", "finish", "fail", "earn", "license"}
  BY DEF Wa!Disturb, WalletInv, Wa!TypeOK, Wa!Ended
<1>3. /\ c \in disturbed' /\ disturbed \subseteq disturbed' /\ disturbed' \subseteq Calls
      /\ lock' \in [Users -> Calls \cup {Nobody}]
      /\ UNCHANGED <<wallet, req, copy, payment, licence, earned, moved, doubled>>
  BY DEF Wa!Disturb, WalletInv, Wa!TypeOK, Wa!records
<1> QED
  BY <1>1, <1>2, <1>3 DEF Wa!Disturb

\* After a failed statement, a payment is marked and a charged purchase is reversed.
LEMMA FaultWalletInv ==
  ASSUME Wa!WalletAssumption, WalletInv, NEW c \in Calls, Wa!Fault(c)
  PROVE  WalletInv'
<1>1. Wa!Disturb(c) /\ Wa!Throw(c) /\ WalletCallShape(c) /\ Wa!TypeOK
  BY DEF Wa!Fault, WalletInv
<1>2. /\ at[c] \in {"check", "lock", "save", "finish", "fail", "earn", "license"}
      /\ c \in disturbed' /\ disturbed \subseteq disturbed' /\ disturbed' \subseteq Calls
      /\ faults \in Nat /\ faults' = faults + 1 /\ faults' \in 0..MaxFaults
      /\ lock' \in [Users -> Calls \cup {Nobody}]
      /\ UNCHANGED <<wallet, req, copy, payment, licence, earned, moved, doubled>>
  BY <1>1, DisturbIs
<1>3. /\ at'[c] = Wa!AfterError(c) /\ sign'[c] = 1
      /\ \A o \in Calls \ {c} : at'[o] = at[o] /\ sign'[o] = sign[o]
      /\ at' \in [Calls -> Wa!Ended \cup {"check", "screen", "lock", "save", "finish", "fail",
                                       "earn", "license"}]
      /\ sign' \in [Calls -> {1, -1}]
  BY <1>1, ThrowIs
<1>4. Wa!TypeOK'
  BY <1>1, <1>2, <1>3 DEF Wa!TypeOK
<1>5. Frame(c)
  BY <1>2, <1>3 DEF Frame
<1>6. req[c].kind \in Wa!Kinds
  BY CallTypes DEF WalletInv
<1>7. WalletCallShape(c)'
  <2>1. CASE req[c].kind = "pay"
    BY <1>1, <1>2, <1>3, <2>1
       DEF WalletCallShape, BegunShape, PayShape, RefundShape, TopUpShape, BuyShape, Wa!AfterError
  <2>2. CASE req[c].kind = "refund"
    BY <1>1, <1>2, <1>3, <2>2
       DEF WalletCallShape, BegunShape, PayShape, RefundShape, TopUpShape, BuyShape, Wa!AfterError
  <2>3. CASE req[c].kind = "topUp"
    BY <1>1, <1>2, <1>3, <2>3
       DEF WalletCallShape, BegunShape, PayShape, RefundShape, TopUpShape, BuyShape, Wa!AfterError,
       Wa!Ended
  <2>4. CASE req[c].kind = "buy"
    BY <1>1, <1>2, <1>3, <2>4
       DEF WalletCallShape, BegunShape, PayShape, RefundShape, TopUpShape, BuyShape, Wa!AfterError,
       WalletInv,
           Wa!TypeOK
  <2> QED
    BY <1>6, <2>1, <2>2, <2>3, <2>4 DEF Wa!Kinds
<1>8. at'[c] # "save"
  BY <1>3 DEF Wa!AfterError
<1> QED
  BY <1>1, <1>4, <1>5, <1>7, <1>8, UnlockWalletInv

\* A crash ends the call where it is.
LEMMA CrashWalletInv ==
  ASSUME Wa!WalletAssumption, WalletInv, NEW c \in Calls, Wa!Crash(c)
  PROVE  WalletInv'
<1>1. Wa!Disturb(c) /\ WalletCallShape(c) /\ Wa!TypeOK /\ sign' = sign
        /\ at' = [at EXCEPT ![c] = "crashed"]
  BY DEF Wa!Crash, Wa!Goto, WalletInv
<1>2. /\ at[c] \in {"check", "lock", "save", "finish", "fail", "earn", "license"}
      /\ c \in disturbed' /\ disturbed \subseteq disturbed' /\ disturbed' \subseteq Calls
      /\ faults \in Nat /\ faults' = faults + 1 /\ faults' \in 0..MaxFaults
      /\ lock' \in [Users -> Calls \cup {Nobody}]
      /\ UNCHANGED <<wallet, req, copy, payment, licence, earned, moved, doubled>>
  BY <1>1, DisturbIs
<1>3. /\ at'[c] = "crashed" /\ \A o \in Calls \ {c} : at'[o] = at[o]
  BY <1>1 DEF Wa!TypeOK
<1>4. Wa!TypeOK'
  BY <1>1, <1>2 DEF Wa!TypeOK, Wa!Ended
<1>5. Frame(c)
  BY <1>1, <1>2, <1>3 DEF Frame
<1>6. WalletCallShape(c)'
  BY <1>1, <1>2, <1>3
     DEF WalletCallShape, BegunShape, PayShape, RefundShape, TopUpShape, BuyShape, Wa!Ended
<1> QED
  BY <1>1, <1>3, <1>4, <1>5, <1>6, UnlockWalletInv
-----------------------------------------------------------------------------
(* The invariant.                                                           *)

\* At the start nobody has begun.
LEMMA InitWalletInv ==
  ASSUME Wa!WalletAssumption, Wa!Init
  PROVE  WalletInv
<1>1. PICK v \in Users : v = CHOOSE w \in Users : TRUE
  BY DEF Wa!WalletAssumption
<1>2. Wa!Idle \in Wa!Requests /\ Wa!Idle.kind = "topUp"
  BY <1>1 DEF Wa!Idle, Wa!Requests, Wa!Kinds
<1>3. Wa!TypeOK
  BY <1>2 DEF Wa!Init, Wa!TypeOK, Wa!Ended, Wa!WalletAssumption
<1>4. LockShape
  BY DEF Wa!Init, LockShape
<1>5. \A c \in Calls : WalletCallShape(c)
  BY <1>2 DEF Wa!Init, WalletCallShape, BegunShape, PayShape, RefundShape, TopUpShape, BuyShape,
       Wa!Ended
<1> QED
  BY <1>3, <1>4, <1>5 DEF WalletInv

\* Every step preserves the invariant.
LEMMA NextWalletInv ==
  ASSUME Wa!WalletAssumption, WalletInv, [Wa!Next]_Wa!walletVars
  PROVE  WalletInv'
<1>1. CASE UNCHANGED Wa!walletVars
  BY <1>1 DEF Wa!walletVars, Wa!rows, Wa!records, WalletInv, Wa!TypeOK, LockShape, WalletCallShape,
       BegunShape, PayShape,
     RefundShape, TopUpShape, BuyShape, Wa!Owner, Wa!Balance, Wa!Covered
<1>2. ASSUME NEW c \in Calls, Wa!Step(c)
      PROVE  WalletInv'
  BY <1>2, CreatePaymentWalletInv, CheckRefundWalletInv, CheckLicenceWalletInv, ScreenWalletInv,
       LockWalletWalletInv,
     InsufficientWalletInv, SaveWalletWalletInv, FinishWalletInv, MarkFailedWalletInv,
     DeliverWalletInv DEF Wa!Step
<1> QED
  BY <1>1, <1>2, BeginWalletInv, ExpireWalletInv, FaultWalletInv, CrashWalletInv,
       OpenWalletWalletInv DEF Wa!Next

\* The invariant holds of every behaviour of the wallets.
LEMMA WalletInvariance ==
  ASSUME Wa!WalletAssumption
  PROVE  Wa!Spec => []WalletInv
<1>1. Wa!Init => WalletInv
  BY InitWalletInv
<1>2. WalletInv /\ [Wa!Next]_Wa!walletVars => WalletInv'
  BY NextWalletInv
<1> QED
  BY <1>1, <1>2, PTL DEF Wa!Spec
\* Every state of the wallets is of its type: no wallet is below zero, and a call
\* that has begun is at a step of its own.
THEOREM WalletTypes ==
  ASSUME Wa!WalletAssumption
  PROVE  Wa!Spec => []Wa!TypeOK
<1>1. WalletInv => Wa!TypeOK
  BY DEF WalletInv
<1> QED
  BY <1>1, WalletInvariance, PTL

-----------------------------------------------------------------------------
(* The money.                                                               *)

\* Saving a wallet is one movement of it, by the amount asked for, that it covers.
LEMMA SaveMoves ==
  ASSUME Wa!WalletAssumption, WalletInv, NEW c \in Calls, Wa!SaveWallet(c)
  PROVE  \E m \in {req[c].amt, -req[c].amt} :
           /\ Wa!Owner(c) \in Users /\ req[c] \in WalletMenu[c] /\ req' = req
           /\ Wa!Balance(Wa!Owner(c)) + m \in Nat
           /\ wallet' = [wallet EXCEPT ![Wa!Owner(c)] = Wa!Balance(Wa!Owner(c)) + m]
           /\ moved'[c] = moved[c] + m /\ \A o \in Calls \ {c} : moved'[o] = moved[o]
<1>0. PICK u, m : u = req[c].user /\ m = sign[c] * req[c].amt
  OBVIOUS
<1>1. /\ u \in Users /\ Wa!Balance(u) \in Nat /\ req[c].amt \in Nat \ {0} /\ sign[c] \in {1, -1}
      /\ Wa!Owner(c) = u
  BY <1>0, CallTypes DEF WalletInv, Wa!Owner, Wa!TypeOK
<1>2. m = (IF sign[c] = 1 THEN req[c].amt ELSE -req[c].amt) /\ m \in Int
  BY <1>0, <1>1
<1>3. /\ at[c] = "save" /\ copy[c] = Wa!Balance(u) /\ Wa!Covered(c) /\ req' = req
      /\ wallet' = [wallet EXCEPT ![u] = copy[c] + m]
      /\ moved' = [moved EXCEPT ![c] = moved[c] + m]
  BY <1>0, <1>1 DEF Wa!SaveWallet, WalletInv, LockShape
<1>4. Wa!Balance(u) + m \in Nat
  BY <1>1, <1>2, <1>3 DEF Wa!Covered, Wa!Balance
<1>5. moved'[c] = moved[c] + m /\ \A o \in Calls \ {c} : moved'[o] = moved[o]
  BY <1>2, <1>3 DEF WalletInv, Wa!TypeOK
<1>6. req[c] \in WalletMenu[c]
  BY <1>3 DEF WalletInv, WalletCallShape, BegunShape
<1> QED
  BY <1>1, <1>2, <1>3, <1>4, <1>5, <1>6

\* Seen as balances: the wallet moves, the others stay.
LEMMA SaveMovesBalance ==
  ASSUME Wa!WalletAssumption, WalletInv, NEW c \in Calls, Wa!SaveWallet(c)
  PROVE  \E m \in {req[c].amt, -req[c].amt} :
           /\ Wa!Owner(c) \in Users /\ req[c] \in WalletMenu[c] /\ req' = req /\ m \in Int
           /\ Wa!Balance(Wa!Owner(c)) + m >= 0
           /\ \A u \in Users : Wa!Balance(u)' = IF u = Wa!Owner(c) THEN Wa!Balance(u) + m ELSE Wa!Balance(u)
           /\ moved'[c] = moved[c] + m /\ \A o \in Calls \ {c} : moved'[o] = moved[o]
<1>1. PICK m \in {req[c].amt, -req[c].amt} :
        /\ Wa!Owner(c) \in Users /\ req[c] \in WalletMenu[c] /\ req' = req
        /\ Wa!Balance(Wa!Owner(c)) + m \in Nat
        /\ wallet' = [wallet EXCEPT ![Wa!Owner(c)] = Wa!Balance(Wa!Owner(c)) + m]
        /\ moved'[c] = moved[c] + m /\ \A o \in Calls \ {c} : moved'[o] = moved[o]
  BY SaveMoves
<1>2. req[c].amt \in Nat \ {0}
  BY CallTypes DEF WalletInv
<1>3. ASSUME NEW u \in Users
      PROVE  Wa!Balance(u)' = IF u = Wa!Owner(c) THEN Wa!Balance(u) + m ELSE Wa!Balance(u)
  <2>1. wallet'[u] = IF u = Wa!Owner(c) THEN Wa!Balance(u) + m ELSE wallet[u]
    BY <1>1 DEF WalletInv, Wa!TypeOK
  <2>2. u = Wa!Owner(c) => Wa!Balance(u) + m # NoWallet
    BY <1>1 DEF Wa!WalletAssumption
  <2> QED
    BY <2>1, <2>2 DEF Wa!Balance
<1> QED
  BY <1>1, <1>2, <1>3

\* No other step changes what anybody has or has moved.
LEMMA OthersKeepMoney ==
  ASSUME Wa!WalletAssumption, WalletInv, [Wa!Next]_Wa!walletVars, ~\E c \in Calls : Wa!SaveWallet(c)
  PROVE  moved' = moved /\ \A u \in Users : Wa!Balance(u)' = Wa!Balance(u)
<1>1. CASE \E u \in Users : Wa!OpenWallet(u)
  BY <1>1 DEF Wa!OpenWallet, Wa!Balance, WalletInv, Wa!TypeOK
<1>2. CASE UNCHANGED Wa!walletVars
  BY <1>2 DEF Wa!walletVars, Wa!rows, Wa!Balance
<1>3. ASSUME NEW c \in Calls,
             Wa!Begin(c) \/ Wa!Step(c) \/ Wa!Expire(c) \/ Wa!Fault(c) \/ Wa!Crash(c)
      PROVE  UNCHANGED <<wallet, moved>>
  BY <1>3 DEF Wa!Begin, Wa!Step, Wa!Expire, Wa!Fault, Wa!Crash, Wa!Disturb, Wa!CreatePayment,
       Wa!CheckRefund, Wa!CheckLicence,
     Wa!Screen, Wa!LockWallet, Wa!Insufficient, Wa!Finish, Wa!MarkFailed, Wa!Earn, Wa!License,
     Wa!rows
<1>4. UNCHANGED <<wallet, moved>> => moved' = moved
        /\ \A u \in Users : Wa!Balance(u)' = Wa!Balance(u)
  BY DEF Wa!Balance
<1> QED
  BY <1>1, <1>2, <1>3, <1>4 DEF Wa!Next

\* So each step of the wallets is a movement of the ledger or no step of it.
LEMMA StepRefines ==
  ASSUME Wa!WalletAssumption, WalletInv, [Wa!Next]_Wa!walletVars
  PROVE  [Ledger!Next]_([u \in Users |-> Wa!Balance(u)])
<1>1. CASE ~\E c \in Calls : Wa!SaveWallet(c)
  BY <1>1, OthersKeepMoney
<1>2. ASSUME NEW c \in Calls, Wa!SaveWallet(c)
      PROVE  Ledger!Next
  <2>1. PICK m \in {req[c].amt, -req[c].amt} :
          /\ Wa!Owner(c) \in Users /\ req[c] \in WalletMenu[c] /\ m \in Int
          /\ Wa!Balance(Wa!Owner(c)) + m >= 0
          /\ \A u \in Users : Wa!Balance(u)' = IF u = Wa!Owner(c) THEN Wa!Balance(u) + m ELSE Wa!Balance(u)
    BY <1>2, SaveMovesBalance
  <2>2. req[c].amt \in UNION {{r.amt : r \in WalletMenu[o]} : o \in Calls}
    BY <2>1
  <2>3. Ledger!Post(Wa!Owner(c), m)
    BY <2>1 DEF Ledger!Post
  <2> QED
    BY <2>1, <2>2, <2>3 DEF Ledger!Next
<1> QED
  BY <1>1, <1>2

\* The wallets implement the ledger: whatever the calls do and whatever fails,
\* each change is one whole movement of one wallet that leaves it non-negative.
THEOREM Refinement ==
  ASSUME Wa!WalletAssumption
  PROVE  Wa!Spec => WalletsAreALedger
<1>1. Wa!Init => Ledger!Init
  BY DEF Wa!Init, Ledger!Init, Wa!Balance, Wa!First
<1>2. WalletInv /\ [Wa!Next]_Wa!walletVars => [Ledger!Next]_([u \in Users |-> Wa!Balance(u)])
  BY StepRefines
<1> QED
  BY <1>1, <1>2, WalletInvariance, PTL DEF Wa!Spec, WalletsAreALedger, Ledger!Spec

\* The instance's finite sets and sums are those of the lemmas.
LEMMA WalletLibrary ==
  /\ \A S : Wa!IsFiniteSet(S) <=> IsFiniteSet(S)
  /\ \A f, S : Wa!SumFunctionOnSet(f, S) = SumFunctionOnSet(f, S)
BY DEF Wa!IsFiniteSet, IsFiniteSet, Wa!SumFunctionOnSet, SumFunctionOnSet,
       Wa!FoldFunctionOnSet, FoldFunctionOnSet, Wa!MapThenFoldSet, MapThenFoldSet

\* The calls of other users count for nothing in the sum of a user.
LEMMA MovementsAre ==
  ASSUME Wa!WalletAssumption, Wa!TypeOK, NEW u \in Users
  PROVE  /\ \A c \in Calls : Wa!Movements(u)[c] \in Int
         /\ IsFiniteSet(Calls)
         /\ SumFunctionOnSet(Wa!Movements(u), Calls) \in Int
<1>1. \A c \in Calls : Wa!Movements(u)[c] \in Int
  BY DEF Wa!TypeOK, Wa!Movements
<1>2. IsFiniteSet(Calls)
  BY WalletLibrary DEF Wa!WalletAssumption
<1> QED
  BY <1>1, <1>2, SumInt

\* A step that moves nothing and leaves the requests of those who moved alone
\* changes no sum.
LEMMA SameMovements ==
  ASSUME Wa!WalletAssumption, Wa!TypeOK, Wa!TypeOK', NEW u \in Users, moved' = moved,
         \A c \in Calls : moved[c] # 0 => req'[c] = req[c]
  PROVE  SumFunctionOnSet(Wa!Movements(u)', Calls) = SumFunctionOnSet(Wa!Movements(u), Calls)
<1> DEFINE f == Wa!Movements(u)
           g == Wa!Movements(u)'
<1>1. \A c \in Calls : f[c] = g[c]
  BY DEF Wa!Movements, Wa!Owner
<1>2. IsFiniteSet(Calls)
  BY WalletLibrary DEF Wa!WalletAssumption
<1> HIDE DEF f, g
<1>3. SumFunctionOnSet(f, Calls) = SumFunctionOnSet(g, Calls)
  BY <1>1, <1>2, SumEqual
<1> QED
  BY <1>3 DEF f, g

\* A request changes only when its call begins, and then it has moved nothing.
LEMMA RequestsStay ==
  ASSUME Wa!WalletAssumption, WalletInv, [Wa!Next]_Wa!walletVars
  PROVE  \A c \in Calls : moved[c] # 0 => req'[c] = req[c]
<1>1. ASSUME NEW c \in Calls, Wa!Begin(c)
      PROVE  \A o \in Calls : moved[o] # 0 => req'[o] = req[o]
  <2>1. moved[c] = 0
    BY <1>1 DEF Wa!Begin, WalletInv, WalletCallShape, BegunShape
  <2> QED
    BY <1>1, <2>1 DEF Wa!Begin, WalletInv, Wa!TypeOK
<1>2. ASSUME NEW c \in Calls, Wa!Step(c) \/ Wa!Expire(c) \/ Wa!Fault(c) \/ Wa!Crash(c)
      PROVE  req' = req
  BY <1>2 DEF Wa!Step, Wa!Expire, Wa!Fault, Wa!Crash, Wa!Disturb, Wa!CreatePayment, Wa!CheckRefund,
       Wa!CheckLicence,
     Wa!Screen, Wa!LockWallet, Wa!Insufficient, Wa!SaveWallet, Wa!Finish, Wa!MarkFailed, Wa!Earn,
     Wa!License
<1>3. ASSUME NEW u \in Users, Wa!OpenWallet(u)
      PROVE  req' = req
  BY <1>3 DEF Wa!OpenWallet
<1> QED
  BY <1>1, <1>2, <1>3 DEF Wa!Next, Wa!walletVars

\* Every step preserves the account of each wallet.
LEMMA NextExplained ==
  ASSUME Wa!WalletAssumption, WalletInv, WalletInv', Wa!WalletExplained, [Wa!Next]_Wa!walletVars
  PROVE  Wa!WalletExplained'
<1> SUFFICES ASSUME NEW u \in Users
             PROVE  Wa!Balance(u)' = Wa!First(u) + SumFunctionOnSet(Wa!Movements(u)', Calls)
  BY WalletLibrary DEF Wa!WalletExplained, Wa!First
<1>0. Wa!TypeOK /\ Wa!TypeOK' /\ Wa!Balance(u) = Wa!First(u) + SumFunctionOnSet(Wa!Movements(u), Calls)
  BY WalletLibrary DEF WalletInv, Wa!WalletExplained
<1>1. Wa!First(u) \in Int /\ SumFunctionOnSet(Wa!Movements(u), Calls) \in Int
  BY <1>0, MovementsAre DEF Wa!First, Wa!WalletAssumption
<1>2. CASE ~\E c \in Calls : Wa!SaveWallet(c)
  <2>1. moved' = moved /\ Wa!Balance(u)' = Wa!Balance(u)
    BY <1>2, OthersKeepMoney
  <2> QED
    BY <1>0, <2>1, SameMovements, RequestsStay
<1>3. ASSUME NEW c \in Calls, Wa!SaveWallet(c)
      PROVE  Wa!Balance(u)' = Wa!First(u) + SumFunctionOnSet(Wa!Movements(u)', Calls)
  <2>1. PICK m \in {req[c].amt, -req[c].amt} :
          /\ req' = req /\ m \in Int
          /\ Wa!Balance(u)' = IF u = Wa!Owner(c) THEN Wa!Balance(u) + m ELSE Wa!Balance(u)
          /\ moved'[c] = moved[c] + m /\ \A o \in Calls \ {c} : moved'[o] = moved[o]
    BY <1>3, SaveMovesBalance
  <2> DEFINE f == Wa!Movements(u)
             g == Wa!Movements(u)'
  <2>2. /\ \A o \in Calls : f[o] \in Int
        /\ \A o \in Calls \ {c} : g[o] = f[o]
        /\ g[c] = f[c] + (IF u = Wa!Owner(c) THEN m ELSE 0)
    BY <1>0, <2>1 DEF Wa!Movements, Wa!Owner, Wa!TypeOK
  <2>3. \A o \in Calls : f[o] \in Int /\ g[o] \in Int
    BY <2>1, <2>2
  <2>4. IsFiniteSet(Calls)
    BY WalletLibrary DEF Wa!WalletAssumption
  <2> HIDE DEF f, g
  <2>5. SumFunctionOnSet(g, Calls) = SumFunctionOnSet(f, Calls) - f[c] + g[c]
    BY <2>2, <2>3, <2>4, SumUpdate
  <2>6. SumFunctionOnSet(f, Calls) \in Int
          /\ Wa!Balance(u) = Wa!First(u) + SumFunctionOnSet(f, Calls)
    BY <1>0, <1>1 DEF f
  <2>7. Wa!Balance(u)' = Wa!First(u) + SumFunctionOnSet(g, Calls)
    BY <1>1, <2>1, <2>2, <2>5, <2>6
  <2> QED
    BY <2>7 DEF g
<1> QED
  BY <1>2, <1>3

\* A wallet holds its first balance and the movements of the calls on it, all of
\* them and nothing else.
THEOREM WalletCorrect ==
  ASSUME Wa!WalletAssumption
  PROVE  Wa!Spec => []Wa!WalletExplained
<1>1. Wa!Init => Wa!WalletExplained
  <2> SUFFICES ASSUME Wa!Init, NEW u \in Users
               PROVE  Wa!Balance(u) = Wa!First(u) + SumFunctionOnSet(Wa!Movements(u), Calls)
    BY WalletLibrary DEF Wa!WalletExplained
  <2>1. Wa!Balance(u) = Wa!First(u) /\ Wa!First(u) \in Int
          /\ \A c \in Calls : Wa!Movements(u)[c] = 0
    BY DEF Wa!Init, Wa!Balance, Wa!First, Wa!Movements, Wa!WalletAssumption
  <2>2. SumFunctionOnSet(Wa!Movements(u), Calls) = 0
    BY <2>1, SumZero, WalletLibrary DEF Wa!WalletAssumption
  <2> QED
    BY <2>1, <2>2
<1>2. WalletInv /\ WalletInv' /\ Wa!WalletExplained /\ [Wa!Next]_Wa!walletVars =>
        Wa!WalletExplained'
  BY NextExplained
<1> QED
  BY <1>1, <1>2, WalletInvariance, PTL DEF Wa!Spec

-----------------------------------------------------------------------------
(* The records.                                                             *)

\* The status of a payment tells whether its money has left the wallet, unless a
\* fault hit the call.
THEOREM StatusCorrect ==
  ASSUME Wa!WalletAssumption
  PROVE  Wa!Spec => []Wa!StatusTellsMoney
<1>1. WalletInv => Wa!StatusTellsMoney
  <2> SUFFICES ASSUME WalletInv, NEW c \in Calls, req[c].kind = "pay"
               PROVE  /\ payment[c] \in {"COMPLETED", "REFUNDED"} => moved[c] = -req[c].amt
                      /\ payment[c] = "FAILED" /\ c \notin disturbed => moved[c] = 0
                      /\ payment[c] = "PENDING" /\ at[c] \in Wa!Ended => c \in disturbed
    BY DEF Wa!StatusTellsMoney
  <2>1. BegunShape(c) /\ PayShape(c)
    BY DEF WalletInv, WalletCallShape
  <2> QED
    BY <2>1 DEF BegunShape, PayShape, Wa!Ended
<1> QED
  BY <1>1, WalletInvariance, PTL

\* A refund that has passed its check and may pay, or has paid.
Out(c) == at[c] \in {"lock", "save", "finish"} \/ moved[c] > 0

\* A refund that has paid is about to record it, has recorded it, or was cut off, and
\* of two refunds of a payment only one gets past the check, but for the exceptions
\* of RefundsArePaid.
RefundInv ==
    /\ \A c \in Calls : Wa!PaidBack(c) =>
         \/ c \in disturbed \/ at[c] = "finish"
         \/ at[c] = "done" /\ payment[req[c].of] = "REFUNDED"
    /\ \A c, d \in Calls :
         /\ c # d /\ req[c].kind = "refund" /\ req[d].kind = "refund" /\ req[c].of = req[d].of
         /\ Out(c) /\ Out(d)
         => req[c].of \in doubled \/ c \in disturbed \/ d \in disturbed

\* A step of c, as far as refunds go: a record of a refund stays, and c gets past its
\* check alone, or is noted.
RefundStep(c) ==
    /\ \A o \in Calls \ {c} : at'[o] = at[o] /\ req'[o] = req[o] /\ moved'[o] = moved[o]
    /\ \A o \in Calls : payment[o] = "REFUNDED" => payment'[o] = "REFUNDED"
    /\ doubled \subseteq doubled' /\ disturbed \subseteq disturbed'
    /\ req'[c].kind = "refund" /\ moved'[c] > 0 =>
         \/ c \in disturbed' \/ at'[c] = "finish"
         \/ at'[c] = "done" /\ payment'[req'[c].of] = "REFUNDED"
    /\ req'[c].kind = "refund" /\ Out(c)' =>
         /\ req'[c] = req[c]
         /\ Out(c) \/ (/\ payment[req[c].of] = "COMPLETED"
                       /\ Wa!Refunding(req[c].of) = {} \/ req[c].of \in doubled')

\* So such a step preserves what is said of refunds.
LEMMA RefundStepInv ==
  ASSUME WalletInv, WalletInv', RefundInv, NEW c \in Calls, RefundStep(c)
  PROVE  RefundInv'
<1>1. ASSUME NEW o \in Calls, Wa!PaidBack(o)'
      PROVE  \/ o \in disturbed' \/ at'[o] = "finish"
             \/ at'[o] = "done" /\ payment'[req'[o].of] = "REFUNDED"
  <2>1. CASE o = c
    BY <1>1, <2>1 DEF RefundStep, Wa!PaidBack
  <2>2. CASE o # c
    <3>1. Wa!PaidBack(o) /\ at'[o] = at[o] /\ req'[o] = req[o] /\ req[o].of \in Calls
      BY <1>1, <2>2 DEF RefundStep, Wa!PaidBack, WalletInv, WalletCallShape, RefundShape
    <3> QED
      BY <3>1 DEF RefundInv, RefundStep
  <2> QED
    BY <2>1, <2>2
<1>2. ASSUME NEW d \in Calls \ {c}, req'[c].kind = "refund", req'[d].kind = "refund",
             req'[c].of = req'[d].of, Out(c)', Out(d)'
      PROVE  req'[c].of \in doubled' \/ c \in disturbed' \/ d \in disturbed'
  <2>1. /\ req'[c] = req[c] /\ req'[d] = req[d] /\ at'[d] = at[d] /\ moved'[d] = moved[d]
        /\ doubled \subseteq doubled' /\ disturbed \subseteq disturbed' /\ Out(d)
    BY <1>2 DEF RefundStep, Out
  <2>2. CASE Out(c)
    BY <1>2, <2>1, <2>2 DEF RefundInv
  <2>3. CASE ~Out(c)
    <3>1. /\ payment[req[c].of] = "COMPLETED"
          /\ Wa!Refunding(req[c].of) = {} \/ req[c].of \in doubled'
      BY <1>2, <2>3 DEF RefundStep
    <3>2. CASE at[d] \in {"lock", "save", "finish"}
      <4>1. d \in Wa!Refunding(req[c].of)
        BY <1>2, <2>1, <3>2 DEF Wa!Refunding
      <4> QED
        BY <2>1, <3>1, <4>1
    <3>3. CASE at[d] \notin {"lock", "save", "finish"}
      <4>1. Wa!PaidBack(d)
        BY <1>2, <2>1, <3>3 DEF Wa!PaidBack, Out
      <4> QED
        BY <1>2, <2>1, <3>1, <3>3, <4>1 DEF RefundInv
    <3> QED
      BY <3>2, <3>3
  <2> QED
    BY <2>2, <2>3
<1>3. ASSUME NEW d \in Calls \ {c}, NEW e \in Calls \ {c}, d # e,
             req'[d].kind = "refund", req'[e].kind = "refund",
             req'[d].of = req'[e].of, Out(d)', Out(e)'
      PROVE  req'[d].of \in doubled' \/ d \in disturbed' \/ e \in disturbed'
  <2>1. /\ req'[d] = req[d] /\ req'[e] = req[e] /\ Out(d) /\ Out(e)
        /\ doubled \subseteq doubled' /\ disturbed \subseteq disturbed'
    BY <1>3 DEF RefundStep, Out
  <2> QED
    BY <1>3, <2>1 DEF RefundInv
<1>4. ASSUME NEW d \in Calls, NEW e \in Calls, d # e,
             req'[d].kind = "refund", req'[e].kind = "refund",
             req'[d].of = req'[e].of, Out(d)', Out(e)'
      PROVE  req'[d].of \in doubled' \/ d \in disturbed' \/ e \in disturbed'
  <2>1. CASE d = c
    BY <1>2, <1>4, <2>1
  <2>2. CASE e = c
    BY <1>2, <1>4, <2>2
  <2>3. CASE d # c /\ e # c
    BY <1>3, <1>4, <2>3
  <2> QED
    BY <2>1, <2>2, <2>3
<1> QED
  BY <1>1, <1>4 DEF RefundInv

\* The check of a refund is where a payment may be paid back twice.
LEMMA CheckIsRefundStep ==
  ASSUME Wa!WalletAssumption, WalletInv, RefundInv, NEW c \in Calls, Wa!CheckRefund(c)
  PROVE  RefundStep(c)
<1>1. /\ at[c] = "check" /\ req[c].kind = "refund" /\ moved[c] = 0 /\ moved' = moved
      /\ UNCHANGED <<req, payment, disturbed>> /\ moved[c] \in Int
      /\ \A o \in Calls \ {c} : at'[o] = at[o]
      /\ doubled \subseteq doubled'
  BY DEF Wa!CheckRefund, Wa!Goto, Wa!records, WalletInv, WalletCallShape, RefundShape, Wa!TypeOK
<1>2. payment[req[c].of] = "COMPLETED" =>
         Wa!Refunding(req[c].of) = {} \/ req[c].of \in doubled'
  BY DEF Wa!CheckRefund
<1>3. payment[req[c].of] # "COMPLETED" => at'[c] = "failed"
  BY DEF Wa!CheckRefund, Wa!Goto, WalletInv, Wa!TypeOK
<1> QED
  BY <1>1, <1>2, <1>3 DEF RefundStep, Out

\* A refund that is saved is recorded next; a request that has begun stays.
LEMMA StepIsRefundStep ==
  ASSUME Wa!WalletAssumption, WalletInv, RefundInv, NEW c \in Calls,
         Wa!Begin(c) \/ Wa!Step(c) \/ Wa!Expire(c) \/ Wa!Fault(c) \/ Wa!Crash(c)
  PROVE  RefundStep(c)
<1> USE DEF Wa!rows, Wa!records
<1>0. /\ Wa!TypeOK /\ WalletCallShape(c) /\ moved[c] \in Int /\ req[c].amt \in Nat
      /\ Wa!PaidBack(c) => \/ c \in disturbed \/ at[c] = "finish"
                           \/ at[c] = "done" /\ payment[req[c].of] = "REFUNDED"
  BY CallTypes DEF WalletInv, Wa!TypeOK, RefundInv
<1>1. CASE Wa!Begin(c)
  <2>1. /\ at[c] = "idle" /\ moved[c] = 0
        /\ UNCHANGED <<payment, moved, doubled, disturbed>>
        /\ \A o \in Calls \ {c} : at'[o] = at[o] /\ req'[o] = req[o]
        /\ req'[c].kind = "refund" => at'[c] = "check"
    BY <1>0, <1>1 DEF Wa!Begin, Wa!Goto, WalletCallShape, BegunShape, Wa!TypeOK
  <2> QED
    BY <2>1 DEF RefundStep, Out
<1>2. CASE Wa!CreatePayment(c) \/ Wa!CheckLicence(c) \/ Wa!Screen(c) \/ Wa!Earn(c) \/ Wa!License(c)
             \/ Wa!MarkFailed(c)
  <2>1. /\ req[c].kind # "refund" /\ UNCHANGED <<req, moved, doubled, disturbed>>
        /\ \A o \in Calls \ {c} : at'[o] = at[o]
    BY <1>0, <1>2 DEF Wa!CreatePayment, Wa!CheckLicence, Wa!Screen, Wa!Earn, Wa!License,
         Wa!MarkFailed, Wa!Goto, Wa!Throw, WalletCallShape, RefundShape, Wa!TypeOK
  <2>2. ASSUME NEW o \in Calls, payment[o] = "REFUNDED"
        PROVE  payment'[o] = "REFUNDED"
    <3>1. CASE Wa!CreatePayment(c) \/ Wa!MarkFailed(c)
      <4>1. payment[c] # "REFUNDED"
        BY <1>0, <3>1 DEF Wa!CreatePayment, Wa!MarkFailed, WalletCallShape, BegunShape, PayShape,
             RefundShape, TopUpShape, BuyShape, Wa!Kinds, Wa!Ended
      <4> QED
        BY <1>0, <2>2, <3>1, <4>1 DEF Wa!CreatePayment, Wa!MarkFailed, Wa!TypeOK
    <3>2. CASE Wa!CheckLicence(c) \/ Wa!Screen(c) \/ Wa!Earn(c) \/ Wa!License(c)
      BY <2>2, <3>2 DEF Wa!CheckLicence, Wa!Screen, Wa!Earn, Wa!License
    <3> QED
      BY <1>2, <3>1, <3>2
  <2> QED
    BY <2>1, <2>2 DEF RefundStep
<1>3. CASE Wa!CheckRefund(c)
  BY <1>3, CheckIsRefundStep
<1>4. CASE Wa!LockWallet(c) \/ Wa!Insufficient(c)
  <2>1. /\ at[c] = "lock" /\ UNCHANGED <<req, payment, moved, doubled, disturbed>>
        /\ \A o \in Calls \ {c} : at'[o] = at[o]
        /\ req[c].kind = "refund" => moved[c] = 0
    BY <1>0, <1>4 DEF Wa!LockWallet, Wa!Insufficient, Wa!Goto, Wa!Throw, WalletCallShape,
         RefundShape, Wa!TypeOK
  <2> QED
    BY <2>1 DEF RefundStep, Out
<1>5. CASE Wa!SaveWallet(c)
  <2>1. /\ at[c] = "save" /\ UNCHANGED <<req, payment, doubled, disturbed>>
        /\ \A o \in Calls \ {c} : at'[o] = at[o] /\ moved'[o] = moved[o]
        /\ req[c].kind = "refund" => at'[c] = "finish"
    BY <1>0, <1>5 DEF Wa!SaveWallet, Wa!Goto, Wa!AfterSave, Wa!TypeOK
  <2> QED
    BY <2>1 DEF RefundStep, Out
<1>6. CASE Wa!Finish(c)
  <2>1. /\ at[c] = "finish" /\ UNCHANGED <<req, moved, doubled, disturbed>>
        /\ \A o \in Calls \ {c} : at'[o] = at[o]
        /\ at'[c] = "done"
    BY <1>0, <1>6 DEF Wa!Finish, Wa!Goto, Wa!TypeOK
  <2>2. req[c].kind = "refund" => req[c].of \in Calls /\ payment'[req[c].of] = "REFUNDED"
    BY <1>0, <1>6 DEF Wa!Finish, Wa!TypeOK, WalletCallShape, RefundShape
  <2>3. ASSUME NEW o \in Calls, payment[o] = "REFUNDED"
        PROVE  payment'[o] = "REFUNDED"
    <3>1. req[c].kind = "pay" => payment[c] = "PENDING"
      BY <1>0, <2>1 DEF WalletCallShape, PayShape
    <3> QED
      BY <1>0, <1>6, <2>3, <3>1 DEF Wa!Finish, Wa!TypeOK
  <2> QED
    BY <2>1, <2>2, <2>3 DEF RefundStep, Out
<1>7. CASE Wa!Expire(c)
  <2>1. UNCHANGED <<at, req, payment, moved, doubled, disturbed>>
    BY <1>7 DEF Wa!Expire
  <2> QED
    BY <1>0, <2>1 DEF RefundStep, Out, Wa!PaidBack
<1>8. CASE Wa!Fault(c) \/ Wa!Crash(c)
  <2>1. /\ c \in disturbed' /\ disturbed \subseteq disturbed'
        /\ UNCHANGED <<req, payment, moved, doubled>>
    BY <1>8, DisturbIs DEF Wa!Fault, Wa!Crash
  <2>2. /\ \A o \in Calls \ {c} : at'[o] = at[o]
        /\ req[c].kind = "refund" => at'[c] \in {"failed", "crashed"}
    BY <1>0, <1>8 DEF Wa!Fault, Wa!Crash, Wa!Throw, Wa!Goto, Wa!AfterError, Wa!TypeOK
  <2> QED
    BY <2>1, <2>2 DEF RefundStep, Out
<1> QED
  BY <1>1, <1>2, <1>3, <1>4, <1>5, <1>6, <1>7, <1>8 DEF Wa!Step

\* What is said of refunds holds of every behaviour of the wallets.
LEMMA RefundInvariance ==
  ASSUME Wa!WalletAssumption
  PROVE  Wa!Spec => []RefundInv
<1>1. Wa!Init => RefundInv
  BY DEF Wa!Init, RefundInv, Wa!PaidBack, Out
<1>2. WalletInv /\ WalletInv' /\ RefundInv /\ [Wa!Next]_Wa!walletVars => RefundInv'
  <2> SUFFICES ASSUME WalletInv, WalletInv', RefundInv, [Wa!Next]_Wa!walletVars
               PROVE  RefundInv'
    OBVIOUS
  <2>1. CASE (\E u \in Users : Wa!OpenWallet(u)) \/ UNCHANGED Wa!walletVars
    <3>1. UNCHANGED <<at, req, payment, moved, doubled, disturbed>>
      BY <2>1 DEF Wa!OpenWallet, Wa!walletVars, Wa!records
    <3> QED
      BY <3>1 DEF RefundInv, Wa!PaidBack, Out
  <2>2. CASE \E c \in Calls : \/ Wa!Begin(c) \/ Wa!Step(c) \/ Wa!Expire(c)
                              \/ Wa!Fault(c) \/ Wa!Crash(c)
    BY <2>2, StepIsRefundStep, RefundStepInv
  <2> QED
    BY <2>1, <2>2 DEF Wa!Next
<1> QED
  BY <1>1, <1>2, WalletInvariance, PTL DEF Wa!Spec

\* Money comes back only for a payment that took it, and of two refunds of one payment
\* only one pays, unless both passed the check before either was recorded or one of them
\* was cut off between its money and its record.
THEOREM RefundsCorrect ==
  ASSUME Wa!WalletAssumption
  PROVE  Wa!Spec => []Wa!RefundsArePaid
<1>1. WalletInv /\ RefundInv => Wa!RefundsArePaid
  <2> SUFFICES ASSUME WalletInv, RefundInv
               PROVE  Wa!RefundsArePaid
    OBVIOUS
  <2>1. ASSUME NEW c \in Calls, Wa!PaidBack(c)
        PROVE  moved[req[c].of] = -req[c].amt
    <3>1. PICK d \in Calls :
            /\ d = req[c].of /\ payment[d] \in {"COMPLETED", "REFUNDED"}
            /\ req[d].amt = req[c].amt
      BY <2>1 DEF WalletInv, WalletCallShape, RefundShape, Wa!PaidBack
    <3>2. req[d].kind = "pay" /\ at[d] = "done"
      BY <3>1 DEF WalletInv, WalletCallShape, BegunShape, PayShape
    <3> QED
      BY <3>1, <3>2 DEF WalletInv, WalletCallShape, PayShape
  <2>2. ASSUME NEW c \in Calls, NEW d \in Calls, c # d, Wa!PaidBack(c), Wa!PaidBack(d),
               req[c].of = req[d].of
        PROVE  req[c].of \in doubled \/ c \in disturbed \/ d \in disturbed
    BY <2>2 DEF RefundInv, Wa!PaidBack, Out
  <2> QED
    BY <2>1, <2>2 DEF Wa!RefundsArePaid
<1> QED
  BY <1>1, WalletInvariance, RefundInvariance, PTL

\* A purchase ends with the charge, the licence and the creator's share, or
\* without charge and licence, unless two faults hit it.
THEOREM PurchaseCorrect ==
  ASSUME Wa!WalletAssumption
  PROVE  Wa!Spec => []Wa!PurchaseIsWhole
<1>1. WalletInv => Wa!PurchaseIsWhole
  <2> SUFFICES ASSUME WalletInv, NEW c \in Calls, req[c].kind = "buy", at[c] \in {"done", "failed"}
               PROVE  /\ licence[c] # "none" => moved[c] = -req[c].amt /\ c \in earned
                      /\ licence[c] = "none" /\ faults <= 1 => moved[c] = 0
    BY DEF Wa!PurchaseIsWhole
  <2>1. BuyShape(c) /\ faults \in Nat
    BY DEF WalletInv, WalletCallShape, Wa!TypeOK, Wa!WalletAssumption
  <2> QED
    BY <2>1 DEF BuyShape
<1> QED
  BY <1>1, WalletInvariance, PTL

-----------------------------------------------------------------------------
(* Institutions.                                                            *)

InFlight == {"first", "second", "commit"}

\* A call whose transaction is open works on what its check has seen, unless
\* another one of its kind is open for its institution, or was when it began:
\* nobody else has minted for the institution, or paid out of the account, except
\* that another service may have lowered the account.
FlightInv(t) ==
    window[t] \in InFlight =>
        /\ window[t] = "second" => ~Ba!Mints(t)
        /\ \/ <<Ba!Kind(t), Ba!Bank(t)>> \in both
           \/ /\ \A u \in Ba!Busy \ {t} : <<Ba!Kind(u), Ba!Bank(u)>> # <<Ba!Kind(t), Ba!Bank(t)>>
              /\ Ba!Mints(t) => total[t] = minted[Ba!Bank(t)] + Ba!Worth(t) /\ total[t] <= IssueCap
              /\ ~Ba!Mints(t) => holding[Ba!Bank(t)] >= Ba!Worth(t) \/ Ba!Bank(t) \in crossed

\* What another service has read of an account is no debt either.
SeenInv ==
    \A k \in seen : k.balance >= 0 \/ <<"settle", k.account>> \in both \/ k.account \in crossed

BankInv ==
    /\ Ba!TypeOK /\ Ba!MintedWithinCap /\ Ba!NotOverdrawn /\ SeenInv
    /\ \A t \in Tellers : FlightInv(t)
-----------------------------------------------------------------------------
(* What requests and fees are.                                              *)

\* The request of a call is one of its menu.
LEMMA ErrandTypes ==
  ASSUME Ba!InstitutionAssumption, Ba!TypeOK, NEW t \in Tellers
  PROVE  /\ Ba!Bank(t) \in Banks /\ Ba!Worth(t) \in Nat \ {0} /\ t # Nobody
         /\ errand[t].to \in Banks \cup {Nobody} /\ errand[t].to # Ba!Bank(t)
         /\ Ba!Mints(t) \in BOOLEAN /\ Ba!Kind(t) \in {"issue", "settle"}
         /\ Ba!Mints(t) <=> Ba!Kind(t) = "issue"
  BY DEF Ba!InstitutionAssumption, Ba!TypeOK, Ba!Bank, Ba!Worth, Ba!Mints, Ba!Kind

\* A fee is never more than the amount.
LEMMA FeeBounds ==
  ASSUME Ba!InstitutionAssumption, NEW a \in Nat
  PROVE  Ba!Fee(a) \in Nat /\ Ba!Fee(a) <= a
<1>1. FeePer \in Nat \ {0}
  BY DEF Ba!InstitutionAssumption
<1>2. \A d \in Nat \ {0} : a \div d \in Nat /\ a \div d <= a
  OBVIOUS
<1> QED
  BY <1>1, <1>2 DEF Ba!Fee

\* A transaction takes only from the account that pays, and its amount.
LEMMA ShareIs ==
  ASSUME Ba!InstitutionAssumption, Ba!TypeOK, NEW t \in Tellers, NEW b \in Banks
  PROVE  /\ Ba!Share(t, b) \in Int
         /\ b = Ba!Bank(t) => Ba!Share(t, b) = IF Ba!Mints(t) THEN Ba!Worth(t) ELSE -Ba!Worth(t)
         /\ b = errand[t].to => Ba!Share(t, b) = Ba!Worth(t) - Ba!Fee(Ba!Worth(t))
         /\ b # Ba!Bank(t) /\ b # errand[t].to => Ba!Share(t, b) = 0
         /\ Ba!Share(t, b) >= 0 \/ (b = Ba!Bank(t) /\ ~Ba!Mints(t))
<1>1. /\ Ba!Worth(t) \in Nat \ {0} /\ Ba!Fee(Ba!Worth(t)) \in Nat
           /\ Ba!Fee(Ba!Worth(t)) <= Ba!Worth(t)
      /\ errand[t].to # Ba!Bank(t) /\ Ba!Mints(t) \in BOOLEAN
  BY ErrandTypes, FeeBounds
<1> QED
  BY <1>1 DEF Ba!Share

-----------------------------------------------------------------------------
(* The steps.                                                               *)

\* A step in which no account falls, nothing is minted and no call begins keeps
\* what open transactions rely on.
LEMMA QuietBankInv ==
  ASSUME Ba!InstitutionAssumption, BankInv, Ba!TypeOK',
         UNCHANGED <<holding, minted, issued, both, total, crossed>>, SeenInv',
         \A t \in Tellers : window'[t] \in InFlight =>
            /\ window[t] \in InFlight /\ errand'[t] = errand[t]
            /\ window'[t] = "second" => ~Ba!Mints(t)
  PROVE  BankInv'
<1>1. Ba!MintedWithinCap' /\ Ba!NotOverdrawn'
  BY DEF BankInv, Ba!MintedWithinCap, Ba!NotOverdrawn
<1>2. ASSUME NEW t \in Tellers PROVE FlightInv(t)'
  <2> SUFFICES ASSUME window'[t] \in InFlight PROVE FlightInv(t)'
    BY DEF FlightInv
  <2>1. /\ FlightInv(t) /\ window[t] \in InFlight /\ errand'[t] = errand[t]
        /\ window'[t] = "second" => ~Ba!Mints(t)
    BY DEF BankInv
  <2>2. \A u \in Ba!Busy' : u \in Ba!Busy /\ errand'[u] = errand[u]
    BY DEF Ba!Busy, InFlight
  <2> QED
    BY <2>1, <2>2 DEF FlightInv, Ba!Mints, Ba!Kind, Ba!Bank, Ba!Worth
<1> QED
  BY <1>1, <1>2 DEF BankInv

\* A call that passes its check has seen everything that was minted or held, or
\* is recorded as meeting another.
LEMMA CheckBankInv ==
  ASSUME Ba!InstitutionAssumption, BankInv, Ba!TypeOK', NEW t \in Tellers,
         window[t] = "check", window' = [window EXCEPT ![t] = "first"], Ba!Meets(t),
         UNCHANGED <<holding, minted, issued, errand, seen, crossed>>,
         \A u \in Tellers \ {t} : total'[u] = total[u],
         Ba!Mints(t) => total'[t] = minted[Ba!Bank(t)] + Ba!Worth(t) /\ total'[t] <= IssueCap,
         ~Ba!Mints(t) => holding[Ba!Bank(t)] >= Ba!Worth(t)
  PROVE  BankInv'
<1>1. both \subseteq both'
  BY DEF Ba!Meets
<1>2. Ba!MintedWithinCap' /\ Ba!NotOverdrawn' /\ SeenInv'
  BY <1>1 DEF BankInv, Ba!MintedWithinCap, Ba!NotOverdrawn, SeenInv
<1>3. /\ window'[t] = "first" /\ \A u \in Tellers \ {t} : window'[u] = window[u]
      /\ t \notin Ba!Busy /\ Ba!Busy' = Ba!Busy \cup {t}
  BY DEF BankInv, Ba!TypeOK, Ba!Busy
<1>4. FlightInv(t)'
  <2>1. \/ <<Ba!Kind(t), Ba!Bank(t)>> \in both'
        \/ \A u \in Ba!Busy \ {t} : <<Ba!Kind(u), Ba!Bank(u)>> # <<Ba!Kind(t), Ba!Bank(t)>>
    BY DEF Ba!Meets
  <2> QED
    BY <1>3, <2>1 DEF FlightInv, Ba!Mints, Ba!Kind, Ba!Bank, Ba!Worth
<1>5. ASSUME NEW u \in Tellers \ {t} PROVE FlightInv(u)'
  <2> SUFFICES ASSUME window'[u] \in InFlight PROVE FlightInv(u)'
    BY DEF FlightInv
  <2>1. FlightInv(u) /\ window[u] \in InFlight /\ window'[u] = window[u] /\ u \in Ba!Busy
    BY <1>3 DEF BankInv, Ba!Busy, InFlight
  <2>2. <<Ba!Kind(t), Ba!Bank(t)>> = <<Ba!Kind(u), Ba!Bank(u)>> =>
          <<Ba!Kind(u), Ba!Bank(u)>> \in both'
    BY <2>1 DEF Ba!Meets
  <2> QED
    BY <1>1, <1>3, <2>1, <2>2 DEF FlightInv, Ba!Mints, Ba!Kind, Ba!Bank, Ba!Worth
<1> QED
  BY <1>2, <1>4, <1>5 DEF BankInv

\* A commit changes nothing that another open call of the same kind and
\* institution relies on, unless the two have met.
LEMMA CommitBankInv ==
  ASSUME Ba!InstitutionAssumption, BankInv, NEW t \in Tellers, Ba!Commit(t)
  PROVE  BankInv'
<1>1. /\ window[t] = "commit" /\ window' = [window EXCEPT ![t] = "done"]
      /\ holding' = [b \in Banks |-> holding[b] + Ba!Share(t, b)]
      /\ UNCHANGED <<errand, total, both, seen, crossed, dealt, stale, deals>>
      /\ Ba!TypeOK /\ FlightInv(t)
  BY DEF Ba!Commit, Ba!Go, Ba!outside, BankInv
<1>2. /\ Ba!Bank(t) \in Banks /\ Ba!Worth(t) \in Nat \ {0} /\ Ba!Mints(t) \in BOOLEAN
      /\ Ba!Fee(Ba!Worth(t)) \in Nat
      /\ \A b \in Banks : /\ Ba!Share(t, b) \in Int
                          /\ Ba!Share(t, b) >= 0 \/ (b = Ba!Bank(t) /\ ~Ba!Mints(t))
      /\ ~Ba!Mints(t) => Ba!Share(t, Ba!Bank(t)) = -Ba!Worth(t)
  BY <1>1, ErrandTypes, ShareIs, FeeBounds
<1>3. \A b \in Banks :
        /\ minted'[b] = IF Ba!Mints(t) /\ b = Ba!Bank(t) THEN total[t] ELSE minted[b]
        /\ issued'[b] = IF Ba!Mints(t) /\ b = Ba!Bank(t)
                        THEN issued[b] + Ba!Worth(t) ELSE issued[b]
  BY <1>1, <1>2 DEF Ba!Commit, Ba!TypeOK
<1>4. \A b \in Banks :
        /\ holding[b] \in Int /\ holding'[b] \in Int
        /\ holding'[b] >= holding[b] \/ (b = Ba!Bank(t) /\ ~Ba!Mints(t))
        /\ ~Ba!Mints(t) /\ b = Ba!Bank(t) => holding'[b] = holding[b] - Ba!Worth(t)
  BY <1>1, <1>2 DEF Ba!TypeOK
<1>5. Ba!TypeOK'
  <2>1. holding' \in [Banks -> Int] /\ journal' \in [Banks -> Int]
    BY <1>1, <1>2 DEF Ba!Commit, Ba!TypeOK
  <2>2. minted' \in [Banks -> Nat] /\ issued' \in [Banks -> Nat] /\ fee' \in Nat
    BY <1>1, <1>2 DEF Ba!Commit, Ba!TypeOK
  <2>3. owner' \in [Banks -> Tellers \cup {Nobody}]
    BY <1>1 DEF Ba!Commit, Ba!Unlock, Ba!TypeOK
  <2> QED
    BY <1>1, <2>1, <2>2, <2>3 DEF Ba!Commit, Ba!TypeOK, Ba!Closed
<1>6. /\ \A u \in Tellers \ {t} : window'[u] = window[u]
      /\ window'[t] = "done" /\ t \in Ba!Busy /\ Ba!Busy' = Ba!Busy \ {t}
  BY <1>1 DEF Ba!TypeOK, Ba!Busy
<1>7. Ba!MintedWithinCap'
  <2> SUFFICES ASSUME NEW b \in Banks, <<"issue", b>> \notin both
               PROVE  minted'[b] = issued'[b] /\ minted'[b] <= IssueCap
    BY <1>1 DEF Ba!MintedWithinCap
  <2>1. minted[b] = issued[b] /\ minted[b] <= IssueCap
    BY DEF BankInv, Ba!MintedWithinCap
  <2>2. CASE Ba!Mints(t) /\ b = Ba!Bank(t)
    BY <1>1, <1>3, <2>1, <2>2 DEF FlightInv, InFlight, Ba!Kind
  <2>3. CASE ~(Ba!Mints(t) /\ b = Ba!Bank(t))
    BY <1>3, <2>1, <2>3
  <2> QED
    BY <2>2, <2>3
<1>8. Ba!NotOverdrawn'
  <2> SUFFICES ASSUME NEW b \in Banks, <<"settle", b>> \notin both, b \notin crossed
               PROVE  holding'[b] >= 0
    BY <1>1 DEF Ba!NotOverdrawn
  <2>1. holding[b] >= 0
    BY DEF BankInv, Ba!NotOverdrawn
  <2>2. CASE ~Ba!Mints(t) /\ b = Ba!Bank(t)
    BY <1>1, <1>2, <1>4, <2>1, <2>2 DEF FlightInv, InFlight, Ba!Kind
  <2>3. CASE ~(~Ba!Mints(t) /\ b = Ba!Bank(t))
    BY <1>4, <2>1, <2>3
  <2> QED
    BY <2>2, <2>3
<1>9. ASSUME NEW u \in Tellers PROVE FlightInv(u)'
  <2> SUFFICES ASSUME window'[u] \in InFlight PROVE FlightInv(u)'
    BY DEF FlightInv
  <2>1. u # t /\ window[u] \in InFlight /\ window'[u] = window[u] /\ FlightInv(u) /\ u \in Ba!Busy
    BY <1>6 DEF InFlight, BankInv, Ba!Busy
  <2>2. Ba!Bank(u) \in Banks /\ Ba!Worth(u) \in Nat \ {0}
    BY <1>1, ErrandTypes
  <2>3. CASE <<Ba!Kind(u), Ba!Bank(u)>> \in both
    BY <1>1, <2>1, <2>3 DEF FlightInv, Ba!Mints, Ba!Kind, Ba!Bank, Ba!Worth
  <2>4. CASE <<Ba!Kind(u), Ba!Bank(u)>> \notin both
    <3>1. /\ <<Ba!Kind(t), Ba!Bank(t)>> # <<Ba!Kind(u), Ba!Bank(u)>>
          /\ \A v \in Ba!Busy \ {u} : <<Ba!Kind(v), Ba!Bank(v)>> # <<Ba!Kind(u), Ba!Bank(u)>>
          /\ window[u] = "second" => ~Ba!Mints(u)
          /\ Ba!Mints(u) => total[u] = minted[Ba!Bank(u)] + Ba!Worth(u) /\ total[u] <= IssueCap
          /\ ~Ba!Mints(u) => holding[Ba!Bank(u)] >= Ba!Worth(u) \/ Ba!Bank(u) \in crossed
      BY <1>6, <2>1, <2>4 DEF FlightInv
    <3>2. Ba!Mints(u) => minted'[Ba!Bank(u)] = minted[Ba!Bank(u)]
      BY <1>3, <2>2, <3>1 DEF Ba!Kind
    <3>3. ~Ba!Mints(u) => holding'[Ba!Bank(u)] >= holding[Ba!Bank(u)]
      BY <1>4, <2>2, <3>1 DEF Ba!Kind
    <3>4. ~Ba!Mints(u) => holding'[Ba!Bank(u)] >= Ba!Worth(u) \/ Ba!Bank(u) \in crossed
      BY <1>4, <2>2, <3>1, <3>3
    <3> QED
      BY <1>1, <1>6, <2>1, <3>1, <3>2, <3>4 DEF FlightInv, Ba!Mints, Ba!Kind, Ba!Bank, Ba!Worth
  <2> QED
    BY <2>3, <2>4
<1>10. SeenInv'
  BY <1>1 DEF BankInv, SeenInv
<1> QED
  BY <1>5, <1>7, <1>8, <1>9, <1>10 DEF BankInv

\* Another service saves an account: it pays from what it has seen, and whoever
\* relies on the account is told when it falls.
LEMMA SaveBankInv ==
  ASSUME Ba!InstitutionAssumption, BankInv, NEW k \in seen, NEW a \in Deals,
         Ba!SaveAccount(k, a)
  PROVE  BankInv'
<1> DEFINE b == k.account
           n == k.balance + a
<1>1. /\ b \in Banks /\ k.balance \in Int /\ a \in Int /\ n \in Int /\ Ba!TypeOK
      /\ a < 0 => n >= 0
      /\ holding' = [holding EXCEPT ![b] = n] /\ seen' = seen \ {k}
      /\ dealt' = [dealt EXCEPT ![b] = dealt[b] + a]
      /\ stale' \subseteq stale \cup {b}
      /\ crossed' = IF Ba!Settling(b) /\ n < holding[b] THEN crossed \cup {b} ELSE crossed
      /\ UNCHANGED <<minted, approved, owner, window, errand, total, deals, Ba!bankHist>>
  BY DEF BankInv, Ba!TypeOK, Ba!SaveAccount, Ba!InstitutionAssumption
<1>d. k.account = b
  OBVIOUS
<1>e. n = k.balance + a
  OBVIOUS
<1> HIDE DEF b, n
<1>2. /\ UNCHANGED <<minted, approved, owner, window, errand, total, deals>>
      /\ UNCHANGED <<journal, issued, fee, both, slips>>
      /\ holding'[b] = n /\ holding[b] \in Int
      /\ \A x \in Banks \ {b} : holding'[x] = holding[x]
  BY <1>1 DEF Ba!bankHist, Ba!TypeOK
<1>3. Ba!TypeOK'
  <2>1. holding' \in [Banks -> Int] /\ dealt' \in [Banks -> Int]
    BY <1>1 DEF Ba!TypeOK
  <2>2. seen' \subseteq [account : Banks, balance : Int, deal : Nat]
        /\ stale' \subseteq Banks /\ crossed' \subseteq Banks
    BY <1>1 DEF Ba!TypeOK
  <2> QED
    BY <1>1, <1>2, <2>1, <2>2 DEF Ba!TypeOK
<1>4. Ba!MintedWithinCap' /\ SeenInv'
  BY <1>1, <1>2 DEF BankInv, Ba!MintedWithinCap, SeenInv
<1>5. Ba!NotOverdrawn'
  <2> SUFFICES ASSUME NEW x \in Banks, <<"settle", x>> \notin both, x \notin crossed'
               PROVE  holding'[x] >= 0
    BY <1>2 DEF Ba!NotOverdrawn
  <2>1. holding[x] >= 0 /\ x \notin crossed
    BY <1>1 DEF BankInv, Ba!NotOverdrawn
  <2>2. CASE x = b
    <3>1. k.balance >= 0
      BY <1>d, <2>1, <2>2 DEF BankInv, SeenInv
    <3>2. n >= 0
      BY <1>1, <1>e, <3>1
    <3> QED
      BY <1>2, <2>2, <3>2
  <2>3. CASE x # b
    BY <1>2, <2>1, <2>3
  <2> QED
    BY <2>2, <2>3
<1>6. ASSUME NEW t \in Tellers PROVE FlightInv(t)'
  <2> SUFFICES ASSUME window'[t] \in InFlight PROVE FlightInv(t)'
    BY DEF FlightInv
  <2>1. FlightInv(t) /\ window[t] \in InFlight /\ t \in Ba!Busy /\ Ba!Busy' = Ba!Busy
        /\ Ba!Bank(t) \in Banks /\ Ba!Worth(t) \in Nat \ {0}
    BY <1>1, <1>2, ErrandTypes DEF BankInv, Ba!Busy, InFlight
  <2>2. /\ \A u \in Tellers : /\ Ba!Mints(u)' = Ba!Mints(u) /\ Ba!Kind(u)' = Ba!Kind(u)
                               /\ Ba!Bank(u)' = Ba!Bank(u) /\ Ba!Worth(u)' = Ba!Worth(u)
    BY <1>2 DEF Ba!Mints, Ba!Kind, Ba!Bank, Ba!Worth
  <2>3. ~Ba!Mints(t) /\ (holding[Ba!Bank(t)] >= Ba!Worth(t) \/ Ba!Bank(t) \in crossed) =>
           holding'[Ba!Bank(t)] >= Ba!Worth(t) \/ Ba!Bank(t) \in crossed'
    <3>1. CASE Ba!Bank(t) = b
      BY <1>1, <1>2, <2>1, <3>1 DEF Ba!Settling
    <3>2. CASE Ba!Bank(t) # b
      BY <1>1, <1>2, <2>1, <3>2
    <3> QED
      BY <3>1, <3>2
  <2>4. Ba!Busy \subseteq Tellers
    BY DEF Ba!Busy
  <2> QED
    BY <1>2, <2>1, <2>2, <2>3, <2>4 DEF FlightInv
<1> QED
  BY <1>3, <1>4, <1>5, <1>6 DEF BankInv

\* Every step preserves the invariant.
LEMMA NextBankInv ==
  ASSUME Ba!InstitutionAssumption, BankInv, [Ba!Next]_Ba!bankVars
  PROVE  BankInv'
<1>0. Ba!TypeOK
  BY DEF BankInv
<1>1. CASE UNCHANGED Ba!bankVars
  <2>1. Ba!TypeOK'
    BY <1>0, <1>1 DEF Ba!bankVars, Ba!bankHist, Ba!outside, Ba!TypeOK
  <2> QED
    BY <1>1, <2>1, QuietBankInv DEF Ba!bankVars, Ba!bankHist, Ba!outside, BankInv, SeenInv, FlightInv
<1>2. ASSUME NEW b \in Banks, Ba!Approve(b)
      PROVE  BankInv'
  <2>1. Ba!TypeOK'
    BY <1>0, <1>2 DEF Ba!Approve, Ba!bankHist, Ba!outside, Ba!TypeOK
  <2> QED
    BY <1>2, <2>1, QuietBankInv DEF Ba!Approve, Ba!bankHist, Ba!outside, BankInv, SeenInv, FlightInv
<1>3. ASSUME NEW t \in Tellers, Ba!Begin(t)
      PROVE  BankInv'
  <2>1. Ba!TypeOK'
    BY <1>0, <1>3 DEF Ba!Begin, Ba!Go, Ba!bankHist, Ba!outside, Ba!TypeOK
  <2>2. window[t] = "idle" /\ window' = [window EXCEPT ![t] = "check"]
        /\ UNCHANGED <<holding, minted, issued, both, total, seen, crossed>>
    BY <1>3 DEF Ba!Begin, Ba!Go, Ba!bankHist, Ba!outside
  <2>3. \A u \in Tellers \ {t} : errand'[u] = errand[u]
    BY <1>0, <1>3 DEF Ba!Begin, Ba!TypeOK
  <2>4. ASSUME NEW u \in Tellers, window'[u] \in InFlight
        PROVE  u # t /\ window'[u] = window[u]
    BY <1>0, <2>2, <2>4 DEF InFlight, Ba!TypeOK
  <2> QED
    BY <2>1, <2>2, <2>3, <2>4, QuietBankInv DEF BankInv, SeenInv, FlightInv
<1>4. ASSUME NEW t \in Tellers, Ba!CheckIssue(t)
      PROVE  BankInv'
  <2>0. Ba!Bank(t) \in Banks /\ Ba!Worth(t) \in Nat \ {0} /\ Ba!Kind(t) \in {"issue", "settle"}
    BY <1>0, ErrandTypes
  <2>1. Ba!TypeOK'
    BY <1>0, <1>4, <2>0 DEF Ba!CheckIssue, Ba!Go, Ba!Meets, Ba!outside, Ba!TypeOK, Ba!Closed
  <2>2. CASE Ba!Bank(t) \in approved /\ Ba!WithinCap(Ba!Bank(t), Ba!Worth(t))
    <3>1. total'[t] = minted[Ba!Bank(t)] + Ba!Worth(t) /\ total'[t] <= IssueCap
          /\ \A u \in Tellers \ {t} : total'[u] = total[u]
      BY <1>0, <1>4, <2>2 DEF Ba!CheckIssue, Ba!WithinCap, Ba!TypeOK
    <3> QED
      BY <1>4, <2>1, <2>2, <3>1, CheckBankInv DEF Ba!CheckIssue, Ba!Go, Ba!outside
  <2>3. CASE ~(Ba!Bank(t) \in approved /\ Ba!WithinCap(Ba!Bank(t), Ba!Worth(t)))
    BY <1>0, <1>4, <2>1, <2>3, QuietBankInv DEF Ba!CheckIssue, Ba!Go, Ba!outside, BankInv, SeenInv,
         FlightInv, InFlight, Ba!TypeOK
  <2> QED
    BY <2>2, <2>3
<1>5. ASSUME NEW t \in Tellers, Ba!CheckSettlement(t)
      PROVE  BankInv'
  <2>0. Ba!Bank(t) \in Banks /\ Ba!Kind(t) \in {"issue", "settle"}
    BY <1>0, ErrandTypes
  <2>1. Ba!TypeOK'
    BY <1>0, <1>5, <2>0 DEF Ba!CheckSettlement, Ba!Go, Ba!Meets, Ba!outside, Ba!TypeOK, Ba!Closed
  <2>2. CASE Ba!Covers(Ba!Bank(t), Ba!Worth(t))
    BY <1>5, <2>1, <2>2, CheckBankInv DEF Ba!CheckSettlement, Ba!Covers, Ba!Go, Ba!outside
  <2>3. CASE ~Ba!Covers(Ba!Bank(t), Ba!Worth(t))
    BY <1>0, <1>5, <2>1, <2>3, QuietBankInv DEF Ba!CheckSettlement, Ba!Go, Ba!outside, BankInv,
         SeenInv, FlightInv, InFlight, Ba!TypeOK
  <2> QED
    BY <1>5, <2>2, <2>3 DEF Ba!CheckSettlement
<1>6. ASSUME NEW t \in Tellers, Ba!UpdateSource(t) \/ Ba!UpdateTarget(t)
      PROVE  BankInv'
  <2>1. Ba!TypeOK'
    BY <1>0, <1>6 DEF Ba!UpdateSource, Ba!UpdateTarget, Ba!LockRow, Ba!Go, Ba!bankHist, Ba!outside,
         Ba!TypeOK, Ba!Closed
  <2>2. ASSUME NEW u \in Tellers, window'[u] \in InFlight
        PROVE  window[u] \in InFlight /\ (window'[u] = "second" => ~Ba!Mints(u))
    <3>1. CASE u = t
      BY <1>0, <1>6, <3>1 DEF Ba!UpdateSource, Ba!UpdateTarget, Ba!Go, InFlight, Ba!TypeOK
    <3>2. CASE u # t
      <4>1. window'[u] = window[u]
        BY <1>0, <1>6, <3>2 DEF Ba!UpdateSource, Ba!UpdateTarget, Ba!Go, Ba!TypeOK
      <4> QED
        BY <2>2, <4>1 DEF BankInv, FlightInv
    <3> QED
      BY <3>1, <3>2
  <2> QED
    BY <1>6, <2>1, <2>2, QuietBankInv
       DEF Ba!UpdateSource, Ba!UpdateTarget, Ba!bankHist, Ba!outside, BankInv, SeenInv
<1>7. ASSUME NEW t \in Tellers, Ba!Rollback(t)
      PROVE  BankInv'
  <2>1. Ba!TypeOK'
    BY <1>0, <1>7 DEF Ba!Rollback, Ba!Unlock, Ba!Go, Ba!outside, Ba!TypeOK, Ba!Closed
  <2> QED
    <3>1. /\ window' = [window EXCEPT ![t] = "failed"]
          /\ UNCHANGED <<holding, minted, issued, both, total, errand, seen, crossed>>
      BY <1>7 DEF Ba!Rollback, Ba!Go, Ba!outside
    <3>2. ASSUME NEW u \in Tellers, window'[u] \in InFlight
          PROVE  u # t /\ window'[u] = window[u]
      BY <1>0, <3>1, <3>2 DEF InFlight, Ba!TypeOK
    <3> QED
      BY <2>1, <3>1, <3>2, QuietBankInv DEF BankInv, SeenInv, FlightInv
<1>8. ASSUME NEW b \in Banks, Ba!ReadAccount(b)
      PROVE  BankInv'
  <2>1. deals \in Nat /\ deals < MaxDeals /\ deals' = deals + 1 /\ deals' \in 0..MaxDeals
        /\ holding[b] \in Int
        /\ seen' = seen \cup {[account |-> b, balance |-> holding[b], deal |-> deals]}
    BY <1>0, <1>8 DEF Ba!ReadAccount, Ba!TypeOK, Ba!InstitutionAssumption
  <2>2. Ba!TypeOK'
    BY <1>0, <1>8, <2>1 DEF Ba!ReadAccount, Ba!bankHist, Ba!TypeOK
  <2>3. SeenInv'
    <3>1. UNCHANGED <<both, crossed>>
      BY <1>8 DEF Ba!ReadAccount, Ba!bankHist
    <3>2. holding[b] >= 0 \/ <<"settle", b>> \in both \/ b \in crossed
      BY DEF BankInv, Ba!NotOverdrawn
    <3>3. ASSUME NEW k \in seen'
          PROVE  k.balance >= 0 \/ <<"settle", k.account>> \in both \/ k.account \in crossed
      <4>1. CASE k \in seen
        BY <4>1 DEF BankInv, SeenInv
      <4>2. CASE k = [account |-> b, balance |-> holding[b], deal |-> deals]
        BY <3>2, <4>2
      <4> QED
        BY <2>1, <3>3, <4>1, <4>2
    <3> QED
      BY <3>1, <3>3 DEF SeenInv
  <2> QED
    BY <1>8, <2>2, <2>3, QuietBankInv DEF Ba!ReadAccount, Ba!bankHist, BankInv, FlightInv
<1>9. ASSUME NEW b \in Banks, Ba!ReviewAccount(b)
      PROVE  BankInv'
  <2>1. /\ deals \in Nat /\ deals < MaxDeals /\ deals' = deals + 1 /\ deals' \in 0..MaxDeals
        /\ crossed' = crossed \cup {b} /\ stale' = stale \cup {b}
        /\ UNCHANGED <<minted, approved, owner, window, errand, total, seen, dealt>>
        /\ UNCHANGED <<journal, issued, fee, both, slips>>
    BY <1>0, <1>9 DEF Ba!ReviewAccount, Ba!bankHist, Ba!TypeOK, Ba!InstitutionAssumption
  <2>2. holding' \in [Banks -> Int] /\ \A x \in Banks \ {b} : holding'[x] = holding[x]
    BY <1>0, <1>9 DEF Ba!ReviewAccount, Ba!TypeOK, Ba!InstitutionAssumption
  <2>3. Ba!TypeOK'
    BY <1>0, <2>1, <2>2 DEF Ba!TypeOK
  <2>4. Ba!MintedWithinCap' /\ SeenInv' /\ Ba!NotOverdrawn'
    BY <2>1, <2>2 DEF BankInv, Ba!MintedWithinCap, SeenInv, Ba!NotOverdrawn
  <2>5. ASSUME NEW t \in Tellers PROVE FlightInv(t)'
    <3>1. FlightInv(t) /\ (window[t] \in InFlight => Ba!Bank(t) \in Banks)
      BY <1>0, ErrandTypes DEF BankInv
    <3>2. /\ Ba!Busy' = Ba!Busy
          /\ \A u \in Tellers : /\ Ba!Mints(u)' = Ba!Mints(u) /\ Ba!Kind(u)' = Ba!Kind(u)
                                 /\ Ba!Bank(u)' = Ba!Bank(u) /\ Ba!Worth(u)' = Ba!Worth(u)
      BY <2>1 DEF Ba!Busy, Ba!Mints, Ba!Kind, Ba!Bank, Ba!Worth
    <3>3. Ba!Busy \subseteq Tellers
      BY DEF Ba!Busy
    <3> QED
      BY <2>1, <2>2, <3>1, <3>2, <3>3 DEF FlightInv
  <2> QED
    BY <2>3, <2>4, <2>5 DEF BankInv
<1> QED
  BY <1>1, <1>2, <1>3, <1>4, <1>5, <1>6, <1>7, <1>8, <1>9, CommitBankInv,
     SaveBankInv
     DEF Ba!Next, Ba!Step

\* The invariant holds of every behaviour of the institutions.
LEMMA BankInvariance ==
  ASSUME Ba!InstitutionAssumption
  PROVE  Ba!Spec => []BankInv
<1>1. Ba!Init => BankInv
  BY DEF Ba!Init, BankInv, Ba!TypeOK, Ba!MintedWithinCap, Ba!NotOverdrawn, SeenInv, FlightInv,
       InFlight, Ba!Closed, Ba!InstitutionAssumption
<1>2. BankInv /\ [Ba!Next]_Ba!bankVars => BankInv'
  BY NextBankInv
<1> QED
  BY <1>1, <1>2, PTL DEF Ba!Spec

\* Every state of the institutions is of its type.
THEOREM BankTypes ==
  ASSUME Ba!InstitutionAssumption
  PROVE  Ba!Spec => []Ba!TypeOK
<1>1. BankInv => Ba!TypeOK
  BY DEF BankInv
<1> QED
  BY <1>1, BankInvariance, PTL

\* The minted supply of an institution is what was issued, and within its cap,
\* although the check reads it before the transaction, unless two issues of the
\* institution were in flight at once.
THEOREM CapCorrect ==
  ASSUME Ba!InstitutionAssumption
  PROVE  Ba!Spec => []Ba!MintedWithinCap
<1>1. BankInv => Ba!MintedWithinCap
  BY DEF BankInv
<1> QED
  BY <1>1, BankInvariance, PTL

\* No account is overdrawn, although a settlement checks it before its
\* transaction and other services save balances of their own, unless two settlements
\* were in flight from it at once, another service lowered it in between, or an approval
\* by hand wrote it.
THEOREM CoverCorrect ==
  ASSUME Ba!InstitutionAssumption
  PROVE  Ba!Spec => []Ba!NotOverdrawn
<1>1. BankInv => Ba!NotOverdrawn
  BY DEF BankInv
<1> QED
  BY <1>1, BankInvariance, PTL

-----------------------------------------------------------------------------
(* The books.                                                               *)

\* Two entries change a sum by what they change themselves.
LEMMA SumTwo ==
  ASSUME NEW f, NEW g, NEW S, IsFiniteSet(S), NEW x \in S, NEW y \in S \ {x},
         \A z \in S : f[z] \in Int /\ g[z] \in Int,
         \A z \in S \ {x, y} : g[z] = f[z]
  PROVE  SumFunctionOnSet(g, S) = SumFunctionOnSet(f, S) - f[x] + g[x] - f[y] + g[y]
<1> DEFINE h == [z \in S |-> IF z = x THEN g[z] ELSE f[z]]
<1>1. /\ \A z \in S : h[z] \in Int
      /\ \A z \in S \ {x} : h[z] = f[z]
      /\ \A z \in S \ {y} : g[z] = h[z]
      /\ h[x] = g[x] /\ h[y] = f[y]
  OBVIOUS
<1> HIDE DEF h
<1>2. SumFunctionOnSet(h, S) = SumFunctionOnSet(f, S) - f[x] + h[x]
  BY <1>1, SumUpdate
<1>3. SumFunctionOnSet(g, S) = SumFunctionOnSet(h, S) - h[y] + g[y]
  BY <1>1, SumUpdate
<1>4. SumFunctionOnSet(f, S) \in Int /\ f[x] \in Int /\ f[y] \in Int /\ g[x] \in Int /\ g[y] \in Int
  BY SumInt
<1> QED
  BY <1>1, <1>2, <1>3, <1>4

\* The instance's finite sets and sums are those of the lemmas.
LEMMA BankLibrary ==
  /\ \A S : Ba!IsFiniteSet(S) <=> IsFiniteSet(S)
  /\ \A f, S : Ba!SumFunctionOnSet(f, S) = SumFunctionOnSet(f, S)
BY DEF Ba!IsFiniteSet, IsFiniteSet, Ba!SumFunctionOnSet, SumFunctionOnSet,
       Ba!FoldFunctionOnSet, FoldFunctionOnSet, Ba!MapThenFoldSet, MapThenFoldSet

\* The sums of the books are integers.
LEMMA SumsInt ==
  ASSUME Ba!InstitutionAssumption, Ba!TypeOK
  PROVE  /\ Ba!Sum(holding) \in Int /\ Ba!Sum(issued) \in Int /\ Ba!Sum(Funds) \in Int
         /\ Ba!Sum(dealt) \in Int /\ IsFiniteSet(Banks) /\ fee \in Int
<1>1. /\ IsFiniteSet(Banks)
      /\ \A b \in Banks : /\ holding[b] \in Int /\ issued[b] \in Int
                          /\ Funds[b] \in Int /\ dealt[b] \in Int
  BY BankLibrary DEF Ba!InstitutionAssumption, Ba!TypeOK
<1> QED
  BY <1>1, SumInt, BankLibrary DEF Ba!Sum, Ba!TypeOK

\* A commit moves QP from one account to another and to the fees, or creates as
\* much as it reports issued.
LEMMA CommitConserves ==
  ASSUME Ba!InstitutionAssumption, BankInv, BankInv', Ba!QPIsConserved, NEW t \in Tellers,
         Ba!Commit(t)
  PROVE  Ba!QPIsConserved'
<1>0. /\ Ba!TypeOK /\ Ba!TypeOK' /\ IsFiniteSet(Banks)
      /\ Ba!Sum(holding) \in Int /\ Ba!Sum(issued) \in Int /\ Ba!Sum(Funds) \in Int /\ fee \in Int
      /\ Ba!Sum(dealt) \in Int /\ dealt' = dealt /\ stale' = stale /\ Ba!Sum(dealt)' = Ba!Sum(dealt)
      /\ Ba!Sum(holding) + fee = Ba!Sum(Funds) + Ba!Sum(issued) + Ba!Sum(dealt) \/ stale # {}
  BY SumsInt DEF BankInv, Ba!QPIsConserved, Ba!Commit, Ba!outside, Ba!Sum
<1>1. /\ Ba!Bank(t) \in Banks /\ Ba!Worth(t) \in Nat \ {0} /\ Ba!Mints(t) \in BOOLEAN
      /\ errand[t].to \in Banks \cup {Nobody} /\ errand[t].to # Ba!Bank(t)
      /\ Ba!Fee(Ba!Worth(t)) \in Nat
      /\ \A b \in Banks : Ba!Share(t, b) \in Int
  BY <1>0, ErrandTypes, FeeBounds, ShareIs
<1>2. /\ \A b \in Banks : /\ holding'[b] = holding[b] + Ba!Share(t, b)
                          /\ journal'[b] = journal[b] + Ba!Share(t, b)
      /\ \A b \in Banks : holding[b] \in Int /\ holding'[b] \in Int
      /\ \A b \in Banks : issued[b] \in Int /\ issued'[b] \in Int
      /\ \A b \in Banks : journal[b] \in Int
  BY <1>0 DEF Ba!Commit, Ba!TypeOK
<1>3. ASSUME NEW b \in Banks \ stale' PROVE holding'[b] = Funds[b] + journal'[b] + dealt'[b]
  <2>1. holding[b] = Funds[b] + journal[b] + dealt[b] /\ Funds[b] \in Int /\ dealt[b] \in Int
    BY <1>0 DEF Ba!QPIsConserved, Ba!InstitutionAssumption, Ba!TypeOK
  <2> QED
    BY <1>0, <1>1, <1>2, <2>1
<1>4. CASE Ba!Mints(t)
  <2>1. /\ issued'[Ba!Bank(t)] = issued[Ba!Bank(t)] + Ba!Worth(t) /\ fee' = fee
        /\ \A b \in Banks \ {Ba!Bank(t)} : issued'[b] = issued[b]
    BY <1>0, <1>1, <1>4 DEF Ba!Commit, Ba!TypeOK
  <2>2. /\ holding'[Ba!Bank(t)] = holding[Ba!Bank(t)] + Ba!Worth(t)
        /\ \A b \in Banks \ {Ba!Bank(t)} : holding'[b] = holding[b]
    <3>1. Ba!Share(t, Ba!Bank(t)) = Ba!Worth(t)
            /\ \A b \in Banks \ {Ba!Bank(t)} : Ba!Share(t, b) = 0
      <4>1. errand[t].to \notin Banks
        BY <1>4 DEF Ba!Mints, Ba!InstitutionAssumption
      <4> QED
        BY <1>0, <1>1, <1>4, <4>1, ShareIs
    <3> QED
      BY <1>1, <1>2, <3>1
  <2>3. SumFunctionOnSet(holding', Banks)
          = SumFunctionOnSet(holding, Banks) - holding[Ba!Bank(t)] + holding'[Ba!Bank(t)]
    BY <1>0, <1>1, <1>2, <2>2, SumUpdate
  <2>4. SumFunctionOnSet(issued', Banks)
          = SumFunctionOnSet(issued, Banks) - issued[Ba!Bank(t)] + issued'[Ba!Bank(t)]
    BY <1>0, <1>1, <1>2, <2>1, SumUpdate
  <2>5. Ba!Sum(holding)' = Ba!Sum(holding) + Ba!Worth(t)
          /\ Ba!Sum(issued)' = Ba!Sum(issued) + Ba!Worth(t)
    BY <1>0, <1>1, <1>2, <2>1, <2>2, <2>3, <2>4, BankLibrary DEF Ba!Sum
  <2>6. (Ba!Sum(holding) + fee = Ba!Sum(Funds) + Ba!Sum(issued) + Ba!Sum(dealt) \/ stale # {})'
    BY <1>0, <1>1, <2>1, <2>5 DEF Ba!Sum
  <2> QED
    BY <1>3, <2>6 DEF Ba!QPIsConserved
<1>5. CASE ~Ba!Mints(t)
  <2>1. issued' = issued /\ fee' = fee + Ba!Fee(Ba!Worth(t))
          /\ errand[t].to \in Banks \ {Ba!Bank(t)}
    BY <1>1, <1>5 DEF Ba!Commit, Ba!Mints
  <2>2. /\ holding'[Ba!Bank(t)] = holding[Ba!Bank(t)] - Ba!Worth(t)
        /\ holding'[errand[t].to] = holding[errand[t].to] + Ba!Worth(t) - Ba!Fee(Ba!Worth(t))
        /\ \A b \in Banks \ {Ba!Bank(t), errand[t].to} : holding'[b] = holding[b]
    <3>1. /\ Ba!Share(t, Ba!Bank(t)) = -Ba!Worth(t)
          /\ Ba!Share(t, errand[t].to) = Ba!Worth(t) - Ba!Fee(Ba!Worth(t))
          /\ \A b \in Banks \ {Ba!Bank(t), errand[t].to} : Ba!Share(t, b) = 0
      BY <1>0, <1>1, <1>5, <2>1, ShareIs
    <3> QED
      BY <1>1, <1>2, <2>1, <3>1
  <2>3. SumFunctionOnSet(holding', Banks)
          = SumFunctionOnSet(holding, Banks) - holding[Ba!Bank(t)] + holding'[Ba!Bank(t)]
              - holding[errand[t].to] + holding'[errand[t].to]
    BY <1>0, <1>1, <1>2, <2>1, <2>2, SumTwo
  <2>4. Ba!Sum(holding)' = Ba!Sum(holding) - Ba!Fee(Ba!Worth(t))
    BY <1>0, <1>1, <1>2, <2>1, <2>2, <2>3, BankLibrary DEF Ba!Sum
  <2>5. (Ba!Sum(holding) + fee = Ba!Sum(Funds) + Ba!Sum(issued) + Ba!Sum(dealt) \/ stale # {})'
    BY <1>0, <1>1, <2>1, <2>4 DEF Ba!Sum
  <2> QED
    BY <1>3, <2>5 DEF Ba!QPIsConserved
<1> QED
  BY <1>1, <1>4, <1>5

\* What another service saves from a copy that is current moves the account by its
\* amount; a copy that is out of date marks the account.
LEMMA SaveConserves ==
  ASSUME Ba!InstitutionAssumption, BankInv, BankInv', Ba!QPIsConserved,
         NEW k \in seen, NEW a \in Deals, Ba!SaveAccount(k, a)
  PROVE  Ba!QPIsConserved'
<1> DEFINE b == k.account
<1>1. /\ Ba!TypeOK /\ Ba!TypeOK' /\ IsFiniteSet(Banks) /\ a \in Int /\ b \in Banks
      /\ Ba!Sum(holding) \in Int /\ Ba!Sum(issued) \in Int /\ Ba!Sum(Funds) \in Int
      /\ Ba!Sum(dealt) \in Int /\ fee \in Int
  BY SumsInt DEF BankInv, Ba!TypeOK, Ba!InstitutionAssumption
<1>2. /\ holding' = [holding EXCEPT ![b] = k.balance + a]
      /\ dealt' = [dealt EXCEPT ![b] = dealt[b] + a]
      /\ stale' = IF k.balance # holding[b] THEN stale \cup {b} ELSE stale
      /\ UNCHANGED <<journal, issued, fee>>
  BY DEF Ba!SaveAccount, Ba!bankHist
<1> HIDE DEF b
<1>3. /\ \A x \in Banks : /\ holding[x] \in Int /\ holding'[x] \in Int
                          /\ dealt[x] \in Int /\ dealt'[x] \in Int
                          /\ Funds[x] \in Int /\ journal[x] \in Int
      /\ \A x \in Banks \ {b} : holding'[x] = holding[x] /\ dealt'[x] = dealt[x]
      /\ dealt'[b] = dealt[b] + a
  BY <1>1, <1>2 DEF Ba!TypeOK, Ba!InstitutionAssumption
<1>s. /\ stale \subseteq stale'
      /\ b \notin stale' => holding'[b] = holding[b] + a
  BY <1>1, <1>2 DEF Ba!TypeOK
<1>4. ASSUME NEW x \in Banks, x \notin stale'
      PROVE  holding'[x] = Funds[x] + journal'[x] + dealt'[x]
  <2>1. holding[x] = Funds[x] + journal[x] + dealt[x]
    BY <1>4, <1>s DEF Ba!QPIsConserved
  <2> QED
    BY <1>1, <1>2, <1>3, <1>4, <1>s, <2>1
<1>5. ASSUME stale' = {}
      PROVE  (Ba!Sum(holding) + fee = Ba!Sum(Funds) + Ba!Sum(issued) + Ba!Sum(dealt))'
  <2>1. Ba!Sum(holding) + fee = Ba!Sum(Funds) + Ba!Sum(issued) + Ba!Sum(dealt)
    BY <1>5, <1>s DEF Ba!QPIsConserved
  <2>2. /\ SumFunctionOnSet(holding', Banks)
             = SumFunctionOnSet(holding, Banks) - holding[b] + holding'[b]
        /\ SumFunctionOnSet(dealt', Banks)
             = SumFunctionOnSet(dealt, Banks) - dealt[b] + dealt'[b]
    BY <1>1, <1>3, SumUpdate
  <2>3. Ba!Sum(holding)' = Ba!Sum(holding) + a /\ Ba!Sum(dealt)' = Ba!Sum(dealt) + a
    BY <1>1, <1>3, <1>5, <1>s, <2>2, BankLibrary DEF Ba!Sum
  <2>4. Ba!Sum(issued)' = Ba!Sum(issued) /\ Ba!Sum(Funds)' = Ba!Sum(Funds) /\ fee' = fee
    BY <1>2 DEF Ba!Sum
  <2> QED
    BY <1>1, <2>1, <2>3, <2>4
<1> QED
  BY <1>4, <1>5 DEF Ba!QPIsConserved

\* No other step changes the books.
LEMMA NextConserves ==
  ASSUME Ba!InstitutionAssumption, BankInv, BankInv', Ba!QPIsConserved, [Ba!Next]_Ba!bankVars
  PROVE  Ba!QPIsConserved'
<1>1. CASE UNCHANGED <<holding, journal, issued, fee, dealt, stale>>
  BY <1>1 DEF Ba!QPIsConserved, Ba!Sum
<1>2. ASSUME NEW t \in Tellers,
             Ba!Begin(t) \/ Ba!CheckIssue(t) \/ Ba!CheckSettlement(t) \/ Ba!UpdateSource(t)
                                  \/ Ba!UpdateTarget(t) \/ Ba!Rollback(t)
      PROVE  UNCHANGED <<holding, journal, issued, fee, dealt, stale>>
  BY <1>2 DEF Ba!Begin, Ba!CheckIssue, Ba!CheckSettlement, Ba!UpdateSource, Ba!UpdateTarget,
       Ba!Rollback, Ba!bankHist, Ba!outside
<1>3. (\E b \in Banks : Ba!Approve(b) \/ Ba!ReadAccount(b)) \/ UNCHANGED Ba!bankVars =>
        UNCHANGED <<holding, journal, issued, fee, dealt, stale>>
  BY DEF Ba!Approve, Ba!ReadAccount, Ba!bankVars, Ba!bankHist, Ba!outside
<1>4. ASSUME NEW b \in Banks, Ba!ReviewAccount(b)
      PROVE  Ba!QPIsConserved'
  <2>1. UNCHANGED <<journal, dealt>> /\ stale' = stale \cup {b}
        /\ \A x \in Banks \ {b} : holding'[x] = holding[x]
    BY <1>4 DEF Ba!ReviewAccount, Ba!bankHist, BankInv, Ba!TypeOK
  <2> QED
    BY <2>1 DEF Ba!QPIsConserved
<1> QED
  BY <1>1, <1>2, <1>3, <1>4, CommitConserves, SaveConserves DEF Ba!Next, Ba!Step

\* Every balance is what the account began with, the transactions recorded for it and
\* what other services moved, and all accounts together hold what was there, was
\* issued and was brought by others, less the fees, unless another service saved a
\* copy that was out of date or an approval wrote an account.
THEOREM BooksCorrect ==
  ASSUME Ba!InstitutionAssumption
  PROVE  Ba!Spec => []Ba!QPIsConserved
<1>1. Ba!Init => Ba!QPIsConserved
  <2> SUFFICES ASSUME Ba!Init PROVE Ba!QPIsConserved
    OBVIOUS
  <2>1. \A b \in Banks : holding[b] = Funds[b] + journal[b] + dealt[b]
    BY DEF Ba!Init, Ba!InstitutionAssumption
  <2>2. SumFunctionOnSet(issued, Banks) = 0 /\ SumFunctionOnSet(dealt, Banks) = 0
    BY SumZero, BankLibrary DEF Ba!Init, Ba!InstitutionAssumption
  <2>3. Ba!Sum(Funds) \in Int
    BY SumInt, BankLibrary DEF Ba!Sum, Ba!InstitutionAssumption
  <2> QED
    BY <2>1, <2>2, <2>3, BankLibrary DEF Ba!Init, Ba!QPIsConserved, Ba!Sum
<1>2. BankInv /\ BankInv' /\ Ba!QPIsConserved /\ [Ba!Next]_Ba!bankVars => Ba!QPIsConserved'
  BY NextConserves
<1> QED
  BY <1>1, <1>2, BankInvariance, PTL DEF Ba!Spec

-----------------------------------------------------------------------------
(* Payments of providers.                                                   *)

FirstAccount(t) == Pr!ResolveAccount(UserOf[t])

\* The id of the event that tells of a payment's success at a provider, except for
\* checkouts of Stripe.
EventAt(p, t) ==
    CASE p = "stripe"      -> <<"payout event", t>>
      [] p = "paystack"    -> <<"paystack", t, Pr!PaystackId(t)>>
      [] p = "flutterwave" -> <<"flutterwave", Pr!FlutterwaveId(t)>>
      [] OTHER             -> <<"mpesa", Pr!MpesaId(t)>>
EventOf(t) == EventAt(by[t], t)

\* A payment opened at a hosted checkout of Stripe, of which no report finds it.
Checkout(t) == by[t] = "stripe" /\ KindOf[t] = "deposit"

\* What is booked for a payment that is completed.
Due(t) == IF KindOf[t] = "deposit" THEN Pr!Paid(by[t]) ELSE Amount

\* The first account of a user is what its provider's adapter answered.
AccountShape ==
    \A u \in Users : accounts[u] # <<>> =>
        /\ accounts[u] \in Seq([by : Pr!Providers, id : {"checked", "as given", "made up"}])
        /\ accounts[u][1].id \in Pr!EnsureUserAccount(accounts[u][1].by)

\* A payment the provider has taken is stored under its id; it is completed once paid.
PaymentShape(t) ==
    /\ status[t] = "none" <=> by[t] = "none"
    /\ by[t] # "none" => accounts[UserOf[t]] # <<>> /\ by[t] = FirstAccount(t).by
    /\ outcome[t] = "none" => ext[t] = <<>> /\ status[t] \in {"none", "failed"}
    /\ outcome[t] # "none" => /\ status[t] # "none" /\ Pr!Accepted(by[t], t)
                              /\ ext[t] = Pr!ExternalId(by[t], t)
    /\ by[t] = "mock" => outcome[t] \in {"none", "open"}
    /\ status[t] = "completed" => outcome[t] = "paid" /\ booked[t] = Due(t)
    /\ status[t] # "completed" => booked[t] = 0
    /\ outcome[t] = "failed" => t \in stumbled
    /\ t \in told => outcome[t] = "paid" /\ (Pr!Lost(t) \/ status[t] = "completed")

\* No event tells of a payment that is still open; one that was handled after the
\* payment was made has completed it.
EventShape(t) ==
    /\ outcome[t] \in {"none", "open"} => \A p \in Pr!Providers : EventAt(p, t) \notin processed
    /\ EventOf(t) \in processed /\ outcome[t] = "paid" /\ ~Checkout(t) =>
          Pr!Lost(t) \/ status[t] = "completed"

ProviderInv ==
    /\ Pr!TypeOK /\ booked \in [Payments -> Nat] /\ ext = [t \in Payments |-> ext[t]]
    /\ accounts = [u \in Users |-> accounts[u]]
    /\ default \in Defaults /\ AccountShape
    /\ \A t \in Payments : PaymentShape(t) /\ EventShape(t)
\* A request is resolved to a provider.
LEMMA ResolvedIsProvider ==
  ASSUME Pr!ProviderAssumption, default \in Pr!Providers, NEW a \in Pr!Asks
  PROVE  Pr!Resolved(a) \in Pr!Providers
<1>1. CASE a \in DOMAIN Candidates
  <2> DEFINE usable == {i \in DOMAIN Candidates[a] : Candidates[a][i] \in Pr!Configured}
  <2>1. Candidates[a] \in Seq(Pr!Providers)
    BY <1>1 DEF Pr!ProviderAssumption
  <2>2. usable # {} => Pr!Min(usable) \in usable
    <3> SUFFICES ASSUME usable # {} PROVE Pr!Min(usable) \in usable
      OBVIOUS
    <3> DEFINE less == [i \in usable |-> 0 - i]
    <3>1. usable \subseteq 1..Len(Candidates[a]) /\ Len(Candidates[a]) \in Nat
      BY <2>1
    <3>2. IsFiniteSet(usable)
      BY <3>1, FS_Interval, FS_Subset
    <3>3. \A i \in usable : i \in Int /\ less[i] = 0 - i /\ less[i] \in Int
      BY <3>1
    <3> HIDE DEF usable, less
    <3>4. PICK i \in usable : \A j \in usable : less[i] >= less[j]
      BY <3>2, <3>3, Greatest
    <3>5. \A j \in usable : i <= j
      BY <3>3, <3>4
    <3> QED
      BY <3>5 DEF Pr!Min
  <2>3. Pr!GetPreferred(a) = IF usable = {} THEN "mock" ELSE Candidates[a][Pr!Min(usable)]
    BY DEF Pr!GetPreferred
  <2>4. \A i \in usable : Candidates[a][i] \in Pr!Providers
    BY <2>1
  <2> HIDE DEF usable
  <2>5. Pr!GetPreferred(a) \in Pr!Providers
    BY <2>2, <2>3, <2>4 DEF Pr!Providers
  <2> QED
    BY <2>5 DEF Pr!Resolved, Pr!Asks
<1>2. CASE a \in Pr!Providers \/ a = "nothing"
  BY <1>2 DEF Pr!Resolved
<1> QED
  BY <1>1, <1>2 DEF Pr!Asks

\* Registration appends an account; the first one of a user stays.
LEMMA Registered ==
  ASSUME ProviderInv, Pr!ProviderAssumption, NEW u \in Users, NEW a \in Pr!Asks,
         Pr!RegisterUserAccount(u, a)
  PROVE  ProviderInv'
<1> DEFINE p == Pr!Resolved(a)
<1> DEFINE Account == [by : Pr!Providers, id : {"checked", "as given", "made up"}]
<1>1. PICK id \in Pr!EnsureUserAccount(p) :
         accounts' = [accounts EXCEPT ![u] = Append(@, [by |-> p, id |-> id])]
  BY DEF Pr!RegisterUserAccount
<1>2. UNCHANGED <<default, status, by, ext, outcome, stumbled, processed, told, booked>>
      /\ default \in Pr!Providers /\ accounts[u] \in Seq(Account)
  BY DEF Pr!RegisterUserAccount, ProviderInv, Pr!TypeOK
<1>3. p \in Pr!Providers
  BY <1>2, ResolvedIsProvider
<1>4. id \in {"checked", "as given", "made up"}
  BY <1>1 DEF Pr!EnsureUserAccount, Pr!FlutterwaveTakes, Pr!PaystackTakes, Pr!MomoTakes,
       Pr!MpesaTakes, Pr!WiseTakes, Pr!StripeTakes
<1>5. [by |-> p, id |-> id] \in Account
  BY <1>3, <1>4
<1>6. /\ accounts'[u] = Append(accounts[u], [by |-> p, id |-> id])
      /\ \A v \in Users \ {u} : accounts'[v] = accounts[v]
      /\ accounts' = [v \in Users |-> accounts'[v]]
  BY <1>1 DEF ProviderInv
<1> HIDE DEF p, Account
<1>7. /\ accounts'[u] \in Seq(Account) /\ accounts'[u] # <<>>
      /\ accounts[u] # <<>> => accounts'[u][1] = accounts[u][1]
      /\ accounts[u] = <<>> => accounts'[u][1] = [by |-> p, id |-> id]
  BY <1>2, <1>5, <1>6
<1>8. Pr!TypeOK'
  BY <1>2, <1>6, <1>7 DEF ProviderInv, Pr!TypeOK, Account
<1>9. AccountShape'
  <2>1. \A q : Pr!EnsureUserAccount(q)' = Pr!EnsureUserAccount(q)
    BY <1>2 DEF Pr!EnsureUserAccount, Pr!FlutterwaveTakes, Pr!PaystackTakes, Pr!MomoTakes,
         Pr!MpesaTakes, Pr!WiseTakes, Pr!StripeTakes, Pr!Configured
  <2>2. ASSUME NEW v \in Users, accounts'[v] # <<>>
        PROVE  /\ accounts'[v] \in Seq(Account)
               /\ accounts'[v][1].id \in Pr!EnsureUserAccount(accounts[v][1].by)'
    <3>1. CASE v = u /\ accounts[u] = <<>>
      BY <1>1, <1>7, <2>1, <3>1 DEF p
    <3>2. CASE v # u \/ accounts[u] # <<>>
      <4>1. accounts[v] # <<>> /\ accounts'[v][1] = accounts[v][1] /\ accounts'[v] \in Seq(Account)
        BY <1>6, <1>7, <2>2, <3>2 DEF ProviderInv, AccountShape, Account
      <4>2. accounts[v][1].id \in Pr!EnsureUserAccount(accounts[v][1].by)
        BY <4>1 DEF ProviderInv, AccountShape
      <4> QED
        BY <2>1, <4>1, <4>2
    <3> QED
      BY <3>1, <3>2
  <2> QED
    BY <2>2 DEF AccountShape, Account
<1>10. ASSUME NEW t \in Payments
       PROVE  PaymentShape(t)' /\ EventShape(t)'
  <2>1. /\ PaymentShape(t) /\ EventShape(t) /\ UserOf[t] \in Users
        /\ accounts[UserOf[t]] # <<>> => FirstAccount(t)' = FirstAccount(t)
             /\ accounts'[UserOf[t]] # <<>>
    BY <1>6, <1>7 DEF ProviderInv, Pr!ProviderAssumption, FirstAccount, Pr!ResolveAccount
  <2>2. Pr!Accepted(by[t], t)' = Pr!Accepted(by[t], t)
    BY <1>2 DEF Pr!Accepted, Pr!Configured
  <2>3. PaymentShape(t)'
    BY <1>2, <2>1, <2>2 DEF PaymentShape, Due, Pr!Lost
  <2>4. EventShape(t)'
    BY <1>2, <2>1 DEF EventShape, EventOf, EventAt, Checkout, Pr!Lost
  <2> QED
    BY <2>3, <2>4
<1> QED
  BY <1>2, <1>6, <1>8, <1>9, <1>10 DEF ProviderInv

\* What a report of a payment says and asks for.
LEMMA ReportIs ==
  ASSUME Pr!ProviderAssumption, NEW t \in Payments, NEW r \in Pr!Reports(t)
  PROVE  /\ outcome[t] \in {"paid", "failed"}
         /\ by[t] \in {"stripe", "paystack", "flutterwave", "mpesa"}
         /\ r.does \in {"deposit", "withdraw"} => r.does = KindOf[t] /\ outcome[t] = "paid"
         /\ r.does = "fail" => outcome[t] = "failed"
         /\ r.does \in {"deposit", "withdraw", "fail", "nothing"}
         /\ ~Checkout(t) => /\ r.id = EventOf(t) /\ r.asks = Pr!ExternalId(by[t], t)
                            /\ outcome[t] = "paid" => r.does = KindOf[t]
         /\ Checkout(t) => /\ r.asks \in {Pr!Key(t), Pr!Issued("intent", t)}
                           /\ r.id[1] \in {"session event", "intent event", "failed event"}
<1>1. /\ outcome[t] \in {"paid", "failed"}
      /\ by[t] \in {"stripe", "paystack", "flutterwave", "mpesa"}
  BY DEF Pr!Reports
<1>2. KindOf[t] \in {"deposit", "withdraw"}
  BY DEF Pr!ProviderAssumption
<1>3. CASE by[t] = "stripe"
  <2>1. r \in Pr!StripeReports(t)
    BY <1>1, <1>3 DEF Pr!Reports
  <2>2. CASE KindOf[t] = "deposit" /\ outcome[t] = "paid"
    <3>1. PICK e \in {"session event", "intent event"}, a \in {Pr!Key(t), Pr!Issued("intent", t)} :
             r = Pr!Report(<<e, t>>, a, "deposit")
      BY <2>1, <2>2 DEF Pr!StripeReports
    <3>2. r.does = "deposit" /\ r.asks = a /\ r.id = <<e, t>>
      BY <3>1 DEF Pr!Report
    <3>3. \A x, y : <<x, y>>[1] = x
      OBVIOUS
    <3>4. r.id[1] = e
      BY <3>2, <3>3
    <3> QED
      BY <1>1, <1>3, <2>2, <3>2, <3>4 DEF Checkout
  <2>3. CASE KindOf[t] = "deposit" /\ outcome[t] = "failed"
    <3>1. r = Pr!Report(<<"failed event", t>>, Pr!Issued("intent", t), "fail")
      BY <2>1, <2>3 DEF Pr!StripeReports
    <3> QED
      BY <1>1, <1>3, <2>3, <3>1 DEF Pr!Report, Checkout
  <2>4. CASE KindOf[t] = "withdraw"
    <3>1. r = Pr!Report(<<"payout event", t>>, Pr!StripeId(t),
                        IF outcome[t] = "paid" THEN "withdraw" ELSE "fail")
      BY <2>1, <2>4 DEF Pr!StripeReports
    <3> QED
      BY <1>1, <1>3, <2>4, <3>1 DEF Pr!Report, Checkout, EventOf, EventAt, Pr!ExternalId
  <2> QED
    BY <1>1, <1>2, <2>2, <2>3, <2>4
<1>4. CASE by[t] = "paystack"
  <2>1. r \in Pr!PaystackReports(t)
    BY <1>1, <1>4 DEF Pr!Reports
  <2>2. PICK d : /\ r = Pr!Report(<<"paystack", t, Pr!PaystackId(t)>>, Pr!PaystackId(t), d)
                 /\ d \in IF outcome[t] = "paid" THEN {KindOf[t]}
                          ELSE IF KindOf[t] = "withdraw" THEN {"fail"} ELSE {}
    BY <2>1 DEF Pr!PaystackReports
  <2>3. /\ outcome[t] = "paid" => d = KindOf[t]
        /\ outcome[t] # "paid" => d = "fail"
    BY <2>2
  <2>4. r.id = EventOf(t) /\ r.asks = Pr!ExternalId(by[t], t) /\ r.does = d
    BY <1>4, <2>2 DEF Pr!Report, EventOf, EventAt, Pr!ExternalId
  <2> QED
    BY <1>1, <1>2, <1>4, <2>3, <2>4 DEF Checkout
<1>5. CASE by[t] = "flutterwave"
  <2>1. r \in Pr!FlutterwaveReports(t)
    BY <1>1, <1>5 DEF Pr!Reports
  <2> QED
    BY <1>1, <1>2, <1>5, <2>1 DEF Pr!FlutterwaveReports, Pr!Report, Checkout, EventOf,
         EventAt, Pr!ExternalId
<1>6. CASE by[t] = "mpesa"
  <2>1. r \in Pr!MpesaReports(t)
    BY <1>1, <1>6 DEF Pr!Reports
  <2> QED
    BY <1>1, <1>2, <1>6, <2>1 DEF Pr!MpesaReports, Pr!Report, Checkout, EventOf, EventAt,
         Pr!ExternalId
<1> QED
  BY <1>1, <1>3, <1>4, <1>5, <1>6

\* The event of a payment's success is its own.
LEMMA EventIsOwn ==
  ASSUME Pr!ProviderAssumption, NEW t \in Payments, NEW s \in Payments, NEW p \in Pr!Providers,
         by[t] \in {"stripe", "paystack", "flutterwave", "mpesa"}, EventAt(p, s) = EventOf(t)
  PROVE  s = t
<1>1. KindOf[t] \in {"deposit", "withdraw"} /\ KindOf[s] \in {"deposit", "withdraw"}
  BY DEF Pr!ProviderAssumption
<1>2. EventAt(p, s)[1] = EventOf(t)[1] /\ EventAt(p, s)[2] = EventOf(t)[2]
  OBVIOUS
<1>3. /\ by[t] # "mpesa" => p = by[t]
      /\ by[t] = "mpesa" => p \notin {"stripe", "paystack", "flutterwave"}
  BY <1>2 DEF EventOf, EventAt
<1>4. CASE by[t] \in {"stripe", "paystack"}
  BY <1>2, <1>3, <1>4 DEF EventOf, EventAt
<1>5. CASE by[t] = "flutterwave"
  BY <1>1, <1>2, <1>3, <1>5 DEF EventOf, EventAt, Pr!FlutterwaveId, Pr!Key, Pr!Issued
<1>6. CASE by[t] = "mpesa"
  BY <1>1, <1>2, <1>3, <1>6 DEF EventOf, EventAt, Pr!MpesaId, Pr!Issued
<1> QED
  BY <1>4, <1>5, <1>6

\* What a report finds is the payment it is about.
LEMMA FoundIsOwn ==
  ASSUME ProviderInv, Pr!ProviderAssumption, NEW t \in Payments, NEW r \in Pr!Reports(t),
         NEW s \in Pr!Found(r)
  PROVE  s = t /\ ~Checkout(t)
<1>1. /\ s \in Payments /\ ext[s] = r.asks /\ PaymentShape(s) /\ PaymentShape(t)
      /\ by[s] \in Pr!Providers \cup {"none"}
      /\ by[t] \in {"stripe", "paystack", "flutterwave", "mpesa"}
      /\ KindOf[t] \in {"deposit", "withdraw"} /\ KindOf[s] \in {"deposit", "withdraw"}
  BY ReportIs DEF Pr!Found, ProviderInv, Pr!TypeOK, Pr!ProviderAssumption
<1>2. r.asks \in {Pr!Key(t), Pr!Issued("intent", t), Pr!ExternalId(by[t], t)}
      /\ (Checkout(t) => r.asks \in {Pr!Key(t), Pr!Issued("intent", t)})
  BY ReportIs
<1>3. r.asks \in {Pr!Key(t), Pr!Issued("intent", t)} \cup
                  {Pr!Issued(p, t) : p \in {"stripe", "paystack", "flutterwave", "mpesa"}}
  BY <1>1, <1>2 DEF Pr!ExternalId, Pr!StripeId, Pr!PaystackId, Pr!FlutterwaveId, Pr!MpesaId
<1>4. r.asks # <<>> /\ r.asks[1] # "prefix"
  BY <1>3 DEF Pr!Key, Pr!Issued
<1>5. ext[s] = Pr!ExternalId(by[s], s) /\ by[s] \in Pr!Providers
  BY <1>1, <1>4 DEF PaymentShape
<1>6. \/ ext[s] = Pr!Key(s) /\ by[s] \in {"paystack", "flutterwave"}
      \/ ext[s] = Pr!KeyPrefix(s)
      \/ ext[s] = Pr!Issued(by[s], s)
      \/ ext[s] = Pr!Issued("mock", s)
  BY <1>1, <1>5 DEF Pr!ExternalId, Pr!StripeId, Pr!PaystackId, Pr!FlutterwaveId, Pr!MomoId,
       Pr!MpesaId, Pr!WiseId
<1>7. CASE ext[s] = Pr!KeyPrefix(s)
  BY <1>1, <1>4, <1>7 DEF Pr!KeyPrefix
<1>8. CASE ext[s] = Pr!Key(s) /\ by[s] \in {"paystack", "flutterwave"}
  <2>1. r.asks[1] = "key" /\ r.asks[4] = s
    BY <1>1, <1>8 DEF Pr!Key
  <2>2. r.asks = Pr!Key(t)
    BY <1>3, <2>1 DEF Pr!Issued
  <2>3. s = t
    BY <2>1, <2>2 DEF Pr!Key
  <2> QED
    BY <1>8, <2>3 DEF Checkout
<1>9. CASE ext[s] = Pr!Issued(by[s], s) \/ ext[s] = Pr!Issued("mock", s)
  <2>1. r.asks[1] \in Pr!Providers /\ r.asks[3] = s
    BY <1>1, <1>5, <1>9 DEF Pr!Issued, Pr!Providers
  <2>2. r.asks # Pr!Key(t) /\ r.asks # Pr!Issued("intent", t)
    BY <2>1 DEF Pr!Key, Pr!Issued, Pr!Providers
  <2>3. PICK p : r.asks = Pr!Issued(p, t)
    BY <1>3, <2>2
  <2>4. s = t
    BY <2>1, <2>3 DEF Pr!Issued
  <2> QED
    BY <1>2, <2>2, <2>4
<1> QED
  BY <1>6, <1>7, <1>8, <1>9

\* A report of a payment's success finds it, unless it was opened at a checkout of Stripe.
LEMMA SuccessFinds ==
  ASSUME ProviderInv, Pr!ProviderAssumption, NEW t \in Payments, NEW r \in Pr!Reports(t),
         outcome[t] = "paid", ~Checkout(t)
  PROVE  t \in Pr!Found(r)
<1>1. PaymentShape(t) /\ status[t] \in {"none", "processing", "completed", "failed"}
  BY DEF ProviderInv, Pr!TypeOK
<1>2. r.asks = Pr!ExternalId(by[t], t) /\ r.does = KindOf[t]
  BY ReportIs
<1> QED
  BY <1>1, <1>2 DEF Pr!Found, PaymentShape
\* What is due for a payment is positive.
LEMMA DueIsPositive ==
  ASSUME Pr!ProviderAssumption, NEW t \in Payments
  PROVE  /\ Due(t) \in Nat \ {0} /\ Pr!Paid(by[t]) - Due(t) \in {0, 1}
         /\ Due(t) # Pr!Paid(by[t]) => KindOf[t] = "withdraw" /\ by[t] = "mpesa"
<1>1. Amount \in Nat \ {0} /\ KindOf[t] \in {"deposit", "withdraw"}
  BY DEF Pr!ProviderAssumption
<1>2. \A n \in Nat \ {0} : /\ ((n + 1) \div 2) * 2 \in Nat \ {0}
                           /\ ((n + 1) \div 2) * 2 - n \in {0, 1}
                           /\ ((n + 1) \div 2) * 2 - ((n + 1) \div 2) * 2 = 0 /\ n - n = 0
  OBVIOUS
<1>3. /\ Pr!Paid(by[t]) \in Nat \ {0} /\ Pr!Paid(by[t]) - Amount \in {0, 1}
      /\ Pr!Paid(by[t]) - Pr!Paid(by[t]) \in {0, 1}
      /\ Pr!Paid(by[t]) # Amount => by[t] = "mpesa"
  BY <1>1, <1>2 DEF Pr!Paid
<1> QED
  BY <1>1, <1>3 DEF Due

\* A report that is handled books what was paid and marks what failed.
LEMMA Delivered ==
  ASSUME ProviderInv, Pr!ProviderAssumption, NEW t \in Payments, NEW r \in Pr!Reports(t),
         Pr!Deliver(t, r)
  PROVE  ProviderInv'
<1>1. /\ UNCHANGED <<default, accounts, by, ext, outcome, stumbled>>
      /\ processed' = processed \cup {r.id} /\ r.id \notin processed
      /\ told' = IF outcome[t] = "paid" THEN told \cup {t} ELSE told
  BY DEF Pr!Deliver
<1>2. /\ Pr!TypeOK /\ PaymentShape(t) /\ EventShape(t) /\ booked[t] \in Nat
      /\ status \in [Payments -> {"none", "processing", "completed", "failed"}]
      /\ booked \in [Payments -> Nat]
  BY DEF ProviderInv, Pr!TypeOK
<1>3. /\ outcome[t] \in {"paid", "failed"}
      /\ by[t] \in {"stripe", "paystack", "flutterwave", "mpesa"}
      /\ r.does \in {"deposit", "withdraw"} => r.does = KindOf[t] /\ outcome[t] = "paid"
      /\ r.does = "fail" => outcome[t] = "failed"
      /\ ~Checkout(t) => r.id = EventOf(t) /\ (outcome[t] = "paid" => r.does = KindOf[t])
      /\ Checkout(t) => r.id[1] \in {"session event", "intent event", "failed event"}
  BY ReportIs
<1>4. KindOf[t] \in {"deposit", "withdraw"} /\ Due(t) \in Nat \ {0}
  BY DueIsPositive DEF Pr!ProviderAssumption
<1>5. \/ Pr!Found(r) = {} /\ UNCHANGED <<status, booked>>
      \/ Pr!Found(r) # {} /\ r.does = "fail" /\ Pr!FailTransaction(t)
      \/ Pr!Found(r) # {} /\ r.does # "fail" /\ Pr!Complete(t)
  BY FoundIsOwn DEF Pr!Deliver
<1>6. Pr!Found(r) # {} => ~Checkout(t) /\ t \in Pr!Found(r) /\ status[t] # "none"
                          /\ r.does \in {"fail", KindOf[t]}
  BY FoundIsOwn DEF Pr!Found
<1>7. \/ UNCHANGED <<status, booked>> /\ (outcome[t] = "paid" => Checkout(t))
      \/ UNCHANGED <<status, booked>> /\ status[t] = "completed" /\ outcome[t] = "paid"
      \/ /\ status' = [status EXCEPT ![t] = "failed"] /\ booked' = booked
         /\ outcome[t] = "failed" /\ status[t] \notin {"none", "completed"}
      \/ /\ status' = [status EXCEPT ![t] = "completed"]
         /\ booked' = [booked EXCEPT ![t] = booked[t] + Due(t)]
         /\ outcome[t] = "paid" /\ status[t] \notin {"none", "completed"}
  <2>1. CASE Pr!Found(r) = {} /\ UNCHANGED <<status, booked>>
    BY <2>1, SuccessFinds
  <2>2. CASE Pr!Found(r) # {} /\ r.does = "fail" /\ Pr!FailTransaction(t)
    BY <1>2, <1>3, <1>6, <2>2 DEF Pr!FailTransaction, PaymentShape
  <2>3. CASE Pr!Found(r) # {} /\ r.does # "fail" /\ Pr!Complete(t)
    <3>1. outcome[t] = "paid"
      BY <1>3, <1>4, <1>6, <2>3
    <3>2. CASE status[t] = "completed"
      BY <2>3, <3>1, <3>2 DEF Pr!Complete
    <3>3. CASE status[t] # "completed"
      BY <1>2, <1>6, <2>3, <3>1, <3>3 DEF Pr!Complete, Due
    <3> QED
      BY <3>2, <3>3
  <2> QED
    BY <1>5, <2>1, <2>2, <2>3
<1>8. /\ \A s \in Payments \ {t} : status'[s] = status[s] /\ booked'[s] = booked[s]
      /\ status' \in [Payments -> {"none", "processing", "completed", "failed"}]
      /\ booked' \in [Payments -> Nat] /\ (status[t] = "none" <=> status'[t] = "none")
      /\ status'[t] = "completed" => outcome[t] = "paid" /\ booked'[t] = Due(t)
      /\ status'[t] # "completed" => booked'[t] = 0
      /\ outcome[t] = "paid" => Checkout(t) \/ status'[t] = "completed"
      /\ status[t] = "completed" => status'[t] = "completed"
  BY <1>2, <1>4, <1>7 DEF PaymentShape
<1>9. Pr!TypeOK'
  BY <1>1, <1>2, <1>8 DEF Pr!TypeOK
<1>10. PaymentShape(t)'
  BY <1>1, <1>2, <1>3, <1>8 DEF PaymentShape, Due, FirstAccount, Pr!ResolveAccount, Pr!Accepted,
       Pr!Configured, Pr!Lost, Checkout
<1>11. EventShape(t)'
  BY <1>1, <1>2, <1>3, <1>8 DEF EventShape, EventOf, EventAt, Pr!Lost, Checkout
<1>12. ASSUME NEW s \in Payments \ {t}
       PROVE  PaymentShape(s)' /\ EventShape(s)'
  <2>1. PaymentShape(s) /\ EventShape(s) /\ KindOf[s] \in {"deposit", "withdraw"}
    BY DEF ProviderInv, Pr!ProviderAssumption
  <2>2. PaymentShape(s)'
    BY <1>1, <1>8, <2>1 DEF PaymentShape, Due, FirstAccount, Pr!ResolveAccount, Pr!Accepted,
         Pr!Configured, Pr!Lost
  <2>3. \A p \in Pr!Providers : EventAt(p, s) # r.id
    <3>1. CASE Checkout(t)
      <4>1. r.id[1] \in {"session event", "intent event", "failed event"}
        BY <1>3, <3>1
      <4>2. \A p \in Pr!Providers :
               EventAt(p, s)[1] \in {"payout event", "paystack", "flutterwave", "mpesa"}
        BY DEF EventAt
      <4> QED
        BY <4>1, <4>2
    <3>2. CASE ~Checkout(t)
      BY <1>3, <3>2, EventIsOwn
    <3> QED
      BY <3>1, <3>2
  <2>4. EventOf(s) # r.id
    <3>1. by[s] = "none" => EventOf(s) = EventAt("mpesa", s)
      BY DEF EventOf, EventAt
    <3>2. by[s] \in Pr!Providers \cup {"none"}
      BY <1>2 DEF Pr!TypeOK
    <3> QED
      BY <2>3, <3>1, <3>2 DEF EventOf, Pr!Providers
  <2>5. EventShape(s)'
    BY <1>1, <1>8, <2>1, <2>3, <2>4 DEF EventShape, EventOf, EventAt, Checkout, Pr!Lost
  <2> QED
    BY <2>2, <2>5
<1> QED
  BY <1>1, <1>8, <1>9, <1>10, <1>11, <1>12 DEF ProviderInv, AccountShape, Pr!EnsureUserAccount,
     Pr!FlutterwaveTakes, Pr!PaystackTakes, Pr!MomoTakes, Pr!MpesaTakes, Pr!WiseTakes,
     Pr!StripeTakes, Pr!Configured

\* A report that is skipped tells of what was handled before.
LEMMA Skipped ==
  ASSUME ProviderInv, Pr!ProviderAssumption, NEW t \in Payments, NEW r \in Pr!Reports(t),
         Pr!Skip(t, r)
  PROVE  ProviderInv'
<1>1. /\ UNCHANGED <<default, accounts, status, by, ext, outcome, stumbled, processed, booked>>
      /\ r.id \in processed /\ told' = IF outcome[t] = "paid" THEN told \cup {t} ELSE told
  BY DEF Pr!Skip
<1>2. /\ outcome[t] \in {"paid", "failed"} /\ (~Checkout(t) => r.id = EventOf(t))
      /\ EventShape(t) /\ PaymentShape(t)
  BY ReportIs DEF ProviderInv
<1>3. outcome[t] = "paid" => Pr!Lost(t) \/ status[t] = "completed"
  BY <1>1, <1>2 DEF EventShape, Checkout, Pr!Lost
<1>4. ASSUME NEW s \in Payments
      PROVE  PaymentShape(s)' /\ EventShape(s)'
  BY <1>1, <1>2, <1>3 DEF ProviderInv, PaymentShape, EventShape, EventOf, EventAt, Due,
       FirstAccount, Checkout,
     Pr!ResolveAccount, Pr!Accepted, Pr!Configured, Pr!Lost
<1>5. Pr!TypeOK'
  BY <1>1 DEF ProviderInv, Pr!TypeOK
<1>6. AccountShape'
  BY <1>1 DEF ProviderInv, AccountShape, Pr!EnsureUserAccount, Pr!FlutterwaveTakes,
     Pr!PaystackTakes, Pr!MomoTakes, Pr!MpesaTakes, Pr!WiseTakes, Pr!StripeTakes, Pr!Configured
<1> QED
  BY <1>1, <1>4, <1>5, <1>6 DEF ProviderInv
\* What becomes of a payment at its provider, before it is told of.
LEMMA Concluded ==
  ASSUME ProviderInv, Pr!ProviderAssumption, NEW t \in Payments, NEW o \in {"paid", "failed"},
         Pr!Conclude(t, o)
  PROVE  ProviderInv'
<1>1. /\ UNCHANGED <<default, accounts, status, by, ext, processed, told, booked>>
      /\ outcome' = [outcome EXCEPT ![t] = o] /\ by[t] # "mock"
      /\ stumbled' = IF o = "failed" THEN stumbled \cup {t} ELSE stumbled
      /\ \/ outcome[t] = "open"
         \/ outcome[t] = "failed" /\ o = "paid" /\ Pr!CanRetry(by[t], t)
  BY DEF Pr!Conclude
<1>2. /\ Pr!TypeOK /\ PaymentShape(t) /\ EventShape(t)
      /\ outcome \in [Payments -> {"none", "open", "paid", "failed"}]
      /\ by[t] \in Pr!Providers \cup {"none"}
  BY DEF ProviderInv, Pr!TypeOK
<1>3. /\ outcome'[t] = o /\ outcome' \in [Payments -> {"none", "open", "paid", "failed"}]
      /\ \A s \in Payments \ {t} : outcome'[s] = outcome[s]
      /\ stumbled' \subseteq Payments /\ stumbled \subseteq stumbled'
      /\ \A s \in Payments \ {t} : s \in stumbled' => s \in stumbled
  BY <1>1, <1>2 DEF Pr!TypeOK
<1>4. Pr!TypeOK'
  BY <1>1, <1>2, <1>3 DEF Pr!TypeOK
<1>5. AccountShape'
  BY <1>1 DEF ProviderInv, AccountShape, Pr!EnsureUserAccount, Pr!FlutterwaveTakes,
     Pr!PaystackTakes, Pr!MomoTakes, Pr!MpesaTakes, Pr!WiseTakes, Pr!StripeTakes, Pr!Configured
<1>6. by[t] \in Pr!Providers /\ status[t] # "completed" /\ t \notin told
  BY <1>1, <1>2 DEF PaymentShape
<1>7. PaymentShape(t)'
  BY <1>1, <1>2, <1>3, <1>6 DEF PaymentShape, Due, FirstAccount, Pr!ResolveAccount, Pr!Accepted,
     Pr!Configured, Pr!Lost
<1>8. EventShape(t)'
  <2>1. CASE outcome[t] = "open"
    <3>1. EventOf(t) \notin processed
      BY <1>2, <1>6, <2>1 DEF EventShape, EventOf
    <3> QED
      BY <1>1, <1>3, <3>1 DEF EventShape, EventOf, EventAt
  <2>2. CASE outcome[t] = "failed" /\ o = "paid" /\ Pr!CanRetry(by[t], t)
    <3>1. t \in stumbled
      BY <1>2, <2>2 DEF PaymentShape
    <3>2. Pr!Lost(t)'
      BY <1>1, <1>3, <2>2, <3>1 DEF Pr!CanRetry, Pr!Lost
    <3> QED
      BY <1>1, <1>3, <2>2, <3>2 DEF EventShape
  <2> QED
    BY <1>1, <2>1, <2>2
<1>9. ASSUME NEW s \in Payments \ {t}
      PROVE  PaymentShape(s)' /\ EventShape(s)'
  <2>1. PaymentShape(s) /\ EventShape(s)
    BY DEF ProviderInv
  <2>2. PaymentShape(s)'
    BY <1>1, <1>3, <2>1 DEF PaymentShape, Due, FirstAccount, Pr!ResolveAccount, Pr!Accepted,
       Pr!Configured, Pr!Lost
  <2>3. EventShape(s)'
    BY <1>1, <1>3, <2>1 DEF EventShape, EventOf, EventAt, Checkout, Pr!Lost
  <2> QED
    BY <2>2, <2>3
<1> QED
  BY <1>1, <1>4, <1>5, <1>7, <1>8, <1>9 DEF ProviderInv

\* A payment is created with its user's first account; no event tells of it yet.
LEMMA Created ==
  ASSUME ProviderInv, Pr!ProviderAssumption, NEW t \in Payments, Pr!Create(t)
  PROVE  ProviderInv'
<1> DEFINE p == FirstAccount(t).by
<1>1. /\ UNCHANGED <<default, accounts, stumbled, processed, told, booked>>
      /\ status[t] = "none" /\ accounts[UserOf[t]] # <<>> /\ by' = [by EXCEPT ![t] = p]
      /\ \/ /\ Pr!Accepted(p, t)
            /\ status' = [status EXCEPT ![t] = "processing"]
            /\ ext' = [ext EXCEPT ![t] = Pr!ExternalId(p, t)]
            /\ outcome' = [outcome EXCEPT ![t] = "open"]
         \/ /\ status' = [status EXCEPT ![t] = "failed"]
            /\ UNCHANGED <<ext, outcome>>
  BY DEF Pr!Create, FirstAccount
<1>2. /\ Pr!TypeOK /\ PaymentShape(t) /\ EventShape(t) /\ UserOf[t] \in Users
      /\ status \in [Payments -> {"none", "processing", "completed", "failed"}]
      /\ by \in [Payments -> Pr!Providers \cup {"none"}]
      /\ outcome \in [Payments -> {"none", "open", "paid", "failed"}]
      /\ ext = [s \in Payments |-> ext[s]]
  BY DEF ProviderInv, Pr!TypeOK, Pr!ProviderAssumption
<1>3. p \in Pr!Providers
  <2>1. accounts[UserOf[t]] \in Seq([by : Pr!Providers, id : {"checked", "as given", "made up"}])
    BY <1>1, <1>2 DEF ProviderInv, AccountShape
  <2>2. \A S, s : s \in Seq(S) /\ s # <<>> => s[1] \in S
    OBVIOUS
  <2>3. accounts[UserOf[t]][1] \in [by : Pr!Providers, id : {"checked", "as given", "made up"}]
    BY <1>1, <2>1, <2>2, Zenon
  <2> QED
    BY <2>3 DEF FirstAccount, Pr!ResolveAccount
<1> HIDE DEF p
<1>4. /\ by'[t] = p /\ by' \in [Payments -> Pr!Providers \cup {"none"}]
      /\ \/ /\ Pr!Accepted(p, t) /\ status'[t] = "processing"
            /\ ext'[t] = Pr!ExternalId(p, t) /\ outcome'[t] = "open"
         \/ status'[t] = "failed" /\ ext'[t] = ext[t] /\ outcome'[t] = outcome[t]
      /\ \A s \in Payments \ {t} : /\ by'[s] = by[s] /\ status'[s] = status[s]
                                   /\ ext'[s] = ext[s] /\ outcome'[s] = outcome[s]
      /\ status' \in [Payments -> {"none", "processing", "completed", "failed"}]
      /\ outcome' \in [Payments -> {"none", "open", "paid", "failed"}]
      /\ ext' = [s \in Payments |-> ext'[s]]
  BY <1>1, <1>2, <1>3
<1>5. Pr!TypeOK'
  BY <1>1, <1>2, <1>4 DEF Pr!TypeOK
<1>6. AccountShape'
  BY <1>1 DEF ProviderInv, AccountShape, Pr!EnsureUserAccount, Pr!FlutterwaveTakes,
     Pr!PaystackTakes, Pr!MomoTakes, Pr!MpesaTakes, Pr!WiseTakes, Pr!StripeTakes, Pr!Configured
<1>7. outcome[t] = "none" /\ t \notin told /\ booked[t] = 0 /\ ext[t] = <<>>
  BY <1>1, <1>2 DEF PaymentShape
<1>8. PaymentShape(t)'
  <2>1. FirstAccount(t)' = FirstAccount(t) /\ (\A q : Pr!Accepted(q, t)' = Pr!Accepted(q, t))
        /\ p # "none" /\ accounts'[UserOf[t]] # <<>>
    BY <1>1, <1>3 DEF FirstAccount, Pr!ResolveAccount, Pr!Accepted, Pr!Configured, Pr!Providers
  <2> QED
    BY <1>1, <1>4, <1>7, <2>1 DEF PaymentShape, p
<1>9. EventShape(t)'
  <2>1. \A q \in Pr!Providers : EventAt(q, t) \notin processed
    BY <1>2, <1>7 DEF EventShape
  <2> QED
    BY <1>1, <1>3, <1>4, <1>7, <2>1 DEF EventShape, EventOf, EventAt
<1>10. ASSUME NEW s \in Payments \ {t}
       PROVE  PaymentShape(s)' /\ EventShape(s)'
  <2>1. PaymentShape(s) /\ EventShape(s)
    BY DEF ProviderInv
  <2>2. PaymentShape(s)'
    BY <1>1, <1>4, <2>1 DEF PaymentShape, Due, FirstAccount, Pr!ResolveAccount, Pr!Accepted,
       Pr!Configured, Pr!Lost
  <2>3. EventShape(s)'
    BY <1>1, <1>4, <2>1 DEF EventShape, EventOf, EventAt, Checkout, Pr!Lost
  <2> QED
    BY <2>2, <2>3
<1> QED
  BY <1>1, <1>4, <1>5, <1>6, <1>8, <1>9, <1>10 DEF ProviderInv

\* Init => ProviderInv.
LEMMA ProviderInvInit ==
  ASSUME Pr!ProviderAssumption, Pr!Init
  PROVE  ProviderInv
<1>1. Pr!TypeOK
  BY DEF Pr!Init, Pr!TypeOK, Pr!ProviderAssumption
<1>2. booked \in [Payments -> Nat] /\ ext = [t \in Payments |-> ext[t]]
      /\ accounts = [u \in Users |-> accounts[u]] /\ default \in Defaults
  BY DEF Pr!Init
<1>3. \A u \in Users : accounts[u] = <<>>
  BY DEF Pr!Init
<1>4. \A t \in Payments : PaymentShape(t) /\ EventShape(t)
  BY DEF Pr!Init, PaymentShape, EventShape, Pr!Lost
<1> QED
  BY <1>1, <1>2, <1>3, <1>4 DEF ProviderInv, AccountShape

\* Every step preserves it.
LEMMA ProviderInvStep ==
  ASSUME ProviderInv, Pr!ProviderAssumption, [Pr!Next]_Pr!providerVars
  PROVE  ProviderInv'
<1>1. CASE UNCHANGED Pr!providerVars
  <2>1. UNCHANGED <<default, accounts, status, by, ext, outcome, stumbled, processed, told, booked>>
    BY <1>1 DEF Pr!providerVars
  <2>2. Pr!TypeOK' /\ AccountShape'
    BY <2>1 DEF ProviderInv, Pr!TypeOK, AccountShape, Pr!EnsureUserAccount, Pr!FlutterwaveTakes,
       Pr!PaystackTakes, Pr!MomoTakes, Pr!MpesaTakes, Pr!WiseTakes, Pr!StripeTakes, Pr!Configured
  <2>3. ASSUME NEW t \in Payments
        PROVE  PaymentShape(t)' /\ EventShape(t)'
    BY <2>1 DEF ProviderInv, PaymentShape, EventShape, EventOf, EventAt, Due, FirstAccount,
         Checkout,
       Pr!ResolveAccount, Pr!Accepted, Pr!Configured, Pr!Lost
  <2> QED
    BY <2>1, <2>2, <2>3 DEF ProviderInv
<1>2. CASE \E u \in Users, a \in Pr!Asks : Pr!RegisterUserAccount(u, a)
  BY <1>2, Registered
<1>3. ASSUME NEW t \in Payments,
             \/ Pr!Create(t)
             \/ Pr!Conclude(t, "paid") \/ Pr!Conclude(t, "failed")
             \/ \E r \in Pr!Reports(t) : Pr!Deliver(t, r) \/ Pr!Skip(t, r)
      PROVE  ProviderInv'
  BY <1>3, Created, Concluded, Delivered, Skipped
<1> QED
  BY <1>1, <1>2, <1>3 DEF Pr!Next

\* Every reachable state meets the invariant.
LEMMA ProviderInvariance ==
  ASSUME Pr!ProviderAssumption
  PROVE  Pr!Spec => []ProviderInv
<1>1. Pr!Init => ProviderInv
  BY ProviderInvInit
<1>2. ProviderInv /\ [Pr!Next]_Pr!providerVars => ProviderInv'
  BY ProviderInvStep
<1> QED
  BY <1>1, <1>2, PTL DEF Pr!Spec

\* A payment that is booked has been completed.
LEMMA BookedIsCompleted ==
  ASSUME ProviderInv, Pr!ProviderAssumption, NEW t \in Payments, booked[t] > 0
  PROVE  /\ booked[t] = Due(t) /\ outcome[t] = "paid" /\ PaymentShape(t)
         /\ accounts[UserOf[t]] # <<>> /\ by[t] = FirstAccount(t).by
         /\ by[t] # "mock" /\ Pr!Accepted(by[t], t)
<1>1. PaymentShape(t) /\ booked[t] \in Nat
  BY DEF ProviderInv
<1> QED
  BY <1>1 DEF PaymentShape

\* What moves in QP is what the provider moved, once (processWebhook, completeDeposit,
\* completeWithdrawal).
THEOREM BookedAmount ==
  ASSUME Pr!ProviderAssumption
  PROVE  Pr!Spec => []Pr!BookedIsAmount
<1>1. ProviderInv => Pr!BookedIsAmount
  BY BookedIsCompleted, DueIsPositive DEF Pr!BookedIsAmount
<1> QED
  BY <1>1, ProviderInvariance, PTL

\* No QP moves for a payment its provider has not made, and none for an account that an
\* adapter made up.
THEOREM BookedWhatWasPaid ==
  ASSUME Pr!ProviderAssumption
  PROVE  Pr!Spec => []Pr!BookedIsPaid
<1>1. ASSUME ProviderInv, NEW t \in Payments, booked[t] > 0
      PROVE  /\ outcome[t] = "paid" /\ FirstAccount(t).by = by[t] /\ FirstAccount(t).id # "made up"
  <2>1. /\ accounts[UserOf[t]] # <<>> /\ by[t] = FirstAccount(t).by /\ outcome[t] = "paid"
        /\ by[t] # "mock" /\ Pr!Accepted(by[t], t) /\ UserOf[t] \in Users
    BY <1>1, BookedIsCompleted DEF Pr!ProviderAssumption
  <2>2. by[t] \in Pr!Configured /\ FirstAccount(t).id \in Pr!EnsureUserAccount(by[t])
    BY <1>1, <2>1 DEF Pr!Accepted, ProviderInv, AccountShape, FirstAccount, Pr!ResolveAccount
  <2>3. by[t] \in Pr!Providers \ {"mock"}
    BY <1>1, <2>1 DEF ProviderInv, Pr!TypeOK, PaymentShape
  <2>4. FirstAccount(t).id # "made up"
    BY <2>2, <2>3 DEF Pr!EnsureUserAccount, Pr!FlutterwaveTakes, Pr!PaystackTakes, Pr!MomoTakes,
       Pr!MpesaTakes, Pr!WiseTakes, Pr!StripeTakes, Pr!Providers
  <2> QED
    BY <2>1, <2>4
<1>2. ProviderInv => Pr!BookedIsPaid
  BY <1>1 DEF Pr!BookedIsPaid, FirstAccount
<1> QED
  BY <1>2, ProviderInvariance, PTL

\* A success that a provider reported and the platform acknowledged is booked, except for
\* Stripe's checkouts and the payments made after a failure at Flutterwave's.
THEOREM ReportedBooked ==
  ASSUME Pr!ProviderAssumption
  PROVE  Pr!Spec => []Pr!ReportedIsBooked
<1>1. ASSUME ProviderInv, NEW t \in told
      PROVE  Pr!Lost(t) \/ booked[t] > 0
  <2>1. t \in Payments /\ PaymentShape(t)
    BY <1>1 DEF ProviderInv, Pr!TypeOK
  <2>2. Due(t) > 0
    BY <1>1, <2>1, DueIsPositive
  <2> QED
    BY <2>1, <2>2 DEF PaymentShape
<1>2. ProviderInv => Pr!ReportedIsBooked
  BY <1>1 DEF Pr!ReportedIsBooked
<1> QED
  BY <1>2, ProviderInvariance, PTL

-----------------------------------------------------------------------------
(* Tabs.                                                                    *)

\* Every copy is within its limit, as the tab is.
CopiesWithin ==
    \A c \in Calls :
        tabCopy[c].limit > 0 => tabCopy[c].balance <= tabCopy[c].limit \/ lowered \/ tabCrossed

\* What a call is about to write is its request applied to the row it compared with,
\* unless it had read an older one, and is within the limit, unless the request is
\* to lower that.
NewShape(c) ==
    tabAt[c] = "update" =>
        /\ tabAsk[c].kind # "remove"
        /\ overwritten \/ new[c] = Ta!Wanted(tabCopy[c], tabAsk[c])
        /\ new[c].limit > 0 =>
              new[c].balance <= new[c].limit \/ lowered \/ tabCrossed \/ tabAsk[c].kind = "limit"

TabInv ==
    /\ Ta!TypeOK /\ Ta!WithinLimit /\ CopiesWithin /\ Ta!StatusIsDecided /\ Ta!BalanceExplained
    /\ \A c \in Calls : NewShape(c)

\* A request has the argument of its kind, and moves an amount.
LEMMA AskShape ==
  ASSUME Ta!TabAssumption, NEW c \in Calls, NEW r \in TabMenu[c] \cup {Ta!NoAsk}
  PROVE  /\ r.kind = "status" => r.to \in Ta!Statuses
         /\ r.kind # "status" => r.to \in Nat
         /\ Ta!Delta(r) \in Int
         /\ r.kind \notin {"charge", "settle"} => Ta!Delta(r) = 0
<1>1. CASE r = Ta!NoAsk
  BY <1>1 DEF Ta!NoAsk, Ta!Delta
<1>2. CASE r \in TabMenu[c]
  <2>1. /\ r.kind = "status" => r.to \in Ta!Statuses
        /\ r.kind # "status" => r.to \in Nat
    BY <1>2 DEF Ta!TabAssumption
  <2> QED
    BY <2>1 DEF Ta!Delta
<1> QED
  BY <1>1, <1>2

\* The instance's finite sets and sums are those of the lemmas.
LEMMA TabLibrary ==
  /\ \A S : Ta!IsFiniteSet(S) <=> IsFiniteSet(S)
  /\ \A f, S : Ta!SumFunctionOnSet(f, S) = SumFunctionOnSet(f, S)
BY DEF Ta!IsFiniteSet, IsFiniteSet, Ta!SumFunctionOnSet, SumFunctionOnSet,
       Ta!FoldFunctionOnSet, FoldFunctionOnSet, Ta!MapThenFoldSet, MapThenFoldSet

\* What a call has yet to tell changes only where the call does.
LEMMA ToldBy ==
  ASSUME Ta!TabAssumption, Ta!TypeOK, Ta!TypeOK', NEW c \in Calls,
         \A d \in Calls \ {c} : tabAt'[d] = tabAt[d] /\ tabAsk'[d] = tabAsk[d]
  PROVE  /\ SumFunctionOnSet(Ta!ToTell, Calls) \in Int
         /\ SumFunctionOnSet(Ta!ToTell', Calls)
               = SumFunctionOnSet(Ta!ToTell, Calls) - Ta!ToTell[c] + Ta!ToTell'[c]
<1>1. IsFiniteSet(Calls)
  BY TabLibrary DEF Ta!TabAssumption
<1>2. \A d \in Calls : Ta!Delta(tabAsk[d]) \in Int /\ Ta!Delta(tabAsk'[d]) \in Int
  BY AskShape DEF Ta!TypeOK
<1>3. \A d \in Calls : Ta!ToTell[d] \in Int /\ Ta!ToTell'[d] \in Int
  BY <1>2 DEF Ta!ToTell, Ta!Delta
<1>4. \A d \in Calls \ {c} : Ta!ToTell'[d] = Ta!ToTell[d]
  BY DEF Ta!ToTell, Ta!Delta
<1> QED
  BY <1>1, <1>3, <1>4, SumInt, SumUpdate

\* A step of call c that moves nothing and ends or begins it keeps the sum of what is
\* to be told.
LEMMA TabSilent ==
  ASSUME Ta!TabAssumption, TabInv, Ta!TypeOK', NEW c \in Calls,
         \A d \in Calls \ {c} : tabAt'[d] = tabAt[d] /\ tabAsk'[d] = tabAsk[d],
         tabAt[c] # "tell", tabAt'[c] # "tell"
  PROVE  SumFunctionOnSet(Ta!ToTell', Calls) = SumFunctionOnSet(Ta!ToTell, Calls)
<1>1. Ta!ToTell[c] = 0 /\ Ta!ToTell'[c] = 0
  BY DEF Ta!ToTell
<1> QED
  BY <1>1, ToldBy DEF TabInv

\* A request begins.
LEMMA TabBegin ==
  ASSUME Ta!TabAssumption, TabInv, NEW c \in Calls, NEW r \in TabMenu[c], Ta!Begin(c, r)
  PROVE  TabInv'
<1>1. /\ tabAt[c] = "idle" /\ ~tab.gone /\ tabAsk' = [tabAsk EXCEPT ![c] = r]
      /\ tabCopy' = [tabCopy EXCEPT ![c] = tab] /\ tabAt' = [tabAt EXCEPT ![c] = "save"]
      /\ UNCHANGED <<tab, tabBooked, new, decided, removed, overwritten, tabCrossed, lowered,
                     untold, tabFaults>>
  BY DEF Ta!Begin, Ta!history
<1>2. Ta!TypeOK'
  BY <1>1 DEF TabInv, Ta!TypeOK
<1>3. /\ \A d \in Calls \ {c} : /\ tabAt'[d] = tabAt[d] /\ tabAsk'[d] = tabAsk[d]
                                /\ tabCopy'[d] = tabCopy[d]
      /\ tabAt'[c] = "save" /\ tabCopy'[c] = tab
  BY <1>1 DEF TabInv, Ta!TypeOK
<1>4. Ta!WithinLimit' /\ CopiesWithin' /\ Ta!StatusIsDecided'
  BY <1>1, <1>3 DEF TabInv, Ta!WithinLimit, CopiesWithin, Ta!StatusIsDecided
<1>5. ASSUME NEW d \in Calls PROVE NewShape(d)'
  BY <1>1, <1>3 DEF TabInv, NewShape, Ta!Wanted, Ta!Delta
<1>6. Ta!BalanceExplained'
  BY <1>1, <1>2, <1>3, TabSilent, TabLibrary DEF TabInv, Ta!BalanceExplained
<1> QED
  BY <1>2, <1>4, <1>5, <1>6 DEF TabInv

\* What a call wants, it may have: an open tab is charged up to its limit and settled
\* down to nothing.
LEMMA WantedFrom ==
  ASSUME NEW k \in Ta!Tab, NEW r, r.kind \in {"charge", "settle", "limit", "status"},
         r.kind = "status" => r.to \in Ta!Statuses,
         r.kind # "status" => r.to \in Nat,
         r.kind \in {"charge", "settle"} => Ta!Allowed(k, r)
  PROVE  /\ Ta!Wanted(k, r) \in Ta!Tab
         /\ r.kind = "limit" \/ Ta!Wanted(k, r).limit = k.limit
         /\ r.kind # "limit" /\ k.limit > 0 /\ k.balance <= k.limit =>
              Ta!Wanted(k, r).balance <= k.limit
<1>1. k.balance \in Nat /\ k.limit \in Nat
  BY DEF Ta!Tab
<1>2. CASE r.kind = "limit"
  BY <1>1, <1>2 DEF Ta!Wanted, Ta!Tab
<1>3. CASE r.kind = "status"
  BY <1>1, <1>3 DEF Ta!Wanted, Ta!Tab
<1>4. CASE r.kind = "charge"
  BY <1>1, <1>4 DEF Ta!Wanted, Ta!Tab, Ta!Allowed, Ta!Delta
<1>5. CASE r.kind = "settle"
  BY <1>1, <1>5 DEF Ta!Wanted, Ta!Tab, Ta!Allowed, Ta!Delta
<1> QED
  BY <1>2, <1>3, <1>4, <1>5

LEMMA WantedIs ==
  ASSUME Ta!TabAssumption, TabInv, NEW c \in Calls, Ta!Compare(c)
  PROVE  /\ Ta!Wanted(tabCopy[c], tabAsk[c]) \in Ta!Tab
         /\ Ta!Wanted(tabCopy[c], tabAsk[c]).limit > 0 =>
              \/ Ta!Wanted(tabCopy[c], tabAsk[c]).balance <= Ta!Wanted(tabCopy[c], tabAsk[c]).limit
              \/ lowered \/ tabCrossed \/ tabAsk[c].kind = "limit"
<1>1. /\ tabCopy[c] \in Ta!Tab /\ tabAsk[c] \in TabMenu[c] \cup {Ta!NoAsk}
      /\ tabAsk[c].kind # "remove"
      /\ tabAsk[c].kind \in {"charge", "settle"} => Ta!Allowed(tabCopy[c], tabAsk[c])
  BY DEF TabInv, Ta!TypeOK, Ta!Compare, Ta!Moves
<1>2. /\ tabAsk[c].kind = "status" => tabAsk[c].to \in Ta!Statuses
      /\ tabAsk[c].kind # "status" => tabAsk[c].to \in Nat
  BY <1>1, AskShape
<1>3. tabAsk[c].kind \in {"charge", "settle", "limit", "status"}
  BY <1>1 DEF Ta!TabAssumption, Ta!NoAsk, Ta!Kinds
<1>4. tabCopy[c].limit > 0 =>
        tabCopy[c].balance <= tabCopy[c].limit \/ lowered \/ tabCrossed
  BY DEF TabInv, CopiesWithin
<1> QED
  BY <1>1, <1>2, <1>3, <1>4, WantedFrom

\* A save reads the row again.
LEMMA TabCompare ==
  ASSUME Ta!TabAssumption, TabInv, NEW c \in Calls, Ta!Compare(c)
  PROVE  TabInv'
<1>1. /\ tabAt[c] = "save" /\ tabAsk[c].kind # "remove"
      /\ new' = [new EXCEPT ![c] = Ta!Wanted(tabCopy[c], tabAsk[c])]
      /\ tabCopy' = [tabCopy EXCEPT ![c] = tab]
      /\ overwritten' = (overwritten \/ tabCopy[c] # tab)
      /\ tabAt' = [tabAt EXCEPT ![c] = "update"]
      /\ UNCHANGED <<tab, tabBooked, tabAsk, decided, removed, tabCrossed, lowered, untold,
                     tabFaults>>
  BY DEF Ta!Compare
<1>2. Ta!TypeOK'
  <2>1. overwritten' \in BOOLEAN
    BY <1>1 DEF TabInv, Ta!TypeOK
  <2>2. new' \in [Calls -> Ta!Tab] /\ tabCopy' \in [Calls -> Ta!Tab]
    BY <1>1, WantedIs DEF TabInv, Ta!TypeOK
  <2> QED
    BY <1>1, <2>1, <2>2 DEF TabInv, Ta!TypeOK
<1>3. /\ \A d \in Calls \ {c} : /\ tabAt'[d] = tabAt[d] /\ tabAsk'[d] = tabAsk[d]
                                /\ tabCopy'[d] = tabCopy[d] /\ new'[d] = new[d]
      /\ tabAt'[c] = "update" /\ tabCopy'[c] = tab /\ tabAsk'[c] = tabAsk[c]
      /\ new'[c] = Ta!Wanted(tabCopy[c], tabAsk[c])
      /\ overwritten => overwritten'
  BY <1>1 DEF TabInv, Ta!TypeOK
<1>4. Ta!WithinLimit' /\ CopiesWithin' /\ Ta!StatusIsDecided'
  BY <1>1, <1>3 DEF TabInv, Ta!WithinLimit, CopiesWithin, Ta!StatusIsDecided
<1>5. ASSUME NEW d \in Calls PROVE NewShape(d)'
  <2>1. CASE d = c
    BY <1>1, <1>3, <2>1, WantedIs DEF NewShape, Ta!Wanted, Ta!Delta
  <2>2. CASE d # c
    BY <1>1, <1>3, <2>2 DEF TabInv, NewShape, Ta!Wanted, Ta!Delta
  <2> QED
    BY <2>1, <2>2
<1>6. Ta!BalanceExplained'
  BY <1>1, <1>2, <1>3, TabSilent, TabLibrary DEF TabInv, Ta!BalanceExplained
<1> QED
  BY <1>2, <1>4, <1>5, <1>6 DEF TabInv

\* A save updates the columns that differ: over the row it compared with, this writes
\* the tab the call wants.
LEMMA TabWrite ==
  ASSUME Ta!TabAssumption, TabInv, NEW c \in Calls, Ta!Write(c)
  PROVE  TabInv'
<1> DEFINE k == tabCopy[c]
           n == new[c]
           r == tabAsk[c]
<1>1. /\ tabAt[c] = "update" /\ k \in Ta!Tab /\ n \in Ta!Tab /\ tab \in Ta!Tab
      /\ r.kind # "remove" /\ Ta!Delta(r) \in Int /\ r.kind \in Ta!Kinds
      /\ r.kind = "status" => r.to \in Ta!Statuses
      /\ overwritten \/ n = Ta!Wanted(k, r)
      /\ n.limit > 0 => n.balance <= n.limit \/ lowered \/ tabCrossed \/ r.kind = "limit"
      /\ tabCrossed' = (tabCrossed \/ k # tab)
      /\ lowered' = (lowered \/ (r.kind = "limit" /\ n.balance > n.limit))
      /\ decided' = IF r.kind = "status" THEN r.to ELSE decided
      /\ tabAt' = [tabAt EXCEPT ![c] = IF Ta!Moves(c) THEN "tell" ELSE "done"]
      /\ Ta!Moves(c) <=> r.kind \in {"charge", "settle"}
      /\ UNCHANGED <<tabBooked, tabAsk, tabCopy, new, removed, overwritten, untold, tabFaults>>
  BY AskShape DEF TabInv, NewShape, Ta!TypeOK, Ta!Write, Ta!Moves, Ta!TabAssumption, Ta!NoAsk,
       Ta!Kinds
<1>2. /\ tab' \in Ta!Tab
      /\ k = tab => tab' = n
  <2>1. /\ tab'.balance \in {n.balance, tab.balance} /\ tab'.limit \in {n.limit, tab.limit}
        /\ tab'.status \in {n.status, tab.status} /\ tab'.gone \in {n.gone, tab.gone}
        /\ tab' = [balance |-> tab'.balance, limit |-> tab'.limit,
                   status |-> tab'.status, gone |-> tab'.gone]
    BY DEF Ta!Write, Ta!Differs
  <2>2. k = tab => /\ tab'.balance = n.balance /\ tab'.limit = n.limit
                   /\ tab'.status = n.status /\ tab'.gone = n.gone
    BY DEF Ta!Write, Ta!Differs
  <2>3. tab' \in Ta!Tab
    BY <1>1, <2>1 DEF Ta!Tab
  <2>4. n = [balance |-> n.balance, limit |-> n.limit, status |-> n.status, gone |-> n.gone]
    BY <1>1 DEF Ta!Tab
  <2> QED
    BY <2>1, <2>2, <2>3, <2>4
<1>k. tabCopy[c] = k /\ new[c] = n /\ tabAsk[c] = r
  OBVIOUS
<1> HIDE DEF k, n, r
<1>3. Ta!TypeOK'
  <2>1. tabCrossed' \in BOOLEAN /\ lowered' \in BOOLEAN /\ decided' \in Ta!Statuses
    BY <1>1 DEF TabInv, Ta!TypeOK
  <2> QED
    BY <1>1, <1>2, <2>1 DEF TabInv, Ta!TypeOK
<1>4. /\ \A d \in Calls \ {c} : tabAt'[d] = tabAt[d]
      /\ tabAt'[c] = IF Ta!Moves(c) THEN "tell" ELSE "done"
      /\ (tabCrossed => tabCrossed') /\ (lowered => lowered')
  BY <1>1 DEF TabInv, Ta!TypeOK
<1>5. Ta!WithinLimit'
  <2> SUFFICES ASSUME ~tabCrossed', ~lowered', tab'.limit > 0 PROVE tab'.balance <= tab'.limit
    BY DEF Ta!WithinLimit
  <2>1. tab' = n /\ n.balance \in Nat /\ n.limit \in Nat /\ ~tabCrossed /\ ~lowered
        /\ (r.kind = "limit" => ~(n.balance > n.limit))
    BY <1>1, <1>2 DEF Ta!Tab
  <2> QED
    BY <1>1, <2>1
<1>6. CopiesWithin' /\ \A d \in Calls : NewShape(d)'
  BY <1>1, <1>4 DEF TabInv, CopiesWithin, NewShape, Ta!Wanted, Ta!Delta
<1>7. ASSUME ~overwritten', ~tabCrossed'
      PROVE  /\ k = tab /\ tab' = Ta!Wanted(tab, r)
             /\ tab'.balance = tab.balance + Ta!Delta(r) /\ tab'.gone = tab.gone
             /\ tab'.status = IF r.kind = "status" THEN r.to ELSE tab.status
  <2>1. k = tab /\ tab' = Ta!Wanted(tab, r)
    BY <1>1, <1>2, <1>7
  <2>2. tab.balance \in Nat
    BY <1>1 DEF Ta!Tab
  <2> QED
    BY <1>1, <2>1, <2>2 DEF Ta!Wanted, Ta!Delta, Ta!Tab, Ta!Kinds
<1>8. Ta!StatusIsDecided'
  BY <1>1, <1>7 DEF TabInv, Ta!StatusIsDecided
<1>9. Ta!BalanceExplained'
  <2> SUFFICES ASSUME ~overwritten', ~tabCrossed'
      PROVE  tab'.balance = tabBooked + untold + SumFunctionOnSet(Ta!ToTell', Calls)
    BY <1>1, TabLibrary DEF Ta!BalanceExplained
  <2>1. Ta!ToTell[c] = 0 /\ Ta!ToTell'[c] = Ta!Delta(r)
    <3>1. Ta!ToTell[c] = 0
      BY <1>1 DEF Ta!ToTell
    <3>2. CASE Ta!Moves(c)
      BY <1>1, <1>4, <1>k, <3>1, <3>2 DEF Ta!ToTell, Ta!Delta
    <3>3. CASE ~Ta!Moves(c)
      BY <1>1, <1>4, <1>k, <3>1, <3>3 DEF Ta!ToTell, Ta!Delta
    <3> QED
      BY <3>2, <3>3
  <2>2. /\ SumFunctionOnSet(Ta!ToTell, Calls) \in Int
        /\ SumFunctionOnSet(Ta!ToTell', Calls) = SumFunctionOnSet(Ta!ToTell, Calls) + Ta!Delta(r)
    BY <1>1, <1>3, <1>4, <2>1, ToldBy DEF TabInv
  <2>3. tab.balance = tabBooked + untold + SumFunctionOnSet(Ta!ToTell, Calls)
    BY <1>1, TabLibrary DEF TabInv, Ta!BalanceExplained
  <2>4. tabBooked \in Int /\ untold \in Int
    BY DEF TabInv, Ta!TypeOK
  <2> QED
    BY <1>1, <1>7, <2>2, <2>3, <2>4
<1> QED
  BY <1>3, <1>5, <1>6, <1>8, <1>9 DEF TabInv

\* The row that tells of a movement is inserted, or is not.
LEMMA TabTell ==
  ASSUME Ta!TabAssumption, TabInv, NEW c \in Calls, tabAt[c] = "tell", Ta!Tell(c) \/ Ta!Fail(c)
  PROVE  TabInv'
<1>1. /\ tabAt' = [tabAt EXCEPT ![c] = "done"]
      /\ Ta!Delta(tabAsk[c]) \in Int /\ tabBooked \in Int /\ untold \in Int
      /\ tabBooked' \in Int /\ untold' \in Int /\ tabFaults' \in 0..MaxFaults
      /\ tabBooked' + untold' = tabBooked + untold + Ta!Delta(tabAsk[c])
      /\ UNCHANGED <<tab, tabAsk, tabCopy, new, decided, removed, overwritten, tabCrossed, lowered>>
  <2>1. Ta!Delta(tabAsk[c]) \in Int /\ tabBooked \in Int /\ untold \in Int
        /\ MaxFaults \in Nat /\ tabFaults \in 0..MaxFaults
    BY AskShape DEF TabInv, Ta!TypeOK, Ta!TabAssumption
  <2>2. CASE Ta!Tell(c)
    BY <2>1, <2>2 DEF Ta!Tell, Ta!history
  <2>3. CASE Ta!Fail(c)
    BY <2>1, <2>3 DEF Ta!Fail
  <2> QED
    BY <2>2, <2>3
<1>2. Ta!TypeOK'
  BY <1>1 DEF TabInv, Ta!TypeOK
<1>3. Ta!WithinLimit' /\ CopiesWithin' /\ Ta!StatusIsDecided'
  BY <1>1 DEF TabInv, Ta!WithinLimit, CopiesWithin, Ta!StatusIsDecided
<1>4. \A d \in Calls \ {c} : tabAt'[d] = tabAt[d] /\ tabAt'[c] = "done"
  BY <1>1 DEF TabInv, Ta!TypeOK
<1>5. ASSUME NEW d \in Calls PROVE NewShape(d)'
  BY <1>1, <1>4 DEF TabInv, Ta!TypeOK, NewShape, Ta!Wanted, Ta!Delta
<1>6. Ta!BalanceExplained'
  <2>1. /\ \A d \in Calls \ {c} : tabAt'[d] = tabAt[d] /\ tabAsk'[d] = tabAsk[d]
        /\ Ta!ToTell[c] = Ta!Delta(tabAsk[c]) /\ Ta!ToTell'[c] = 0
    BY <1>1 DEF TabInv, Ta!TypeOK, Ta!ToTell, Ta!Delta
  <2>2. /\ SumFunctionOnSet(Ta!ToTell, Calls) \in Int
        /\ SumFunctionOnSet(Ta!ToTell', Calls)
              = SumFunctionOnSet(Ta!ToTell, Calls) - Ta!Delta(tabAsk[c])
    BY <1>1, <1>2, <2>1, ToldBy DEF TabInv
  <2> SUFFICES ASSUME ~overwritten, ~tabCrossed
      PROVE  tab.balance = tabBooked' + untold' + SumFunctionOnSet(Ta!ToTell', Calls)
    BY <1>1, TabLibrary DEF Ta!BalanceExplained
  <2>3. tab.balance = tabBooked + untold + SumFunctionOnSet(Ta!ToTell, Calls)
    BY TabLibrary DEF TabInv, Ta!BalanceExplained
  <2> QED
    BY <1>1, <2>2, <2>3
<1> QED
  BY <1>2, <1>3, <1>5, <1>6 DEF TabInv

\* A refusal, a removal and a call that fails before it has written move nothing.
LEMMA TabOther ==
  ASSUME Ta!TabAssumption, TabInv, NEW c \in Calls,
         Ta!Refuse(c) \/ Ta!Remove(c) \/ (Ta!Fail(c) /\ tabAt[c] # "tell")
  PROVE  TabInv'
<1>1. /\ tabAt[c] \in {"save", "update"} /\ tabAt' = [tabAt EXCEPT ![c] = "done"]
      /\ tab \in Ta!Tab /\ tab' \in Ta!Tab
      /\ tab'.balance = tab.balance /\ tab'.limit = tab.limit /\ tab'.status = tab.status
      /\ removed' \in BOOLEAN /\ tabFaults' \in 0..MaxFaults
      /\ (removed => tab.gone) => (removed' => tab'.gone)
      /\ UNCHANGED <<tabBooked, tabAsk, tabCopy, new, untold, decided, overwritten, tabCrossed,
                     lowered>>
  <2>1. tab \in Ta!Tab /\ removed \in BOOLEAN /\ tabFaults \in 0..MaxFaults /\ MaxFaults \in Nat
    BY DEF TabInv, Ta!TypeOK, Ta!TabAssumption
  <2>2. CASE Ta!Refuse(c)
    BY <2>1, <2>2 DEF Ta!Refuse, Ta!history
  <2>3. CASE Ta!Remove(c)
    BY <2>1, <2>3 DEF Ta!Remove, Ta!Tab
  <2>4. CASE Ta!Fail(c) /\ tabAt[c] # "tell"
    BY <2>1, <2>4 DEF Ta!Fail
  <2> QED
    BY <2>2, <2>3, <2>4
<1>2. Ta!TypeOK'
  BY <1>1 DEF TabInv, Ta!TypeOK
<1>3. Ta!WithinLimit' /\ CopiesWithin' /\ Ta!StatusIsDecided'
  BY <1>1 DEF TabInv, Ta!WithinLimit, CopiesWithin, Ta!StatusIsDecided
<1>4. \A d \in Calls \ {c} : tabAt'[d] = tabAt[d] /\ tabAt'[c] = "done"
  BY <1>1 DEF TabInv, Ta!TypeOK
<1>5. ASSUME NEW d \in Calls PROVE NewShape(d)'
  BY <1>1, <1>4 DEF TabInv, Ta!TypeOK, NewShape, Ta!Wanted, Ta!Delta
<1>6. Ta!BalanceExplained'
  <2>1. tabAt[c] # "tell" /\ tabAt'[c] # "tell"
        /\ \A d \in Calls \ {c} : tabAt'[d] = tabAt[d] /\ tabAsk'[d] = tabAsk[d]
    BY <1>1 DEF TabInv, Ta!TypeOK
  <2>2. SumFunctionOnSet(Ta!ToTell', Calls) = SumFunctionOnSet(Ta!ToTell, Calls)
    BY <1>2, <2>1, TabSilent
  <2> QED
    BY <1>1, <2>2, TabLibrary DEF TabInv, Ta!BalanceExplained
<1> QED
  BY <1>2, <1>3, <1>5, <1>6 DEF TabInv

\* TabInv holds at first and every step keeps it.
LEMMA TabInvariance ==
  ASSUME Ta!TabAssumption
  PROVE  Ta!Spec => []TabInv
<1>1. Ta!Init => TabInv
  <2> SUFFICES ASSUME Ta!Init PROVE TabInv
    OBVIOUS
  <2>1. /\ Ta!TypeOK /\ Ta!WithinLimit /\ CopiesWithin /\ Ta!StatusIsDecided
        /\ \A c \in Calls : NewShape(c)
    <3>1. PICK k \in FirstLimits :
             tab = [balance |-> 0, limit |-> k, status |-> "open", gone |-> FALSE]
      BY DEF Ta!Init
    <3>2. k \in Nat /\ MaxFaults \in Nat
      BY DEF Ta!TabAssumption
    <3>3. tab \in Ta!Tab /\ 0 \in 0..MaxFaults
      BY <3>1, <3>2 DEF Ta!Tab, Ta!Statuses
    <3>4. Ta!TypeOK
      <4>1. /\ tabBooked = 0 /\ untold = 0 /\ tabFaults = 0 /\ decided = "open"
            /\ tabAt = [c \in Calls |-> "idle"] /\ tabAsk = [c \in Calls |-> Ta!NoAsk]
            /\ tabCopy = [c \in Calls |-> tab] /\ new = [c \in Calls |-> tab]
            /\ removed = FALSE /\ overwritten = FALSE /\ tabCrossed = FALSE /\ lowered = FALSE
        BY DEF Ta!Init
      <4>2. DOMAIN tabAsk = Calls /\ \A c \in Calls : tabAsk[c] \in TabMenu[c] \cup {Ta!NoAsk}
        BY <4>1
      <4>3. /\ tabCopy \in [Calls -> Ta!Tab] /\ new \in [Calls -> Ta!Tab]
            /\ tabAt \in [Calls -> {"idle", "save", "update", "tell", "done"}]
        BY <3>3, <4>1
      <4>4. tabBooked \in Int /\ untold \in Int /\ tabFaults \in 0..MaxFaults
        BY <3>3, <4>1
      <4>5. decided \in Ta!Statuses
        BY <4>1 DEF Ta!Statuses
      <4> QED
        BY <3>3, <4>1, <4>2, <4>3, <4>4, <4>5 DEF Ta!TypeOK
    <3> QED
      BY <3>1, <3>2, <3>4 DEF Ta!Init, Ta!WithinLimit, CopiesWithin, Ta!StatusIsDecided, NewShape
  <2>2. SumFunctionOnSet(Ta!ToTell, Calls) = 0
    <3>1. \A c \in Calls : Ta!ToTell[c] = 0
      BY DEF Ta!Init, Ta!ToTell
    <3> QED
      BY <3>1, SumZero, TabLibrary DEF Ta!TabAssumption
  <2>3. Ta!BalanceExplained
    BY <2>2, TabLibrary DEF Ta!Init, Ta!BalanceExplained
  <2> QED
    BY <2>1, <2>3 DEF TabInv
<1>2. TabInv /\ [Ta!Next]_(Ta!vars) => TabInv'
  <2> SUFFICES ASSUME TabInv, [Ta!Next]_(Ta!vars) PROVE TabInv'
    OBVIOUS
  <2>1. CASE UNCHANGED Ta!vars
    BY <2>1, TabLibrary DEF Ta!vars, Ta!history, TabInv, Ta!TypeOK, Ta!WithinLimit, CopiesWithin,
       Ta!StatusIsDecided, Ta!BalanceExplained, Ta!ToTell, NewShape, Ta!Wanted, Ta!Delta
  <2>2. CASE Ta!Next
    <3>1. ASSUME NEW c \in Calls, Ta!Tell(c) \/ Ta!Fail(c)
          PROVE  TabInv'
      BY <3>1, TabTell, TabOther DEF Ta!Tell
    <3> QED
      BY <2>2, <3>1, TabBegin, TabCompare, TabWrite, TabOther DEF Ta!Next, Ta!Step
  <2> QED
    BY <2>1, <2>2
<1> QED
  BY <1>1, <1>2, PTL DEF Ta!Spec

\* A tab is within its limit, unless the limit was set below the balance or a row was
\* updated after another call had changed it since the comparison.
THEOREM TabWithinLimit ==
  ASSUME Ta!TabAssumption
  PROVE  Ta!Spec => []Ta!WithinLimit
<1>1. TabInv => Ta!WithinLimit
  BY DEF TabInv
<1> QED
  BY <1>1, TabInvariance, PTL

\* The balance is the sum of the rows told, to come and failed, unless a call has saved
\* a copy that was out of date.
THEOREM TabBalance ==
  ASSUME Ta!TabAssumption
  PROVE  Ta!Spec => []Ta!BalanceExplained
<1>1. TabInv => Ta!BalanceExplained
  BY DEF TabInv
<1> QED
  BY <1>1, TabInvariance, PTL

\* A tab has the status last asked for and stays removed, unless a call has saved a
\* copy that was out of date.
THEOREM TabStatus ==
  ASSUME Ta!TabAssumption
  PROVE  Ta!Spec => []Ta!StatusIsDecided
<1>1. TabInv => Ta!StatusIsDecided
  BY DEF TabInv
<1> QED
  BY <1>1, TabInvariance, PTL

-----------------------------------------------------------------------------
(* Products of financial institutions.                                      *)

\* The legs of a call so far.
PaidLegs(c) == fiMoved[c] \cup flagged[c]

\* Which kinds of call take a step, have a row and pay a leg.
KindShape(c) ==
    LET k == fiReq[c].kind
    IN  /\ fiAt[c] \in {"lock", "compensate"} \/ row[c] \in {"MATURED", "removed"} => k = "deposit"
        /\ fiAt[c] \in {"premium", "commission"} => k = "purchase"
        /\ fiAt[c] = "creditFee" \/ row[c] = "SAVED" => k = "report"
        /\ fiAt[c] \in {"payout", "fee"} \/ "payout" \in PaidLegs(c) => k = "mature"
        /\ fiAt[c] \in {"benefit", "paidOut"} \/ "benefit" \in PaidLegs(c) => k = "review"
        /\ fiAt[c] = "reject" => k \in {"decline", "disapprove"}
        /\ fiAt[c] = "create" => k \in {"deposit", "purchase", "apply", "report"}
        /\ fiAt[c] = "close" => k \in {"deposit", "mature", "review"}
        /\ fiAt[c] = "read" => k \in Fi!Deciding \cup {"file"}
        /\ row[c] = "ACTIVE" => k \in {"deposit", "purchase"}
        /\ row[c] \in {"SUBMITTED", "PAID_OUT"} => k = "file"
        /\ row[c] = "PENDING" => k = "apply"
        /\ row[c] = "REJECTED" => k \in {"file", "apply"}
        /\ "lock" \in PaidLegs(c) => k = "deposit"

\* A call that has not begun has nothing, and what one is asked about has a row.
FiCallShape(c) ==
    /\ fiAt[c] = "idle" => row[c] = "none" /\ before[c] = {} /\ PaidLegs(c) = {}
    /\ fiAt[c] # "idle" => fiReq[c] \in FiMenu[c] /\ (fiReq[c].of # Nobody =>
         row[fiReq[c].of] # "none")
    /\ fiAt[c] = "idle" => fiReq[c].kind = "report"
    /\ fiAt[c] \in {"create", "premium", "commission", "creditFee", "read"} => row[c] = "none"
    /\ KindShape(c)

\* A deposit: it is locked once, after it is recorded, and removed only unlocked.
DepositShape(c) ==
    fiReq[c].kind = "deposit" =>
        /\ fiAt[c] \in {"create", "lock", "compensate"} => "lock" \notin PaidLegs(c)
        /\ fiAt[c] \in {"lock", "compensate", "close"} => row[c] = "ACTIVE"
        /\ fiAt[c] \in {"close", "done"} => "lock" \in PaidLegs(c)
        /\ fiAt[c] = "crashed" => c \in fiDisturbed
        /\ fiAt[c] = "failed" => row[c] = "removed"
        /\ "lock" \in PaidLegs(c) => row[c] \in {"ACTIVE", "MATURED"}
        /\ c \in ripe => fiAt[c] \in {"done", "failed", "crashed"}
             /\ row[c] \in {"ACTIVE", "MATURED"}

\* A policy: premium first, then the commission, then the row.
PolicyShape(c) ==
    fiReq[c].kind = "purchase" =>
        /\ fiAt[c] = "commission" => "premium" \in PaidLegs(c)
        /\ fiAt[c] = "create" \/ row[c] = "ACTIVE" =>
             {"premium", "commission"} \subseteq PaidLegs(c)

\* A decision: nothing is paid before its row is read, and a payment is closed by its row.
DecisionShape(c) ==
    /\ fiReq[c].kind \in {"file", "mature", "review"} /\ fiAt[c] = "read" => PaidLegs(c) = {}
    /\ fiReq[c].kind = "mature" =>
          /\ fiAt[c] \in {"payout", "fee", "close"} => fiReq[c].of \in ripe
          /\ fiAt[c] = "done" => row[fiReq[c].of] = "MATURED"
    /\ fiReq[c].kind = "review" =>
          /\ fiAt[c] \in {"benefit", "close", "paidOut", "done"} => fiReq[fiReq[c].of].kind = "file"
          /\ fiAt[c] \in {"paidOut", "done"} => fiReq[fiReq[c].of].of \in claimed
          /\ fiAt[c] = "done" => row[fiReq[c].of] \in {"PAID_OUT", "REJECTED"}
    /\ fiReq[c].kind = "decline" /\ fiAt[c] = "reject" => fiReq[fiReq[c].of].kind = "file"
    /\ fiReq[c].kind = "disapprove" /\ fiAt[c] = "reject" => fiReq[fiReq[c].of].kind = "apply"

\* A call that begins after another has paid and closed, pays and files nothing more.
LaterShape(c) ==
    /\ \A d \in before[c] : fiAt[d] = "done"
    /\ \A d \in before[c] :
          (fiReq[d].of = fiReq[c].of /\ fiReq[d].kind = fiReq[c].kind
            /\ fiReq[c].kind \in {"mature", "review"})
             => fiAt[c] \in {"read", "failed", "crashed"} /\ PaidLegs(c) = {}
    /\ \A d \in before[c] :
          (fiReq[d].kind = "review" /\ fiReq[c].kind = "file"
            /\ fiReq[fiReq[d].of].of = fiReq[c].of)
             => fiAt[c] \in {"read", "failed", "crashed"} /\ row[c] = "none"

FiInv ==
    /\ Fi!TypeOK /\ ripe \subseteq {c \in Calls : fiReq[c].kind = "deposit"}
    /\ \A c \in Calls : /\ FiCallShape(c) /\ DepositShape(c) /\ PolicyShape(c)
                        /\ DecisionShape(c) /\ LaterShape(c)
Shapes(c) == FiCallShape(c) /\ DepositShape(c) /\ PolicyShape(c) /\ DecisionShape(c)
  /\ LaterShape(c)

\* A decision on the row of d: a ripe deposit matures, a claim is paid or rejected, an
\* application is rejected.
Decided(d, to) ==
    \/ fiReq[d].kind = "deposit" /\ d \in ripe /\ to = "MATURED"
    \/ fiReq[d].kind = "file" /\ to \in {"PAID_OUT", "REJECTED"}
    \/ fiReq[d].kind = "apply" /\ to = "REJECTED"

\* What a step of a call c that has begun does to the others: at most it decides.
FiFrame(c) ==
    /\ fiReq' = fiReq /\ before' = before /\ claimed \subseteq claimed'
         /\ fiDisturbed \subseteq fiDisturbed'
    /\ ripe \subseteq ripe'
    /\ \A d \in Calls \ {c} : /\ fiAt'[d] = fiAt[d] /\ fiMoved'[d] = fiMoved[d]
                                   /\ flagged'[d] = flagged[d]
                              /\ d \in ripe' => d \in ripe
                              /\ \/ row'[d] = row[d]
                                 \/ row[d] # "none" /\ Decided(d, row'[d])
    /\ fiAt[c] = "done" => fiAt'[c] = "done"
    /\ \A d \in Calls : /\ row[d] # "none" => row'[d] # "none"
                        /\ row[d] = "MATURED" => row'[d] = "MATURED"
                        /\ row[d] \in {"PAID_OUT", "REJECTED"} =>
                             row'[d] \in {"PAID_OUT", "REJECTED"}

\* A step of c leaves the shapes of the others.
LEMMA FiOthers ==
  ASSUME FiInv, Fi!FiAssumption, NEW c \in Calls, FiFrame(c), NEW d \in Calls \ {c}
  PROVE  Shapes(d)'
<1>1. /\ fiAt'[d] = fiAt[d] /\ PaidLegs(d)' = PaidLegs(d) /\ fiReq' = fiReq /\ before' = before
      /\ row'[d] = row[d] \/ (row[d] # "none" /\ Decided(d, row'[d]))
      /\ d \in ripe' <=> d \in ripe
      /\ before[d] \subseteq Calls
  BY DEF FiFrame, PaidLegs, FiInv, Fi!TypeOK
<1>2. FiCallShape(d) /\ DepositShape(d) /\ PolicyShape(d) /\ DecisionShape(d) /\ LaterShape(d)
  BY DEF FiInv
<1>3. fiAt[d] # "idle" /\ fiReq[d].of # Nobody => fiReq[d].of \in Calls
        /\ row'[fiReq[d].of] # "none"
  <2> SUFFICES ASSUME fiAt[d] # "idle", fiReq[d].of # Nobody
               PROVE  fiReq[d].of \in Calls /\ row'[fiReq[d].of] # "none"
    OBVIOUS
  <2>1. fiReq[d].of \in Calls
    BY DEF FiInv, Fi!TypeOK, Fi!Requests
  <2> QED
    BY <1>2, <2>1 DEF FiCallShape, FiFrame
<1>4. KindShape(d)'
  <2>1. KindShape(d)
    BY <1>2 DEF FiCallShape
  <2>2. CASE row'[d] = row[d]
    BY <1>1, <2>1, <2>2 DEF KindShape
  <2>3. CASE Decided(d, row'[d])
    BY <1>1, <2>1, <2>3 DEF KindShape, Decided
  <2> QED
    BY <1>1, <2>2, <2>3
<1>5. FiCallShape(d)'
  BY <1>1, <1>2, <1>3, <1>4 DEF FiCallShape
<1>6. DepositShape(d)'
  <2>1. CASE row'[d] = row[d]
    BY <1>1, <1>2, <2>1 DEF DepositShape, FiFrame
  <2>2. CASE Decided(d, row'[d])
    BY <1>1, <1>2, <2>2 DEF DepositShape, Decided, FiFrame
  <2> QED
    BY <1>1, <2>1, <2>2
<1>7. PolicyShape(d)'
  BY <1>1, <1>2 DEF PolicyShape, Decided
<1>8. DecisionShape(d)'
  <2>1. fiReq[d].kind \in {"mature", "review"} /\ fiAt[d] # "idle" => fiReq[d].of \in Calls
    BY <1>2 DEF FiCallShape, Fi!FiAssumption, FiInv, Fi!TypeOK, Fi!Requests, Fi!Creating
  <2> QED
    BY <1>1, <1>2, <2>1 DEF DecisionShape, FiFrame
<1>9. LaterShape(d)'
  <2>1. \A e \in before[d] : fiAt'[e] = "done"
    BY <1>1, <1>2 DEF LaterShape, FiFrame
  <2> QED
    BY <1>1, <1>2, <2>1 DEF LaterShape
<1> QED
  BY <1>5, <1>6, <1>7, <1>8, <1>9 DEF Shapes

\* What is left to show of a step of a call that has begun.
LEMMA FiStep ==
  ASSUME FiInv, Fi!FiAssumption, NEW c \in Calls, FiFrame(c), Fi!TypeOK', Shapes(c)',
         c \in ripe' => fiReq[c].kind = "deposit"
  PROVE  FiInv'
<1>1. \A d \in Calls : Shapes(d)'
  BY FiOthers
<1>2. ripe' \subseteq {d \in Calls : fiReq'[d].kind = "deposit"}
  BY DEF FiFrame, FiInv, Fi!TypeOK
<1> QED
  BY <1>1, <1>2 DEF FiInv, Shapes

\* A call moves and writes at most its own row.
LEMMA FiOwn ==
  ASSUME FiInv, Fi!FiAssumption, NEW c \in Calls, fiAt[c] \notin {"idle", "done"},
         UNCHANGED <<fiReq, before, claimed, ripe>>, fiDisturbed \subseteq fiDisturbed',
         fiDisturbed' \subseteq Calls, fiFaults' \in 0..MaxFaults,
         NEW s \in Fi!Ended \cup Fi!Legs
                     \cup {"create", "read", "close", "compensate", "paidOut", "reject"},
         fiAt' = [fiAt EXCEPT ![c] = s],
         NEW r \in {"none", "ACTIVE", "MATURED", "removed", "SUBMITTED", "PAID_OUT",
                    "REJECTED", "PENDING", "SAVED"},
         row' = [row EXCEPT ![c] = r],
         row[c] = r \/ row[c] = "none" \/ (row[c] = "ACTIVE" /\ r = "removed"),
         NEW m \in SUBSET Fi!Legs, NEW f \in SUBSET Fi!Legs,
         fiMoved' = [fiMoved EXCEPT ![c] = m], flagged' = [flagged EXCEPT ![c] = f],
         Shapes(c)'
  PROVE  FiInv'
<1>1. Fi!TypeOK'
  BY DEF FiInv, Fi!TypeOK
<1>2. FiFrame(c)
  BY DEF FiInv, Fi!TypeOK, FiFrame
<1>3. c \in ripe' => fiReq[c].kind = "deposit"
  BY DEF FiInv
<1> QED
  BY <1>1, <1>2, <1>3, FiStep
\* What a call that has begun is about has a row, and still has it after FiOwn's steps.
LEMMA FiAbout ==
  ASSUME FiInv, Fi!FiAssumption, NEW c \in Calls, fiAt[c] # "idle"
  PROVE  /\ fiReq[c].of # Nobody => fiReq[c].of \in Calls /\ row[fiReq[c].of] # "none"
         /\ fiReq[c].kind \notin Fi!Creating \ {"file"} => fiReq[c].of # Nobody
         /\ fiReq[c] \in FiMenu[c] /\ fiReq[c].kind \in Fi!Kinds
         /\ Shapes(c) /\ KindShape(c)
         /\ row[c] # "none" => fiReq[c].kind \in Fi!Creating
<1>1. FiCallShape(c) /\ fiReq[c] \in Fi!Requests
  BY DEF FiInv, Fi!TypeOK
<1>2. /\ fiReq[c].of # Nobody => fiReq[c].of \in Calls /\ row[fiReq[c].of] # "none"
      /\ fiReq[c] \in FiMenu[c] /\ fiReq[c].kind \in Fi!Kinds
  BY <1>1 DEF FiCallShape, Fi!Requests
<1>3. fiReq[c].kind \notin Fi!Creating \ {"file"} => fiReq[c].of # Nobody
  BY <1>2 DEF Fi!FiAssumption
<1>4. Shapes(c) /\ KindShape(c)
  BY <1>1 DEF FiInv, Shapes, FiCallShape
<1>5. row[c] # "none" => fiReq[c].kind \in Fi!Creating
  BY <1>4 DEF KindShape, Fi!Creating, FiInv, Fi!TypeOK
<1> QED
  BY <1>2, <1>3, <1>4, <1>5

\* A leg is paid, stored or refused.
LEMMA FiTransfer ==
  ASSUME FiInv, Fi!FiAssumption, NEW c \in Calls, Fi!Transfer(c)
  PROVE  FiInv'
<1>0. Fi!TypeOK /\ fiAt[c] \in Fi!Legs /\ Shapes(c) /\ KindShape(c)
      /\ UNCHANGED <<fiReq, row, claimed, ripe, before, fiDisturbed, fiFaults>>
  BY FiAbout DEF FiInv, Fi!Transfer, Fi!history, Fi!Legs, Shapes, FiCallShape
<1>1. /\ fiAt' = [fiAt EXCEPT ![c] = fiAt'[c]]
      /\ fiMoved' = [fiMoved EXCEPT ![c] = fiMoved'[c]]
           /\ flagged' = [flagged EXCEPT ![c] = flagged'[c]]
      /\ fiMoved'[c] \in SUBSET Fi!Legs /\ flagged'[c] \in SUBSET Fi!Legs
      /\ \/ fiAt'[c] \in Fi!AfterLeg(c) /\ PaidLegs(c)' = PaidLegs(c) \cup {fiAt[c]}
         \/ fiAt'[c] = Fi!AfterRefusal(c) /\ PaidLegs(c)' = PaidLegs(c)
  BY <1>0 DEF Fi!TypeOK, Fi!Transfer, Fi!Goto, Fi!money, PaidLegs
<1>2. /\ fiAt'[c] \in Fi!Ended \cup Fi!Legs
                      \cup {"create", "read", "close", "compensate", "paidOut", "reject"}
      /\ fiAt'[c] \notin {"idle", "done", "read", "paidOut", "reject"}
      /\ fiAt'[c] = "failed" => fiAt[c] # "lock"
      /\ fiAt'[c] \in {"create", "premium", "commission", "creditFee"}
             => fiAt[c] \in {"premium", "commission", "creditFee"}
      /\ fiAt'[c] \notin {"crashed", "lock", "benefit", "payout", "premium", "creditFee"}
      /\ fiAt'[c] = "compensate" <=> fiAt[c] = "lock" /\ fiAt'[c] # "close"
      /\ fiAt'[c] = "commission" <=> fiAt[c] = "premium" /\ fiAt'[c] # "failed"
      /\ fiAt'[c] = "create" <=> fiAt[c] \in {"commission", "creditFee"} /\ fiAt'[c] # "failed"
      /\ fiAt'[c] = "fee" => fiAt[c] = "payout"
      /\ fiAt'[c] = "close" => fiAt[c] \in {"lock", "payout", "fee", "benefit"}
      /\ fiAt'[c] \in {"failed", "compensate"} => PaidLegs(c)' = PaidLegs(c)
      /\ fiAt'[c] \notin {"failed", "compensate"} => PaidLegs(c)' = PaidLegs(c) \cup {fiAt[c]}
  BY <1>0, <1>1 DEF Fi!AfterLeg, Fi!AfterRefusal, Fi!Legs, Fi!Ended
<1>3. FiCallShape(c)'
  <2>1. KindShape(c)'
    BY <1>0, <1>1, <1>2 DEF KindShape, Fi!Legs
  <2>2. row'[c] = row[c] /\ fiReq' = fiReq /\ row' = row /\ before' = before /\ fiAt[c] # "idle"
    BY <1>0 DEF Fi!Legs
  <2> QED
    BY <1>0, <1>2, <2>1, <2>2 DEF FiCallShape, Shapes
<1>4. DepositShape(c)'
  BY <1>0, <1>1, <1>2 DEF DepositShape, Shapes, KindShape, Fi!Legs
<1>5. PolicyShape(c)'
  BY <1>0, <1>1, <1>2 DEF PolicyShape, Shapes, KindShape
<1>6. DecisionShape(c)'
  BY <1>0, <1>1, <1>2 DEF DecisionShape, Shapes, KindShape
<1>7. LaterShape(c)'
  <2>1. \A d \in before[c] : d \in Calls /\ fiAt[d] = "done" /\ fiAt'[d] = "done"
    BY <1>0, <1>1 DEF LaterShape, Shapes, Fi!TypeOK, Fi!Legs
  <2> QED
    BY <1>0, <1>1, <1>2, <2>1 DEF LaterShape, Shapes, KindShape, Fi!Legs
<1>8. Shapes(c)'
  BY <1>3, <1>4, <1>5, <1>6, <1>7 DEF Shapes
<1>9. /\ row' = [row EXCEPT ![c] = row[c]]
      /\ row[c] \in {"none", "ACTIVE", "MATURED", "removed", "SUBMITTED", "PAID_OUT",
                    "REJECTED", "PENDING", "SAVED"}
      /\ fiDisturbed' \subseteq Calls /\ fiFaults' \in 0..MaxFaults
  BY <1>0 DEF Fi!TypeOK
<1>10. fiAt[c] \notin {"idle", "done"}
  BY <1>0 DEF Fi!Legs
<1> QED
  BY <1>0, <1>1, <1>2, <1>8, <1>9, <1>10, FiOwn
\* What d has done stands in the way of c.
Closes(d, c) ==
    \/ fiReq[d].of = fiReq[c].of /\ fiReq[d].kind = fiReq[c].kind
         /\ fiReq[c].kind \in {"mature", "review"}
    \/ fiReq[d].kind = "review" /\ fiReq[c].kind = "file" /\ fiReq[fiReq[d].of].of = fiReq[c].of

\* What an own step that moves no QP leaves to show.
LEMMA FiQuiet ==
  ASSUME FiInv, Fi!FiAssumption, NEW c \in Calls, fiAt[c] \notin {"idle", "done"},
         UNCHANGED <<fiReq, before, claimed, ripe, fiMoved, flagged>>,
         fiDisturbed \subseteq fiDisturbed', fiDisturbed' \subseteq Calls, fiFaults' \in 0..MaxFaults,
         NEW s \in Fi!Ended \cup Fi!Legs
                     \cup {"create", "read", "close", "compensate", "paidOut", "reject"},
         fiAt' = [fiAt EXCEPT ![c] = s], s # "idle",
         NEW r \in {"none", "ACTIVE", "MATURED", "removed", "SUBMITTED", "PAID_OUT",
                    "REJECTED", "PENDING", "SAVED"},
         row' = [row EXCEPT ![c] = r],
         row[c] = r \/ row[c] = "none" \/ (row[c] = "ACTIVE" /\ r = "removed"),
         s \in {"create", "premium", "commission", "creditFee", "read"} => r = "none",
         KindShape(c)', DepositShape(c)', PolicyShape(c)', DecisionShape(c)',
         \A d \in before[c] :
            Closes(d, c) =>
               s \in {"read", "failed", "crashed"} /\ (r # "none" => row[c] # "none")
  PROVE  FiInv'
<1>1. /\ fiAt'[c] = s /\ row'[c] = r /\ PaidLegs(c)' = PaidLegs(c) /\ Shapes(c)
      /\ \A d \in Calls \ {c} : row'[d] = row[d] /\ fiAt'[d] = fiAt[d]
      /\ row[c] # "none" => r # "none"
  BY DEF FiInv, Fi!TypeOK, PaidLegs, Shapes
<1>2. FiCallShape(c)'
  BY <1>1, FiAbout DEF FiCallShape, Shapes
<1>3. LaterShape(c)'
  <2>1. \A d \in before[c] : d \in Calls /\ d # c /\ fiAt'[d] = "done"
    BY <1>1 DEF LaterShape, Shapes, FiInv, Fi!TypeOK
  <2> QED
    BY <1>1, <2>1 DEF LaterShape, Shapes, Closes
<1>4. Shapes(c)'
  BY <1>2, <1>3 DEF Shapes
<1>5. /\ fiMoved' = [fiMoved EXCEPT ![c] = fiMoved[c]]
           /\ flagged' = [flagged EXCEPT ![c] = flagged[c]]
      /\ fiMoved[c] \in SUBSET Fi!Legs /\ flagged[c] \in SUBSET Fi!Legs
  BY DEF FiInv, Fi!TypeOK
<1>6. UNCHANGED <<fiReq, before, claimed, ripe>>
  OBVIOUS
<1> QED
  BY <1>1, <1>4, <1>5, <1>6, FiOwn

\* A call creates, confirms or removes its own row.
LEMMA FiRows ==
  ASSUME FiInv, Fi!FiAssumption, NEW c \in Calls,
         \/ Fi!CreateDeposit(c) \/ Fi!RemoveDeposit(c) \/ Fi!CloseDeposit(c)
         \/ Fi!CreatePolicy(c) \/ Fi!RequestLoan(c) \/ Fi!SaveReport(c) \/ Fi!FileClaim(c)
  PROVE  FiInv'
<1>1. /\ UNCHANGED <<fiReq, before, claimed, ripe, fiMoved, flagged, fiDisturbed, fiFaults>>
      /\ fiAt[c] \in {"create", "compensate", "close", "read"} /\ Fi!TypeOK
      /\ Shapes(c) /\ KindShape(c) /\ PaidLegs(c)' = PaidLegs(c)
  BY FiAbout DEF FiInv, Shapes, FiCallShape, PaidLegs, Fi!CreateDeposit, Fi!RemoveDeposit,
       Fi!CloseDeposit, Fi!CreatePolicy, Fi!RequestLoan, Fi!SaveReport, Fi!FileClaim, Fi!Is,
       Fi!money, Fi!history
<1>2. \/ Fi!CreateDeposit(c) /\ fiAt'[c] = "lock" /\ row'[c] = "ACTIVE"
      \/ Fi!RemoveDeposit(c) /\ fiAt'[c] = "failed" /\ row'[c] = "removed"
      \/ Fi!CloseDeposit(c) /\ fiAt'[c] = "done" /\ row'[c] = row[c]
      \/ Fi!CreatePolicy(c) /\ fiAt'[c] = "done" /\ row'[c] = "ACTIVE"
      \/ Fi!RequestLoan(c) /\ fiAt'[c] = "done" /\ row'[c] = "PENDING"
      \/ Fi!SaveReport(c) /\ fiAt'[c] = "done" /\ row'[c] = "SAVED"
      \/ Fi!FileClaim(c) /\ fiReq[c].of \in claimed /\ fiAt'[c] = "failed" /\ row'[c] = row[c]
      \/ Fi!FileClaim(c) /\ fiReq[c].of \notin claimed /\ fiAt'[c] = "done" /\ row'[c] = "SUBMITTED"
  BY <1>1 DEF Fi!TypeOK, Fi!CreateDeposit, Fi!RemoveDeposit, Fi!CloseDeposit, Fi!CreatePolicy,
       Fi!RequestLoan, Fi!SaveReport, Fi!FileClaim, Fi!Goto
<1>3. fiAt' = [fiAt EXCEPT ![c] = fiAt'[c]] /\ row' = [row EXCEPT ![c] = row'[c]]
  BY <1>1 DEF Fi!TypeOK, Fi!CreateDeposit, Fi!RemoveDeposit, Fi!CloseDeposit, Fi!CreatePolicy,
       Fi!RequestLoan, Fi!SaveReport, Fi!FileClaim, Fi!Goto
<1>4. /\ fiAt[c] \in {"create", "read"} => row[c] = "none"
      /\ fiAt[c] = "compensate" => row[c] = "ACTIVE" /\ fiReq[c].kind = "deposit"
      /\ Fi!CreateDeposit(c) => fiAt[c] = "create" /\ fiReq[c].kind = "deposit"
      /\ Fi!RemoveDeposit(c) => fiAt[c] = "compensate" /\ fiReq[c].kind = "deposit"
      /\ Fi!CloseDeposit(c) => fiAt[c] = "close" /\ fiReq[c].kind = "deposit"
      /\ Fi!CreatePolicy(c) => fiAt[c] = "create" /\ fiReq[c].kind = "purchase"
      /\ Fi!RequestLoan(c) => fiAt[c] = "create" /\ fiReq[c].kind = "apply"
      /\ Fi!SaveReport(c) => fiAt[c] = "create" /\ fiReq[c].kind = "report"
      /\ Fi!FileClaim(c) => fiAt[c] = "read" /\ fiReq[c].kind = "file"
  BY <1>1 DEF Shapes, FiCallShape, DepositShape, KindShape, Fi!CreateDeposit, Fi!RemoveDeposit,
       Fi!CloseDeposit, Fi!CreatePolicy, Fi!RequestLoan, Fi!SaveReport, Fi!FileClaim, Fi!Is
<1>5. /\ fiAt'[c] \in {"lock", "failed", "done"} /\ fiAt[c] \notin {"idle", "done"}
      /\ row[c] \in {"none", "ACTIVE", "MATURED", "removed", "SUBMITTED", "PAID_OUT",
                     "REJECTED", "PENDING", "SAVED"}
      /\ row'[c] \in {"none", "ACTIVE", "MATURED", "removed", "SUBMITTED", "PAID_OUT",
                      "REJECTED", "PENDING", "SAVED"}
      /\ row[c] = row'[c] \/ row[c] = "none" \/ (row[c] = "ACTIVE" /\ row'[c] = "removed")
      /\ fiDisturbed' \subseteq Calls /\ fiFaults' \in 0..MaxFaults
           /\ fiDisturbed \subseteq fiDisturbed'
  BY <1>1, <1>2, <1>4 DEF Fi!TypeOK
<1>6. KindShape(c)'
  BY <1>1, <1>2, <1>4, <1>5 DEF KindShape
<1>7. DepositShape(c)'
  BY <1>1, <1>2, <1>4, <1>5 DEF DepositShape, Shapes, KindShape
<1>8. PolicyShape(c)'
  BY <1>1, <1>2, <1>4, <1>5 DEF PolicyShape, Shapes
<1>9. DecisionShape(c)'
  BY <1>1, <1>2, <1>4, <1>5 DEF DecisionShape
<1>10. ASSUME NEW d \in before[c], fiReq[d].kind = "review", fiReq[c].kind = "file",
              fiReq[fiReq[d].of].of = fiReq[c].of
       PROVE  fiAt'[c] = "failed" /\ row'[c] = row[c]
  <2>1. d \in Calls /\ fiAt[d] = "done" /\ DecisionShape(d)
    BY <1>1, <1>10 DEF Fi!TypeOK, Shapes, LaterShape, FiInv
  <2>2. fiReq[c].of \in claimed
    BY <1>10, <2>1 DEF DecisionShape
  <2> QED
    BY <1>2, <1>4, <1>10, <2>2
<1>11. \A d \in before[c] :
          Closes(d, c) => fiAt'[c] \in {"read", "failed", "crashed"}
                          /\ (row'[c] # "none" => row[c] # "none")
  BY <1>2, <1>4, <1>10 DEF Closes
<1>12. fiAt'[c] \in Fi!Ended \cup Fi!Legs
                      \cup {"create", "read", "close", "compensate", "paidOut", "reject"}
  BY <1>5 DEF Fi!Ended, Fi!Legs
<1>13. UNCHANGED <<fiReq, before, claimed, ripe, fiMoved, flagged>>
  BY <1>1
<1> QED
  BY <1>3, <1>5, <1>6, <1>7, <1>8, <1>9, <1>11, <1>12, <1>13, FiQuiet
\* A decision begins by reading the row it is about.
LEMMA FiReads ==
  ASSUME FiInv, Fi!FiAssumption, NEW c \in Calls,
         Fi!ReadDeposit(c) \/ Fi!ReadClaim(c) \/ Fi!ReadLoan(c) \/ Fi!ApproveLoan(c)
  PROVE  FiInv'
<1>1. /\ UNCHANGED <<fiReq, row, before, claimed, ripe, fiMoved, flagged, fiDisturbed, fiFaults>>
      /\ fiAt[c] = "read" /\ fiReq[c].kind \in Fi!Deciding /\ Fi!TypeOK /\ fiAt[c] # "idle"
  BY DEF FiInv, Fi!ReadDeposit, Fi!ReadClaim, Fi!ReadLoan, Fi!ApproveLoan, Fi!Is, Fi!money,
       Fi!history, Fi!Deciding
<1>2. Shapes(c) /\ KindShape(c) /\ PaidLegs(c)' = PaidLegs(c) /\ row[c] = "none"
  BY <1>1, FiAbout DEF PaidLegs, Shapes, FiCallShape
<1>3. fiReq[c].of \in Calls /\ KindShape(fiReq[c].of)
  <2>1. fiReq[c].of \in Calls
    BY <1>1, FiAbout DEF Fi!Deciding, Fi!Creating
  <2> QED
    BY <2>1 DEF FiInv, FiCallShape
<1>4. /\ fiAt' = [fiAt EXCEPT ![c] = fiAt'[c]]
      /\ \/ fiAt'[c] = "failed"
         \/ /\ fiReq[c].kind = "mature" /\ fiAt'[c] = "payout"
            /\ row[fiReq[c].of] = "ACTIVE" /\ fiReq[c].of \in ripe
         \/ fiReq[c].kind = "review" /\ fiAt'[c] = "benefit" /\ row[fiReq[c].of] = "SUBMITTED"
         \/ fiReq[c].kind = "decline" /\ fiAt'[c] = "reject" /\ row[fiReq[c].of] = "SUBMITTED"
         \/ fiReq[c].kind = "disapprove" /\ fiAt'[c] = "reject" /\ row[fiReq[c].of] = "PENDING"
  BY <1>1 DEF Fi!TypeOK, Fi!ReadDeposit, Fi!ReadClaim, Fi!ReadLoan, Fi!ApproveLoan, Fi!Is, Fi!Goto
<1>5. /\ fiAt'[c] \in {"failed", "payout", "benefit", "reject"}
      /\ row' = [row EXCEPT ![c] = row[c]]
      /\ row[c] \in {"none", "ACTIVE", "MATURED", "removed", "SUBMITTED", "PAID_OUT",
                     "REJECTED", "PENDING", "SAVED"}
      /\ fiDisturbed' \subseteq Calls /\ fiFaults' \in 0..MaxFaults
           /\ fiDisturbed \subseteq fiDisturbed'
  BY <1>1, <1>4 DEF Fi!TypeOK
<1>6. KindShape(c)'
  BY <1>1, <1>2, <1>4 DEF KindShape
<1>7. DepositShape(c)' /\ PolicyShape(c)'
  BY <1>1 DEF DepositShape, PolicyShape, Fi!Deciding
<1>8. DecisionShape(c)'
  BY <1>1, <1>2, <1>3, <1>4 DEF DecisionShape, KindShape, Fi!Deciding
<1>9. ASSUME NEW d \in before[c], Closes(d, c)
      PROVE  fiAt'[c] = "failed"
  <2>1. d \in Calls /\ fiAt[d] = "done" /\ DecisionShape(d)
    BY <1>1, <1>2 DEF Fi!TypeOK, Shapes, LaterShape, FiInv
  <2> QED
    BY <1>1, <1>4, <1>9, <2>1 DEF DecisionShape, Closes, Fi!Deciding
<1>10. UNCHANGED <<fiReq, before, claimed, ripe, fiMoved, flagged>>
  BY <1>1
<1>11. fiAt'[c] \in Fi!Ended \cup Fi!Legs
                      \cup {"create", "read", "close", "compensate", "paidOut", "reject"}
  BY <1>5 DEF Fi!Ended, Fi!Legs
<1> QED
  BY <1>1, <1>4, <1>5, <1>6, <1>7, <1>8, <1>9, <1>10, <1>11, FiQuiet

\* A call is cut off; a deposit in its way is remembered as disturbed.
LEMMA FiCrash ==
  ASSUME FiInv, Fi!FiAssumption, NEW c \in Calls, Fi!Crash(c)
  PROVE  FiInv'
<1>1. /\ UNCHANGED <<fiReq, row, before, claimed, ripe, fiMoved, flagged>>
      /\ fiAt[c] \notin Fi!Ended /\ Fi!TypeOK /\ fiAt' = [fiAt EXCEPT ![c] = "crashed"]
      /\ fiFaults < MaxFaults /\ fiFaults' = fiFaults + 1 /\ fiDisturbed' = fiDisturbed \cup {c}
  BY DEF FiInv, Fi!Crash, Fi!Disturb, Fi!Goto, Fi!money
<1>2. /\ Shapes(c) /\ KindShape(c) /\ PaidLegs(c)' = PaidLegs(c) /\ fiAt'[c] = "crashed"
           /\ c \in fiDisturbed'
      /\ fiAt[c] \notin {"idle", "done", "failed", "crashed"}
  BY <1>1, FiAbout DEF PaidLegs, Fi!TypeOK, Fi!Ended
<1>3. /\ row' = [row EXCEPT ![c] = row[c]]
      /\ row[c] \in {"none", "ACTIVE", "MATURED", "removed", "SUBMITTED", "PAID_OUT",
                     "REJECTED", "PENDING", "SAVED"}
      /\ fiDisturbed' \subseteq Calls /\ fiFaults' \in 0..MaxFaults
           /\ fiDisturbed \subseteq fiDisturbed'
  BY <1>1 DEF Fi!TypeOK, Fi!FiAssumption
<1>4. KindShape(c)'
  BY <1>1, <1>2 DEF KindShape
<1>5. DepositShape(c)'
  BY <1>1, <1>2 DEF DepositShape, Shapes
<1>6. PolicyShape(c)' /\ DecisionShape(c)'
  BY <1>1, <1>2 DEF PolicyShape, DecisionShape, Shapes
<1>7. "crashed" \in Fi!Ended \cup Fi!Legs
                      \cup {"create", "read", "close", "compensate", "paidOut", "reject"}
  BY DEF Fi!Ended
<1>8. \A d \in before[c] :
         Closes(d, c) => "crashed" \in {"read", "failed", "crashed"}
                         /\ (row[c] # "none" => row[c] # "none")
  OBVIOUS
<1> QED
  BY <1>1, <1>2, <1>3, <1>4, <1>5, <1>6, <1>7, <1>8, FiQuiet

\* A decision is written on the row it is about; a deposit ripens.
LEMMA FiDecides ==
  ASSUME FiInv, Fi!FiAssumption, NEW c \in Calls,
         Fi!CloseMature(c) \/ Fi!SaveClaim(c) \/ Fi!RejectLoan(c)
  PROVE  FiInv'
<1>1. /\ UNCHANGED <<fiReq, before, claimed, ripe, fiMoved, flagged, fiDisturbed, fiFaults>>
      /\ fiAt[c] \in {"close", "paidOut", "reject"} /\ Fi!TypeOK /\ fiAt[c] # "idle"
      /\ fiAt' = [fiAt EXCEPT ![c] = "done"]
  BY DEF FiInv, Fi!CloseMature, Fi!SaveClaim, Fi!RejectLoan, Fi!Is, Fi!Goto, Fi!money, Fi!history
<1>2. Shapes(c) /\ KindShape(c) /\ PaidLegs(c)' = PaidLegs(c) /\ fiAt'[c] = "done"
  BY <1>1, FiAbout DEF PaidLegs, Fi!TypeOK
<1>3. /\ fiReq[c].kind \in {"mature", "review", "decline", "disapprove"}
      /\ row[c] = "none"
      /\ fiReq[c].kind = "review" => fiAt[c] = "paidOut"
  BY <1>1, <1>2 DEF KindShape, Fi!CloseMature, Fi!SaveClaim, Fi!RejectLoan, Fi!Is, Fi!TypeOK
<1>4. /\ fiReq[c].of \in Calls /\ row[fiReq[c].of] # "none" /\ fiReq[c].of # c
      /\ KindShape(fiReq[c].of)
  <2>1. fiReq[c].of \in Calls /\ row[fiReq[c].of] # "none"
    BY <1>1, <1>3, FiAbout DEF Fi!Creating
  <2> QED
    BY <1>3, <2>1 DEF FiInv, FiCallShape
<1>5. PICK s \in {"MATURED", "PAID_OUT", "REJECTED"} :
        /\ row' = [row EXCEPT ![fiReq[c].of] = s] /\ Decided(fiReq[c].of, s)
        /\ fiReq[c].kind = "mature" => s = "MATURED"
        /\ fiReq[c].kind = "review" => s = "PAID_OUT"
  <2>1. CASE Fi!CloseMature(c)
    BY <1>1, <1>2, <1>4, <2>1 DEF Fi!CloseMature, Fi!Is, Shapes, DecisionShape, Decided, FiInv
  <2>2. CASE Fi!SaveClaim(c)
    BY <1>1, <1>2, <1>4, <2>2 DEF Fi!SaveClaim, Fi!Is, Shapes, DecisionShape, Decided, KindShape
  <2>3. CASE Fi!RejectLoan(c)
    BY <1>1, <1>2, <1>4, <2>3 DEF Fi!RejectLoan, Fi!Is, Shapes, DecisionShape, Decided
  <2> QED
    BY <2>1, <2>2, <2>3
<1>6. /\ row'[fiReq[c].of] = s /\ row'[c] = row[c]
      /\ \A d \in Calls \ {c} : fiAt'[d] = fiAt[d]
      /\ \A d \in Calls : d # fiReq[c].of => row'[d] = row[d]
  BY <1>1, <1>4, <1>5 DEF Fi!TypeOK
<1>7. Fi!TypeOK'
  BY <1>1, <1>5 DEF Fi!TypeOK, Fi!Ended
<1>8. row[fiReq[c].of] = "MATURED" => s = "MATURED"
  BY <1>4, <1>5 DEF KindShape, Decided
<1>9. row[fiReq[c].of] \in {"PAID_OUT", "REJECTED"} => s \in {"PAID_OUT", "REJECTED"}
  BY <1>4, <1>5 DEF KindShape, Decided
<1>10. FiFrame(c)
  BY <1>1, <1>4, <1>5, <1>6, <1>8, <1>9 DEF FiFrame
<1>11. FiCallShape(c)'
  <2>1. KindShape(c)'
    BY <1>1, <1>2, <1>3, <1>6 DEF KindShape
  <2> QED
    BY <1>1, <1>2, <1>4, <1>6, <2>1 DEF FiCallShape, Shapes
<1>12. DepositShape(c)' /\ PolicyShape(c)'
  BY <1>1, <1>3 DEF DepositShape, PolicyShape
<1>13. DecisionShape(c)'
  BY <1>1, <1>2, <1>3, <1>5, <1>6 DEF DecisionShape, Shapes
<1>14. LaterShape(c)'
  <2>1. \A d \in before[c] : d \in Calls /\ fiAt'[d] = "done"
    BY <1>1, <1>2, <1>6 DEF LaterShape, Shapes, Fi!TypeOK
  <2> QED
    BY <1>1, <1>2, <1>3, <2>1 DEF LaterShape, Shapes
<1>15. Shapes(c)'
  BY <1>11, <1>12, <1>13, <1>14 DEF Shapes
<1>16. c \in ripe' => fiReq[c].kind = "deposit"
  BY <1>1 DEF FiInv
<1> QED
  BY <1>7, <1>10, <1>15, <1>16, FiStep
\* A paid claim marks its policy.
LEMMA FiMarks ==
  ASSUME FiInv, Fi!FiAssumption, NEW c \in Calls, Fi!MarkClaimed(c)
  PROVE  FiInv'
<1>1. /\ UNCHANGED <<fiReq, row, before, ripe, fiMoved, flagged, fiDisturbed, fiFaults>>
      /\ fiAt[c] = "close" /\ fiReq[c].kind = "review" /\ Fi!TypeOK /\ fiAt[c] # "idle"
      /\ fiAt' = [fiAt EXCEPT ![c] = "paidOut"] /\ claimed' = claimed \cup {fiReq[fiReq[c].of].of}
  BY DEF FiInv, Fi!MarkClaimed, Fi!Is, Fi!Goto, Fi!money, Fi!history
<1>2. /\ Shapes(c) /\ KindShape(c) /\ PaidLegs(c)' = PaidLegs(c) /\ fiAt'[c] = "paidOut"
      /\ \A d \in Calls \ {c} : fiAt'[d] = fiAt[d]
  BY <1>1, FiAbout DEF PaidLegs, Fi!TypeOK
<1>3. fiReq[c].of \in Calls /\ row[fiReq[c].of] # "none" /\ fiReq[fiReq[c].of].kind = "file"
  BY <1>1, <1>2, FiAbout DEF Fi!Creating, Shapes, DecisionShape
<1>4. fiReq[fiReq[c].of].of \in Calls
  <2>1. fiAt[fiReq[c].of] # "idle"
    BY <1>3 DEF FiInv, FiCallShape
  <2>2. fiReq[fiReq[c].of] \in FiMenu[fiReq[c].of] /\ fiReq[fiReq[c].of] \in Fi!Requests
    BY <1>1, <1>3, <2>1, FiAbout DEF Fi!TypeOK
  <2> QED
    BY <1>3, <2>2 DEF Fi!FiAssumption, Fi!Creating, Fi!Requests
<1>5. Fi!TypeOK'
  BY <1>1, <1>4 DEF Fi!TypeOK
<1>6. FiFrame(c)
  BY <1>1, <1>2 DEF FiFrame
<1>7. FiCallShape(c)'
  <2>1. KindShape(c)'
    BY <1>1, <1>2 DEF KindShape
  <2> QED
    BY <1>1, <1>2, <2>1 DEF FiCallShape, Shapes
<1>8. DepositShape(c)' /\ PolicyShape(c)' /\ DecisionShape(c)'
  BY <1>1, <1>2, <1>3 DEF DepositShape, PolicyShape, DecisionShape, Shapes
<1>9. LaterShape(c)'
  <2>1. \A d \in before[c] : d \in Calls /\ fiAt'[d] = "done"
    BY <1>1, <1>2 DEF LaterShape, Shapes, Fi!TypeOK
  <2> QED
    BY <1>1, <1>2, <2>1 DEF LaterShape, Shapes
<1>10. Shapes(c)'
  BY <1>7, <1>8, <1>9 DEF Shapes
<1>11. c \in ripe' => fiReq[c].kind = "deposit"
  BY <1>1 DEF FiInv
<1> QED
  BY <1>5, <1>6, <1>10, <1>11, FiStep

\* The days of a deposit pass.
LEMMA FiRipens ==
  ASSUME FiInv, Fi!FiAssumption, NEW c \in Calls, Fi!Ripen(c)
  PROVE  FiInv'
<1>1. /\ UNCHANGED <<fiAt, fiReq, row, before, claimed, fiMoved, flagged, fiDisturbed, fiFaults>>
      /\ fiReq[c].kind = "deposit" /\ fiAt[c] \in {"done", "failed", "crashed"} /\ row[c] = "ACTIVE"
      /\ ripe' = ripe \cup {c} /\ Fi!TypeOK /\ fiAt[c] # "idle"
  BY DEF FiInv, Fi!Ripen, Fi!money, Fi!history
<1>2. Shapes(c) /\ PaidLegs(c)' = PaidLegs(c)
  BY <1>1, FiAbout DEF PaidLegs
<1>3. Fi!TypeOK' /\ FiFrame(c)
  BY <1>1 DEF Fi!TypeOK, FiFrame
<1>4. KindShape(c)' /\ FiCallShape(c)'
  BY <1>1, <1>2 DEF KindShape, FiCallShape, Shapes
<1>5. DepositShape(c)' /\ PolicyShape(c)' /\ DecisionShape(c)' /\ LaterShape(c)'
  BY <1>1, <1>2 DEF DepositShape, PolicyShape, DecisionShape, LaterShape, Shapes
<1>6. Shapes(c)'
  BY <1>4, <1>5 DEF Shapes
<1> QED
  BY <1>1, <1>3, <1>6, FiStep

\* A call begins: it remembers the calls that are done.
LEMMA FiBegins ==
  ASSUME FiInv, Fi!FiAssumption, NEW c \in Calls, Fi!Begin(c)
  PROVE  FiInv'
<1>1. PICK r \in FiMenu[c] :
        /\ r.of # Nobody => row[r.of] # "none"
        /\ fiReq' = [fiReq EXCEPT ![c] = r] /\ fiAt' = [fiAt EXCEPT ![c] = Fi!FirstStep(r.kind)]
  BY DEF Fi!Begin, Fi!Goto
<1>2. /\ UNCHANGED <<row, claimed, ripe, fiMoved, flagged, fiDisturbed, fiFaults>>
      /\ fiAt[c] = "idle" /\ Fi!TypeOK
      /\ before' = [before EXCEPT ![c] = {d \in Calls : fiAt[d] = "done"}]
  BY DEF FiInv, Fi!Begin, Fi!money
<1>3. /\ r \in Fi!Requests /\ r.kind \in Fi!Kinds /\ r.of \in Calls \cup {Nobody}
      /\ r.kind \notin Fi!Creating \ {"file"} => r.of # Nobody
  BY DEF Fi!FiAssumption, Fi!Requests
<1>4. /\ r.kind \in {"deposit", "apply"} => Fi!FirstStep(r.kind) = "create"
      /\ r.kind = "purchase" => Fi!FirstStep(r.kind) = "premium"
      /\ r.kind = "report" => Fi!FirstStep(r.kind) = "creditFee"
      /\ r.kind \in Fi!Deciding \cup {"file"} => Fi!FirstStep(r.kind) = "read"
  BY DEF Fi!FirstStep, Fi!Deciding
<1>5. /\ fiAt'[c] = Fi!FirstStep(r.kind) /\ fiReq'[c] = r
      /\ before'[c] = {d \in Calls : fiAt[d] = "done"}
      /\ \A d \in Calls \ {c} : fiAt'[d] = fiAt[d] /\ fiReq'[d] = fiReq[d] /\ before'[d] = before[d]
      /\ \A d \in Calls : PaidLegs(d)' = PaidLegs(d)
  BY <1>1, <1>2 DEF Fi!TypeOK, PaidLegs
<1>6. /\ fiAt'[c] \in {"create", "premium", "creditFee", "read"}
      /\ row[c] = "none" /\ PaidLegs(c) = {} /\ c \notin ripe
  BY <1>2, <1>3, <1>4, <1>5 DEF Fi!Kinds, Fi!Deciding, Fi!Creating, FiInv, FiCallShape
<1>7. \A d \in Calls : row[d] # "none" => d # c /\ fiReq'[d] = fiReq[d] /\ fiAt'[d] = fiAt[d]
  BY <1>5, <1>6
<1>8. Fi!TypeOK'
  <2>1. fiAt' \in [Calls -> Fi!Ended \cup Fi!Legs
                            \cup {"create", "read", "close", "compensate", "paidOut", "reject"}]
    BY <1>1, <1>2, <1>5, <1>6 DEF Fi!TypeOK, Fi!Ended, Fi!Legs
  <2> QED
    BY <1>1, <1>2, <1>3, <2>1 DEF Fi!TypeOK
<1>9. ripe' \subseteq {d \in Calls : fiReq'[d].kind = "deposit"}
  BY <1>2, <1>5, <1>6 DEF FiInv
<1>10. ASSUME NEW d \in Calls
       PROVE  fiAt[d] # "idle" /\ fiReq[d].of # Nobody =>
                 fiReq[d].of \in Calls /\ row[fiReq[d].of] # "none"
                   /\ fiReq'[fiReq[d].of] = fiReq[fiReq[d].of]
  BY <1>7, FiAbout
<1>11. ASSUME NEW d \in Calls \ {c}
       PROVE  FiCallShape(d)' /\ DepositShape(d)' /\ PolicyShape(d)'
  <2>1. /\ FiCallShape(d) /\ KindShape(d) /\ DepositShape(d) /\ PolicyShape(d)
        /\ fiAt'[d] = fiAt[d] /\ fiReq'[d] = fiReq[d] /\ before'[d] = before[d]
             /\ PaidLegs(d)' = PaidLegs(d)
    BY <1>5 DEF FiInv, FiCallShape
  <2>2. KindShape(d)'
    BY <1>2, <2>1 DEF KindShape
  <2> QED
    BY <1>2, <2>1, <2>2 DEF FiCallShape, DepositShape, PolicyShape
<1>12. FiCallShape(c)' /\ DepositShape(c)' /\ PolicyShape(c)'
  <2>1. KindShape(c)'
    BY <1>2, <1>3, <1>4, <1>5, <1>6 DEF KindShape, Fi!Kinds, Fi!Creating, Fi!Deciding
  <2>2. FiCallShape(c)'
    BY <1>1, <1>2, <1>5, <1>6, <2>1 DEF FiCallShape
  <2> QED
    BY <1>2, <1>4, <1>5, <1>6, <2>2 DEF DepositShape, PolicyShape
<1>13. ASSUME NEW d \in Calls
       PROVE  DecisionShape(d)'
  <2>1. CASE d = c
    BY <1>2, <1>5, <1>6, <2>1 DEF DecisionShape
  <2>2. CASE d # c /\ fiAt[d] = "idle"
    BY <1>2, <1>5, <2>2 DEF DecisionShape, FiInv, FiCallShape
  <2>3. CASE d # c /\ fiAt[d] # "idle"
    <3>1. /\ DecisionShape(d) /\ fiAt'[d] = fiAt[d] /\ fiReq'[d] = fiReq[d]
               /\ PaidLegs(d)' = PaidLegs(d)
          /\ fiReq[d].kind \in Fi!Deciding => fiReq'[fiReq[d].of] = fiReq[fiReq[d].of]
      BY <1>5, <1>10, <2>3, FiAbout DEF FiInv, Fi!Deciding, Fi!Creating
    <3> QED
      BY <1>2, <3>1 DEF DecisionShape, Fi!Deciding
  <2> QED
    BY <2>1, <2>2, <2>3
<1>14. ASSUME NEW d \in Calls
       PROVE  LaterShape(d)'
  <2>1. /\ \A e \in before'[d] : e \in Calls /\ e # c /\ fiAt[e] = "done" /\ fiAt'[e] = "done"
        /\ \A e \in before'[d] : fiReq'[e] = fiReq[e]
                                 /\ (fiReq[e].kind = "review" =>
                                      fiReq'[fiReq[e].of] = fiReq[fiReq[e].of])
    <3>1. \A e \in before'[d] : e \in Calls /\ fiAt[e] = "done"
      BY <1>2, <1>5 DEF FiInv, LaterShape, Fi!TypeOK
    <3>2. \A e \in before'[d] : e # c /\ fiAt'[e] = "done" /\ fiReq'[e] = fiReq[e]
      BY <1>2, <1>5, <3>1
    <3> QED
      BY <1>10, <3>1, <3>2, FiAbout DEF Fi!Creating
  <2>2. CASE d = c
    <3>1. r.kind \in {"mature", "review", "file"} => fiAt'[c] = "read"
      BY <1>4, <1>5 DEF Fi!Deciding
    <3> QED
      BY <1>2, <1>5, <1>6, <2>1, <2>2, <3>1 DEF LaterShape
  <2>3. CASE d # c
    BY <1>2, <1>5, <2>1, <2>3 DEF LaterShape, FiInv
  <2> QED
    BY <2>2, <2>3
<1> QED
  BY <1>8, <1>9, <1>11, <1>12, <1>13, <1>14 DEF FiInv

\* Every step of the products keeps FiInv.
LEMMA FiInvStep == FiInv /\ Fi!FiAssumption /\ [Fi!Next]_Fi!fiVars => FiInv'
<1> SUFFICES ASSUME FiInv, Fi!FiAssumption, [Fi!Next]_Fi!fiVars
             PROVE  FiInv'
  OBVIOUS
<1>1. CASE Fi!Next
  <2>1. PICK c \in Calls : Fi!Begin(c) \/ Fi!Step(c) \/ Fi!Crash(c) \/ Fi!Ripen(c)
    BY <1>1 DEF Fi!Next
  <2>2. CASE Fi!Step(c)
    BY <2>2, FiTransfer, FiRows, FiReads, FiDecides, FiMarks DEF Fi!Step
  <2> QED
    BY <2>1, <2>2, FiBegins, FiCrash, FiRipens
<1>2. CASE UNCHANGED Fi!fiVars
  BY <1>2 DEF Fi!fiVars, Fi!money, Fi!history, FiInv, Fi!TypeOK, FiCallShape, KindShape,
       DepositShape, PolicyShape, DecisionShape, LaterShape, PaidLegs
<1> QED
  BY <1>1, <1>2

\* The products begin with FiInv.
LEMMA FiInit == Fi!FiAssumption /\ Fi!Init => FiInv
<1> SUFFICES ASSUME Fi!FiAssumption, Fi!Init
             PROVE  FiInv
  OBVIOUS
<1>1. Fi!TypeOK
  BY DEF Fi!Init, Fi!TypeOK, Fi!FiAssumption, Fi!Requests, Fi!Kinds, Fi!Creating, Fi!Ended
<1>2. ASSUME NEW c \in Calls
      PROVE  /\ fiAt[c] = "idle" /\ fiReq[c].kind = "report" /\ row[c] = "none"
             /\ PaidLegs(c) = {} /\ before[c] = {}
  BY DEF Fi!Init, PaidLegs
<1>3. ASSUME NEW c \in Calls
      PROVE  FiCallShape(c) /\ DepositShape(c) /\ PolicyShape(c) /\ DecisionShape(c)
               /\ LaterShape(c)
  <2>1. KindShape(c)
    BY <1>2 DEF KindShape
  <2> QED
    BY <1>2, <2>1 DEF FiCallShape, DepositShape, PolicyShape, DecisionShape, LaterShape
<1> QED
  BY <1>1, <1>3 DEF FiInv, Fi!Init

\* Every reachable state meets the invariant.
LEMMA FiInvariance ==
  ASSUME Fi!FiAssumption
  PROVE  Fi!Spec => []FiInv
<1>1. Fi!Init => FiInv
  BY FiInit
<1>2. FiInv /\ [Fi!Next]_Fi!fiVars => FiInv'
  BY FiInvStep
<1> QED
  BY <1>1, <1>2, PTL DEF Fi!Spec

\* QP that have been locked belong to a deposit on record, whatever fails in between
\* (createDeposit compensates a refused lock and keeps the row of any other).
THEOREM LockedHasRecord ==
  ASSUME Fi!FiAssumption
  PROVE  Fi!Spec => []Fi!LockedFundsHaveRecord
<1>1. FiInv => Fi!LockedFundsHaveRecord
  BY DEF FiInv, FiCallShape, KindShape, DepositShape, PaidLegs, Fi!LockedFundsHaveRecord
<1> QED
  BY <1>1, FiInvariance, PTL

\* A deposit that stays on record has its lock moved or stored for approval, unless its
\* call was cut off.
THEOREM DepositFunded ==
  ASSUME Fi!FiAssumption
  PROVE  Fi!Spec => []Fi!DepositsAreFunded
<1>1. FiInv => Fi!DepositsAreFunded
  BY DEF FiInv, FiCallShape, DepositShape, PaidLegs, Fi!DepositsAreFunded, Fi!Ended
<1> QED
  BY <1>1, FiInvariance, PTL

\* A policy exists only once its premium and its commission were accepted.
THEOREM PolicyPaidFor ==
  ASSUME Fi!FiAssumption
  PROVE  Fi!Spec => []Fi!PoliciesArePaidFor
<1>1. FiInv => Fi!PoliciesArePaidFor
  BY DEF FiInv, PolicyShape, PaidLegs, Fi!PoliciesArePaidFor
<1> QED
  BY <1>1, FiInvariance, PTL

\* What one call has paid and closed (a maturity, a claim), a call that begins later does
\* not pay again.
THEOREM PaidOutOnce ==
  ASSUME Fi!FiAssumption
  PROVE  Fi!Spec => []Fi!NoSecondPayout
<1>1. FiInv => Fi!NoSecondPayout
  <2> SUFFICES ASSUME FiInv, NEW a \in Calls, NEW b \in Calls, a \in before[b],
                      fiReq[a].of = fiReq[b].of
               PROVE  /\ fiReq[a].kind = "mature" => "payout" \notin PaidLegs(b)
                      /\ fiReq[a].kind = "review" => "benefit" \notin PaidLegs(b)
    BY DEF Fi!NoSecondPayout, PaidLegs
  <2>1. LaterShape(b) /\ KindShape(b)
    BY DEF FiInv, FiCallShape
  <2> QED
    BY <2>1 DEF LaterShape, KindShape
<1> QED
  BY <1>1, FiInvariance, PTL

\* No claim is filed on a policy by a call that begins after a claim on it was paid in full.
THEOREM NothingFiledLater ==
  ASSUME Fi!FiAssumption
  PROVE  Fi!Spec => []Fi!NoClaimAfterPayout
<1>1. FiInv => Fi!NoClaimAfterPayout
  BY DEF FiInv, LaterShape, Fi!NoClaimAfterPayout
<1> QED
  BY <1>1, FiInvariance, PTL

-----------------------------------------------------------------------------
(* The properties of the whole.                                             *)

\* A behaviour of the whole is one of every part.
LEMMA PartsBehave == Spec => Wa!Spec /\ Fi!Spec /\ Ba!Spec /\ Pr!Spec /\ Ta!Spec
<1>1. Init => Wa!Init /\ Fi!Init /\ Ba!Init /\ Pr!Init /\ Ta!Init
  BY DEF Init
<1>2. [Next]_vars => [Wa!Next]_Wa!walletVars
  BY DEF Next, vars, wallets, Wa!walletVars, Wa!rows, Wa!records
<1>3. [Next]_vars => [Fi!Next]_Fi!fiVars
  BY DEF Next, vars, products, Fi!fiVars, Fi!money, Fi!history
<1>4. [Next]_vars => [Ba!Next]_Ba!bankVars
  BY DEF Next, vars, institutions, Ba!bankVars, Ba!bankHist, Ba!outside
<1>5. [Next]_vars => [Pr!Next]_Pr!providerVars
  BY DEF Next, vars, providers, Pr!providerVars
<1>6. [Next]_vars => [Ta!Next]_(Ta!vars)
  BY DEF Next, vars, tabs, Ta!vars, Ta!history
<1> QED
  BY <1>1, <1>2, <1>3, <1>4, <1>5, <1>6, PTL
     DEF Spec, Wa!Spec, Fi!Spec, Ba!Spec, Pr!Spec, Ta!Spec

PartOK == part \in {"wallets", "products", "institutions", "providers", "tabs"}

\* A behaviour follows one part.
LEMMA PartStays == Spec => []PartOK
<1>1. Init => PartOK
  BY DEF Init, PartOK
<1>2. PartOK /\ [Next]_vars => PartOK'
  BY DEF PartOK, Next, vars
<1> QED
  BY <1>1, <1>2, PTL DEF Spec

\* Every value keeps its type: tables, copies, requests and positions of the calls.
THEOREM MoneyTypes == Spec => []TypeOK
<1>1. WalletInv => Wa!TypeOK
  BY DEF WalletInv
<1>2. FiInv => Fi!TypeOK
  BY DEF FiInv
<1>3. BankInv => Ba!TypeOK
  BY DEF BankInv
<1>4. ProviderInv => Pr!TypeOK
  BY DEF ProviderInv
<1>5. TabInv => Ta!TypeOK
  BY DEF TabInv
<1>6. Wa!TypeOK /\ Fi!TypeOK /\ Ba!TypeOK /\ Pr!TypeOK /\ Ta!TypeOK /\ PartOK => TypeOK
  BY DEF TypeOK, PartOK
<1> QED
  BY <1>1, <1>2, <1>3, <1>4, <1>5, <1>6, PartsBehave, PartStays, MoneyProductsAssumption,
     WalletInvariance, FiInvariance, BankInvariance, ProviderInvariance, TabInvariance, PTL

\* The account of the money of every part: wallets and institutions by their movements,
\* the supply within its cap, no settlement over the balance, QP booked for providers'
\* payments, and tabs by their rows and limits.
THEOREM MoneyIsExplained == Spec => []MoneyExplained
<1>1. Wa!WalletExplained /\ Ba!QPIsConserved /\ Ba!MintedWithinCap /\ Ba!NotOverdrawn
      /\ Pr!BookedIsAmount /\ Ta!BalanceExplained /\ Ta!WithinLimit => MoneyExplained
  BY DEF MoneyExplained
<1> QED
  BY <1>1, PartsBehave, MoneyProductsAssumption, WalletCorrect, BooksCorrect, CapCorrect,
     CoverCorrect, BookedAmount, TabBalance, TabWithinLimit, PTL

\* What the records of every part say of money is so.
THEOREM RecordsTell == Spec => []RecordsTellMoney
<1>1. Wa!StatusTellsMoney /\ Wa!PurchaseIsWhole /\ Fi!DepositsAreFunded
      /\ Fi!LockedFundsHaveRecord /\ Fi!PoliciesArePaidFor /\ Pr!ReportedIsBooked
      /\ Ta!StatusIsDecided => RecordsTellMoney
  BY DEF RecordsTellMoney
<1> QED
  BY <1>1, PartsBehave, MoneyProductsAssumption, StatusCorrect, PurchaseCorrect, DepositFunded,
     LockedHasRecord, PolicyPaidFor, ReportedBooked, TabStatus, PTL

\* No part pays out or books what was not paid in; a payment is refunded, and a deposit
\* or a policy paid out, a second time only as RefundsArePaid and NoSecondPayout say.
THEOREM NothingPaidTwice == Spec => []PaidOnce
<1>1. Wa!RefundsArePaid /\ Fi!NoSecondPayout /\ Fi!NoClaimAfterPayout /\ Pr!BookedIsPaid
        => PaidOnce
  BY DEF PaidOnce
<1> QED
  BY <1>1, PartsBehave, MoneyProductsAssumption, RefundsCorrect, PaidOutOnce, NothingFiledLater,
     BookedWhatWasPaid, PTL

\* The wallets of the whole implement the ledger.
THEOREM LedgerImplemented == Spec => WalletsAreALedger
<1> QED
  BY PartsBehave, MoneyProductsAssumption, Refinement, PTL
=============================================================================
