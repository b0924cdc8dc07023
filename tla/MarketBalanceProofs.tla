------------------------- MODULE MarketBalanceProofs -------------------------
(***************************************************************************)
(* Proofs about MarketBalance for any number of users and requests.        *)
(***************************************************************************)
EXTENDS MarketBalance, SumLemmas, TLAPS

\* A request that is about to write has checked its own copy of the row.
Funded ==
    \A r \in Requests :
        /\ pc[r] = "write" => Covered(r)
        /\ pc[r] = "feePay" => seen[r] >= Fee

\* CopyIsCurrent alone is not inductive: a commit keeps balances natural only
\* because the copy it writes from was checked against the amount.
IInv == TypeOK /\ CopyIsCurrent /\ Funded

\* The signed amounts are integers, closed under negation.
LEMMA MovesClosed ==
  \A d \in Moves \cup {0} : d \in Int /\ -d \in Moves \cup {0}
<1>1. ASSUME NEW d \in Moves
      PROVE  d \in Int /\ -d \in Moves
  <2>1. CASE d \in Amounts
    BY <2>1, BalanceAssumption DEF Moves
  <2>2. ASSUME NEW a \in Amounts, d = -a
        PROVE  d \in Int /\ -d \in Moves
    <3>1. a \in Nat
      BY BalanceAssumption
    <3>2. -d = a
      BY <2>2, <3>1
    <3> QED
      BY <2>2, <3>1, <3>2 DEF Moves
  <2> QED
    BY <2>1, <2>2 DEF Moves
<1> QED
  BY <1>1

-----------------------------------------------------------------------------
\* The first state satisfies the inductive invariant.
LEMMA InitIInv == Init => IInv
  BY BalanceAssumption DEF Init, IInv, TypeOK, CopyIsCurrent, Funded, Steps,
     Holding, Covered

\* Starting a job touches no row and no lock.
LEMMA BeginIInv ==
  ASSUME NEW r \in Requests, IInv, Begin(r)
  PROVE  IInv'
<1> USE BalanceAssumption DEF IInv, TypeOK, Steps, Start
<1>1. PICK u \in Users :
         /\ Start(r, u, "lock") \/ Start(r, u, "feeLock")
         /\ delta' \in [Requests -> Moves \cup {0}]
         /\ payee' \in [Requests -> Users \cup {NoUser}]
  <2>1. PICK u \in Users :
           \/ \E d \in Moves : StartAdjust(r, u, d)
           \/ \E to \in Users, a \in Amounts : StartSettle(r, u, to, a)
           \/ StartFee(r, u)
    BY DEF Begin
  <2>2. ASSUME NEW d \in Moves, StartAdjust(r, u, d)
        PROVE  /\ Start(r, u, "lock")
               /\ delta' \in [Requests -> Moves \cup {0}]
               /\ payee' \in [Requests -> Users \cup {NoUser}]
    BY <2>2 DEF StartAdjust
  <2>3. ASSUME NEW to \in Users, NEW a \in Amounts, StartSettle(r, u, to, a)
        PROVE  /\ Start(r, u, "lock")
               /\ delta' \in [Requests -> Moves \cup {0}]
               /\ payee' \in [Requests -> Users \cup {NoUser}]
    <3>1. -a \in Moves
      BY DEF Moves
    <3> QED
      BY <2>3, <3>1 DEF StartSettle
  <2>4. CASE StartFee(r, u)
    BY <2>4 DEF StartFee
  <2> QED
    BY <2>1, <2>2, <2>3, <2>4
<1>2. TypeOK'
  BY <1>1
<1>3. CopyIsCurrent'
  BY <1>1 DEF CopyIsCurrent, Holding
<1>4. Funded'
  <2>1. ASSUME NEW q \in Requests, pc'[q] \in {"write", "feePay"}
        PROVE  q # r
    BY <1>1, <2>1
  <2>2. ASSUME NEW q \in Requests, q # r
        PROVE  delta'[q] = delta[q] /\ pc'[q] = pc[q] /\ seen'[q] = seen[q]
    BY <2>2 DEF Begin, StartAdjust, StartSettle, StartFee
  <2> QED
    BY <2>1, <2>2 DEF Funded, Covered
<1> QED
  BY <1>2, <1>3, <1>4

\* Ending a transaction without a write only gives its own locks back.
LEMMA GiveUpIInv ==
  ASSUME NEW r \in Requests, IInv, GiveUp(r)
  PROVE  IInv'
  BY BalanceAssumption DEF IInv, TypeOK, CopyIsCurrent, Funded, GiveUp, Release,
     Steps, Holding, Covered

\* Taking a row lock reads the balance that nobody else can then change.
LEMMA LockIInv ==
  ASSUME NEW r \in Requests, IInv,
         LockRow(r) \/ LockTaker(r) \/ LockPlatform(r) \/ CheckCap(r)
  PROVE  IInv'
<1> USE BalanceAssumption DEF IInv, TypeOK, CopyIsCurrent, Funded, Steps,
        Holding, Covered
<1>1. CASE LockRow(r)
  BY <1>1 DEF LockRow
<1>2. CASE LockTaker(r)
  BY <1>2 DEF LockTaker
<1>3. CASE LockPlatform(r)
  BY <1>3 DEF LockPlatform
<1>4. CASE CheckCap(r)
  BY <1>4 DEF CheckCap
<1> QED
  BY <1>1, <1>2, <1>3, <1>4

\* A commit writes the rows its request has locked, from copies it checked.
LEMMA CommitIInv ==
  ASSUME NEW r \in Requests, IInv, Commit(r) \/ CommitFee(r)
  PROVE  IInv'
<1> USE BalanceAssumption DEF IInv, TypeOK, CopyIsCurrent, Funded, Steps,
        Holding, Covered, Release
<1>1. CASE Commit(r)
  <2>1. seen[r] + delta[r] \in Nat
    <3>0. seen[r] \in Nat /\ delta[r] \in Moves \cup {0}
      OBVIOUS
    <3>1. delta[r] \in Int
      BY <3>0, MovesClosed
    <3>2. seen[r] + delta[r] >= 0
      BY <1>1 DEF Commit
    <3> QED
      BY <3>0, <3>1, <3>2
  <2>2. -delta[r] \in Moves \cup {0}
    BY MovesClosed
  <2>3. TypeOK'
    BY <1>1, <2>1, <2>2 DEF Commit
  <2>4. CopyIsCurrent'
    BY <1>1 DEF Commit
  <2>5. Funded'
    BY <1>1 DEF Commit
  <2> QED
    BY <2>3, <2>4, <2>5
<1>2. CASE CommitFee(r)
  <2>1. seen[r] - Fee \in Nat /\ seenAI[r] + Fee \in Nat
    BY <1>2 DEF CommitFee
  <2>2. TypeOK'
    BY <1>2, <2>1 DEF CommitFee
  <2>3. CopyIsCurrent'
    BY <1>2 DEF CommitFee
  <2>4. Funded'
    BY <1>2 DEF CommitFee
  <2> QED
    BY <2>2, <2>3, <2>4
<1> QED
  BY <1>1, <1>2

\* The inductive invariant is preserved by every step.
LEMMA NextIInv == IInv /\ [Next]_vars => IInv'
<1> SUFFICES ASSUME IInv, [Next]_vars PROVE IInv'
  OBVIOUS
<1>1. ASSUME NEW r \in Requests, Begin(r) PROVE IInv'
  BY <1>1, BeginIInv
<1>2. ASSUME NEW r \in Requests, Progress(r) PROVE IInv'
  BY <1>2, LockIInv, CommitIInv, GiveUpIInv DEF Progress, Reject, SkipFee
<1>3. ASSUME NEW r \in Requests, Fail(r) PROVE IInv'
  BY <1>3, GiveUpIInv DEF Fail
<1>4. CASE UNCHANGED vars
  BY <1>4 DEF vars, IInv, TypeOK, CopyIsCurrent, Funded, Covered
<1> QED
  BY <1>1, <1>2, <1>3, <1>4 DEF Next

\* The inductive invariant holds throughout every behaviour.
THEOREM Invariance == Spec => []IInv
<1> QED
  BY InitIInv, NextIInv, PTL DEF Spec

\* Every variable keeps its type; in particular no market balance is ever
\* negative (the check of market-balance.service.ts:71).
THEOREM TypeCorrect == Spec => []TypeOK
<1>1. IInv => TypeOK
  BY DEF IInv
<1> QED
  BY <1>1, Invariance, PTL

\* No transaction ever writes from a stale copy of a balance row.
THEOREM CopiesAreCurrent == Spec => []CopyIsCurrent
<1>1. IInv => CopyIsCurrent
  BY DEF IInv
<1> QED
  BY <1>1, Invariance, PTL

-----------------------------------------------------------------------------
\* A commit is one step of the ledger, or changes no balance.
LEMMA CommitRefines ==
  ASSUME NEW r \in Requests, IInv, Commit(r)
  PROVE  Ledger!Next \/ UNCHANGED bal
<1> DEFINE u == usr[r]  d == delta[r]
<1>1. u \in Users /\ d \in Moves \cup {0} /\ bal \in [Users -> Nat]
  BY DEF IInv, TypeOK
<1>2. seen[r] = bal[u]
  BY DEF Commit, IInv, CopyIsCurrent, Holding
<1>3. bal' = [bal EXCEPT ![u] = bal[u] + d]
  BY <1>2 DEF Commit
<1>4. bal[u] + d >= 0
  BY <1>2 DEF Commit, IInv, Funded, Covered
<1>5. CASE d = 0
  BY <1>1, <1>3, <1>5
<1>6. CASE d \in Moves
  <2>1. Ledger!Post(u, d)
    BY <1>3, <1>4 DEF Ledger!Post
  <2>2. d \in Amounts \/ \E a \in Amounts : d = -a
    BY <1>6 DEF Moves
  <2> QED
    BY <1>1, <2>1, <2>2 DEF Ledger!Next
<1> QED
  BY <1>1, <1>5, <1>6

\* A fee is one step of the ledger; the AI paying itself changes nothing.
LEMMA FeeRefines ==
  ASSUME NEW r \in Requests, IInv, CommitFee(r)
  PROVE  Ledger!Next \/ UNCHANGED bal
<1> DEFINE u == usr[r]
<1>1. u \in Users /\ AI \in Users /\ Fee \in Nat /\ bal \in [Users -> Nat]
  BY BalanceAssumption DEF IInv, TypeOK
<1>2. /\ seen[r] = bal[u] /\ seen[r] >= Fee
      /\ seenAI[r] = IF u = AI THEN bal[AI] - Fee ELSE bal[AI]
  BY DEF CommitFee, IInv, CopyIsCurrent, Funded, Holding
<1>3. bal' = [bal EXCEPT ![u] = bal[u] - Fee, ![AI] = seenAI[r] + Fee]
  BY <1>2 DEF CommitFee
<1>4. CASE u = AI
  BY <1>1, <1>2, <1>3, <1>4
<1>5. CASE u # AI
  <2>1. bal' = [bal EXCEPT ![u] = bal[u] - Fee, ![AI] = bal[AI] + Fee]
    BY <1>2, <1>3, <1>5
  <2>2. Ledger!PayFee(u)
    BY <1>1, <1>2, <1>5, <2>1 DEF Ledger!PayFee
  <2> QED
    BY <1>1, <2>2 DEF Ledger!Next
<1> QED
  BY <1>4, <1>5

\* Every step of MarketBalance is a step of the ledger or a stutter.
LEMMA StepRefines == IInv /\ [Next]_vars => [Ledger!Next]_bal
<1> SUFFICES ASSUME IInv, [Next]_vars PROVE Ledger!Next \/ UNCHANGED bal
  OBVIOUS
<1>1. ASSUME NEW r \in Requests, Begin(r) \/ Fail(r) PROVE UNCHANGED bal
  BY <1>1 DEF Begin, StartAdjust, StartSettle, StartFee, Start, Fail, GiveUp
<1>2. ASSUME NEW r \in Requests, Progress(r) PROVE Ledger!Next \/ UNCHANGED bal
  <2>1. CASE Commit(r)
    BY <2>1, CommitRefines
  <2>2. CASE CommitFee(r)
    BY <2>2, FeeRefines
  <2>3. CASE ~Commit(r) /\ ~CommitFee(r)
    BY <1>2, <2>3 DEF Progress, LockRow, CheckCap, Reject, LockTaker, SkipFee,
       LockPlatform, GiveUp
  <2> QED
    BY <2>1, <2>2, <2>3
<1>3. CASE UNCHANGED vars
  BY <1>3 DEF vars
<1> QED
  BY <1>1, <1>2, <1>3 DEF Next

\* Row locks make the balance transactions serialisable: MarketBalance
\* implements the atomic ledger, for any number of users and requests.
THEOREM Refinement == Spec => ImplementsLedger
<1>1. Init => Ledger!Init
  BY DEF Init, Ledger!Init
<1> QED
  BY <1>1, Invariance, StepRefines, PTL DEF Spec, ImplementsLedger, Ledger!Spec
-----------------------------------------------------------------------------
(* The supply cap.                                                          *)

Total == SumFunctionOnSet(bal, Users)

\* As long as no credit has escaped the check, the QP in existence and the one
\* credit that has passed the check stay within the cap together.
CapInv ==
    escaped = {} /\ SumFunctionOnSet(Genesis, Users) <= Cap =>
        /\ Total <= Cap
        /\ \A r \in Requests : pc[r] = "write" =>
             /\ Total + delta[r] <= Cap
             /\ \A q \in Requests : pc[q] = "write" => q = r

\* The QP in existence are an integer.
LEMMA TotalInt == ASSUME TypeOK PROVE Total \in Int
  BY SumInt, BalanceAssumption DEF TypeOK, Total

\* A movement of one row changes the QP in existence by its amount.
LEMMA TotalMoves ==
  ASSUME TypeOK, NEW u \in Users, NEW d \in Int, bal'[u] = bal[u] + d,
         \A v \in Users \ {u} : bal'[v] = bal[v]
  PROVE  Total' = Total + d
<1>1. \A v \in Users : bal[v] \in Int /\ bal'[v] \in Int
  BY DEF TypeOK
<1>2. SumFunctionOnSet(bal', Users) = SumFunctionOnSet(bal, Users) - bal[u] + bal'[u]
  BY <1>1, BalanceAssumption, SumUpdate
<1> QED
  BY <1>1, <1>2, TotalInt DEF Total

\* A fee moves QP from one row to another.
LEMMA FeeKeepsTotal ==
  ASSUME IInv, NEW r \in Requests, CommitFee(r)
  PROVE  Total' = Total
<1> DEFINE u == usr[r]
           mid == [bal EXCEPT ![u] = bal[u] - Fee]
<1>1. u \in Users /\ AI \in Users /\ Fee \in Nat /\ bal \in [Users -> Nat]
  BY BalanceAssumption DEF IInv, TypeOK
<1>2. bal' = [mid EXCEPT ![AI] = mid[AI] + Fee]
  <2>1. /\ seen[r] = bal[u]
        /\ seenAI[r] = IF u = AI THEN bal[AI] - Fee ELSE bal[AI]
    BY DEF CommitFee, IInv, CopyIsCurrent, Holding
  <2>2. seenAI[r] = mid[AI]
    BY <1>1, <2>1
  <2> QED
    BY <1>1, <2>1, <2>2 DEF CommitFee
<1>3. \A v \in Users : bal[v] \in Int /\ mid[v] \in Int /\ bal'[v] \in Int
  BY <1>1, <1>2
<1>4. SumFunctionOnSet(mid, Users) = SumFunctionOnSet(bal, Users) - bal[u] + mid[u]
  <2>1. \A v \in Users \ {u} : mid[v] = bal[v]
    BY <1>1
  <2> HIDE DEF mid
  <2> QED
    BY <1>1, <1>3, <2>1, BalanceAssumption, SumUpdate
<1>5. SumFunctionOnSet(bal', Users) = SumFunctionOnSet(mid, Users) - mid[AI] + bal'[AI]
  <2>1. \A v \in Users \ {AI} : bal'[v] = mid[v]
    BY <1>1, <1>2
  <2> HIDE DEF mid
  <2> QED
    BY <1>1, <1>3, <2>1, BalanceAssumption, SumUpdate
<1>6. mid[u] = bal[u] - Fee /\ bal'[AI] = mid[AI] + Fee
  BY <1>1, <1>2
<1>7. Total \in Int
  BY TotalInt DEF IInv
<1> HIDE DEF mid
<1> QED
  BY <1>1, <1>3, <1>4, <1>5, <1>6, <1>7 DEF Total

\* A step that moves no QP and lets no credit pass the check.
LEMMA QuietCap ==
  ASSUME CapInv, UNCHANGED bal, escaped \subseteq escaped',
         \A q \in Requests : pc'[q] = "write" => pc[q] = "write" /\ delta'[q] = delta[q]
  PROVE  CapInv'
  BY DEF CapInv, Total

\* The check leaves room for the credit it lets through.
LEMMA CheckKeepsCap ==
  ASSUME IInv, CapInv, NEW r \in Requests, CheckCap(r)
  PROVE  CapInv'
<1> SUFFICES ASSUME escaped' = {}, SumFunctionOnSet(Genesis, Users) <= Cap
             PROVE  /\ Total <= Cap
                    /\ \A p \in Requests : pc'[p] = "write" =>
                         /\ Total + delta[p] <= Cap
                         /\ \A q \in Requests : pc'[q] = "write" => q = p
  BY DEF CapInv, Total, CheckCap
<1>1. escaped = {} /\ ~\E q \in Requests : pc[q] = "write"
  BY DEF CheckCap
<1>2. Total <= Cap
  BY <1>1 DEF CapInv
<1>3. \A p \in Requests : pc'[p] = "write" => p = r
  BY <1>1 DEF CheckCap, IInv, TypeOK
<1>4. pc'[r] = "write" => Total + delta[r] <= Cap
  <2>1. Total \in Int /\ delta[r] \in Int
    BY TotalInt, MovesClosed DEF IInv, TypeOK
  <2>2. pc'[r] = IF Total + delta[r] > Cap THEN "capped" ELSE "write"
    BY DEF CheckCap, Total, IInv, TypeOK
  <2> QED
    BY <2>1, <2>2, BalanceAssumption
<1> QED
  BY <1>2, <1>3, <1>4

\* A commit takes QP away, was counted by the check, or escapes.
LEMMA CommitKeepsCap ==
  ASSUME IInv, CapInv, NEW r \in Requests, Commit(r)
  PROVE  CapInv'
<1> SUFFICES ASSUME escaped' = {}, SumFunctionOnSet(Genesis, Users) <= Cap
             PROVE  /\ Total' <= Cap
                    /\ \A p \in Requests : pc'[p] = "write" =>
                         /\ Total' + delta'[p] <= Cap
                         /\ \A q \in Requests : pc'[q] = "write" => q = p
  BY DEF CapInv
<1>1. escaped = {} /\ ~(usr[r] = AI /\ delta[r] > 0)
  BY DEF Commit
<1>2. usr[r] \in Users /\ delta[r] \in Int /\ Cap \in Int /\ Total \in Int
  BY BalanceAssumption, TotalInt, MovesClosed DEF IInv, TypeOK
<1>3. Total' = Total + delta[r]
  <2>1. bal' = [bal EXCEPT ![usr[r]] = bal[usr[r]] + delta[r]]
    BY DEF Commit, IInv, CopyIsCurrent, Holding
  <2>2. /\ bal'[usr[r]] = bal[usr[r]] + delta[r]
        /\ \A v \in Users \ {usr[r]} : bal'[v] = bal[v]
    BY <1>2, <2>1 DEF IInv, TypeOK
  <2> QED
    BY <1>2, <2>2, TotalMoves DEF IInv
<1>4. Total <= Cap
  BY <1>1 DEF CapInv
<1>5. \A p \in Requests : pc'[p] = "write" =>
        p # r /\ pc[p] = "write" /\ delta'[p] = delta[p]
  BY DEF Commit, IInv, TypeOK
<1>6. CASE pc[r] = "write"
  <2>1. Total + delta[r] <= Cap
    BY <1>1, <1>6 DEF CapInv
  <2>2. ~\E p \in Requests : pc'[p] = "write"
    BY <1>1, <1>5, <1>6 DEF CapInv
  <2> QED
    BY <1>3, <2>1, <2>2
<1>7. CASE pc[r] # "write"
  <2>1. delta[r] <= 0
    BY <1>1, <1>2, <1>7 DEF Commit, NeedsCapCheck
  <2>2. \A p \in Requests : pc[p] = "write" =>
          /\ Total + delta[p] <= Cap /\ delta[p] \in Int
          /\ \A q \in Requests : pc[q] = "write" => q = p
    BY <1>1, MovesClosed DEF CapInv, IInv, TypeOK
  <2>3. \A p \in Requests : pc'[p] = "write" => Total' + delta'[p] <= Cap
    BY <1>2, <1>3, <1>5, <2>1, <2>2
  <2> QED
    BY <1>2, <1>3, <1>4, <1>5, <2>1, <2>2, <2>3
<1> QED
  BY <1>6, <1>7

\* No step passes the cap as long as no credit has escaped the check.
LEMMA NextCap == IInv /\ CapInv /\ [Next]_vars => CapInv'
<1> SUFFICES ASSUME IInv, CapInv, [Next]_vars PROVE CapInv'
  OBVIOUS
<1>1. CASE UNCHANGED vars
  BY <1>1, QuietCap DEF vars
<1>2. ASSUME NEW r \in Requests, Begin(r) PROVE CapInv'
  <2>1. /\ UNCHANGED <<bal, escaped>>
        /\ \A q \in Requests : pc'[q] = "write" => q # r /\ pc[q] = "write"
    BY <1>2 DEF Begin, StartAdjust, StartSettle, StartFee, Start, IInv, TypeOK
  <2>2. \A q \in Requests : q # r => delta'[q] = delta[q]
    BY <1>2 DEF Begin, StartAdjust, StartSettle, StartFee, IInv, TypeOK
  <2> QED
    BY <2>1, <2>2, QuietCap
<1>3. ASSUME NEW r \in Requests, GiveUp(r) PROVE CapInv'
  BY <1>3, QuietCap DEF GiveUp, IInv, TypeOK
<1>4. ASSUME NEW r \in Requests, LockRow(r) \/ LockTaker(r) \/ LockPlatform(r)
      PROVE  CapInv'
  BY <1>4, QuietCap DEF LockRow, LockTaker, LockPlatform, IInv, TypeOK
<1>5. ASSUME NEW r \in Requests, CommitFee(r) PROVE CapInv'
  <2>1. Total' = Total
    BY <1>5, FeeKeepsTotal
  <2>2. /\ UNCHANGED <<escaped, delta>>
        /\ \A q \in Requests : pc'[q] = "write" => pc[q] = "write"
    BY <1>5 DEF CommitFee, IInv, TypeOK
  <2> QED
    BY <2>1, <2>2 DEF CapInv
<1>6. ASSUME NEW r \in Requests, Progress(r) PROVE CapInv'
  BY <1>3, <1>4, <1>5, <1>6, CheckKeepsCap, CommitKeepsCap
     DEF Progress, Reject, SkipFee
<1> QED
  BY <1>1, <1>2, <1>3, <1>6 DEF Next, Fail

\* The supply cap holds for any number of users and requests, unless one of the
\* two credits that escape the check has happened.
THEOREM SupplyCapped == Spec => []SupplyWithinCap
<1>1. Init => CapInv
  <2>1. Init => bal = Genesis /\ \A r \in Requests : pc[r] = "idle"
    BY DEF Init
  <2> QED
    BY <2>1 DEF CapInv, Total
<1>2. CapInv => SupplyWithinCap
  BY DEF CapInv, SupplyWithinCap, Total
<1> QED
  BY InitIInv, NextIInv, NextCap, <1>1, <1>2, PTL DEF Spec
=============================================================================
