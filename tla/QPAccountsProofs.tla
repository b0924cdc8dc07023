--------------------------- MODULE QPAccountsProofs ---------------------------
(***************************************************************************)
(* Proofs about QPAccounts for any accounts, calls, reviews and requests.  *)
(***************************************************************************)
EXTENDS QPAccounts, SumLemmas, TLAPS

\* A call keeps to its request; before it writes, its own copy of the source
\* covered what it takes.  It has a transaction record only when it is over.
CallShape ==
    \A c \in Calls :
        /\ pc[c] # "idle" => req[c] \in Menu[c]
        /\ pc[c] \in {"readSrc", "writeSrc"} => req[c].src \in Accounts
        /\ pc[c] \in {"readDst", "writeDst"} => req[c].dst \in Accounts
        /\ pc[c] \in InTransaction =>
             /\ outcome[c] \in {"Completed", "Flagged"}
             /\ outcome[c] = "Completed" /\ req[c].src # Nobody
                  => Covers(snap[c].src, req[c])
        /\ pc[c] \in {"writeSrc", "writeDst"} => outcome[c] = "Completed"
        /\ status[c] # "none" => pc[c] = "done"

\* A review decides a transaction that exists, and so one whose call is over.
ReviewShape ==
    \A v \in Reviews :
        /\ pc[v] # "assess"
        /\ pc[v] # "idle" =>
             /\ of[v] \in Calls
             /\ status[of[v]] # "none"
             /\ outcome[v] \in {"Completed", "Failed"}
        /\ pc[v] \in {"readSrc", "writeSrc"} => req[of[v]].src \in Accounts
        /\ pc[v] \in {"readDst", "writeDst"} => req[of[v]].dst \in Accounts

\* Rows are locked only by who is writing them.
LockShape ==
    \A a \in Accounts, p \in Procs :
        lock[a] = p =>
          /\ pc[p] \in {"writeDst", "commit"}
          /\ p \in Calls => outcome[p] = "Completed"
          /\ a \in {Req(p).src, Req(p).dst}
          /\ p \in Reviews /\ pc[p] = "commit" /\ a = Req(p).dst
               => Joinable(snap[p].dst)

IInv == TypeOK /\ CallShape /\ ReviewShape /\ LockShape

-----------------------------------------------------------------------------
\* Amounts and fees are natural numbers.
LEMMA RequestTypes ==
  ASSUME NEW r \in Requests
  PROVE  /\ r.amt \in Nat /\ Fee(r) \in Nat
         /\ r.src \in Accounts \cup {Nobody} /\ r.dst \in Accounts \cup {Nobody}
  BY DEF Requests, Fee

\* A request of the menu that has no source has a destination.
LEMMA RequestSides ==
  ASSUME NEW c \in Calls, NEW r \in Menu[c]
  PROVE  /\ r \in Requests
         /\ r.src # Nobody => r.src \in Accounts
         /\ r.dst # Nobody => r.dst \in Accounts
         /\ r.src = Nobody => r.dst \in Accounts
<1>1. r \in Requests
  BY QPAccountsAssumption
<1>2. (r.src = Nobody) <=> (r.kind = "deposit")
  BY QPAccountsAssumption
<1>3. (r.dst = Nobody) <=> (r.kind \in {"withdraw", "charge"})
  BY QPAccountsAssumption
<1> QED
  BY <1>1, <1>2, <1>3, RequestTypes

\* Whoever is not idle works on a request of some call's menu.
LEMMA WorkingRequest ==
  ASSUME IInv, NEW p \in Procs, pc[p] # "idle"
  PROVE  /\ Req(p) \in Requests
         /\ Req(p).src # Nobody => Req(p).src \in Accounts
         /\ Req(p).dst # Nobody => Req(p).dst \in Accounts
         /\ Req(p).src = Nobody => Req(p).dst \in Accounts
<1>1. CASE p \in Calls
  BY <1>1, RequestSides DEF IInv, CallShape, Req
<1>2. CASE p \in Reviews
  <2>1. p \notin Calls /\ of[p] \in Calls /\ req[of[p]] \in Menu[of[p]]
    BY <1>2, QPAccountsAssumption DEF IInv, CallShape, ReviewShape
  <2> QED
    BY <2>1, RequestSides DEF Req
<1> QED
  BY <1>1, <1>2 DEF Procs

\* What a process leaves on a row it holds, when it commits, is a balance.
LEMMA WrittenType ==
  ASSUME IInv, NEW p \in Procs, NEW a \in Accounts, lock[a] = p, pc[p] = "commit"
  PROVE  Written(p, a) \in Balances
<1> DEFINE r == Req(p)
<1>1. r \in Requests /\ r.amt \in Nat /\ Fee(r) \in Nat
  BY WorkingRequest, RequestTypes
<1>2. snap[p] \in [src : Balances, dst : Balances]
  BY DEF IInv, TypeOK
<1>3. NaN \notin Nat
  BY QPAccountsAssumption
<1>4. CASE a = r.dst
  <2>1. CASE p \in Reviews
    <3>1. Joinable(snap[p].dst)
      BY <1>4, <2>1 DEF IInv, LockShape
    <3>2. snap[p].dst \in Nat
      BY <1>2, <3>1 DEF Joinable, Balances
    <3> QED
      BY <1>1, <1>4, <2>1, <3>2 DEF Written, Credit, Join, Balances
  <2>2. CASE p \notin Reviews /\ snap[p].dst = NaN
    BY <1>4, <2>2 DEF Written, Credit, Balances
  <2>3. CASE p \notin Reviews /\ snap[p].dst # NaN
    <3>1. snap[p].dst \in Nat
      BY <1>2, <2>3 DEF Balances
    <3> QED
      BY <1>1, <1>4, <2>3, <3>1 DEF Written, Credit, Balances
  <2> QED
    BY <2>1, <2>2, <2>3
<1>5. CASE a # r.dst
  <2>1. a = r.src
    BY <1>5 DEF IInv, LockShape
  <2>2. CASE p \in Reviews \/ snap[p].src = NaN
    BY <1>5, <2>2 DEF Written, Debit, Balances
  <2>3. CASE ~(p \in Reviews \/ snap[p].src = NaN)
    <3>1. p \in Calls /\ r = req[p] /\ r.src # Nobody
      BY <2>1, <2>3, QPAccountsAssumption DEF Procs, Req
    <3>2. outcome[p] = "Completed"
      BY <3>1 DEF IInv, LockShape
    <3>3. Covers(snap[p].src, r)
      BY <3>1, <3>2 DEF IInv, CallShape, InTransaction
    <3>4. snap[p].src \in Nat /\ snap[p].src >= r.amt + Fee(r)
      BY <1>2, <2>3, <3>3 DEF Covers, Balances
    <3>5. snap[p].src - r.amt - Fee(r) \in Nat
      BY <1>1, <3>4
    <3> QED
      BY <1>5, <2>3, <3>5 DEF Written, Debit, Balances
  <2> QED
    BY <2>2, <2>3
<1> QED
  BY <1>4, <1>5

-----------------------------------------------------------------------------
\* The first state satisfies the inductive invariant.
LEMMA InitIInv == Init => IInv
<1> SUFFICES ASSUME Init PROVE IInv
  OBVIOUS
<1> USE QPAccountsAssumption DEF Init
<1>1. NoRequest \in Requests
  <2>1. 10 = 10 * 1 /\ 1 \in 1..50
    OBVIOUS
  <2> QED
    BY <2>1 DEF NoRequest, Requests, Kinds
<1>2. TypeOK
  BY <1>1 DEF TypeOK, Balances, Procs
<1>3. CallShape
  BY DEF CallShape, Procs, InTransaction
<1>4. ReviewShape
  BY DEF ReviewShape, Procs
<1>5. LockShape
  BY DEF LockShape, Procs
<1> QED
  BY <1>2, <1>3, <1>4, <1>5 DEF IInv

\* Choosing a request touches no row.
LEMMA BeginIInv ==
  ASSUME IInv, NEW c \in Calls, Begin(c)
  PROVE  IInv'
<1>0. PICK r \in Menu[c] :
        req' = [req EXCEPT ![c] = r] /\ Goto(c, FirstRead(r))
  BY DEF Begin
<1>1. /\ r \in Requests
      /\ r.src # Nobody => r.src \in Accounts
      /\ r.src = Nobody => r.dst \in Accounts
  BY RequestSides
<1>2. TypeOK'
  BY <1>0, <1>1, QPAccountsAssumption
     DEF IInv, TypeOK, Begin, Goto, FirstRead, rows, records, history, Procs
<1>3. CallShape'
  BY <1>0, <1>1, QPAccountsAssumption
     DEF IInv, TypeOK, CallShape, Begin, Goto, FirstRead, rows, records, history,
         Procs, InTransaction, Covers, Fee
<1>4. ReviewShape'
  BY <1>0, QPAccountsAssumption
     DEF IInv, TypeOK, CallShape, ReviewShape, Begin, Goto, rows, records, history, Procs
<1>5. LockShape'
  BY <1>0, QPAccountsAssumption
     DEF IInv, TypeOK, CallShape, ReviewShape, LockShape, Begin, Goto, rows, records, history, Procs,
         Req, Joinable
<1> QED
  BY <1>2, <1>3, <1>4, <1>5 DEF IInv

\* A review starts from a flagged record, whose call is over.
LEMMA BeginReviewIInv ==
  ASSUME IInv, NEW v \in Reviews, BeginReview(v)
  PROVE  IInv'
<1>0. PICK c \in Calls, verdict \in {"Completed", "Failed"} :
        /\ status[c] = "Flagged"
        /\ of' = [of EXCEPT ![v] = c]
        /\ outcome' = [outcome EXCEPT ![v] = verdict]
        /\ Goto(v, IF verdict = "Completed" THEN FirstRead(req[c]) ELSE "commit")
  BY DEF BeginReview
<1>1. /\ req[c].src # Nobody => req[c].src \in Accounts
      /\ req[c].src = Nobody => req[c].dst \in Accounts
  BY <1>0, RequestSides DEF IInv, CallShape
<1>2. TypeOK'
  BY <1>0, QPAccountsAssumption
     DEF IInv, TypeOK, BeginReview, Goto, FirstRead, rows, records, history, Procs, InTransaction
<1>3. CallShape'
  BY <1>0, QPAccountsAssumption
     DEF IInv, TypeOK, CallShape, BeginReview, Goto, rows, records, history, Procs,
         InTransaction, Covers, Fee
<1>4. ReviewShape'
  BY <1>0, <1>1, QPAccountsAssumption
     DEF IInv, TypeOK, ReviewShape, BeginReview, Goto, FirstRead, rows, records, history, Procs
<1>5. LockShape'
  BY <1>0, QPAccountsAssumption
     DEF IInv, TypeOK, LockShape, BeginReview, Goto, rows, records, history, Procs,
         Req, Joinable
<1> QED
  BY <1>2, <1>3, <1>4, <1>5 DEF IInv

\* A read copies a balance and writes nothing.
LEMMA ReadIInv ==
  ASSUME IInv, NEW p \in Procs, ReadSrc(p) \/ ReadDst(p)
  PROVE  IInv'
<1>0. /\ pc[p] \in {"readSrc", "readDst"}
      /\ UNCHANGED <<rows, req, of, outcome, records, history, faults>>
      /\ \A q \in Procs : q # p => pc'[q] = pc[q] /\ snap'[q] = snap[q]
  BY DEF ReadSrc, ReadDst, Goto, IInv, TypeOK
<1>1. /\ Req(p).src # Nobody => Req(p).src \in Accounts
      /\ Req(p).dst # Nobody => Req(p).dst \in Accounts
      /\ Req(p).src = Nobody => Req(p).dst \in Accounts
  BY <1>0, WorkingRequest
<1>2. /\ pc[p] = "readSrc" => Req(p).src \in Accounts
      /\ pc[p] = "readDst" => Req(p).dst \in Accounts
  BY QPAccountsAssumption DEF IInv, CallShape, ReviewShape, Req, Procs
<1>3. /\ pc' = [pc EXCEPT ![p] = pc'[p]]
      /\ pc'[p] \in {"readDst", "assess", "writeSrc", "writeDst"}
      /\ p \in Calls => pc'[p] \in {"readDst", "assess"}
      /\ p \notin Calls => pc'[p] # "assess"
      /\ pc'[p] \in {"readDst", "writeDst"} => Req(p).dst \in Accounts
      /\ pc'[p] = "writeSrc" => Req(p).src \in Accounts
  BY <1>1, <1>2 DEF ReadSrc, ReadDst, Goto, AfterReads, FirstWrite, IInv, TypeOK
<1>4. snap' \in [Procs -> [src : Balances, dst : Balances]]
  <2>1. CASE ReadSrc(p)
    BY <1>2, <2>1 DEF ReadSrc, IInv, TypeOK
  <2>2. CASE ReadDst(p)
    BY <1>2, <2>2 DEF ReadDst, IInv, TypeOK
  <2> QED
    BY <2>1, <2>2
<1>5. TypeOK'
  BY <1>0, <1>3, <1>4 DEF IInv, TypeOK, rows, records, history, InTransaction
<1>6. CallShape'
  BY <1>0, <1>3, QPAccountsAssumption
     DEF IInv, CallShape, rows, records, history, Procs, InTransaction, Covers, Fee, Req
<1>7. ReviewShape'
  BY <1>0, <1>3, QPAccountsAssumption
     DEF IInv, ReviewShape, rows, records, history, Procs, Req
<1>8. LockShape'
  BY <1>0, <1>3, QPAccountsAssumption
     DEF IInv, LockShape, rows, records, history, Procs, Req, Joinable
<1> QED
  BY <1>5, <1>6, <1>7, <1>8 DEF IInv

\* Only a call whose copy covers the request goes on to write.
LEMMA AssessIInv ==
  ASSUME IInv, NEW c \in Calls, Assess(c)
  PROVE  IInv'
<1>0. /\ pc[c] = "assess"
      /\ UNCHANGED <<rows, req, of, snap, records, history, faults>>
      /\ req[c] \in Menu[c]
      /\ c \notin Reviews
  BY QPAccountsAssumption DEF Assess, IInv, CallShape
<1>1. /\ req[c].src # Nobody => req[c].src \in Accounts
      /\ req[c].src = Nobody => req[c].dst \in Accounts
  BY <1>0, RequestSides
<1>2. CASE Goto(c, "failed") /\ UNCHANGED outcome
  <2>1. TypeOK'
    BY <1>0, <1>2 DEF IInv, TypeOK, Goto, rows, records, history
  <2>2. CallShape'
    BY <1>0, <1>2 DEF IInv, TypeOK, CallShape, Goto, rows, records, history,
       Procs, InTransaction, Covers, Fee
  <2>3. ReviewShape'
    BY <1>0, <1>2 DEF IInv, TypeOK, ReviewShape, Goto, rows, records, history, Procs
  <2>4. LockShape'
    BY <1>0, <1>2 DEF IInv, TypeOK, LockShape, Goto, rows, records, history, Procs,
       Req, Joinable
  <2> QED
    BY <2>1, <2>2, <2>3, <2>4 DEF IInv
<1>3. ASSUME NEW o \in {"Completed", "Flagged"},
             req[c].src # Nobody => Covers(snap[c].src, req[c]),
             outcome' = [outcome EXCEPT ![c] = o],
             Goto(c, IF o = "Flagged" THEN "commit" ELSE FirstWrite(req[c]))
      PROVE  IInv'
  <2>1. TypeOK'
    BY <1>0, <1>3 DEF IInv, TypeOK, Goto, FirstWrite, rows, records, history,
       InTransaction, Procs
  <2>2. CallShape'
    BY <1>0, <1>1, <1>3 DEF IInv, TypeOK, CallShape, Goto, FirstWrite, rows, records,
       history, Procs, InTransaction, Covers, Fee
  <2>3. ReviewShape'
    BY <1>0, <1>3 DEF IInv, TypeOK, ReviewShape, Goto, rows, records, history, Procs
  <2>4. LockShape'
    BY <1>0, <1>3 DEF IInv, TypeOK, LockShape, Goto, rows, records, history, Procs,
       Req, Joinable
  <2> QED
    BY <2>1, <2>2, <2>3, <2>4 DEF IInv
<1> QED
  BY <1>2, <1>3 DEF Assess, Risk

\* An UPDATE takes the row of its own account.
LEMMA WriteIInv ==
  ASSUME IInv, NEW p \in Procs, WriteSrc(p) \/ WriteDst(p)
  PROVE  IInv'
<1>0. /\ pc[p] \in {"writeSrc", "writeDst"}
      /\ UNCHANGED <<bal, req, of, snap, outcome, records, history, faults>>
      /\ Req(p).dst # Nobody => Req(p).dst \in Accounts
  BY WorkingRequest DEF WriteSrc, WriteDst
<1>1. PICK a \in Accounts :
        /\ lock[a] \in {Nobody, p}
        /\ lock' = [lock EXCEPT ![a] = p]
        /\ a \in {Req(p).src, Req(p).dst}
        /\ pc' = [pc EXCEPT ![p] = pc'[p]]
        /\ pc'[p] \in {"writeDst", "commit"}
        /\ pc'[p] = "writeDst" => Req(p).dst \in Accounts
        /\ pc'[p] = "commit" /\ p \in Reviews /\ Req(p).dst \in Accounts
             => Joinable(snap[p].dst)
  <2>1. CASE WriteSrc(p)
    <3>1. Req(p).src \in Accounts
      BY <2>1, QPAccountsAssumption DEF WriteSrc, IInv, CallShape, ReviewShape, Req, Procs
    <3> QED
      BY <1>0, <2>1, <3>1, QPAccountsAssumption DEF WriteSrc, Goto, IInv, TypeOK
  <2>2. CASE WriteDst(p)
    <3>1. Req(p).dst \in Accounts
      BY <2>2, QPAccountsAssumption DEF WriteDst, IInv, CallShape, ReviewShape, Req, Procs
    <3> QED
      BY <1>0, <2>2, <3>1 DEF WriteDst, Goto, IInv, TypeOK
  <2> QED
    BY <2>1, <2>2
<1>2. p \in Calls => outcome[p] = "Completed"
  BY <1>0 DEF IInv, CallShape
<1>3. TypeOK'
  BY <1>0, <1>1 DEF IInv, TypeOK, records, history, InTransaction
<1>4. CallShape'
  BY <1>0, <1>1, QPAccountsAssumption
     DEF IInv, TypeOK, CallShape, records, history, Procs, InTransaction, Covers, Fee, Req
<1>5. ReviewShape'
  BY <1>0, <1>1, QPAccountsAssumption
     DEF IInv, TypeOK, ReviewShape, records, history, Procs, Req
<1>6. LockShape'
  BY <1>0, <1>1, <1>2, QPAccountsAssumption
     DEF IInv, TypeOK, LockShape, records, history, Procs, Req, Joinable
<1> QED
  BY <1>3, <1>4, <1>5, <1>6 DEF IInv

\* A transaction that ends without a commit gives its rows back.
LEMMA RollbackIInv ==
  ASSUME IInv, NEW p \in Procs, Rollback(p), faults' \in 0..MaxFaults,
         pc[p] \in InTransaction
  PROVE  IInv'
<1> USE QPAccountsAssumption DEF Rollback, Release, Goto, records, history
<1>1. TypeOK'
  BY DEF IInv, TypeOK
<1>2. CallShape'
  BY DEF IInv, TypeOK, CallShape, InTransaction, Covers, Fee, Procs
<1>3. ReviewShape'
  BY DEF IInv, TypeOK, ReviewShape, InTransaction, Procs
<1>4. LockShape'
  <2> SUFFICES ASSUME NEW a \in Accounts, NEW q \in Procs, lock'[a] = q
               PROVE  q # p /\ lock[a] = q
    BY DEF IInv, TypeOK, LockShape, Req, Joinable
  <2> QED
    BY DEF Procs
<1> QED
  BY <1>1, <1>2, <1>3, <1>4 DEF IInv

\* A commit publishes the balances of the rows it holds.
LEMMA CommitIInv ==
  ASSUME IInv, NEW p \in Procs, Commit(p)
  PROVE  IInv'
<1> DEFINE c == IF p \in Calls THEN p ELSE of[p]
<1>0. /\ pc[p] = "commit" /\ pc' = [pc EXCEPT ![p] = "done"]
      /\ UNCHANGED <<req, of, snap, outcome, faults>>
      /\ lock' = Release(p)
      /\ status' = [status EXCEPT ![c] = outcome[p]]
  BY DEF Commit, Goto
<1>1. c \in Calls
  BY <1>0 DEF IInv, ReviewShape, Procs
<1>2. bal' \in [Accounts -> Balances]
  BY <1>0, WrittenType DEF Commit, IInv, TypeOK
<1>3. entries' \in [Calls -> Nat]
  BY <1>1 DEF Commit, Journal, IInv, TypeOK
<1>4. overwritten' \subseteq Accounts /\ reviewed' \subseteq Accounts
  BY DEF Commit, Stale, Held, IInv, TypeOK
<1>5. TypeOK'
  BY <1>0, <1>1, <1>2, <1>3, <1>4, QPAccountsAssumption
     DEF IInv, TypeOK, Release
<1>6. pc[c] \in {"commit", "done"} /\ (c # p => pc[c] = "done" /\ status[c] # "none")
  BY <1>0, <1>1 DEF IInv, CallShape, ReviewShape, Procs
<1>7. CallShape'
  BY <1>0, <1>1, <1>6, QPAccountsAssumption
     DEF IInv, TypeOK, CallShape, InTransaction, Covers, Fee, Procs
<1>8. outcome[p] # "none"
  BY <1>0, QPAccountsAssumption
     DEF IInv, CallShape, ReviewShape, InTransaction, Procs
<1>9. ReviewShape'
  BY <1>0, <1>1, <1>8, QPAccountsAssumption DEF IInv, TypeOK, ReviewShape, Procs
<1>10. LockShape'
  <2> SUFFICES ASSUME NEW a \in Accounts, NEW q \in Procs, lock'[a] = q
               PROVE  q # p /\ lock[a] = q
    BY <1>0 DEF IInv, TypeOK, LockShape, Req, Joinable
  <2> QED
    BY <1>0, QPAccountsAssumption DEF Release, Procs
<1> QED
  BY <1>5, <1>7, <1>9, <1>10 DEF IInv

-----------------------------------------------------------------------------
\* Every step preserves the inductive invariant.
LEMMA NextIInv == IInv /\ [Next]_vars => IInv'
<1> SUFFICES ASSUME IInv, [Next]_vars PROVE IInv'
  OBVIOUS
<1>1. ASSUME NEW p \in Procs, Step(p)
      PROVE  IInv'
  <2>1. CASE ReadSrc(p) \/ ReadDst(p)
    BY <2>1, ReadIInv
  <2>2. CASE WriteSrc(p) \/ WriteDst(p)
    BY <2>2, WriteIInv
  <2>3. CASE Commit(p)
    BY <2>3, CommitIInv
  <2>4. CASE DeadlockVictim(p)
    <3>1. pc[p] \in InTransaction
      BY <2>4 DEF DeadlockVictim, Target, InTransaction
    <3>2. Rollback(p) /\ faults' \in 0..MaxFaults
      BY <2>4 DEF DeadlockVictim, IInv, TypeOK
    <3> QED
      BY <3>1, <3>2, RollbackIInv
  <2>5. CASE p \in Calls /\ Assess(p)
    BY <2>5, AssessIInv
  <2>6. CASE p \in Reviews /\ WriteRefused(p)
    <3>1. Rollback(p) /\ faults' \in 0..MaxFaults /\ pc[p] \in InTransaction
      BY <2>6 DEF WriteRefused, IInv, TypeOK, InTransaction
    <3> QED
      BY <3>1, RollbackIInv
  <2> QED
    BY <1>1, <2>1, <2>2, <2>3, <2>4, <2>5, <2>6 DEF Step
<1>2. ASSUME NEW p \in Procs, Fault(p)
      PROVE  IInv'
  <2>1. faults' \in 0..MaxFaults
    BY <1>2, QPAccountsAssumption DEF Fault, IInv, TypeOK
  <2>2. Rollback(p) /\ pc[p] \in InTransaction
    BY <1>2 DEF Fault
  <2> QED
    BY <2>1, <2>2, RollbackIInv
<1>3. CASE UNCHANGED vars
  BY <1>3 DEF vars, rows, records, history, IInv, TypeOK, CallShape, ReviewShape,
     LockShape, Req, Joinable, Covers, Fee
<1>4. CASE Next
  <2>1. PICK p \in Procs :
          \/ Step(p)
          \/ p \in Calls /\ Begin(p)
          \/ p \in Reviews /\ BeginReview(p)
          \/ Fault(p)
    BY <1>4 DEF Next
  <2>2. CASE Step(p)
    BY <2>2, <1>1
  <2>3. CASE p \in Calls /\ Begin(p)
    BY <2>3, BeginIInv
  <2>4. CASE p \in Reviews /\ BeginReview(p)
    BY <2>4, BeginReviewIInv
  <2>5. CASE Fault(p)
    BY <2>5, <1>2
  <2> QED
    BY <2>1, <2>2, <2>3, <2>4, <2>5
<1> QED
  BY <1>3, <1>4

\* The balances of qpoint_accounts are never negative, for any number of calls
\* and reviews that overwrite each other: every number written was computed from
\* a copy that covered it (or is NaN).
THEOREM TypeCorrect == Spec => []TypeOK
<1>1. IInv => TypeOK
  BY DEF IInv
<1> QED
  BY InitIInv, NextIInv, <1>1, PTL DEF Spec

-----------------------------------------------------------------------------
\* No step but a commit touches a record or its journal.
LEMMA RecordsChange ==
  ASSUME IInv, [Next]_vars, ~\E p \in Procs : Commit(p)
  PROVE  UNCHANGED <<status, entries>>
  BY DEF Next, Step, ReadSrc, ReadDst, WriteSrc, WriteDst, DeadlockVictim, Begin,
     Assess, WriteRefused, BeginReview, Fault, Rollback, vars, records

\* The request of a call that has a record is not replaced.
LEMMA RequestStays ==
  ASSUME IInv, [Next]_vars, NEW c \in Calls, status[c] # "none"
  PROVE  req'[c] = req[c]
<1>1. pc[c] = "done"
  BY DEF IInv, CallShape
<1>2. ASSUME NEW d \in Calls, Begin(d)
      PROVE  req'[c] = req[c]
  BY <1>1, <1>2 DEF Begin, IInv, TypeOK
<1>3. CASE UNCHANGED req
  BY <1>3
<1>4. ASSUME NEW p \in Procs, Step(p)
      PROVE  UNCHANGED req
  <2>1. CASE ReadSrc(p) \/ ReadDst(p)
    BY <2>1 DEF ReadSrc, ReadDst
  <2>2. CASE WriteSrc(p) \/ WriteDst(p) \/ Commit(p)
    BY <2>2 DEF WriteSrc, WriteDst, Commit
  <2>3. CASE DeadlockVictim(p) \/ WriteRefused(p)
    BY <2>3 DEF DeadlockVictim, WriteRefused, Rollback
  <2>4. CASE p \in Calls /\ Assess(p)
    BY <2>4 DEF Assess
  <2> QED
    BY <1>4, <2>1, <2>2, <2>3, <2>4 DEF Step
<1>5. ASSUME NEW p \in Procs, BeginReview(p) \/ Fault(p)
      PROVE  UNCHANGED req
  BY <1>5 DEF BeginReview, Fault, Rollback
<1> QED
  BY <1>2, <1>3, <1>4, <1>5 DEF Next, vars

\* The journal agrees with the transaction records for any number of calls and
\* reviews, two reviews of one transaction included.
THEOREM JournalCorrect == Spec => []JournalFollowsRecord
<1>1. Init => JournalFollowsRecord
  BY DEF Init, JournalFollowsRecord
<1>2. IInv /\ JournalFollowsRecord /\ [Next]_vars => JournalFollowsRecord'
  <2> SUFFICES ASSUME IInv, JournalFollowsRecord, [Next]_vars, NEW c \in Calls
               PROVE  /\ status'[c] \in {"none", "Flagged"} => entries'[c] = 0
                      /\ status'[c] = "Completed" /\ Recorded(req'[c])
                           => entries'[c] > 0
    BY DEF JournalFollowsRecord
  <2>1. CASE ~\E p \in Procs : Commit(p)
    BY <2>1, RecordsChange, RequestStays DEF JournalFollowsRecord
  <2>2. ASSUME NEW p \in Procs, Commit(p)
        PROVE  /\ status'[c] \in {"none", "Flagged"} => entries'[c] = 0
               /\ status'[c] = "Completed" /\ Recorded(req'[c])
                    => entries'[c] > 0
    <3> DEFINE d == IF p \in Calls THEN p ELSE of[p]
    <3>1. /\ d \in Calls /\ pc[p] = "commit"
          /\ status' = [status EXCEPT ![d] = outcome[p]]
          /\ entries' = IF outcome[p] = "Completed" /\ Recorded(req[d])
                         THEN [entries EXCEPT ![d] = @ + 1] ELSE entries
          /\ req' = req
      BY <2>2 DEF Commit, Journal, IInv, ReviewShape, Procs
    <3>2. CASE c # d
      BY <3>1, <3>2 DEF JournalFollowsRecord, IInv, TypeOK
    <3>3. CASE c = d /\ p \in Calls
      <4>1. status[c] = "none" /\ outcome[p] \in {"Completed", "Flagged"}
        BY <3>1, <3>3 DEF IInv, CallShape, InTransaction
      <4> QED
        BY <3>1, <3>3, <4>1 DEF JournalFollowsRecord, IInv, TypeOK
    <3>4. CASE c = d /\ p \notin Calls
      <4>1. outcome[p] \in {"Completed", "Failed"}
        BY <3>1, <3>4 DEF IInv, ReviewShape, Procs
      <4>2. entries[c] \in Nat
        BY DEF IInv, TypeOK
      <4> QED
        BY <3>1, <3>4, <4>1, <4>2 DEF IInv, TypeOK
    <3> QED
      BY <3>2, <3>3, <3>4
  <2> QED
    BY <2>1, <2>2
<1> QED
  BY InitIInv, NextIInv, <1>1, <1>2, PTL DEF Spec

-----------------------------------------------------------------------------
(* The money.                                                               *)

Sides == {"src", "dst"}

Holds(v, a, legs) == v = Initial[a] + SumFunctionOnSet(Effects, legs)

\* A number that is the first balance of a and whole completed legs, unless an
\* approval has written the account.
Whole(v, a) == a \in reviewed \/ \E legs \in SUBSET Legs(a) : Holds(v, a, legs)

\* The copies a call computes with are such numbers, however old.
CopiesWhole(p) ==
    /\ pc[p] \in {"readDst", "assess"} \cup InTransaction /\ req[p].src # Nobody =>
         Whole(snap[p].src, req[p].src)
    /\ pc[p] \in {"assess"} \cup InTransaction /\ req[p].dst # Nobody =>
         Whole(snap[p].dst, req[p].dst)

\* Who commits an executed transaction holds every row of it.
HoldsRows(p) ==
    /\ pc[p] = "writeDst" /\ Req(p).src # Nobody => lock[Req(p).src] = p
    /\ pc[p] = "commit" /\ outcome[p] = "Completed" =>
         \A side \in Sides : Req(p)[side] # Nobody => lock[Req(p)[side]] = p

\* A transaction a review works on completes only by an approval.
ApprovedFirst(v) ==
    pc[v] # "idle" /\ status[of[v]] = "Completed" =>
        \A side \in Sides : req[of[v]][side] # Nobody => req[of[v]][side] \in reviewed

CopyShape == \A p \in Calls : CopiesWhole(p)
HeldShape == \A p \in Procs : HoldsRows(p)
ReviewedShape == \A v \in Reviews : ApprovedFirst(v)

MoneyInv == CopyShape /\ HeldShape /\ ReviewedShape /\ BalanceExplained /\ LossesAreWholeLegs

-----------------------------------------------------------------------------
\* A leg is one side of a completed call.
LEMMA LegsAre ==
  \A a : \A leg \in Legs(a) :
    /\ leg[1] \in Calls /\ leg[2] \in Sides /\ leg = <<leg[1], leg[2]>>
    /\ status[leg[1]] = "Completed" /\ req[leg[1]][leg[2]] = a
  BY DEF Legs, Sides

\* What a leg adds to its account is the amount, or takes from it the amount and the fee.
LEMMA EffectOf ==
  TypeOK => \A c \in Calls, side \in Sides :
    /\ Effects[<<c, side>>] = IF side = "dst" THEN req[c].amt ELSE -(req[c].amt + Fee(req[c]))
    /\ Effects[<<c, side>>] \in Int
<1> SUFFICES ASSUME TypeOK, NEW c \in Calls, NEW side \in Sides
             PROVE  /\ Effects[<<c, side>>] = IF side = "dst" THEN req[c].amt
                                              ELSE -(req[c].amt + Fee(req[c]))
                    /\ Effects[<<c, side>>] \in Int
  OBVIOUS
<1>1. req[c].amt \in Nat /\ Fee(req[c]) \in Nat
  BY RequestTypes DEF TypeOK
<1>2. Effects[<<c, side>>] = IF side = "dst" THEN req[c].amt ELSE -(req[c].amt + Fee(req[c]))
  BY DEF Effects, Effect, Sides
<1> QED
  BY <1>1, <1>2

\* The same of the next state.
LEMMA EffectOfNext ==
  TypeOK' => \A c \in Calls, side \in Sides :
    /\ Effects'[<<c, side>>] = IF side = "dst" THEN req'[c].amt ELSE -(req'[c].amt + Fee(req'[c]))
    /\ Effects'[<<c, side>>] \in Int
<1>1. (TypeOK => \A c \in Calls, side \in Sides :
        /\ Effects[<<c, side>>] = IF side = "dst" THEN req[c].amt ELSE -(req[c].amt + Fee(req[c]))
        /\ Effects[<<c, side>>] \in Int)'
  BY EffectOf, PTL
<1> QED
  BY <1>1

\* Every set of legs is finite.
LEMMA LegsFinite == \A a : \A legs \in SUBSET Legs(a) : IsFiniteSet(legs)
<1>1. IsFiniteSet(Calls \X Sides)
  <2>1. IsFiniteSet(Sides)
    <3>1. Sides = {"src"} \cup {"dst"}
      BY DEF Sides
    <3> QED
      BY <3>1, FS_Singleton, FS_AddElement
  <2> QED
    BY <2>1, QPAccountsAssumption, FS_Product
<1>2. \A a : Legs(a) \subseteq Calls \X Sides
  BY DEF Legs, Sides
<1> QED
  BY <1>1, <1>2, FS_Subset

\* The same of the next state.
LEMMA LegsFiniteNext == \A a : \A legs \in SUBSET Legs(a)' : IsFiniteSet(legs)
<1>1. (\A a : \A legs \in SUBSET Legs(a) : IsFiniteSet(legs))'
  BY LegsFinite, PTL
<1> QED
  BY <1>1

\* Completed legs add up to an integer.
LEMMA LegSumInt ==
  TypeOK => \A a : \A legs \in SUBSET Legs(a) : SumFunctionOnSet(Effects, legs) \in Int
<1> SUFFICES ASSUME TypeOK, NEW a, NEW legs \in SUBSET Legs(a)
             PROVE  SumFunctionOnSet(Effects, legs) \in Int
  OBVIOUS
<1>1. \A leg \in legs : Effects[leg] \in Int
  BY LegsAre, EffectOf
<1> HIDE DEF Effects
<1> QED
  BY <1>1, LegsFinite, SumInt

\* An account is reviewed for good.
LEMMA ReviewedGrows ==
  ASSUME [Next]_vars
  PROVE  reviewed \subseteq reviewed'
<1>1. ASSUME NEW p \in Procs, Commit(p) PROVE reviewed \subseteq reviewed'
  BY <1>1 DEF Commit
<1>2. CASE ~\E p \in Procs : Commit(p)
  BY <1>2 DEF Next, Step, ReadSrc, ReadDst, WriteSrc, WriteDst, DeadlockVictim, Begin,
     Assess, WriteRefused, BeginReview, Fault, Rollback, vars, history
<1> QED
  BY <1>1, <1>2

\* What has completed stays so, and its legs keep their amounts.
LEMMA LegsKept ==
  ASSUME IInv, ReviewedShape, [Next]_vars, NEW a \in Accounts, a \notin reviewed'
  PROVE  /\ Legs(a) \subseteq Legs(a)'
         /\ \A leg \in Legs(a) : Effects'[leg] = Effects[leg]
<1>0. IInv'
  BY NextIInv
<1> SUFFICES ASSUME NEW leg \in Legs(a)
             PROVE  leg \in Legs(a)' /\ Effects'[leg] = Effects[leg]
  OBVIOUS
<1>1. PICK c \in Calls, side \in Sides :
        /\ leg = <<c, side>> /\ status[c] = "Completed" /\ req[c][side] = a
  BY LegsAre
<1>2. req'[c] = req[c]
  BY <1>1, RequestStays
<1>3. status'[c] = "Completed"
  <2>1. CASE ~\E p \in Procs : Commit(p)
    BY <1>1, <2>1, RecordsChange
  <2>2. ASSUME NEW p \in Procs, Commit(p) PROVE status'[c] = "Completed"
    <3>1. /\ pc[p] = "commit"
          /\ status' = [status EXCEPT ![IF p \in Calls THEN p ELSE of[p]] = outcome[p]]
      BY <2>2 DEF Commit
    <3>2. CASE p \in Calls
      BY <1>1, <3>1, <3>2 DEF IInv, TypeOK, CallShape
    <3>3. CASE p \notin Calls
      <4>1. c # of[p]
        <5> SUFFICES ASSUME c = of[p] PROVE FALSE
          OBVIOUS
        <5>1. a \in reviewed
          BY <1>1, <3>1, <3>3, QPAccountsAssumption DEF ReviewedShape, ApprovedFirst, Procs
        <5> QED
          BY <5>1, ReviewedGrows
      <4> QED
        BY <1>1, <3>1, <3>3, <4>1 DEF IInv, TypeOK
    <3> QED
      BY <3>2, <3>3
  <2> QED
    BY <2>1, <2>2
<1>4. leg \in Legs(a)'
  BY <1>1, <1>2, <1>3 DEF Legs, Sides
<1>5. Effects'[leg] = Effects[leg]
  BY <1>1, <1>2 DEF Effects, Effect, Sides
<1> QED
  BY <1>4, <1>5

\* Legs that have completed still do, and add up to the same.
LEMMA SumsKept ==
  ASSUME IInv, ReviewedShape, [Next]_vars, NEW a \in Accounts, a \notin reviewed',
         NEW legs \in SUBSET Legs(a)
  PROVE  /\ legs \in SUBSET Legs(a)'
         /\ SumFunctionOnSet(Effects', legs) = SumFunctionOnSet(Effects, legs)
<1>1. \A leg \in legs : Effects'[leg] = Effects[leg]
  BY LegsKept
<1>2. IsFiniteSet(legs)
  BY LegsFinite
<1>3. SumFunctionOnSet(Effects', legs) = SumFunctionOnSet(Effects, legs)
  <2> HIDE DEF Effects
  <2> QED
    BY <1>1, <1>2, SumEqual
<1> QED
  BY <1>3, LegsKept

\* A whole number stays whole.
LEMMA WholeKept ==
  ASSUME IInv, ReviewedShape, [Next]_vars, NEW CONSTANT a \in Accounts, NEW CONSTANT v, Whole(v, a)
  PROVE  Whole(v, a)'
<1>1. CASE a \in reviewed'
  BY <1>1 DEF Whole
<1>2. CASE a \notin reviewed'
  <2>1. PICK legs \in SUBSET Legs(a) : Holds(v, a, legs)
    BY <1>2, ReviewedGrows DEF Whole
  <2>2. /\ legs \in SUBSET Legs(a)'
        /\ SumFunctionOnSet(Effects', legs) = SumFunctionOnSet(Effects, legs)
    BY <1>2, SumsKept
  <2>3. v = Initial[a] + SumFunctionOnSet(Effects', legs)
    BY <2>1, <2>2 DEF Holds
  <2>4. Holds(v, a, legs)'
    BY <2>3 DEF Holds
  <2> QED
    BY <2>2, <2>4 DEF Whole
<1> QED
  BY <1>1, <1>2

\* The committed balances are whole numbers.
LEMMA WholeBalances ==
  LossesAreWholeLegs <=> \A a \in Accounts : Whole(bal[a], a)
  BY DEF LossesAreWholeLegs, Explained, Whole, Holds

\* The part of the invariant that speaks of rows and records, when nothing is
\* committed.
LEMMA RowsKept ==
  ASSUME IInv, MoneyInv, [Next]_vars, UNCHANGED <<bal, status, overwritten, reviewed>>
  PROVE  BalanceExplained' /\ LossesAreWholeLegs'
<1>0. IInv'
  BY NextIInv
<1>1. ASSUME NEW a \in Accounts, a \notin reviewed PROVE Legs(a)' = Legs(a)
  <2>1. Legs(a) \subseteq Legs(a)'
    BY <1>1, LegsKept DEF MoneyInv
  <2>2. \A c \in Calls : status[c] # "none" => req'[c] = req[c]
    BY RequestStays
  <2>3. Legs(a)' \subseteq Legs(a)
    BY <2>2 DEF Legs
  <2> QED
    BY <2>1, <2>3
<1>2. BalanceExplained'
  <2> SUFFICES ASSUME NEW a \in Accounts, a \notin overwritten, a \notin reviewed
               PROVE  bal[a] = Initial[a] + SumFunctionOnSet(Effects', Legs(a)')
    BY DEF BalanceExplained, Explained
  <2>1. bal[a] = Initial[a] + SumFunctionOnSet(Effects, Legs(a))
    BY DEF MoneyInv, BalanceExplained, Explained
  <2>2. SumFunctionOnSet(Effects', Legs(a)) = SumFunctionOnSet(Effects, Legs(a))
    BY SumsKept DEF MoneyInv
  <2>3. Legs(a)' = Legs(a)
    BY <1>1
  <2> QED
    BY <2>1, <2>2, <2>3
<1>3. LossesAreWholeLegs'
  <2> SUFFICES ASSUME NEW a \in Accounts, a \notin reviewed
               PROVE  \E legs \in SUBSET Legs(a)' :
                        bal[a] = Initial[a] + SumFunctionOnSet(Effects', legs)
    BY DEF LossesAreWholeLegs, Explained
  <2>1. PICK legs \in SUBSET Legs(a) : bal[a] = Initial[a] + SumFunctionOnSet(Effects, legs)
    BY DEF MoneyInv, LossesAreWholeLegs, Explained
  <2>2. legs \in SUBSET Legs(a)' /\ SumFunctionOnSet(Effects', legs) = SumFunctionOnSet(Effects, legs)
    BY SumsKept DEF MoneyInv
  <2> QED
    BY <2>1, <2>2
<1> QED
  BY <1>2, <1>3

\* The copies of a call that a step does not serve.
LEMMA CopiesKept ==
  ASSUME IInv, MoneyInv, [Next]_vars, NEW CONSTANT p \in Calls,
         snap'[p] = snap[p], req'[p] = req[p], pc'[p] = pc[p]
  PROVE  CopiesWhole(p)'
<1>1. PICK v : v = snap[p]
  OBVIOUS
<1>2. PICK r : r = req[p]
  OBVIOUS
<1>3. pc[p] # "idle" => /\ r.src # Nobody => r.src \in Accounts
                        /\ r.dst # Nobody => r.dst \in Accounts
  BY <1>2, WorkingRequest DEF Req, Procs
<1>4. /\ pc[p] \in {"readDst", "assess"} \cup InTransaction /\ r.src # Nobody => Whole(v.src, r.src)
      /\ pc[p] \in {"assess"} \cup InTransaction /\ r.dst # Nobody => Whole(v.dst, r.dst)
  BY <1>1, <1>2 DEF MoneyInv, CopyShape, CopiesWhole
<1>5. /\ pc[p] \in {"readDst", "assess"} \cup InTransaction /\ r.src # Nobody => Whole(v.src, r.src)'
      /\ pc[p] \in {"assess"} \cup InTransaction /\ r.dst # Nobody => Whole(v.dst, r.dst)'
  BY <1>3, <1>4, WholeKept DEF MoneyInv, InTransaction
<1>6. snap'[p] = v /\ req'[p] = r
  BY <1>1, <1>2
<1> QED
  BY <1>5, <1>6 DEF CopiesWhole, Whole, Holds

\* What a step of process p may not touch.
StepFrame(p) ==
    /\ \A q \in Procs \ {p} : pc'[q] = pc[q] /\ snap'[q] = snap[q] /\ outcome'[q] = outcome[q]
    /\ \A c \in Calls \ {p} : req'[c] = req[c]
    /\ \A v \in Reviews \ {p} : of'[v] = of[v]
    /\ \A a \in Accounts : lock[a] \notin {Nobody, p} => lock'[a] = lock[a]

\* A process at work works on one request.
LEMMA ReqKept ==
  ASSUME IInv, [Next]_vars, NEW q \in Procs, pc[q] # "idle",
         q \in Reviews => of'[q] = of[q], q \in Calls => req'[q] = req[q]
  PROVE  /\ Req(q)' = Req(q)
         /\ q \in Reviews => of[q] \in Calls /\ req'[of[q]] = req[of[q]]
<1>1. CASE q \in Calls
  BY <1>1, QPAccountsAssumption DEF Req
<1>2. CASE q \in Reviews
  <2>1. q \notin Calls /\ of[q] \in Calls /\ status[of[q]] # "none"
    BY <1>2, QPAccountsAssumption DEF IInv, ReviewShape
  <2>2. req'[of[q]] = req[of[q]]
    BY <2>1, RequestStays
  <2> QED
    BY <1>2, <2>1, <2>2 DEF Req
<1> QED
  BY <1>1, <1>2 DEF Procs

\* A step of one process preserves what the invariant says of the copies and rows
\* of another.
LEMMA OthersKept ==
  ASSUME IInv, MoneyInv, [Next]_vars, NEW CONSTANT p \in Procs, StepFrame(p),
         NEW CONSTANT q \in Procs \ {p}
  PROVE  (q \in Calls => CopiesWhole(q)') /\ HoldsRows(q)'
<1>1. pc'[q] = pc[q] /\ snap'[q] = snap[q] /\ outcome'[q] = outcome[q]
  BY DEF StepFrame
<1>2. q \in Calls => CopiesWhole(q)'
  BY <1>1, CopiesKept DEF StepFrame
<1>3. HoldsRows(q)'
  <2>1. CASE pc[q] = "idle"
    BY <1>1, <2>1 DEF HoldsRows
  <2>2. CASE pc[q] # "idle"
    <3>1. Req(q)' = Req(q)
      BY <2>2, ReqKept DEF StepFrame
    <3>2. HoldsRows(q)
      BY DEF MoneyInv, HeldShape
    <3>3. \A side \in Sides : Req(q)[side] # Nobody => Req(q)[side] \in Accounts
      BY <2>2, WorkingRequest DEF Sides
    <3>4. \A a \in Accounts : lock[a] = q => lock'[a] = q
      <4>1. q # Nobody
        BY QPAccountsAssumption DEF Procs
      <4> QED
        BY <4>1 DEF StepFrame
    <3> QED
      BY <1>1, <3>1, <3>2, <3>3, <3>4 DEF HoldsRows, Sides
  <2> QED
    BY <2>1, <2>2
<1> QED
  BY <1>2, <1>3

\* A step that commits nothing.
LEMMA QuietStep ==
  ASSUME IInv, MoneyInv, [Next]_vars, NEW CONSTANT p \in Procs, StepFrame(p),
         UNCHANGED <<bal, status, overwritten, reviewed>>,
         p \in Calls => CopiesWhole(p)', HoldsRows(p)', p \in Reviews => ApprovedFirst(p)'
  PROVE  MoneyInv'
<1>1. CopyShape'
  BY OthersKept DEF CopyShape, Procs
<1>2. HeldShape'
  BY OthersKept DEF HeldShape
<1>3. ReviewedShape'
  <2> SUFFICES ASSUME NEW v \in Reviews, v # p PROVE ApprovedFirst(v)'
    BY DEF ReviewedShape
  <2>1. pc'[v] = pc[v] /\ of'[v] = of[v] /\ v \notin Calls
    BY QPAccountsAssumption DEF StepFrame, Procs
  <2>2. pc[v] # "idle" => req'[of[v]] = req[of[v]]
    BY <2>1, ReqKept DEF Procs
  <2>3. ApprovedFirst(v)
    BY DEF MoneyInv, ReviewedShape
  <2> QED
    BY <2>1, <2>2, <2>3 DEF ApprovedFirst
<1> QED
  BY <1>1, <1>2, <1>3, RowsKept DEF MoneyInv

\* A new request holds no copy and no row.
LEMMA BeginMoney ==
  ASSUME IInv, MoneyInv, [Next]_vars, NEW CONSTANT c \in Calls, Begin(c)
  PROVE  MoneyInv'
<1> USE DEF rows, records, history
<1>0. PICK r \in Menu[c] :
        req' = [req EXCEPT ![c] = r] /\ Goto(c, FirstRead(r))
  BY DEF Begin
<1>1. /\ pc'[c] = FirstRead(r) /\ req'[c] = r
      /\ \A q \in Procs \ {c} : pc'[q] = pc[q]
      /\ \A d \in Calls \ {c} : req'[d] = req[d]
      /\ UNCHANGED <<rows, of, snap, outcome, records, history, faults>>
  BY <1>0 DEF Begin, Goto, IInv, TypeOK, Procs
<1>2. StepFrame(c)
  BY <1>1 DEF StepFrame
<1>3. CopiesWhole(c)' /\ HoldsRows(c)'
  BY <1>1 DEF FirstRead, CopiesWhole, HoldsRows, InTransaction
<1>4. c \notin Reviews /\ c \in Procs
  BY QPAccountsAssumption DEF Procs
<1> QED
  BY <1>1, <1>2, <1>3, <1>4, QuietStep

\* A review begins on a transaction that was flagged, so not completed.
LEMMA BeginReviewMoney ==
  ASSUME IInv, MoneyInv, [Next]_vars, NEW CONSTANT v \in Reviews, BeginReview(v)
  PROVE  MoneyInv'
<1> USE DEF rows, records, history
<1>0. PICK c \in Calls, verdict \in {"Completed", "Failed"} :
        /\ status[c] = "Flagged"
        /\ of' = [of EXCEPT ![v] = c]
        /\ outcome' = [outcome EXCEPT ![v] = verdict]
        /\ Goto(v, IF verdict = "Completed" THEN FirstRead(req[c]) ELSE "commit")
  BY DEF BeginReview
<1>1. /\ of'[v] = c /\ outcome'[v] = verdict
      /\ pc'[v] = IF verdict = "Completed" THEN FirstRead(req[c]) ELSE "commit"
      /\ \A q \in Procs \ {v} : pc'[q] = pc[q] /\ outcome'[q] = outcome[q]
      /\ \A w \in Reviews \ {v} : of'[w] = of[w]
      /\ UNCHANGED <<rows, req, snap, records, history, faults>>
  BY <1>0 DEF BeginReview, Goto, IInv, TypeOK, Procs
<1>2. StepFrame(v)
  BY <1>1 DEF StepFrame
<1>3. HoldsRows(v)'
  BY <1>1 DEF FirstRead, HoldsRows
<1>4. ApprovedFirst(v)'
  BY <1>0, <1>1 DEF ApprovedFirst
<1>5. v \notin Calls /\ v \in Procs
  BY QPAccountsAssumption DEF Procs
<1> QED
  BY <1>1, <1>2, <1>3, <1>4, <1>5, QuietStep

\* A review at work does not come to a decision of its own account before it commits.
LEMMA ApprovedKept ==
  ASSUME IInv, MoneyInv, [Next]_vars, NEW CONSTANT p \in Reviews, pc[p] # "idle",
         UNCHANGED <<of, status, reviewed>>
  PROVE  ApprovedFirst(p)'
<1>1. req'[of[p]] = req[of[p]]
  BY ReqKept, QPAccountsAssumption DEF Procs
<1>2. ApprovedFirst(p)
  BY DEF MoneyInv, ReviewedShape
<1> QED
  BY <1>1, <1>2 DEF ApprovedFirst

\* A copy is a balance of its time: whole legs, if nothing was approved since.
LEMMA ReadMoney ==
  ASSUME IInv, MoneyInv, [Next]_vars, NEW CONSTANT p \in Procs, ReadSrc(p) \/ ReadDst(p)
  PROVE  MoneyInv'
<1> USE DEF rows, records, history
<1>0. /\ pc[p] \in {"readSrc", "readDst"}
      /\ UNCHANGED <<rows, req, of, outcome, records, history, faults>>
      /\ \A q \in Procs \ {p} : pc'[q] = pc[q] /\ snap'[q] = snap[q]
  BY DEF ReadSrc, ReadDst, Goto, IInv, TypeOK
<1>1. /\ pc[p] = "readSrc" => Req(p).src \in Accounts
      /\ pc[p] = "readDst" => Req(p).dst \in Accounts
  BY QPAccountsAssumption DEF IInv, CallShape, ReviewShape, Req, Procs
<1>2. StepFrame(p)
  BY <1>0 DEF StepFrame
<1>3. HoldsRows(p)'
  <2>1. Req(p)' = Req(p)
    BY <1>0 DEF Req
  <2>2. pc'[p] # "commit" /\ (pc'[p] = "writeDst" => Req(p).src = Nobody)
    BY <1>1, QPAccountsAssumption DEF ReadSrc, ReadDst, Goto, AfterReads, FirstWrite, IInv, TypeOK
  <2> QED
    BY <2>1, <2>2 DEF HoldsRows
<1>4. \A a \in Accounts : Whole(bal[a], a)
  BY WholeBalances DEF MoneyInv
<1>5. ASSUME p \in Calls PROVE CopiesWhole(p)'
  <2>0. PICK r : r = req[p]
    OBVIOUS
  <2>1. Req(p) = r /\ req'[p] = r
    BY <1>0, <1>5, <2>0 DEF Req
  <2>2. CASE ReadSrc(p)
    <3>1. /\ pc'[p] = (IF r.dst # Nobody THEN "readDst" ELSE "assess")
          /\ snap'[p].src = bal[r.src] /\ r.src \in Accounts
      BY <1>1, <1>5, <2>1, <2>2 DEF ReadSrc, Goto, AfterReads, IInv, TypeOK
    <3>2. PICK v : v = bal[r.src]
      OBVIOUS
    <3>3. Whole(v, r.src)'
      BY <1>4, <3>1, <3>2, WholeKept DEF MoneyInv
    <3> QED
      BY <2>1, <3>1, <3>2, <3>3 DEF CopiesWhole, Whole, Holds, InTransaction
  <2>3. CASE ReadDst(p)
    <3>1. /\ pc'[p] = "assess" /\ pc[p] = "readDst" /\ r.dst \in Accounts
          /\ snap'[p].dst = bal[r.dst] /\ snap'[p].src = snap[p].src
      BY <1>1, <1>5, <2>1, <2>3 DEF ReadDst, Goto, AfterReads, IInv, TypeOK
    <3>2. PICK v : v = bal[r.dst]
      OBVIOUS
    <3>3. Whole(v, r.dst)'
      BY <1>4, <3>1, <3>2, WholeKept DEF MoneyInv
    <3>4. PICK w : w = snap[p].src
      OBVIOUS
    <3>5. r.src # Nobody => Whole(w, r.src)'
      <4>1. r.src # Nobody => r.src \in Accounts /\ Whole(w, r.src)
        BY <1>0, <1>5, <2>0, <2>1, <3>1, <3>4, WorkingRequest DEF MoneyInv, CopyShape, CopiesWhole
      <4> QED
        BY <4>1, WholeKept DEF MoneyInv
    <3> QED
      BY <2>1, <3>1, <3>2, <3>3, <3>4, <3>5 DEF CopiesWhole, Whole, Holds
  <2> QED
    BY <2>2, <2>3
<1>6. p \in Reviews => ApprovedFirst(p)'
  BY <1>0, ApprovedKept
<1> QED
  BY <1>0, <1>2, <1>3, <1>5, <1>6, QuietStep

\* The risk score decides on the copies and leaves them alone.
LEMMA AssessMoney ==
  ASSUME IInv, MoneyInv, [Next]_vars, NEW CONSTANT c \in Calls, Assess(c)
  PROVE  MoneyInv'
<1> USE DEF rows, records, history
<1>0. /\ pc[c] = "assess" /\ c \notin Reviews /\ c \in Procs
      /\ UNCHANGED <<rows, req, of, snap, records, history, faults>>
      /\ \A q \in Procs \ {c} : pc'[q] = pc[q] /\ outcome'[q] = outcome[q]
  BY QPAccountsAssumption DEF Assess, Goto, IInv, TypeOK, Procs
<1>1. StepFrame(c)
  BY <1>0 DEF StepFrame
<1>2. HoldsRows(c)'
  <2>1. Req(c) = req[c] /\ Req(c)' = req[c]
    BY <1>0 DEF Req
  <2>2. CASE Goto(c, "failed")
    BY <1>0, <2>2 DEF Goto, IInv, TypeOK, HoldsRows
  <2>3. ASSUME NEW o \in {"Completed", "Flagged"}, outcome' = [outcome EXCEPT ![c] = o],
               Goto(c, IF o = "Flagged" THEN "commit" ELSE FirstWrite(req[c]))
        PROVE  HoldsRows(c)'
    <3>1. /\ outcome'[c] = o
          /\ pc'[c] = IF o = "Flagged" THEN "commit" ELSE FirstWrite(req[c])
      BY <1>0, <2>3 DEF Goto, IInv, TypeOK
    <3> QED
      BY <2>1, <3>1 DEF HoldsRows, FirstWrite
  <2> QED
    BY <2>2, <2>3 DEF Assess, Risk
<1>3. CopiesWhole(c)'
  <2>0. PICK r : r = req[c]
    OBVIOUS
  <2>1. PICK v : v = snap[c]
    OBVIOUS
  <2>2. /\ r.src # Nobody => r.src \in Accounts /\ Whole(v.src, r.src)
        /\ r.dst # Nobody => r.dst \in Accounts /\ Whole(v.dst, r.dst)
    BY <1>0, <2>0, <2>1, WorkingRequest DEF MoneyInv, CopyShape, CopiesWhole, Req
  <2>3. /\ r.src # Nobody => Whole(v.src, r.src)'
        /\ r.dst # Nobody => Whole(v.dst, r.dst)'
    BY <2>2, WholeKept DEF MoneyInv
  <2>4. req'[c] = r /\ snap'[c] = v
    BY <1>0, <2>0, <2>1
  <2> QED
    BY <2>3, <2>4 DEF CopiesWhole, Whole, Holds
<1> QED
  BY <1>0, <1>1, <1>2, <1>3, QuietStep

\* The copies of a call that goes on inside its transaction.
LEMMA WriterCopies ==
  ASSUME IInv, MoneyInv, [Next]_vars, NEW CONSTANT p \in Calls, pc[p] \in InTransaction,
         snap'[p] = snap[p], req'[p] = req[p]
  PROVE  CopiesWhole(p)'
<1>0. PICK r : r = req[p]
  OBVIOUS
<1>1. PICK v : v = snap[p]
  OBVIOUS
<1>2. /\ r.src # Nobody => r.src \in Accounts /\ Whole(v.src, r.src)
      /\ r.dst # Nobody => r.dst \in Accounts /\ Whole(v.dst, r.dst)
  <2>1. pc[p] # "idle" /\ p \in Procs
    BY DEF InTransaction, Procs
  <2> QED
    BY <1>0, <1>1, <2>1, WorkingRequest DEF MoneyInv, CopyShape, CopiesWhole, Req
<1>3. /\ r.src # Nobody => Whole(v.src, r.src)'
      /\ r.dst # Nobody => Whole(v.dst, r.dst)'
  BY <1>2, WholeKept DEF MoneyInv
<1>4. req'[p] = r /\ snap'[p] = v
  BY <1>0, <1>1
<1> QED
  BY <1>3, <1>4 DEF CopiesWhole, Whole, Holds

\* The rows a call updates in its transaction are locked, and not yet committed.
LEMMA WriteMoney ==
  ASSUME IInv, MoneyInv, [Next]_vars, NEW CONSTANT p \in Procs, WriteSrc(p) \/ WriteDst(p)
  PROVE  MoneyInv'
<1> USE DEF records, history
<1>0. /\ pc[p] \in {"writeSrc", "writeDst"}
      /\ UNCHANGED <<bal, req, of, snap, outcome, records, history, faults>>
      /\ \A q \in Procs \ {p} : pc'[q] = pc[q]
  BY DEF WriteSrc, WriteDst, Goto, IInv, TypeOK
<1>1. /\ pc[p] = "writeSrc" => Req(p).src \in Accounts
      /\ pc[p] = "writeDst" => Req(p).dst \in Accounts
  BY QPAccountsAssumption DEF IInv, CallShape, ReviewShape, Req, Procs
<1>2. Req(p)' = Req(p)
  BY <1>0 DEF Req
<1>3. StepFrame(p) /\ HoldsRows(p)'
  <2>1. CASE WriteSrc(p)
    <3>1. /\ lock[Req(p).src] = Nobody /\ lock' = [lock EXCEPT ![Req(p).src] = p]
          /\ Req(p).src \in Accounts
          /\ pc'[p] = IF Req(p).dst # Nobody THEN "writeDst" ELSE "commit"
      BY <1>1, <2>1 DEF WriteSrc, Goto, IInv, TypeOK
    <3>2. lock'[Req(p).src] = p /\ \A a \in Accounts : lock[a] \notin {Nobody, p} => lock'[a] = lock[a]
      BY <3>1 DEF IInv, TypeOK
    <3> QED
      BY <1>0, <1>2, <3>1, <3>2 DEF StepFrame, HoldsRows, Sides
  <2>2. CASE WriteDst(p)
    <3>1. /\ lock[Req(p).dst] \in {Nobody, p} /\ lock' = [lock EXCEPT ![Req(p).dst] = p]
          /\ Req(p).dst \in Accounts /\ pc[p] = "writeDst" /\ pc'[p] = "commit"
      BY <1>1, <2>2 DEF WriteDst, Goto, IInv, TypeOK
    <3>2. /\ lock'[Req(p).dst] = p
          /\ \A a \in Accounts : /\ lock[a] \notin {Nobody, p} => lock'[a] = lock[a]
                                 /\ lock[a] = p => lock'[a] = p
      BY <3>1 DEF IInv, TypeOK
    <3>3. Req(p).src # Nobody => Req(p).src \in Accounts /\ lock[Req(p).src] = p
      BY <3>1, WorkingRequest DEF MoneyInv, HeldShape, HoldsRows
    <3> QED
      BY <1>0, <1>2, <3>1, <3>2, <3>3 DEF StepFrame, HoldsRows, Sides
  <2> QED
    BY <2>1, <2>2
<1>4. p \in Calls => CopiesWhole(p)'
  BY <1>0, WriterCopies DEF InTransaction
<1>5. p \in Reviews => ApprovedFirst(p)'
  BY <1>0, ApprovedKept
<1> QED
  BY <1>0, <1>3, <1>4, <1>5, QuietStep

\* A failed transaction gives its rows back as they were.
LEMMA RollbackMoney ==
  ASSUME IInv, MoneyInv, [Next]_vars, NEW CONSTANT p \in Procs, Rollback(p), pc[p] \in InTransaction
  PROVE  MoneyInv'
<1> USE DEF records, history
<1>0. /\ pc'[p] = "failed" /\ \A q \in Procs \ {p} : pc'[q] = pc[q]
      /\ UNCHANGED <<bal, req, of, snap, outcome, records, history>>
      /\ \A a \in Accounts : lock'[a] = IF lock[a] = p THEN Nobody ELSE lock[a]
  BY DEF Rollback, Release, Goto, IInv, TypeOK
<1>1. StepFrame(p)
  BY <1>0 DEF StepFrame
<1>2. HoldsRows(p)' /\ (p \in Calls => CopiesWhole(p)')
  BY <1>0 DEF HoldsRows, CopiesWhole, InTransaction
<1>3. p \in Reviews => ApprovedFirst(p)'
  BY <1>0, ApprovedKept DEF InTransaction
<1> QED
  BY <1>0, <1>1, <1>2, <1>3, QuietStep

\* The side of the request of p on which it writes account a.
SideOf(p, a) == IF a = Req(p).dst THEN "dst" ELSE "src"

\* A committing call adds exactly its own leg to what its copy held.
LEMMA LegAdded ==
  ASSUME IInv, MoneyInv, [Next]_vars, NEW CONSTANT p \in Calls, Commit(p),
         NEW a \in Accounts, a \notin reviewed', lock[a] = p,
         NEW legs \in SUBSET Legs(a), Holds(snap[p][SideOf(p, a)], a, legs)
  PROVE  /\ legs \cup {<<p, SideOf(p, a)>>} \in SUBSET Legs(a)'
         /\ bal'[a] = Initial[a] + SumFunctionOnSet(Effects', legs \cup {<<p, SideOf(p, a)>>})
<1>0. PICK side \in Sides : side = SideOf(p, a)
  BY DEF SideOf, Sides
<1>a. PICK leg : leg = <<p, side>>
  OBVIOUS
<1>1. /\ pc[p] = "commit" /\ req' = req /\ status'[p] = outcome[p]
      /\ bal'[a] = Written(p, a) /\ p \in Procs /\ p \notin Reviews
  BY QPAccountsAssumption DEF Commit, IInv, TypeOK, Procs
<1>2. outcome[p] = "Completed" /\ status[p] = "none" /\ a \in {req[p].src, req[p].dst}
  <2>1. Req(p) = req[p]
    BY DEF Req
  <2> QED
    BY <1>1, <2>1 DEF IInv, LockShape, CallShape
<1>3. req[p][side] = a
  BY <1>0, <1>2 DEF SideOf, Req
<1>4. leg \in Legs(a)' /\ leg \notin Legs(a)
  BY <1>a, <1>1, <1>2, <1>3 DEF Legs, Sides
<1>5. /\ legs \in SUBSET Legs(a)'
      /\ SumFunctionOnSet(Effects', legs) = SumFunctionOnSet(Effects, legs)
  BY SumsKept DEF MoneyInv
<1>6. IInv'
  BY NextIInv
<1>7. TypeOK' => /\ Effects'[leg] = IF side = "dst" THEN req'[p].amt ELSE -(req'[p].amt + Fee(req'[p]))
                 /\ Effects'[leg] \in Int
  BY <1>a, EffectOfNext
<1>8. SumFunctionOnSet(Effects', legs \cup {leg}) = Effects'[leg] + SumFunctionOnSet(Effects', legs)
  <2>2. IsFiniteSet(legs \cup {leg})
    BY <1>4, <1>5, LegsFiniteNext
  <2>3. \A l \in legs \cup {leg} : Effects'[l] \in Int
    <3>1. \A l \in legs : Effects'[l] = Effects[l] /\ Effects[l] \in Int
      BY LegsKept, LegsAre, EffectOf DEF MoneyInv, IInv
    <3> QED
      BY <1>6, <1>7, <3>1 DEF IInv
  <2>4. (legs \cup {leg}) \ {leg} = legs
    BY <1>4
  <2> HIDE DEF Effects
  <2> QED
    BY <2>2, <2>3, <2>4, SumRemove
<1>9. bal'[a] = snap[p][side] + Effects'[leg]
  <2>1. snap[p][side] \in Int
    BY <1>0, LegSumInt, QPAccountsAssumption DEF Holds, IInv
  <2>2. snap[p][side] # NaN
    BY <2>1, QPAccountsAssumption
  <2>3. req[p].amt \in Nat /\ Fee(req[p]) \in Nat
    BY RequestTypes DEF IInv, TypeOK
  <2>4. Effects'[leg] = IF side = "dst" THEN req[p].amt ELSE -(req[p].amt + Fee(req[p]))
    BY <1>1, <1>6, <1>7 DEF IInv
  <2>5. CASE a = req[p].dst
    <3>1. side = "dst" /\ Written(p, a) = snap[p].dst + req[p].amt
      BY <1>0, <1>1, <2>2, <2>5 DEF SideOf, Req, Written, Credit
    <3> QED
      BY <1>1, <2>4, <3>1
  <2>6. CASE a # req[p].dst
    <3>1. side = "src" /\ Written(p, a) = snap[p].src - req[p].amt - Fee(req[p])
      BY <1>0, <1>1, <2>2, <2>6 DEF SideOf, Req, Written, Debit
    <3> QED
      BY <1>1, <2>1, <2>3, <2>4, <3>1
  <2> QED
    BY <2>5, <2>6
<1>10. bal'[a] = Initial[a] + SumFunctionOnSet(Effects', legs \cup {leg})
  <2>1. SumFunctionOnSet(Effects, legs) \in Int /\ Initial[a] \in Int /\ Effects'[leg] \in Int
    BY <1>6, <1>7, LegSumInt, QPAccountsAssumption DEF IInv
  <2>2. snap[p][side] = Initial[a] + SumFunctionOnSet(Effects, legs)
    BY <1>0 DEF Holds
  <2> QED
    BY <1>5, <1>8, <1>9, <2>1, <2>2
<1> QED
  BY <1>0, <1>a, <1>4, <1>5, <1>10

\* Rows a commit does not write get no leg.
LEMMA RowsNotWritten ==
  ASSUME IInv, MoneyInv, [Next]_vars, NEW CONSTANT p \in Procs, Commit(p),
         NEW a \in Accounts, a \notin reviewed', lock[a] # p
  PROVE  bal'[a] = bal[a] /\ Legs(a)' = Legs(a)
<1>1. PICK c \in Calls : c = IF p \in Calls THEN p ELSE of[p]
  BY DEF Commit, IInv, ReviewShape, Procs
<1>2. /\ pc[p] = "commit" /\ req' = req /\ bal'[a] = bal[a] /\ req[c] = Req(p)
      /\ status'[c] = outcome[p] /\ \A d \in Calls \ {c} : status'[d] = status[d]
  BY <1>1 DEF Commit, IInv, TypeOK, Req
<1>3. Legs(a) \subseteq Legs(a)'
  BY LegsKept DEF MoneyInv
<1>4. Legs(a)' \subseteq Legs(a)
  <2> SUFFICES ASSUME NEW d \in Calls, NEW side \in Sides,
                      status'[d] = "Completed", req[d][side] = a
               PROVE  status[d] = "Completed"
    BY <1>2 DEF Legs, Sides
  <2>1. CASE d # c
    BY <1>2, <2>1
  <2>2. CASE d = c
    <3>1. outcome[p] = "Completed" /\ Req(p)[side] = a /\ a # Nobody
      BY <1>2, <2>2, QPAccountsAssumption
    <3>2. lock[a] = p
      BY <1>2, <3>1 DEF MoneyInv, HeldShape, HoldsRows
    <3> QED
      BY <3>2
  <2> QED
    BY <2>1, <2>2
<1> QED
  BY <1>2, <1>3, <1>4

\* A commit writes a copy and its own leg: from a current copy nothing is lost,
\* from an old one whole legs are.
LEMMA CommitMoney ==
  ASSUME IInv, MoneyInv, [Next]_vars, NEW CONSTANT p \in Procs, Commit(p)
  PROVE  MoneyInv'
<1>1. PICK c \in Calls : c = IF p \in Calls THEN p ELSE of[p]
  BY DEF Commit, IInv, ReviewShape, Procs
<1>2. /\ pc[p] = "commit" /\ pc'[p] = "done" /\ \A q \in Procs \ {p} : pc'[q] = pc[q]
      /\ UNCHANGED <<req, of, snap, outcome>>
      /\ status'[c] = outcome[p] /\ \A d \in Calls \ {c} : status'[d] = status[d]
      /\ \A a \in Accounts : lock'[a] = IF lock[a] = p THEN Nobody ELSE lock[a]
      /\ p \in Reviews => \A a \in Accounts : lock[a] = p => a \in reviewed'
      /\ overwritten' = overwritten \cup Stale(p)
  BY <1>1 DEF Commit, Goto, Release, Held, IInv, TypeOK
<1>3. StepFrame(p)
  BY <1>2 DEF StepFrame
<1>4. CopyShape' /\ HeldShape'
  <2>1. HoldsRows(p)' /\ (p \in Calls => CopiesWhole(p)')
    BY <1>2 DEF HoldsRows, CopiesWhole, InTransaction
  <2> QED
    BY <1>3, <2>1, OthersKept DEF CopyShape, HeldShape, Procs
<1>5. ReviewedShape'
  <2> SUFFICES ASSUME NEW v \in Reviews, pc'[v] # "idle", status'[of[v]] = "Completed",
                      NEW side \in Sides, req[of[v]][side] # Nobody
               PROVE  req[of[v]][side] \in reviewed'
    BY <1>2 DEF ReviewedShape, ApprovedFirst
  <2>1. pc[v] # "idle" /\ of[v] \in Calls /\ status[of[v]] # "none"
    BY <1>2 DEF IInv, ReviewShape, Procs
  <2>2. CASE of[v] # c
    <3>1. req[of[v]][side] \in reviewed
      BY <1>2, <2>1, <2>2 DEF MoneyInv, ReviewedShape, ApprovedFirst
    <3> QED
      BY <3>1, ReviewedGrows
  <2>3. CASE of[v] = c
    <3>1. p \in Reviews /\ of[p] = c /\ p \notin Calls
      BY <1>1, <1>2, <2>1, <2>3 DEF IInv, CallShape, Procs
    <3>2. Req(p)[side] # Nobody /\ outcome[p] = "Completed" /\ Req(p) = req[c]
      BY <1>2, <2>3, <3>1 DEF Req
    <3>3. lock[Req(p)[side]] = p /\ Req(p)[side] \in Accounts
      BY <1>2, <3>2, WorkingRequest DEF MoneyInv, HeldShape, HoldsRows, Sides
    <3> QED
      BY <1>2, <2>3, <3>1, <3>2, <3>3
  <2> QED
    BY <2>2, <2>3
<1>6. BalanceExplained'
  <2> SUFFICES ASSUME NEW a \in Accounts, a \notin overwritten', a \notin reviewed'
               PROVE  bal'[a] = Initial[a] + SumFunctionOnSet(Effects', Legs(a)')
    BY DEF BalanceExplained, Explained
  <2>1. bal[a] = Initial[a] + SumFunctionOnSet(Effects, Legs(a))
    BY <1>2, ReviewedGrows DEF MoneyInv, BalanceExplained, Explained
  <2>2. CASE lock[a] # p
    <3>1. SumFunctionOnSet(Effects', Legs(a)) = SumFunctionOnSet(Effects, Legs(a))
      BY SumsKept DEF MoneyInv
    <3> QED
      BY <2>1, <2>2, <3>1, RowsNotWritten
  <2>3. CASE lock[a] = p
    <3>1. p \in Calls /\ Req(p) = req[p] /\ c = p
      BY <1>1, <1>2, <2>3 DEF Procs, Req
    <3>2. /\ req[p].src # req[p].dst
          /\ bal[a] = IF a = req[p].dst THEN snap[p].dst ELSE snap[p].src
      BY <1>2, <2>3, <3>1 DEF Stale, Held
    <3>3. Holds(snap[p][SideOf(p, a)], a, Legs(a))
      BY <2>1, <3>1, <3>2 DEF Holds, SideOf
    <3>4. /\ Legs(a) \cup {<<p, SideOf(p, a)>>} \subseteq Legs(a)'
          /\ bal'[a] = Initial[a] + SumFunctionOnSet(Effects', Legs(a) \cup {<<p, SideOf(p, a)>>})
      BY <2>3, <3>1, <3>3, LegAdded
    <3>5. Legs(a)' \subseteq Legs(a) \cup {<<p, SideOf(p, a)>>}
      <4> SUFFICES ASSUME NEW d \in Calls, NEW side \in Sides,
                          status'[d] = "Completed", req[d][side] = a, d = p
                   PROVE  side = SideOf(p, a)
        BY <1>2, <3>1 DEF Legs, Sides
      <4> QED
        BY <3>1, <3>2 DEF SideOf, Sides
    <3> QED
      <4>1. Legs(a)' = Legs(a) \cup {<<p, SideOf(p, a)>>}
        BY <3>4, <3>5
      <4> QED
        BY <3>4, <4>1
  <2> QED
    BY <2>2, <2>3
<1>7. LossesAreWholeLegs'
  <2> SUFFICES ASSUME NEW a \in Accounts, a \notin reviewed'
               PROVE  \E legs \in SUBSET Legs(a)' :
                        bal'[a] = Initial[a] + SumFunctionOnSet(Effects', legs)
    BY DEF LossesAreWholeLegs, Explained
  <2>1. CASE lock[a] # p
    <3>1. PICK legs \in SUBSET Legs(a) : bal[a] = Initial[a] + SumFunctionOnSet(Effects, legs)
      BY ReviewedGrows DEF MoneyInv, LossesAreWholeLegs, Explained
    <3>2. legs \in SUBSET Legs(a)' /\ SumFunctionOnSet(Effects', legs) = SumFunctionOnSet(Effects, legs)
      BY SumsKept DEF MoneyInv
    <3>3. bal'[a] = bal[a]
      BY <2>1, RowsNotWritten
    <3> QED
      BY <3>1, <3>2, <3>3
  <2>2. CASE lock[a] = p
    <3>1. p \in Calls /\ Req(p) = req[p]
      BY <1>1, <1>2, <2>2 DEF Procs, Req
    <3>2. a \in {req[p].src, req[p].dst} /\ a # Nobody
      BY <2>2, <3>1, QPAccountsAssumption DEF IInv, LockShape
    <3>3. Whole(snap[p][SideOf(p, a)], a)
      BY <1>2, <3>1, <3>2 DEF MoneyInv, CopyShape, CopiesWhole, InTransaction, SideOf
    <3>4. PICK legs \in SUBSET Legs(a) : Holds(snap[p][SideOf(p, a)], a, legs)
      BY <3>3, ReviewedGrows DEF Whole
    <3>5. PICK legs2 : legs2 = legs \cup {<<p, SideOf(p, a)>>}
      OBVIOUS
    <3>6. legs2 \in SUBSET Legs(a)' /\ bal'[a] = Initial[a] + SumFunctionOnSet(Effects', legs2)
      BY <1>1, <2>2, <3>1, <3>4, <3>5, LegAdded
    <3> QED
      BY <3>6
  <2> QED
    BY <2>1, <2>2
<1> QED
  BY <1>4, <1>5, <1>6, <1>7 DEF MoneyInv

\* Nothing changes when nothing does.
LEMMA StutterMoney ==
  ASSUME IInv, MoneyInv, UNCHANGED vars
  PROVE  MoneyInv'
<1> USE DEF vars, rows, records, history
<1>1. CopyShape'
  <2> SUFFICES ASSUME NEW CONSTANT p \in Calls PROVE CopiesWhole(p)'
    BY DEF CopyShape
  <2> QED
    BY CopiesKept
<1>2. HeldShape' /\ ReviewedShape'
  BY DEF MoneyInv, HeldShape, ReviewedShape, HoldsRows, ApprovedFirst, Req
<1>3. BalanceExplained' /\ LossesAreWholeLegs'
  BY RowsKept
<1> QED
  BY <1>1, <1>2, <1>3 DEF MoneyInv

\* Every step preserves the explanation of the balances.
LEMMA NextMoney == IInv /\ MoneyInv /\ [Next]_vars => MoneyInv'
<1> SUFFICES ASSUME IInv, MoneyInv, [Next]_vars PROVE MoneyInv'
  OBVIOUS
<1>1. CASE UNCHANGED vars
  BY <1>1, StutterMoney
<1>2. ASSUME NEW CONSTANT p \in Procs, Step(p)
      PROVE  MoneyInv'
  <2>1. CASE ReadSrc(p) \/ ReadDst(p)
    BY <2>1, ReadMoney
  <2>2. CASE WriteSrc(p) \/ WriteDst(p)
    BY <2>2, WriteMoney
  <2>3. CASE Commit(p)
    BY <2>3, CommitMoney
  <2>4. CASE DeadlockVictim(p)
    <3>1. pc[p] \in InTransaction /\ Rollback(p)
      BY <2>4 DEF DeadlockVictim, Target, InTransaction
    <3> QED
      BY <3>1, RollbackMoney
  <2>5. CASE p \in Calls /\ Assess(p)
    BY <2>5, AssessMoney
  <2>6. CASE p \in Reviews /\ WriteRefused(p)
    <3>1. pc[p] \in InTransaction /\ Rollback(p)
      BY <2>6 DEF WriteRefused, InTransaction
    <3> QED
      BY <3>1, RollbackMoney
  <2> QED
    BY <1>2, <2>1, <2>2, <2>3, <2>4, <2>5, <2>6 DEF Step
<1>3. ASSUME NEW CONSTANT p \in Procs, Fault(p)
      PROVE  MoneyInv'
  <2>1. pc[p] \in InTransaction /\ Rollback(p)
    BY <1>3 DEF Fault
  <2> QED
    BY <2>1, RollbackMoney
<1>4. CASE Next
  <2>1. PICK p \in Procs :
          \/ Step(p)
          \/ p \in Calls /\ Begin(p)
          \/ p \in Reviews /\ BeginReview(p)
          \/ Fault(p)
    BY <1>4 DEF Next
  <2>2. CASE p \in Calls /\ Begin(p)
    BY <2>2, BeginMoney
  <2>3. CASE p \in Reviews /\ BeginReview(p)
    BY <2>3, BeginReviewMoney
  <2> QED
    BY <2>1, <2>2, <2>3, <1>2, <1>3
<1> QED
  BY <1>1, <1>4

\* The first balances are explained by no leg.
LEMMA InitMoney == Init => MoneyInv
<1> SUFFICES ASSUME Init PROVE MoneyInv
  OBVIOUS
<1>1. CopyShape /\ HeldShape /\ ReviewedShape
  BY DEF Init, CopyShape, CopiesWhole, HeldShape, HoldsRows, ReviewedShape, ApprovedFirst,
     InTransaction, Procs
<1>2. \A a : Legs(a) = {}
  BY DEF Init, Legs
<1>3. SumFunctionOnSet(Effects, {}) = 0
  <2> HIDE DEF Effects
  <2> QED
    BY FS_EmptySet, SumUnfold
<1>4. \A a \in Accounts : Explained(a, {})
  <2>1. \A a \in Accounts : Initial[a] \in Nat /\ bal[a] = Initial[a]
    BY QPAccountsAssumption DEF Init
  <2> QED
    BY <1>3, <2>1 DEF Explained
<1> QED
  BY <1>1, <1>2, <1>4 DEF MoneyInv, BalanceExplained, LossesAreWholeLegs

\* Every account holds its first balance and every completed call, unless a
\* write was computed from an out-of-date copy or an approval wrote it: for any
\* number of calls, reviews, accounts and amounts, whatever deadlocks and faults.
THEOREM BalanceCorrect == Spec => []BalanceExplained
<1>1. MoneyInv => BalanceExplained
  BY DEF MoneyInv
<1> QED
  BY InitIInv, NextIInv, InitMoney, NextMoney, <1>1, PTL DEF Spec

\* What an out-of-date write loses are whole effects of completed calls, for any
\* number of calls that overwrite each other.
THEOREM LossesCorrect == Spec => []LossesAreWholeLegs
<1>1. MoneyInv => LossesAreWholeLegs
  BY DEF MoneyInv
<1> QED
  BY InitIInv, NextIInv, InitMoney, NextMoney, <1>1, PTL DEF Spec
=============================================================================
