------------------------------ MODULE QPAccounts ------------------------------
(***************************************************************************)
(* QPointsTransactionService on the table qpoint_accounts: deposit,        *)
(* transfer, withdraw and reviewFlaggedTransaction, and the subscription   *)
(* fees, which change the same rows.                                       *)
(*                                                                         *)
(* Nobody locks an account it reads.  Each call computes a new balance     *)
(* from its copy and writes that number, so its UPDATE waits for another   *)
(* call's row lock and then overwrites what that call committed.           *)
(*                                                                         *)
(* Amounts are in tenths of a Q-Point.  A column of type decimal comes     *)
(* back from the driver as a string: the calls parse a balance before they *)
(* add to it, the review adds the stored amount to it as a string.         *)
(***************************************************************************)
EXTENDS Integers, FiniteSets, FiniteSetsExt, Functions

CONSTANTS Accounts, Nobody,
          Calls,       \* calls of deposit, transfer, withdraw, subscriptions
          Reviews,     \* calls of reviewFlaggedTransaction
          Menu,        \* the requests call c may make
          Initial,     \* balances at the start
          NaN,         \* the balance 'NaN', which a decimal column can hold
          MaxFaults    \* bound: statements that fail for outside reasons

Kinds == {"deposit", "transfer", "withdraw", "charge"}
Requests == [kind : Kinds, src : Accounts \cup {Nobody},
             dst : Accounts \cup {Nobody}, amt : {10 * q : q \in 1..50}]

ASSUME QPAccountsAssumption ==
    /\ Nobody \notin Accounts \cup Calls \cup Reviews
    /\ IsFiniteSet(Calls) /\ Calls \cap Reviews = {}
    /\ NaN \notin Int
    /\ Initial \in [Accounts -> Nat]
    /\ MaxFaults \in Nat
    /\ \A c \in Calls :
         /\ Menu[c] \subseteq Requests
         /\ \A r \in Menu[c] :
              /\ (r.src = Nobody) <=> (r.kind = "deposit")
              /\ (r.dst = Nobody) <=> (r.kind \in {"withdraw", "charge"})

Procs == Calls \cup Reviews
Balances == Nat \cup {NaN}

VARIABLES
    bal,         \* committed balances
    lock,        \* the process whose uncommitted UPDATE holds each row
    pc,          \* where each process is
    req,         \* the request of each call
    of,          \* the call whose transaction a review decides
    snap,        \* the copies of source and destination balance it computes with
    outcome,     \* the transaction status it is about to commit
    status,      \* committed status of each call's transaction record
    entries,     \* sets of journal entries committed for it
    overwritten, \* accounts written from an out-of-date copy (history)
    reviewed,    \* accounts an approval has written (history)
    faults

rows    == <<bal, lock>>
records == <<status, entries>>
history == <<overwritten, reviewed>>
vars    == <<rows, pc, req, of, snap, outcome, records, history, faults>>

NoRequest == [kind |-> "deposit", src |-> Nobody, dst |-> Nobody, amt |-> 10]

Init ==
    /\ bal = Initial
    /\ lock = [a \in Accounts |-> Nobody]
    /\ pc = [p \in Procs |-> "idle"]
    /\ req = [c \in Calls |-> NoRequest]
    /\ of = [v \in Reviews |-> Nobody]
    /\ snap = [p \in Procs |-> [src |-> 0, dst |-> 0]]
    /\ outcome = [p \in Procs |-> "none"]
    /\ status = [c \in Calls |-> "none"]
    /\ entries = [c \in Calls |-> 0]
    /\ overwritten = {} /\ reviewed = {}
    /\ faults = 0

Goto(p, step) == pc' = [pc EXCEPT ![p] = step]

-----------------------------------------------------------------------------
(* What a request asks, and the numbers the code computes.                  *)

\* The request process p works on.
Req(p) == IF p \in Calls THEN req[p] ELSE req[of[p]]

\* The smallest fees: up to 50 QP, 0.2% and 0.5% are below them.
Fee(r) == CASE r.kind = "transfer" -> 1
            [] r.kind = "withdraw" -> 5
            [] OTHER -> 0

\* Mutant: the fee is not part of what must be covered.
CoversAmountOnly(v, r) == v = NaN \/ v >= r.amt

\* A subscription fee is a plain UPDATE, without record, risk score or journal.
Recorded(r) == r.kind # "charge"

\* The risk score (AiPricing) executes a transaction or stores it for approval.
\* It reaches the threshold of an approval only when the fraud check throws.
Risk(r) == IF Recorded(r) THEN {"Completed", "Flagged"} ELSE {"Completed"}

\* balance < totalRequired is false for NaN.
Covers(v, r) == v = NaN \/ v >= r.amt + Fee(r)

\* x + amount, where amount is the string "5.00" and x a number in whole
\* Q-Points: the digits are joined.  A balance with a fraction gives "7.55.00",
\* NaN gives "NaN5.00", and the database refuses both.
Joinable(v) == v # NaN /\ v % 10 = 0
Join(v, amt) == v * (IF amt < 100 THEN 10 ELSE 100) + amt

Credit(p) ==
    IF p \in Reviews THEN Join(snap[p].dst, Req(p).amt)
    ELSE IF snap[p].dst = NaN THEN NaN ELSE snap[p].dst + Req(p).amt

\* In a review amount + fee is "5.000.10", and a number less that is NaN.
Debit(p) ==
    IF p \in Reviews \/ snap[p].src = NaN
    THEN NaN
    ELSE snap[p].src - Req(p).amt - Fee(Req(p))

\* Mutant: the destination receives the fee too.
WrittenWithFee(p, a) ==
    IF a = Req(p).dst /\ Credit(p) # NaN THEN Credit(p) + Fee(Req(p))
    ELSE IF a = Req(p).dst THEN NaN ELSE Debit(p)

\* The balance p leaves on an account it has written.
Written(p, a) == IF a = Req(p).dst THEN Credit(p) ELSE Debit(p)

FirstRead(r)  == IF r.src # Nobody THEN "readSrc" ELSE "readDst"
FirstWrite(r) == IF r.src # Nobody THEN "writeSrc" ELSE "writeDst"

-----------------------------------------------------------------------------
(* Reading, without locks.                                                  *)

Begin(c) ==
    /\ pc[c] = "idle"
    /\ \E r \in Menu[c] :
         /\ req' = [req EXCEPT ![c] = r]
         /\ Goto(c, FirstRead(r))
    /\ UNCHANGED <<rows, of, snap, outcome, records, history, faults>>

\* A review reads the transaction before its own transaction begins and does
\* not read its status again.
BeginReview(v) ==
    /\ pc[v] = "idle"
    /\ \E c \in Calls, verdict \in {"Completed", "Failed"} :
         /\ status[c] = "Flagged"
         /\ of' = [of EXCEPT ![v] = c]
         /\ outcome' = [outcome EXCEPT ![v] = verdict]
         /\ Goto(v, IF verdict = "Completed" THEN FirstRead(req[c]) ELSE "commit")
    /\ UNCHANGED <<rows, req, snap, records, history, faults>>

\* After its last read a review writes at once, a call assesses the risk.
AfterReads(p) == IF p \in Calls THEN "assess" ELSE FirstWrite(Req(p))

ReadSrc(p) ==
    /\ pc[p] = "readSrc"
    /\ snap' = [snap EXCEPT ![p].src = bal[Req(p).src]]
    /\ Goto(p, IF Req(p).dst # Nobody THEN "readDst" ELSE AfterReads(p))
    /\ UNCHANGED <<rows, req, of, outcome, records, history, faults>>

ReadDst(p) ==
    /\ pc[p] = "readDst"
    /\ snap' = [snap EXCEPT ![p].dst = bal[Req(p).dst]]
    /\ Goto(p, AfterReads(p))
    /\ UNCHANGED <<rows, req, of, outcome, records, history, faults>>

\* The copy covers amount and fee or the call is refused.
Assess(c) ==
    /\ pc[c] = "assess"
    /\ IF req[c].src # Nobody /\ ~Covers(snap[c].src, req[c])
       THEN Goto(c, "failed") /\ UNCHANGED outcome
       ELSE \E o \in Risk(req[c]) :
              /\ outcome' = [outcome EXCEPT ![c] = o]
              /\ Goto(c, IF o = "Flagged" THEN "commit" ELSE FirstWrite(req[c]))
    /\ UNCHANGED <<rows, req, of, snap, records, history, faults>>

-----------------------------------------------------------------------------
(* Writing, in one transaction.                                             *)

\* The row whose UPDATE p waits for, Nobody when it does not write.
Target(p) == CASE pc[p] = "writeSrc" -> Req(p).src
               [] pc[p] = "writeDst" -> Req(p).dst
               [] OTHER              -> Nobody

\* Mutant: the connection goes back to the pool with its locks.
KeepLocks(p) == lock

Release(p) == [a \in Accounts |-> IF lock[a] = p THEN Nobody ELSE lock[a]]

\* Mutant: each save is durable at once, without the transaction.
RollbackKeepsWrites(p) ==
    /\ bal' = [a \in Accounts |-> IF lock[a] = p THEN Written(p, a) ELSE bal[a]]
    /\ lock' = Release(p)
    /\ Goto(p, "failed")
    /\ UNCHANGED <<req, of, snap, outcome, records, history>>

Rollback(p) ==
    /\ lock' = Release(p)
    /\ Goto(p, "failed")
    /\ UNCHANGED <<bal, req, of, snap, outcome, records, history>>

WriteSrc(p) ==
    /\ pc[p] = "writeSrc"
    /\ lock[Req(p).src] = Nobody
    /\ lock' = [lock EXCEPT ![Req(p).src] = p]
    /\ Goto(p, IF Req(p).dst # Nobody THEN "writeDst" ELSE "commit")
    /\ UNCHANGED <<bal, req, of, snap, outcome, records, history, faults>>

WriteDst(p) ==
    /\ pc[p] = "writeDst"
    /\ lock[Req(p).dst] \in {Nobody, p}
    /\ p \in Reviews => Joinable(snap[p].dst)
    /\ lock' = [lock EXCEPT ![Req(p).dst] = p]
    /\ Goto(p, "commit")
    /\ UNCHANGED <<bal, req, of, snap, outcome, records, history, faults>>

\* The database cannot read the number the review sends.
WriteRefused(v) ==
    /\ pc[v] = "writeDst"
    /\ ~Joinable(snap[v].dst)
    /\ Rollback(v)
    /\ UNCHANGED faults

Held(p) == {a \in Accounts : lock[a] = p}

\* What p replaces differs from the copy it computed with; so does, in a
\* transfer to oneself, what its own first write left.
Stale(p) ==
    {a \in Held(p) : \/ Req(p).src = Req(p).dst
                     \/ bal[a] # IF a = Req(p).dst THEN snap[p].dst ELSE snap[p].src}

\* Mutant: the entries are written outside the branch that executes.
JournalAlways(p, c) == [entries EXCEPT ![c] = @ + 1]

\* The journal entries an executed transaction adds.
Journal(p, c) ==
    IF outcome[p] = "Completed" /\ Recorded(req[c])
    THEN [entries EXCEPT ![c] = @ + 1]
    ELSE entries

\* The transaction record, the balances and the journal appear together.  A
\* subscription fee has no transaction record.
Commit(p) ==
    /\ pc[p] = "commit"
    /\ LET c == IF p \in Calls THEN p ELSE of[p] IN
         /\ status' = [status EXCEPT ![c] = outcome[p]]
         /\ entries' = Journal(p, c)
    /\ bal' = [a \in Accounts |-> IF lock[a] = p THEN Written(p, a) ELSE bal[a]]
    /\ lock' = Release(p)
    /\ overwritten' = overwritten \cup Stale(p)
    /\ reviewed' = IF p \in Reviews THEN reviewed \cup Held(p) ELSE reviewed
    /\ Goto(p, "done")
    /\ UNCHANGED <<req, of, snap, outcome, faults>>

-----------------------------------------------------------------------------
(* Failure.                                                                 *)

InTransaction == {"writeSrc", "writeDst", "commit"}

Fault(p) ==
    /\ pc[p] \in InTransaction
    /\ faults < MaxFaults
    /\ faults' = faults + 1
    /\ Rollback(p)

\* Source first, then destination, whoever they are: two transfers in opposite
\* directions wait for each other, and the database ends one of them.
WaitsFor(p) == IF Target(p) = Nobody THEN Nobody ELSE lock[Target(p)]

Deadlocked(p) ==
    \E S \in SUBSET (Procs \ {p}) :
        {WaitsFor(q) : q \in S \cup {p}} = S \cup {p} /\ S # {}

DeadlockVictim(p) ==
    /\ Target(p) # Nobody
    /\ Deadlocked(p)
    /\ Rollback(p)
    /\ UNCHANGED faults

Step(p) ==
    \/ ReadSrc(p) \/ ReadDst(p)
    \/ WriteSrc(p) \/ WriteDst(p) \/ Commit(p) \/ DeadlockVictim(p)
    \/ p \in Calls /\ Assess(p)
    \/ p \in Reviews /\ WriteRefused(p)

Next ==
    \E p \in Procs :
        \/ Step(p)
        \/ p \in Calls /\ Begin(p)
        \/ p \in Reviews /\ BeginReview(p)
        \/ Fault(p)

Spec == Init /\ [][Next]_vars

\* A request in progress is run by the event loop and the database; nobody has
\* to send one.
FairSpec == Spec /\ \A p \in Procs : WF_vars(Step(p))

-----------------------------------------------------------------------------
(* Properties.                                                              *)

\* Types.  A balance is never negative: the UPDATE may overwrite what others
\* committed, but the number it writes was checked against the copy it came from.
TypeOK ==
    /\ bal \in [Accounts -> Balances]
    /\ lock \in [Accounts -> Procs \cup {Nobody}]
    /\ pc \in [Procs -> {"idle", "readSrc", "readDst", "assess", "done", "failed"}
                          \cup InTransaction]
    /\ req \in [Calls -> Requests]
    /\ of \in [Reviews -> Calls \cup {Nobody}]
    /\ snap \in [Procs -> [src : Balances, dst : Balances]]
    /\ outcome \in [Procs -> {"none", "Completed", "Flagged", "Failed"}]
    /\ status \in [Calls -> {"none", "Completed", "Flagged", "Failed"}]
    /\ entries \in [Calls -> Nat]
    /\ overwritten \subseteq Accounts /\ reviewed \subseteq Accounts
    /\ faults \in 0..MaxFaults

\* What the completed calls should have done to an account: one leg for each
\* side of a call on which the account stands.
Legs(a) ==
    {leg \in Calls \X {"src", "dst"} :
        status[leg[1]] = "Completed" /\ req[leg[1]][leg[2]] = a}

Effect(leg) ==
    IF leg[2] = "dst" THEN req[leg[1]].amt
                      ELSE -(req[leg[1]].amt + Fee(req[leg[1]]))

Effects == [leg \in Calls \X {"src", "dst"} |-> Effect(leg)]

Explained(a, legs) == bal[a] = Initial[a] + SumFunctionOnSet(Effects, legs)

\* Unless a write was computed from an out-of-date copy, an account holds its
\* first balance and every completed call: refused, failed and flagged calls
\* left nothing.  (Approved transactions: see ApprovalIsExact.)
BalanceExplained ==
    \A a \in Accounts \ (overwritten \cup reviewed) : Explained(a, Legs(a))

\* Whatever the interleaving, an overwritten account has lost the effect of
\* some completed calls but never shows a part of one, one twice, or one that
\* did not complete.
LossesAreWholeLegs ==
    \A a \in Accounts \ reviewed : \E legs \in SUBSET Legs(a) : Explained(a, legs)

\* The journal follows the record: entries exist for a completed transaction
\* and for none that is flagged or was rolled back.
JournalFollowsRecord ==
    \A c \in Calls :
        /\ status[c] \in {"none", "Flagged"} => entries[c] = 0
        /\ status[c] = "Completed" /\ Recorded(req[c]) => entries[c] > 0

\* Every request ends, although two transfers in opposite directions block each
\* other.
CallsEnd == \A p \in Procs : pc[p] # "idle" ~> pc[p] \in {"done", "failed"}

\* An approved transaction is processed: without a stale write the accounts
\* hold exactly the amounts of the completed calls, the approved included.
\* Violated: reviewFlaggedTransaction adds the amount as a string.
ApprovalIsExact == \A a \in Accounts \ overwritten : Explained(a, Legs(a))
=============================================================================
