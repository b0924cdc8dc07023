------------------------------ MODULE FiProducts ------------------------------
(***************************************************************************)
(* The products of financial institutions: term deposits, insurance        *)
(* policies and claims, loan applications, credit reports.                 *)
(*                                                                         *)
(* Each operation is a row and one or two QP transfers, in separate        *)
(* database transactions.  A transfer (QPAccounts) moves the QP, or is     *)
(* stored for approval and returns all the same, or throws; the services   *)
(* take the first two alike.  A row is named by the call that creates it.  *)
(***************************************************************************)
EXTENDS Integers

CONSTANTS Calls, Nobody,
          Menu,        \* the requests call c may make
          MaxFaults    \* bound: crashes and failed statements

Creating == {"deposit", "purchase", "file", "apply", "report"}
Deciding == {"mature", "review", "decline", "approve", "disapprove"}
Kinds    == Creating \cup Deciding

\* "review" approves a claim and "decline" rejects it; "approve" and
\* "disapprove" decide on a loan application.
Requests == [kind : Kinds, of : Calls \cup {Nobody}]

FiAssumption ==
    /\ Nobody \notin Calls
    /\ Menu \in [Calls -> SUBSET Requests]
    /\ \A c \in Calls : \A r \in Menu[c] :
          (r.of = Nobody) <=> (r.kind \in Creating \ {"file"})
    /\ MaxFaults \in Nat

Legs == {"lock", "payout", "fee", "premium", "commission", "benefit", "creditFee"}

VARIABLES
    at,        \* where each call is
    req,       \* its request
    row,       \* status of the row each call has created
    claimed,   \* policies that are marked CLAIMED
    moved,     \* the legs of each call that moved QP
    flagged,   \* the legs that were only stored for approval
    ripe,      \* deposits whose maturity date has passed
    before,    \* the calls that were done when each call began (history)
    disturbed, \* calls hit by a fault or crash (history)
    faults

money   == <<moved, flagged>>
history == <<before, disturbed>>
fiVars  == <<at, req, row, claimed, money, ripe, history, faults>>

Init ==
    /\ at = [c \in Calls |-> "idle"]
    /\ req = [c \in Calls |-> [kind |-> "report", of |-> Nobody]]
    /\ row = [c \in Calls |-> "none"]
    /\ claimed = {} /\ ripe = {} /\ disturbed = {}
    /\ moved = [c \in Calls |-> {}]
    /\ flagged = [c \in Calls |-> {}]
    /\ before = [c \in Calls |-> {}]
    /\ faults = 0

Goto(c, step) == at' = [at EXCEPT ![c] = step]
Is(c, step, kind) == at[c] = step /\ req[c].kind = kind

\* A deposit is recorded before the transfer, a policy after it.
FirstStep(kind) ==
    CASE kind \in {"deposit", "apply"} -> "create"
      [] kind = "purchase"             -> "premium"
      [] kind = "report"               -> "creditFee"
      [] OTHER                         -> "read"

Begin(c) ==
    /\ at[c] = "idle"
    /\ \E r \in Menu[c] :
         /\ r.of # Nobody => row[r.of] # "none"
         /\ req' = [req EXCEPT ![c] = r]
         /\ Goto(c, FirstStep(r.kind))
    /\ before' = [before EXCEPT ![c] = {d \in Calls : at[d] = "done"}]
    /\ UNCHANGED <<row, claimed, money, ripe, disturbed, faults>>

-----------------------------------------------------------------------------
(* QPointsTransactionService.transfer as the services see it.               *)

\* Mutant: a refused lock is not compensated.
NoCompensation(c) == "failed"

\* After a refused lock the deposit is removed again, everything else just ends.
AfterRefusal(c) == IF at[c] = "lock" THEN "compensate" ELSE "failed"

\* A small deposit's distribution fee may round to nothing, and is then not moved.
AfterLeg(c) ==
    CASE at[c] = "premium" -> {"commission"}
      [] at[c] = "payout"  -> {"fee", "close"}
      [] at[c] \in {"lock", "fee", "benefit"} -> {"close"}
      [] OTHER             -> {"create"}

Transfer(c) ==
    /\ at[c] \in Legs
    /\ \/ /\ moved' = [moved EXCEPT ![c] = @ \cup {at[c]}]
          /\ \E step \in AfterLeg(c) : Goto(c, step)
          /\ UNCHANGED flagged
       \/ /\ flagged' = [flagged EXCEPT ![c] = @ \cup {at[c]}]
          /\ \E step \in AfterLeg(c) : Goto(c, step)
          /\ UNCHANGED moved
       \/ /\ Goto(c, AfterRefusal(c))
          /\ UNCHANGED money
    /\ UNCHANGED <<req, row, claimed, ripe, history, faults>>

-----------------------------------------------------------------------------
(* Deposits.                                                                *)

CreateDeposit(c) ==
    /\ Is(c, "create", "deposit")
    /\ row' = [row EXCEPT ![c] = "ACTIVE"]
    /\ Goto(c, "lock")
    /\ UNCHANGED <<req, claimed, money, ripe, history, faults>>

RemoveDeposit(c) ==
    /\ at[c] = "compensate"
    /\ row' = [row EXCEPT ![c] = "removed"]
    /\ Goto(c, "failed")
    /\ UNCHANGED <<req, claimed, money, ripe, history, faults>>

\* The lock's transaction id is saved.
CloseDeposit(c) ==
    /\ Is(c, "close", "deposit")
    /\ Goto(c, "done")
    /\ UNCHANGED <<req, row, claimed, money, ripe, history, faults>>

\* Days pass; a call that creates a deposit has ended long before.
Ripen(d) ==
    /\ req[d].kind = "deposit" /\ at[d] \in {"done", "failed", "crashed"}
    /\ row[d] = "ACTIVE" /\ d \notin ripe
    /\ ripe' = ripe \cup {d}
    /\ UNCHANGED <<at, req, row, claimed, money, history, faults>>

\* matureDeposit, called by an officer or for each row of the nightly sweep.
ReadDeposit(c) ==
    /\ Is(c, "read", "mature")
    /\ Goto(c, IF row[req[c].of] = "ACTIVE" /\ req[c].of \in ripe THEN "payout" ELSE "failed")
    /\ UNCHANGED <<req, row, claimed, money, ripe, history, faults>>

CloseMature(c) ==
    /\ Is(c, "close", "mature")
    /\ row' = [row EXCEPT ![req[c].of] = "MATURED"]
    /\ Goto(c, "done")
    /\ UNCHANGED <<req, claimed, money, ripe, history, faults>>

-----------------------------------------------------------------------------
(* Insurance.                                                               *)

CreatePolicy(c) ==
    /\ Is(c, "create", "purchase")
    /\ row' = [row EXCEPT ![c] = "ACTIVE"]
    /\ Goto(c, "done")
    /\ UNCHANGED <<req, claimed, money, ripe, history, faults>>

FileClaim(c) ==
    /\ Is(c, "read", "file")
    /\ IF req[c].of \in claimed
       THEN Goto(c, "failed") /\ UNCHANGED row
       ELSE row' = [row EXCEPT ![c] = "SUBMITTED"] /\ Goto(c, "done")
    /\ UNCHANGED <<req, claimed, money, ripe, history, faults>>

\* Nothing looks at the policy's status again.
ReadClaim(c) ==
    /\ at[c] = "read" /\ req[c].kind \in {"review", "decline"}
    /\ Goto(c, IF row[req[c].of] # "SUBMITTED" THEN "failed"
               ELSE IF req[c].kind = "review" THEN "benefit" ELSE "reject")
    /\ UNCHANGED <<req, row, claimed, money, ripe, history, faults>>

\* The policy is saved first, then the claim.
MarkClaimed(c) ==
    /\ Is(c, "close", "review")
    /\ claimed' = claimed \cup {req[req[c].of].of}
    /\ Goto(c, "paidOut")
    /\ UNCHANGED <<req, row, money, ripe, history, faults>>

SaveClaim(c) ==
    /\ at[c] = "paidOut" \/ Is(c, "reject", "decline")
    /\ row' = [row EXCEPT ![req[c].of] = IF at[c] = "paidOut" THEN "PAID_OUT" ELSE "REJECTED"]
    /\ Goto(c, "done")
    /\ UNCHANGED <<req, claimed, money, ripe, history, faults>>

-----------------------------------------------------------------------------
(* Loans and credit reports.                                                *)

RequestLoan(c) ==
    /\ Is(c, "create", "apply")
    /\ row' = [row EXCEPT ![c] = "PENDING"]
    /\ Goto(c, "done")
    /\ UNCHANGED <<req, claimed, money, ripe, history, faults>>

\* The amount is a decimal column, a string: amountQp + interest has no toFixed,
\* the TypeError rolls the approval back before anything is written.
ApproveLoan(c) ==
    /\ Is(c, "read", "approve")
    /\ Goto(c, "failed")
    /\ UNCHANGED <<req, row, claimed, money, ripe, history, faults>>

ReadLoan(c) ==
    /\ Is(c, "read", "disapprove")
    /\ Goto(c, IF row[req[c].of] = "PENDING" THEN "reject" ELSE "failed")
    /\ UNCHANGED <<req, row, claimed, money, ripe, history, faults>>

RejectLoan(c) ==
    /\ Is(c, "reject", "disapprove")
    /\ row' = [row EXCEPT ![req[c].of] = "REJECTED"]
    /\ Goto(c, "done")
    /\ UNCHANGED <<req, claimed, money, ripe, history, faults>>

SaveReport(c) ==
    /\ Is(c, "create", "report")
    /\ row' = [row EXCEPT ![c] = "SAVED"]
    /\ Goto(c, "done")
    /\ UNCHANGED <<req, claimed, money, ripe, history, faults>>

-----------------------------------------------------------------------------
Ended == {"idle", "done", "failed", "crashed"}

Disturb(c) ==
    /\ at[c] \notin Ended
    /\ faults < MaxFaults
    /\ faults' = faults + 1
    /\ disturbed' = disturbed \cup {c}
    /\ UNCHANGED <<req, row, claimed, money, ripe, before>>

\* The process dies, or a statement outside a transfer fails; after the transfer
\* nothing is compensated.
Crash(c) == Disturb(c) /\ Goto(c, "crashed")

Step(c) ==
    \/ Transfer(c)
    \/ CreateDeposit(c) \/ RemoveDeposit(c) \/ CloseDeposit(c)
    \/ ReadDeposit(c) \/ CloseMature(c)
    \/ CreatePolicy(c) \/ FileClaim(c) \/ ReadClaim(c) \/ MarkClaimed(c) \/ SaveClaim(c)
    \/ RequestLoan(c) \/ ApproveLoan(c) \/ ReadLoan(c) \/ RejectLoan(c) \/ SaveReport(c)

Next == \E c \in Calls : Begin(c) \/ Step(c) \/ Crash(c) \/ Ripen(c)

Spec == Init /\ [][Next]_fiVars

-----------------------------------------------------------------------------
(* Properties.                                                              *)

TypeOK ==
    /\ at \in [Calls -> Ended \cup Legs
                 \cup {"create", "read", "close", "compensate", "paidOut", "reject"}]
    /\ req \in [Calls -> Requests]
    /\ row \in [Calls -> {"none", "ACTIVE", "MATURED", "removed", "SUBMITTED", "PAID_OUT",
                          "REJECTED", "PENDING", "SAVED"}]
    /\ claimed \subseteq Calls /\ ripe \subseteq Calls /\ disturbed \subseteq Calls
    /\ moved \in [Calls -> SUBSET Legs] /\ flagged \in [Calls -> SUBSET Legs]
    /\ before \in [Calls -> SUBSET Calls]
    /\ faults \in 0..MaxFaults

\* "A DB failure never leaves funds transferred with no record": QP that have
\* been locked belong to a deposit that exists, whatever fails in between.
LockedFundsHaveRecord ==
    \A c \in Calls : "lock" \in moved[c] => row[c] \in {"ACTIVE", "MATURED"}

\* A deposit that stays on record is funded, or at least promised (its transfer
\* awaits approval), unless its call was cut off.
DepositsAreFunded ==
    \A c \in Calls :
        req[c].kind = "deposit" /\ row[c] \in {"ACTIVE", "MATURED"} /\ at[c] \in Ended
          => c \in disturbed \/ "lock" \in moved[c] \cup flagged[c]

\* A policy is paid for: premium and commission were both accepted before it
\* exists.
PoliciesArePaidFor ==
    \A c \in Calls :
        req[c].kind = "purchase" /\ row[c] = "ACTIVE"
          => {"premium", "commission"} \subseteq moved[c] \cup flagged[c]

\* A maturity or claim that one call has paid and closed is not paid by a call
\* that begins later (overlapping calls may both pay).
NoSecondPayout ==
    \A a, b \in Calls :
        a \in before[b] /\ req[a].of = req[b].of
          => /\ req[a].kind = "mature" => "payout" \notin moved[b] \cup flagged[b]
             /\ req[a].kind = "review" => "benefit" \notin moved[b] \cup flagged[b]

\* No claim is filed on a policy once another claim on it has been paid in
\* full; claims filed before that are still payable.
NoClaimAfterPayout ==
    \A a, b \in Calls :
        (/\ a \in before[b]
         /\ req[a].kind = "review" /\ req[b].kind = "file"
         /\ req[req[a].of].of = req[b].of) => row[b] = "none"
=============================================================================
