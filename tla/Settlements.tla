------------------------------ MODULE Settlements ------------------------------
(***************************************************************************)
(* The settlement records of trades (settlement.service.ts).  The platform *)
(* moves no fiat: a trade leaves a debit and a credit record, the          *)
(* facilitator's webhook completes the records of its reference, and a     *)
(* nightly job expires what is still pending, although the comment on      *)
(* createSettlement says that such records remain PENDING.                 *)
(***************************************************************************)

CONSTANTS Trades,
          Cross,     \* the trades that went over the bridge
          Hooks      \* webhook deliveries, the provider's repetitions included

SettlementAssumption == Cross \subseteq Trades

Records == Trades \X {"debit", "credit"}

\* Both records of a direct trade carry its id; the legs of a bridge trade are
\* trades of their own.
Reference(r) == IF r[1] \in Cross THEN r ELSE <<r[1], "both">>

VARIABLES
    matched,   \* trades that are executed and not recorded yet
    record,    \* status of each settlement record
    old,       \* trades of more than seven days ago
    hook,      \* where each webhook delivery is
    ref,       \* the reference it confirms
    toUpdate,  \* the records it found and has not updated yet
    known      \* whether its records existed when it arrived (history)

settleVars == <<matched, record, old, hook, ref, toUpdate, known>>

Init ==
    /\ matched = Trades
    /\ record = [r \in Records |-> "none"]
    /\ old = {}
    /\ hook = [h \in Hooks |-> "idle"]
    /\ ref = [h \in Hooks |-> <<>>]
    /\ toUpdate = [h \in Hooks |-> {}]
    /\ known = [h \in Hooks |-> FALSE]

Of(h) == {r \in Records : Reference(r) = ref[h] /\ record[r] # "none"}

\* Both records are saved at once, or none.  A direct trade waits for it before it
\* commits, and the save is on a connection of its own: without records there is no
\* trade, but records stay when the trade is rolled back.  The bridge does not wait:
\* an error is logged, and its legs stay without records.
CreateSettlement(t) ==
    /\ t \in matched
    /\ matched' = matched \ {t}
    /\ \/ record' = [r \in Records |-> IF r[1] = t THEN "pending" ELSE record[r]]
       \/ UNCHANGED record
    /\ UNCHANGED <<old, hook, ref, toUpdate, known>>

\* The delivery is signed and names a reference.
Deliver(h) ==
    /\ hook[h] = "idle"
    /\ \E r \in Records :
         /\ ref' = [ref EXCEPT ![h] = Reference(r)]
         /\ known' = [known EXCEPT ![h] = record[r] # "none"]
    /\ hook' = [hook EXCEPT ![h] = "find"]
    /\ UNCHANGED <<matched, record, old, toUpdate>>

\* Without records the answer is still 200, so that the provider stops asking.
Find(h) ==
    /\ hook[h] = "find"
    /\ toUpdate' = [toUpdate EXCEPT ![h] = Of(h)]
    /\ hook' = [hook EXCEPT ![h] = IF Of(h) = {} THEN "done" ELSE "update"]
    /\ UNCHANGED <<matched, record, old, ref, known>>

\* Mutant: one UPDATE, of the first record found.
UpdateFirst(h) ==
    /\ hook[h] = "update"
    /\ \E r \in toUpdate[h] : record' = [record EXCEPT ![r] = "completed"]
    /\ toUpdate' = [toUpdate EXCEPT ![h] = {}]
    /\ hook' = [hook EXCEPT ![h] = "done"]
    /\ UNCHANGED <<matched, old, ref, known>>

\* One UPDATE for each record, in any order, whatever its status.
UpdateRecord(h) ==
    /\ hook[h] = "update"
    /\ \E r \in toUpdate[h] :
         /\ record' = [record EXCEPT ![r] = "completed"]
         /\ toUpdate' = [toUpdate EXCEPT ![h] = @ \ {r}]
         /\ hook' = [hook EXCEPT ![h] = IF toUpdate[h] = {r} THEN "done" ELSE "update"]
    /\ UNCHANGED <<matched, old, ref, known>>

\* The process dies, or an UPDATE fails and the provider gets an error.
Fail(h) ==
    /\ hook[h] \in {"find", "update"}
    /\ hook' = [hook EXCEPT ![h] = "failed"]
    /\ UNCHANGED <<matched, record, old, ref, toUpdate, known>>

GrowOld(t) ==
    /\ t \notin matched \cup old
    /\ old' = old \cup {t}
    /\ UNCHANGED <<matched, record, hook, ref, toUpdate, known>>

Aged == {r \in Records : r[1] \in old /\ record[r] # "none"}

\* Mutant: records without a facilitator reference on a bridge trade are left out.
ExpireDirect ==
    /\ \E r \in Aged : record[r] = "pending" /\ r[1] \notin Cross
    /\ record' = [r \in Records |-> IF r \in Aged /\ record[r] = "pending" /\ r[1] \notin Cross
                                    THEN "expired" ELSE record[r]]
    /\ UNCHANGED <<matched, old, hook, ref, toUpdate, known>>

ExpireStaleSettlements ==
    /\ \E r \in Aged : record[r] = "pending"
    /\ record' = [r \in Records |-> IF r \in Aged /\ record[r] = "pending"
                                    THEN "expired" ELSE record[r]]
    /\ UNCHANGED <<matched, old, hook, ref, toUpdate, known>>

Next ==
    \/ \E t \in Trades : CreateSettlement(t)
    \/ \E h \in Hooks : Deliver(h) \/ Find(h) \/ UpdateRecord(h) \/ Fail(h)
    \/ \E t \in Trades : GrowOld(t)
    \/ ExpireStaleSettlements

Spec == Init /\ [][Next]_settleVars

\* Time passes, and the nightly job runs every night.
Fairness ==
    /\ \A t \in Trades : WF_settleVars(GrowOld(t))
    /\ WF_settleVars(ExpireStaleSettlements)
FairSpec == Spec /\ Fairness

-----------------------------------------------------------------------------
(* Properties.                                                              *)

TypeOK ==
    /\ matched \subseteq Trades
    /\ record \in [Records -> {"none", "pending", "completed", "expired"}]
    /\ old \subseteq Trades
    /\ hook \in [Hooks -> {"idle", "find", "update", "done", "failed"}]
    /\ \A h \in Hooks : toUpdate[h] \subseteq Of(h)
    /\ known \in [Hooks -> BOOLEAN]

\* What the facilitator has confirmed stays confirmed: neither the nightly job
\* nor a repeated delivery takes it back.  (An expired record may be completed.)
CompletedIsFinal ==
    [][\A r \in Records : record[r] = "completed" => record'[r] = "completed"]_settleVars

\* A delivery answered with success has completed every record of its
\* reference, if they existed when it arrived; one that came before the records
\* is lost.
SuccessMeansCompleted ==
    \A h \in Hooks : hook[h] = "done" /\ known[h] =>
        \A r \in Records : Reference(r) = ref[h] => record[r] = "completed"

\* No record is pending for ever, whether or not its webhook comes.
NonePending == \A r \in Records : record[r] # "pending"
NothingStaysPending == []<>NonePending
=============================================================================
