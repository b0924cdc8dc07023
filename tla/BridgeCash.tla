------------------------------ MODULE BridgeCash ------------------------------
(***************************************************************************)
(* The platform's own cash at each payment facilitator                     *)
(* (cross-facilitator-engine.service.ts): bridge trades book it, finance   *)
(* adds to it, and the netting engine (netting-engine.service.ts) proposes *)
(* transfers between facilitators that an administrator completes.         *)
(*                                                                         *)
(* No statement locks a row before reading it; a row is locked from its    *)
(* UPDATE to the end of the transaction.                                   *)
(***************************************************************************)
EXTENDS Integers, FiniteSetsExt, Functions

CONSTANTS Facs, Calls, Nobody,
          Menu,       \* the requests call c may make
          Initial,    \* cash at the start, NoRow for an unregistered facilitator
          NoRow,
          Reserve,    \* minReserveUsd
          Deviation,  \* REBALANCING_DEVIATION_THRESHOLD_USD
          Spread,     \* the AI sells a little above a dollar and buys below
          MaxFaults   \* bound: transactions that fail, and crashes

Kinds == {"trade", "fund", "register", "net", "complete", "cancel"}

\* A trade is paid in by the buyer at facilitator a and out to the seller at b;
\* complete and cancel name a netting task, by its run and its target b.
Requests == [kind : Kinds, a : Facs, b : Facs, amt : Nat, run : Calls \cup {Nobody}]

BridgeAssumption ==
    /\ IsFiniteSet(Facs) /\ Facs # {} /\ Nobody \notin Calls
    /\ NoRow \notin Int
    /\ Initial \in [Facs -> Nat \cup {NoRow}]
    /\ Menu \in [Calls -> SUBSET Requests]
    /\ Reserve \in Nat \ {0} /\ Deviation \in Nat /\ Spread \in Nat /\ MaxFaults \in Nat
    /\ \A c \in Calls : \A r \in Menu[c] :
          /\ r.kind = "trade" => r.a # r.b /\ r.amt > Spread
          /\ r.kind \in {"complete", "cancel"} => r.run # Nobody

VARIABLES
    cash, active, outflow,  \* the committed row of each facilitator
    held,      \* the call whose transaction has updated each row
    step,      \* where each call is
    ask,       \* its request
    seen,      \* the rows it has read: cash, active and outflow of each facilitator
    task,      \* the netting task of each run for each target
    todo,      \* deficits a netting run still has to look at
    prior,     \* the calls that were done when each call began (history)
    booked,    \* what the ended calls have added to each row (history)
    messy,     \* rows written by overlapping calls, or clamped at 0 (history)
    drained,   \* rows a rebalancing has taken from (history)
    spent      \* faults so far

rows    == <<cash, active, outflow>>
history == <<prior, booked, messy, drained>>
bridgeVars == <<rows, held, step, ask, seen, task, todo, history, spent>>

NoTask == [status |-> "none", source |-> CHOOSE f \in Facs : TRUE, amt |-> 0]
NoAsk  == [kind |-> "net", a |-> NoTask.source, b |-> NoTask.source, amt |-> 0, run |-> Nobody]

Init ==
    /\ cash = Initial
    /\ active = [f \in Facs |-> Initial[f] # NoRow /\ Initial[f] >= Reserve]
    /\ outflow = [f \in Facs |-> 0]
    /\ held = [f \in Facs |-> Nobody]
    /\ step = [c \in Calls |-> "idle"]
    /\ ask = [c \in Calls |-> NoAsk]
    /\ seen = [c \in Calls |-> [f \in Facs |-> [cash |-> 0, active |-> FALSE, out |-> 0]]]
    /\ task = [c \in Calls |-> [f \in Facs |-> NoTask]]
    /\ todo = [c \in Calls |-> {}]
    /\ prior = [c \in Calls |-> {}]
    /\ booked = [f \in Facs |-> 0]
    /\ messy = {} /\ drained = {}
    /\ spent = 0

Ended == {"idle", "done", "failed", "crashed"}

To(c, s) == step' = [step EXCEPT ![c] = s]
In(c)    == ask[c].amt + Spread
Out(c)   == ask[c].amt - Spread

\* Mutant: a missing row is not told apart.
RawSeen == [f \in Facs |-> [cash |-> cash[f], active |-> active[f], out |-> outflow[f]]]

Seen == [f \in Facs |-> [cash |-> IF cash[f] = NoRow THEN 0 ELSE cash[f], active |-> active[f],
                         out |-> outflow[f]]]

MyTask(c) == task[ask[c].run][ask[c].b]

\* The rows a request writes: those of the task, for its completion.
RowsOf(r) == CASE r.kind = "complete" -> {task[r.run][r.b].source, r.b}
               [] r.kind = "trade"    -> {r.a, r.b}
               [] r.kind = "fund"     -> {r.b}
               [] OTHER               -> {}
Running == {c \in Calls : step[c] \notin Ended}

FirstStep(kind) ==
    CASE kind = "trade" -> "route" [] kind = "fund" -> "readRow"
      [] kind = "net" -> "snapshot" [] kind = "register" -> "insert"
      [] OTHER -> "readTask"

\* The hourly run takes an advisory lock through the connection pool: lock and
\* unlock may use different connections, a second run on the same connection
\* gets the lock too, and an administrator's run takes none.  Runs may overlap.
Begin(c) ==
    /\ step[c] = "idle"
    /\ \E r \in Menu[c] :
         /\ r.run # Nobody => task[r.run][r.b].status # "none"
         /\ ask' = [ask EXCEPT ![c] = r]
         /\ To(c, FirstStep(r.kind))
         /\ messy' = messy \cup UNION {RowsOf(ask[d]) \cap RowsOf(r) : d \in Running}
    /\ prior' = [prior EXCEPT ![c] = {d \in Calls : step[d] = "done"}]
    /\ UNCHANGED <<rows, held, seen, task, todo, booked, drained, spent>>

-----------------------------------------------------------------------------
(* A bridge trade: guards, the Q Points (modelled by OrderBook), the cash.  *)

\* isCrossFacilitatorTrade: both bridges are open.
Route(c) ==
    /\ step[c] = "route"
    /\ To(c, IF active[ask[c].a] /\ active[ask[c].b] THEN "assert" ELSE "failed")
    /\ UNCHANGED <<rows, held, ask, seen, task, todo, history, spent>>

AssertBridgeCapacity(c) ==
    /\ step[c] = "assert"
    /\ To(c, IF cash[ask[c].b] # NoRow /\ active[ask[c].b] /\ cash[ask[c].b] >= Out(c)
             THEN "first" ELSE "failed")
    /\ UNCHANGED <<rows, held, ask, seen, task, todo, history, spent>>

\* _updateAiCashBalances adds in the database: the incoming row is locked from here.
CreditIncoming(c) ==
    /\ step[c] = "first" /\ ask[c].kind = "trade"
    /\ held[ask[c].a] = Nobody
    /\ held' = [held EXCEPT ![ask[c].a] = c]
    /\ To(c, "readRow")
    /\ UNCHANGED <<rows, ask, seen, task, todo, history, spent>>

\* The outgoing row, or the row to fund.
ReadRow(c) ==
    /\ step[c] = "readRow"
    /\ seen' = [seen EXCEPT ![c] = Seen]
    /\ To(c, IF ask[c].kind = "trade" THEN "second"
             ELSE IF cash[ask[c].b] = NoRow THEN "insert" ELSE "write")
    /\ UNCHANGED <<rows, held, ask, task, todo, history, spent>>

Suspends(left, out) == left < Reserve \/ 10 * left < out

Less(x, y) == Max({0, x - y})

\* The outgoing row is written from the copy, its outflow too, which on a new day starts
\* again; then both updates are committed.
DebitOutgoing(c) ==
    /\ step[c] = "second" /\ ask[c].kind = "trade"
    /\ held[ask[c].b] = Nobody
    /\ \E daily \in {Out(c), seen[c][ask[c].b].out + Out(c)} :
         LET b    == ask[c].b
             left == Less(seen[c][b].cash, Out(c))
         IN  /\ cash' = [cash EXCEPT ![ask[c].a] = @ + In(c), ![b] = left]
             /\ outflow' = [outflow EXCEPT ![b] = daily]
             /\ active' = [active EXCEPT
                   ![b] = IF Suspends(left, daily) THEN FALSE ELSE seen[c][b].active]
    /\ held' = [held EXCEPT ![ask[c].a] = Nobody]
    /\ booked' = [booked EXCEPT ![ask[c].a] = @ + In(c), ![ask[c].b] = @ - Out(c)]
    /\ To(c, "done")
    /\ UNCHANGED <<ask, seen, task, todo, prior, messy, drained, spent>>

-----------------------------------------------------------------------------
(* Registration and funding.                                                *)

\* A new row is closed and empty; the second of two creators runs into the unique
\* index.
InsertRow(c) ==
    /\ step[c] = "insert"
    /\ IF cash[ask[c].b] = NoRow
       THEN /\ cash' = [cash EXCEPT ![ask[c].b] = 0]
            /\ seen' = [seen EXCEPT ![c][ask[c].b] = [cash |-> 0, active |-> FALSE, out |-> 0]]
            /\ To(c, IF ask[c].kind = "fund" THEN "write" ELSE "done")
       ELSE To(c, IF ask[c].kind = "fund" THEN "failed" ELSE "done") /\ UNCHANGED <<cash, seen>>
    /\ UNCHANGED <<active, outflow, held, ask, task, todo, history, spent>>

Opens(balance, was) == balance >= Reserve \/ was

RecordExternalFunding(c) ==
    /\ step[c] = "write"
    /\ held[ask[c].b] = Nobody
    /\ LET b == ask[c].b  new == seen[c][b].cash + ask[c].amt
       IN  /\ cash' = [cash EXCEPT ![b] = new]
           /\ active' = [active EXCEPT ![b] = Opens(new, seen[c][b].active)]
           /\ booked' = [booked EXCEPT ![b] = @ + ask[c].amt]
    /\ To(c, "done")
    /\ UNCHANGED <<outflow, held, ask, seen, task, todo, prior, messy, drained, spent>>

-----------------------------------------------------------------------------
(* The netting engine.                                                      *)

\* All rows are read once; the surpluses are used up as tasks are planned.
Snapshot(c) ==
    /\ step[c] = "snapshot"
    /\ seen' = [seen EXCEPT ![c] = Seen]
    /\ todo' = [todo EXCEPT ![c] = {f \in Facs : cash[f] # NoRow /\ cash[f] < Reserve}]
    /\ To(c, "look")
    /\ UNCHANGED <<rows, held, ask, task, history, spent>>

UsedUp(c, f) == [t \in Facs |-> IF task[c][t].source = f THEN task[c][t].amt ELSE 0]
Surplus(c, f) == seen[c][f].cash - Reserve - SumFunctionOnSet(UsedUp(c, f), Facs)

Pending(f) == \E c \in Calls : task[c][f].status = "PENDING"

\* The sources a run considers: a clear surplus in its copy, not used up yet.
Sources(c) == {f \in Facs : seen[c][f].cash - Reserve > Deviation /\ Surplus(c, f) > 0}

\* The next deficit, the largest first.
Neediest(c) == CHOOSE f \in todo[c] : \A g \in todo[c] : seen[c][f].cash <= seen[c][g].cash

Look(c) ==
    /\ step[c] = "look"
    /\ IF todo[c] = {} THEN To(c, "done") /\ UNCHANGED todo
       ELSE IF Pending(Neediest(c)) \/ Sources(c) = {}
            THEN todo' = [todo EXCEPT ![c] = @ \ {Neediest(c)}] /\ UNCHANGED step
            ELSE To(c, "plan") /\ UNCHANGED todo
    /\ UNCHANGED <<rows, held, ask, seen, task, history, spent>>

\* The first sufficient source in the order of the snapshot, the largest first.
PlanTask(c) ==
    /\ step[c] = "plan"
    /\ LET f == Neediest(c)
           s == CHOOSE g \in Sources(c) : \A h \in Sources(c) : seen[c][g].cash >= seen[c][h].cash
       IN  /\ task' = [task EXCEPT ![c][f] =
                         [status |-> "PENDING", source |-> s,
                          amt |-> Min({Reserve - seen[c][f].cash, Surplus(c, s)})]]
           /\ todo' = [todo EXCEPT ![c] = @ \ {f}]
    /\ To(c, "look")
    /\ UNCHANGED <<rows, held, ask, seen, history, spent>>

\* Mutant: the status of the task is not looked at.
ReadAnyTask(c) ==
    /\ step[c] = "readTask"
    /\ To(c, IF ask[c].kind = "complete" THEN "copy" ELSE "close")
    /\ UNCHANGED <<rows, held, ask, seen, task, todo, history, spent>>

\* completeNettingTask and cancelNettingTask (nothing sets IN_PROGRESS).
ReadTask(c) ==
    /\ step[c] = "readTask"
    /\ To(c, IF MyTask(c).status # "PENDING" THEN "failed"
             ELSE IF ask[c].kind = "complete" THEN "copy" ELSE "close")
    /\ UNCHANGED <<rows, held, ask, seen, task, todo, history, spent>>

\* applyRebalancingTransfer, one transaction: both rows are read, then written.
CopyRows(c) ==
    /\ step[c] = "copy"
    /\ seen' = [seen EXCEPT ![c] = Seen]
    /\ To(c, "first")
    /\ UNCHANGED <<rows, held, ask, task, todo, history, spent>>

DebitSource(c) ==
    /\ step[c] = "first" /\ ask[c].kind = "complete"
    /\ held[MyTask(c).source] = Nobody
    /\ held' = [held EXCEPT ![MyTask(c).source] = c]
    /\ To(c, "second")
    /\ UNCHANGED <<rows, ask, seen, task, todo, history, spent>>

\* The source is not suspended, however little is left.
CreditTarget(c) ==
    /\ step[c] = "second" /\ ask[c].kind = "complete"
    /\ held[ask[c].b] = Nobody
    /\ LET src == MyTask(c).source  b == ask[c].b  amt == MyTask(c).amt
           new == seen[c][b].cash + amt
       IN  /\ cash' = [cash EXCEPT ![src] = Less(seen[c][src].cash, amt), ![b] = new]
           /\ active' = [active EXCEPT ![b] = Opens(new, seen[c][b].active)]
           /\ held' = [held EXCEPT ![src] = Nobody]
           /\ booked' = [booked EXCEPT ![src] = @ - amt, ![b] = @ + amt]
           /\ messy' = IF seen[c][src].cash < amt THEN messy \cup {src} ELSE messy
           /\ drained' = drained \cup {src}
    /\ To(c, "close")
    /\ UNCHANGED <<outflow, ask, seen, task, todo, prior, spent>>

CloseTask(c) ==
    /\ step[c] = "close"
    /\ task' = [task EXCEPT ![ask[c].run][ask[c].b].status =
                   IF ask[c].kind = "complete" THEN "COMPLETED" ELSE "CANCELLED"]
    /\ To(c, "done")
    /\ UNCHANGED <<rows, held, ask, seen, todo, history, spent>>

-----------------------------------------------------------------------------
(* What goes wrong: a transaction is rolled back, an error is only logged.  *)

Wants(c) ==
    IF step[c] # "first" THEN ask[c].b
    ELSE IF ask[c].kind = "trade" THEN ask[c].a ELSE MyTask(c).source
Blocked(c, d) == step[c] \in {"first", "second"} /\ held[Wants(c)] = d

Freed(c) == [f \in Facs |-> IF held[f] = c THEN Nobody ELSE held[f]]

\* Mutant: the two updates of a trade are not in one transaction.
AbortHalf(c, s) ==
    /\ cash' = IF ask[c].kind = "trade" /\ held[ask[c].a] = c
               THEN [cash EXCEPT ![ask[c].a] = @ + In(c)] ELSE cash
    /\ held' = Freed(c)
    /\ To(c, s)
    /\ UNCHANGED <<active, outflow, ask, seen, task, todo, history>>

Abort(c, s) ==
    /\ held' = Freed(c)
    /\ To(c, s)
    /\ UNCHANGED <<rows, ask, seen, task, todo, history>>

\* Two opposite transactions wait for each other; PostgreSQL aborts one.
DeadlockVictim(c) ==
    /\ \E d \in Calls : Blocked(c, d) /\ Blocked(d, c)
    /\ Abort(c, "failed")
    /\ UNCHANGED spent

\* The process dies, or a database call throws.
Crash(c) ==
    /\ step[c] \notin Ended
    /\ spent < MaxFaults
    /\ spent' = spent + 1
    /\ Abort(c, "crashed")

Step(c) ==
    \/ Route(c) \/ AssertBridgeCapacity(c) \/ CreditIncoming(c) \/ ReadRow(c) \/ DebitOutgoing(c)
    \/ InsertRow(c) \/ RecordExternalFunding(c)
    \/ Snapshot(c) \/ Look(c) \/ PlanTask(c)
    \/ ReadTask(c) \/ CopyRows(c) \/ DebitSource(c) \/ CreditTarget(c) \/ CloseTask(c)
    \/ DeadlockVictim(c)

Next == \E c \in Calls : Begin(c) \/ Step(c) \/ Crash(c)

Spec == Init /\ [][Next]_bridgeVars

Fairness == WF_bridgeVars(\E c \in Calls : Step(c))
FairSpec == Spec /\ Fairness

-----------------------------------------------------------------------------
(* Properties.                                                              *)

TypeOK ==
    /\ cash \in [Facs -> Nat \cup {NoRow}]
    /\ active \in [Facs -> BOOLEAN] /\ outflow \in [Facs -> Nat]
    /\ held \in [Facs -> Calls \cup {Nobody}]
    /\ step \in [Calls -> Ended \cup {"route", "assert", "first", "readRow", "second", "insert",
                    "write", "snapshot", "look", "plan", "readTask", "copy", "close"}]
    /\ ask \in [Calls -> Requests]
    /\ seen \in [Calls -> [Facs -> [cash : Nat, active : BOOLEAN, out : Nat]]]
    /\ task \in [Calls -> [Facs -> [status : {"none", "PENDING", "COMPLETED", "CANCELLED"},
                                    source : Facs, amt : Nat]]]
    /\ todo \in [Calls -> SUBSET Facs] /\ prior \in [Calls -> SUBSET Calls]
    /\ booked \in [Facs -> Int]
    /\ messy \subseteq Facs /\ drained \subseteq Facs
    /\ spent \in 0..MaxFaults

\* A row that no two overlapping calls write holds what its calls booked, every
\* trade with both sides or none, through crashes and deadlocks.
CashExplained ==
    \A f \in Facs \ messy :
        cash[f] # NoRow => cash[f] = (IF Initial[f] = NoRow THEN 0 ELSE Initial[f]) + booked[f]

\* An open bridge holds its reserve, even when its row is written from an
\* out-of-date copy; only a rebalancing can leave it open below the reserve.
BridgeKeepsReserve ==
    \A f \in Facs \ drained : active[f] => cash[f] # NoRow /\ cash[f] >= Reserve

\* "pending task already exists": two open tasks for one target come from
\* netting runs that overlapped.
NoDuplicateTasks ==
    \A a, b \in Calls : \A f \in Facs :
        a \in prior[b] => ~(task[a][f].status = "PENDING" /\ task[b][f].status = "PENDING")

\* A task that a call has completed or cancelled is not applied by a call that
\* begins later (an administrator who clicks again).
NoLateTransfer ==
    \A a, b \in Calls :
        (/\ a \in prior[b] /\ step[a] = "done"
         /\ ask[a].kind \in {"complete", "cancel"} /\ ask[b].kind = "complete"
         /\ ask[a].run = ask[b].run /\ ask[a].b = ask[b].b)
           => step[b] \in {"readTask", "failed", "crashed"}

\* Every call ends, although opposite trades can deadlock.
NoneRuns == Running = {}
CallsEnd == []<>NoneRuns
=============================================================================
