------------------------- MODULE OperationsProofs -------------------------
(***************************************************************************)
(* Proofs about the market's operations and the platform's services        *)
(* (Operations).  Each part has an inductive invariant of its own, written *)
(* as a conjunction of named shapes: what a call's position says of its    *)
(* copies, of the rows and of the history.  The theorems about the parts   *)
(* come with them; the last section carries them over to the whole, a      *)
(* behaviour of which is one of every part.                                *)
(***************************************************************************)
EXTENDS Operations, SequenceTheorems, SumLemmas

-----------------------------------------------------------------------------
(* The cash of the bridges.                                                 *)

\* An open bridge has a row; a row that is missing was never booked on; the row of a
\* facilitator that is neither messy nor drained is explained and keeps its reserve.
RowsInv ==
    /\ \A f \in Facs : /\ active[f] => cash[f] # NoRow
                       /\ cash[f] = NoRow => Initial[f] = NoRow /\ booked[f] = 0
    /\ \A c \in Calls : \A f \in Facs \ drained : seen[c][f].active => seen[c][f].cash >= Reserve
    /\ Br!CashExplained /\ Br!BridgeKeepsReserve

\* A planned transfer goes from one registered facilitator to another.
TasksInv ==
    \A c \in Calls : \A f \in Facs : task[c][f].status # "none" =>
        task[c][f].source # f /\ cash[task[c][f].source] # NoRow /\ cash[f] # NoRow

\* Which kinds of call come to which step.
KindInv(c) ==
    /\ step[c] \in {"route", "assert"} => ask[c].kind = "trade"
    /\ step[c] \in {"first", "second"} => ask[c].kind \in {"trade", "complete"}
    /\ step[c] = "readRow" => ask[c].kind \in {"trade", "fund"}
    /\ step[c] = "insert" => ask[c].kind \in {"fund", "register"}
    /\ step[c] = "write" => ask[c].kind = "fund"
    /\ step[c] \in {"snapshot", "look", "plan"} => ask[c].kind = "net"
    /\ step[c] = "copy" => ask[c].kind = "complete"
    /\ step[c] \in {"readTask", "close"} => ask[c].kind \in {"complete", "cancel"}
    /\ step[c] # "idle" => ask[c] \in Menu[c]

\* A netting run plans each deficit of its snapshot once.
NetInv(c) ==
    /\ step[c] \in {"idle", "snapshot"} => \A f \in Facs : task[c][f].status = "none"
    /\ step[c] \in {"look", "plan"} =>
          /\ \A f \in todo[c] : /\ task[c][f].status = "none" /\ cash[f] # NoRow
                                /\ seen[c][f].cash < Reserve
          /\ \A f \in Facs : seen[c][f].cash > 0 => cash[f] # NoRow
    /\ step[c] = "plan" => todo[c] # {} /\ Br!Sources(c) # {}
    /\ step[c] # "idle" /\ ask[c].kind \in {"complete", "cancel"} =>
          ask[c].run \in Calls /\ Br!MyTask(c).status # "none"

\* What a call has read of a row that no other call writes is still so when it writes.
CopyInv(c) ==
    LET a == ask[c].a  b == ask[c].b
    IN  /\ ask[c].kind = "trade" /\ step[c] \in {"assert", "first", "readRow", "second"} =>
              cash[a] # NoRow /\ cash[b] # NoRow
        /\ ask[c].kind = "trade" /\ step[c] \in {"first", "readRow", "second"} /\ b \notin messy =>
              cash[b] >= Br!Out(c)
        /\ ask[c].kind = "trade" /\ step[c] = "second" /\ b \notin messy =>
              seen[c][b].cash = cash[b]
        /\ step[c] = "write" => cash[b] # NoRow /\ (b \notin messy => seen[c][b].cash = cash[b])
        /\ ask[c].kind = "complete" /\ step[c] \in {"first", "second"} =>
              \A f \in {Br!MyTask(c).source, b} \ messy : seen[c][f].cash = cash[f]

\* Two calls in progress write a common row only if it is messy.
AloneInv ==
    \A c, d \in Br!Running : c # d => Br!RowsOf(ask[c]) \cap Br!RowsOf(ask[d]) \subseteq messy

BridgeInv ==
    /\ Br!TypeOK /\ RowsInv /\ TasksInv /\ AloneInv
    /\ \A c \in Calls : KindInv(c) /\ NetInv(c) /\ CopyInv(c)

-----------------------------------------------------------------------------

\* The instance's finite sets and sums are those of the lemmas.
LEMMA BridgeLibrary ==
  /\ \A S : Br!IsFiniteSet(S) <=> IsFiniteSet(S)
  /\ \A f, S : Br!SumFunctionOnSet(f, S) = SumFunctionOnSet(f, S)
BY DEF Br!IsFiniteSet, IsFiniteSet, Br!SumFunctionOnSet, SumFunctionOnSet,
       Br!FoldFunctionOnSet, FoldFunctionOnSet, Br!MapThenFoldSet, MapThenFoldSet

\* Differences that stop at zero, and the smaller of two numbers.
LEMMA LessIs ==
  ASSUME NEW x \in Int, NEW y \in Int
  PROVE  /\ Br!Less(x, y) \in Nat
         /\ x >= y => Br!Less(x, y) = x - y
         /\ Br!Min({x, y}) \in {x, y} /\ Br!Min({x, y}) <= x /\ Br!Min({x, y}) <= y
<1>1. ASSUME NEW u \in Int, NEW v \in Int
      PROVE  Br!Max({u, v}) \in {u, v} /\ Br!Max({u, v}) >= u /\ Br!Max({u, v}) >= v
  <2>1. \E m \in {u, v} : \A n \in {u, v} : m >= n
    BY <1>1
  <2> QED
    BY <2>1 DEF Br!Max
<1>2. \E m \in {x, y} : \A n \in {x, y} : m <= n
  OBVIOUS
<1>3. Br!Min({x, y}) \in {x, y} /\ Br!Min({x, y}) <= x /\ Br!Min({x, y}) <= y
  BY <1>2 DEF Br!Min
<1>4. 0 \in Int /\ x - y \in Int
  OBVIOUS
<1>5. Br!Less(x, y) \in {0, x - y} /\ Br!Less(x, y) >= 0 /\ Br!Less(x, y) >= x - y
  BY <1>1, <1>4 DEF Br!Less
<1> QED
  BY <1>3, <1>5
\* What a step of c does to the others: nothing to what they hold, and it writes
\* only rows that c is to write.
Only(c) ==
    /\ \A d \in Calls \ {c} :
          /\ step'[d] = step[d] /\ ask'[d] = ask[d] /\ seen'[d] = seen[d] /\ todo'[d] = todo[d]
          /\ \A f \in Facs : /\ task'[d][f].source = task[d][f].source
                             /\ task'[d][f].amt = task[d][f].amt
                             /\ task'[d][f].status = "none" <=> task[d][f].status = "none"
    /\ \A f \in Facs : task[c][f].status # "none" =>
          /\ task'[c][f].status # "none"
          /\ task'[c][f].source = task[c][f].source /\ task'[c][f].amt = task[c][f].amt
    /\ messy \subseteq messy'
    /\ \A f \in Facs : cash[f] # NoRow => cash'[f] # NoRow
    /\ \A f \in Facs :
          cash'[f] = cash[f] \/ cash[f] = NoRow \/ (c \in Br!Running /\ f \in Br!RowsOf(ask[c]))

\* What c is bound to.
CallInv(c) == KindInv(c) /\ NetInv(c) /\ CopyInv(c)

\* A call's rows stay its rows while another moves.
LEMMA BridgeRows ==
  ASSUME BridgeInv, NEW c \in Calls, Only(c), NEW d \in Calls, d \in Br!Running, ask'[d] = ask[d]
  PROVE  /\ Br!RowsOf(ask[d])' = Br!RowsOf(ask[d])
         /\ ask[d].kind \in {"complete", "cancel"} => Br!MyTask(d)'.status # "none"
         /\ ask[d].kind = "complete" => /\ Br!MyTask(d)'.source = Br!MyTask(d).source
                                        /\ Br!MyTask(d)'.amt = Br!MyTask(d).amt
<1>1. ask[d] \in Br!Requests /\ step[d] # "idle"
  BY DEF BridgeInv, Br!TypeOK, Br!Running, Br!Ended
<1>2. CASE ask[d].kind \in {"complete", "cancel"}
  <2>1. ask[d].run \in Calls /\ ask[d].b \in Facs /\ Br!MyTask(d).status # "none"
    BY <1>1, <1>2 DEF BridgeInv, NetInv, Br!Requests
  <2>2. /\ task'[ask[d].run][ask[d].b].status # "none"
        /\ task'[ask[d].run][ask[d].b].source = task[ask[d].run][ask[d].b].source
        /\ task'[ask[d].run][ask[d].b].amt = task[ask[d].run][ask[d].b].amt
    BY <2>1 DEF Only, Br!MyTask
  <2> QED
    BY <1>2, <2>2 DEF Br!RowsOf, Br!MyTask
<1>3. CASE ask[d].kind \notin {"complete", "cancel"}
  BY <1>3 DEF Br!RowsOf
<1> QED
  BY <1>2, <1>3

\* A step of c leaves what the others are bound to.
LEMMA BridgeOthers ==
  ASSUME BridgeInv, NEW c \in Calls, Only(c), NEW d \in Calls \ {c}
  PROVE  CallInv(d)'
<1>1. /\ step'[d] = step[d] /\ ask'[d] = ask[d] /\ seen'[d] = seen[d] /\ todo'[d] = todo[d]
      /\ ask[d] \in Br!Requests
      /\ \A f \in Facs : task'[d][f].status = "none" <=> task[d][f].status = "none"
      /\ \A f \in Facs : cash[f] # NoRow => cash'[f] # NoRow
  BY DEF Only, BridgeInv, Br!TypeOK
<1>2. KindInv(d)'
  BY <1>1 DEF BridgeInv, KindInv
<1>3. Br!Sources(d)' = Br!Sources(d)
  <2>1. \A f \in Facs : Br!UsedUp(d, f)' = Br!UsedUp(d, f)
    BY DEF Only, Br!UsedUp
  <2>2. \A f \in Facs : Br!Surplus(d, f)' = Br!Surplus(d, f)
    BY <1>1, <2>1 DEF Br!Surplus
  <2> QED
    BY <1>1, <2>2 DEF Br!Sources
<1>4. step[d] # "idle" /\ ask[d].kind \in {"complete", "cancel"} => Br!MyTask(d)'.status # "none"
  <2> SUFFICES ASSUME step[d] # "idle", ask[d].kind \in {"complete", "cancel"}
               PROVE  Br!MyTask(d)'.status # "none"
    OBVIOUS
  <2>1. ask[d].run \in Calls /\ ask[d].b \in Facs /\ Br!MyTask(d).status # "none"
    BY <1>1 DEF BridgeInv, NetInv, Br!Requests
  <2> QED
    BY <1>1, <2>1 DEF Only, Br!MyTask
<1>5. NetInv(d)'
  BY <1>1, <1>3, <1>4 DEF BridgeInv, NetInv, Br!TypeOK
<1>6. CopyInv(d)'
  <2>1. CASE d \notin Br!Running
    BY <1>1, <2>1 DEF CopyInv, Br!Running, Br!Ended
  <2>2. CASE d \in Br!Running
    <3>1. \A f \in Br!RowsOf(ask[d]) \ messy' : f \in Facs /\ cash[f] # NoRow => cash'[f] = cash[f]
      BY <2>2 DEF Only, BridgeInv, AloneInv
    <3>2. /\ ask[d].kind = "complete" => Br!MyTask(d)'.source = Br!MyTask(d).source
      BY <1>1, <2>2, BridgeRows
    <3>3. ask[d].a \in Facs /\ ask[d].b \in Facs
      BY <1>1 DEF Br!Requests
    <3>4. ask[d].kind = "trade" => CopyInv(d)'
      <4> SUFFICES ASSUME ask[d].kind = "trade" PROVE CopyInv(d)'
        OBVIOUS
      <4>1. Br!RowsOf(ask[d]) = {ask[d].a, ask[d].b} /\ step[d] # "write"
        BY DEF Br!RowsOf, BridgeInv, KindInv
      <4>2. CopyInv(d) /\ Br!Out(d)' = Br!Out(d)
        BY <1>1 DEF BridgeInv, Br!Out
      <4> QED
        BY <1>1, <3>1, <3>3, <4>1, <4>2 DEF CopyInv, Only
    <3>5. ask[d].kind = "complete" => CopyInv(d)'
      <4> SUFFICES ASSUME ask[d].kind = "complete" PROVE CopyInv(d)'
        OBVIOUS
      <4>1. step[d] # "idle" /\ ask[d].run \in Calls /\ Br!MyTask(d).status # "none"
        BY <2>2 DEF Br!Running, Br!Ended, BridgeInv, NetInv
      <4>2. /\ Br!MyTask(d).source \in Facs
            /\ cash[Br!MyTask(d).source] # NoRow /\ cash[ask[d].b] # NoRow
        BY <3>3, <4>1 DEF BridgeInv, TasksInv, Br!TypeOK, Br!MyTask
      <4>3. Br!RowsOf(ask[d]) = {Br!MyTask(d).source, ask[d].b} /\ step[d] # "write"
        BY DEF Br!RowsOf, Br!MyTask, BridgeInv, KindInv
      <4>4. CopyInv(d)
        BY DEF BridgeInv
      <4> QED
        BY <1>1, <3>1, <3>2, <3>3, <4>2, <4>3, <4>4 DEF CopyInv, Only
    <3>6. ask[d].kind \notin {"trade", "complete"} => CopyInv(d)'
      <4> SUFFICES ASSUME ask[d].kind \notin {"trade", "complete"} PROVE CopyInv(d)'
        OBVIOUS
      <4>1. step[d] = "write" => Br!RowsOf(ask[d]) = {ask[d].b}
        BY DEF Br!RowsOf, BridgeInv, KindInv
      <4>2. CopyInv(d)
        BY DEF BridgeInv
      <4> QED
        BY <1>1, <3>1, <3>3, <4>1, <4>2 DEF CopyInv, Only
    <3> QED
      BY <3>4, <3>5, <3>6
  <2> QED
    BY <2>1, <2>2
<1> QED
  BY <1>2, <1>5, <1>6 DEF CallInv

\* A step of a call that has begun makes no two calls meet that had not met.
LEMMA BridgeAlone ==
  ASSUME BridgeInv, NEW c \in Calls, Only(c), c \in Br!Running, ask' = ask
  PROVE  AloneInv'
<1>1. Br!Running' \subseteq Br!Running
  BY DEF Only, Br!Running
<1>2. \A d \in Br!Running : d \in Calls /\ Br!RowsOf(ask[d])' = Br!RowsOf(ask[d])
  BY BridgeRows DEF Br!Running
<1> QED
  BY <1>1, <1>2 DEF AloneInv, BridgeInv, Only

\* What is left to show of a step of c.
LEMMA BridgeStep ==
  ASSUME BridgeInv, NEW c \in Calls, c \in Br!Running, ask' = ask,
         Br!TypeOK', Only(c), RowsInv', TasksInv', CallInv(c)'
  PROVE  BridgeInv'
<1>1. \A d \in Calls : CallInv(d)'
  BY BridgeOthers
<1> QED
  BY <1>1, BridgeAlone DEF BridgeInv, CallInv
\* A copy of the rows is of its type, and an open bridge in it has its reserve.
LEMMA SeenRows ==
  ASSUME BridgeInv, Br!BridgeAssumption
  PROVE  /\ Br!Seen \in [Facs -> [cash : Nat, active : BOOLEAN, out : Nat]]
         /\ \A f \in Facs \ drained : Br!Seen[f].active => Br!Seen[f].cash >= Reserve
         /\ \A f \in Facs : cash[f] # NoRow => Br!Seen[f].cash = cash[f]
         /\ \A f \in Facs : Br!Seen[f].cash > 0 => cash[f] # NoRow
<1>1. \A f \in Facs :
         cash[f] \in Nat \cup {NoRow} /\ active[f] \in BOOLEAN /\ outflow[f] \in Nat
  BY DEF BridgeInv, Br!TypeOK
<1>2. Br!Seen = [f \in Facs |->
           [cash |-> IF cash[f] = NoRow THEN 0 ELSE cash[f], active |-> active[f],
            out |-> outflow[f]]]
  BY DEF Br!Seen
<1>3. \A f \in Facs : /\ Br!Seen[f].cash = (IF cash[f] = NoRow THEN 0 ELSE cash[f])
                      /\ Br!Seen[f].active = active[f]
  BY <1>2
<1>4. Br!Seen \in [Facs -> [cash : Nat, active : BOOLEAN, out : Nat]]
  BY <1>1, <1>2
<1>5. \A f \in Facs \ drained : active[f] => cash[f] # NoRow /\ cash[f] >= Reserve
  BY DEF BridgeInv, RowsInv, Br!BridgeKeepsReserve
<1> QED
  BY <1>1, <1>3, <1>4, <1>5

\* A step that writes no row: it may read them all, and move its call.
LEMMA BridgeQuiet ==
  ASSUME BridgeInv, Br!BridgeAssumption, NEW c \in Calls, c \in Br!Running,
         UNCHANGED <<cash, active, outflow, ask, task, prior, booked, messy, drained>>,
         NEW s, step' = [step EXCEPT ![c] = s],
         seen' = seen \/ seen' = [seen EXCEPT ![c] = Br!Seen],
         todo' = todo \/ \E T \in SUBSET Facs : todo' = [todo EXCEPT ![c] = T],
         held' \in [Facs -> Calls \cup {Nobody}], spent' \in 0..MaxFaults,
         s \in {"done", "failed", "crashed", "assert", "first", "readRow", "second", "insert",
                "write", "look", "plan", "copy", "close"},
         CallInv(c)'
  PROVE  BridgeInv'
<1>1. seen' \in [Calls -> [Facs -> [cash : Nat, active : BOOLEAN, out : Nat]]]
  BY SeenRows DEF BridgeInv, Br!TypeOK
<1>2. step' \in [Calls -> Br!Ended \cup {"route", "assert", "first", "readRow", "second", "insert",
                    "write", "snapshot", "look", "plan", "readTask", "copy", "close"}]
  BY DEF BridgeInv, Br!TypeOK, Br!Ended
<1>3. todo' \in [Calls -> SUBSET Facs]
  BY DEF BridgeInv, Br!TypeOK
<1>4. Br!TypeOK'
  BY <1>1, <1>2, <1>3 DEF BridgeInv, Br!TypeOK
<1>5. Only(c)
  BY DEF Only, BridgeInv, Br!TypeOK
<1>6. RowsInv'
  <2>1. \A d \in Calls : \A f \in Facs \ drained : seen'[d][f].active => seen'[d][f].cash >= Reserve
    BY SeenRows DEF BridgeInv, RowsInv, Br!TypeOK
  <2> QED
    BY <2>1 DEF BridgeInv, RowsInv, Br!CashExplained, Br!BridgeKeepsReserve
<1>7. TasksInv'
  BY DEF BridgeInv, TasksInv
<1> QED
  BY <1>4, <1>5, <1>6, <1>7, BridgeStep

\* The steps of a trade before it writes: it is routed, asserts the capacity, locks the
\* incoming row and reads the outgoing one.
LEMMA BridgeTrade ==
  ASSUME BridgeInv, Br!BridgeAssumption, NEW c \in Calls,
         Br!Route(c) \/ Br!AssertBridgeCapacity(c) \/ Br!CreditIncoming(c) \/ Br!ReadRow(c)
  PROVE  BridgeInv'
<1> DEFINE a == ask[c].a
           b == ask[c].b
<1>u. UNCHANGED <<cash, active, outflow, ask, task, todo, prior, booked, messy, drained, spent>>
  BY DEF Br!Route, Br!AssertBridgeCapacity, Br!CreditIncoming, Br!ReadRow, Br!rows, Br!history
<1>1. /\ a \in Facs /\ b \in Facs /\ CallInv(c) /\ Br!Out(c)' = Br!Out(c)
      /\ held \in [Facs -> Calls \cup {Nobody}] /\ spent' \in 0..MaxFaults
      /\ UNCHANGED <<cash, active, outflow, ask, task, todo, prior, booked, messy, drained>>
  BY <1>u DEF BridgeInv, Br!TypeOK, Br!Requests, CallInv, Br!Out
<1>2. /\ \A s : [step EXCEPT ![c] = s][c] = s
      /\ seen \in [Calls -> [Facs -> [cash : Nat, active : BOOLEAN, out : Nat]]]
  BY DEF BridgeInv, Br!TypeOK
<1>r. /\ active[a] => cash[a] # NoRow
      /\ active[b] => cash[b] # NoRow
  BY <1>1 DEF BridgeInv, RowsInv
<1>3. CASE Br!Route(c)
  <2>1. PICK s \in {"assert", "failed"} :
             /\ step' = [step EXCEPT ![c] = s]
             /\ s = "assert" => active[a] /\ active[b]
             /\ step[c] = "route" /\ UNCHANGED <<seen, held>>
    BY <1>3 DEF Br!Route, Br!To
  <2>2. CallInv(c)'
    BY <1>1, <1>2, <1>r, <2>1 DEF CallInv, KindInv, NetInv, CopyInv, Br!MyTask
  <2> QED
    BY <1>1, <2>1, <2>2, BridgeQuiet DEF Br!Running, Br!Ended
<1>4. CASE Br!AssertBridgeCapacity(c)
  <2>1. PICK s \in {"first", "failed"} :
             /\ step' = [step EXCEPT ![c] = s]
             /\ s = "first" => cash[b] >= Br!Out(c)
             /\ step[c] = "assert" /\ UNCHANGED <<seen, held>>
    BY <1>4 DEF Br!AssertBridgeCapacity, Br!To
  <2>2. CallInv(c)'
    BY <1>1, <1>2, <2>1 DEF CallInv, KindInv, NetInv, CopyInv, Br!MyTask
  <2> QED
    BY <1>1, <2>1, <2>2, BridgeQuiet DEF Br!Running, Br!Ended
<1>5. CASE Br!CreditIncoming(c)
  <2>1. /\ step' = [step EXCEPT ![c] = "readRow"] /\ step[c] = "first" /\ ask[c].kind = "trade"
        /\ UNCHANGED seen /\ held' \in [Facs -> Calls \cup {Nobody}]
    BY <1>1, <1>5 DEF Br!CreditIncoming, Br!To
  <2>2. CallInv(c)'
    BY <1>1, <1>2, <2>1 DEF CallInv, KindInv, NetInv, CopyInv, Br!MyTask
  <2> QED
    BY <1>1, <2>1, <2>2, BridgeQuiet DEF Br!Running, Br!Ended
<1>6. CASE Br!ReadRow(c)
  <2>1. PICK s \in {"second", "insert", "write"} :
             /\ step' = [step EXCEPT ![c] = s] /\ step[c] = "readRow"
             /\ s = "second" <=> ask[c].kind = "trade"
             /\ s = "write" => cash[b] # NoRow
             /\ seen' = [seen EXCEPT ![c] = Br!Seen] /\ UNCHANGED held
    BY <1>6 DEF Br!ReadRow, Br!To
  <2>2. ask[c].kind \in {"trade", "fund"} /\ ask[c] \in Menu[c]
    BY <1>1, <2>1 DEF CallInv, KindInv
  <2>3. cash[b] # NoRow => seen'[c][b].cash = cash[b]
    BY <1>1, <1>2, <2>1, SeenRows
  <2>4. KindInv(c)' /\ NetInv(c)'
    BY <1>1, <1>2, <2>1, <2>2 DEF CallInv, KindInv, NetInv
  <2>5. CopyInv(c)'
    BY <1>1, <1>2, <2>1, <2>2, <2>3 DEF CallInv, CopyInv
  <2> QED
    BY <1>1, <2>1, <2>4, <2>5, BridgeQuiet DEF Br!Running, Br!Ended, CallInv
<1> QED
  BY <1>3, <1>4, <1>5, <1>6

\* The end of a call without effect: an error, a deadlock or a crash.
LEMMA BridgeAbort ==
  ASSUME BridgeInv, Br!BridgeAssumption, NEW c \in Calls, Br!DeadlockVictim(c) \/ Br!Crash(c)
  PROVE  BridgeInv'
<1>1. c \in Br!Running
  BY DEF Br!DeadlockVictim, Br!Crash, Br!Blocked, Br!Running, Br!Ended
<1>2. PICK s \in {"failed", "crashed"} :
         /\ step' = [step EXCEPT ![c] = s] /\ held' = Br!Freed(c)
         /\ UNCHANGED <<cash, active, outflow, ask, seen, task, todo, prior, booked, messy, drained>>
  BY DEF Br!DeadlockVictim, Br!Crash, Br!Abort, Br!To, Br!rows, Br!history
<1>3. held' \in [Facs -> Calls \cup {Nobody}] /\ spent' \in 0..MaxFaults
  BY <1>2 DEF BridgeInv, Br!TypeOK, Br!Freed, Br!DeadlockVictim, Br!Crash, Br!BridgeAssumption
<1>4. (\A r : [step EXCEPT ![c] = r][c] = r) /\ step[c] # "idle" /\ CallInv(c)
  BY <1>1 DEF BridgeInv, Br!TypeOK, Br!Ended, Br!Running, CallInv
<1>5. CallInv(c)'
  BY <1>2, <1>4 DEF CallInv, KindInv, NetInv, CopyInv, Br!MyTask
<1> QED
  BY <1>1, <1>2, <1>3, <1>5, BridgeQuiet
\* The deficit a run looks at is one of those it has left.
LEMMA NeediestLeft ==
  ASSUME BridgeInv, Br!BridgeAssumption, NEW c \in Calls, todo[c] # {}
  PROVE  Br!Neediest(c) \in todo[c]
<1> DEFINE need == [f \in Facs |-> 0 - seen[c][f].cash]
<1>1. /\ todo[c] \subseteq Facs /\ IsFiniteSet(todo[c])
      /\ \A f \in Facs : seen[c][f].cash \in Nat
  <2>1. todo[c] \subseteq Facs /\ \A f \in Facs : seen[c][f].cash \in Nat
    BY DEF BridgeInv, Br!TypeOK
  <2>2. IsFiniteSet(Facs)
    BY BridgeLibrary DEF Br!BridgeAssumption
  <2> QED
    BY <2>1, <2>2, FS_Subset
<1>2. \A f \in todo[c] : need[f] \in Int
  <2> TAKE f \in todo[c]
  <2>1. f \in Facs /\ seen[c][f].cash \in Nat
    BY <1>1
  <2> QED
    BY <2>1
<1>3. \E f \in todo[c] : \A g \in todo[c] : need[f] >= need[g]
  <2> HIDE DEF need
  <2> QED
    BY <1>1, <1>2, Greatest
<1>4. \E f \in todo[c] : \A g \in todo[c] : seen[c][f].cash <= seen[c][g].cash
  <2>1. PICK f \in todo[c] : \A g \in todo[c] : need[f] >= need[g]
    BY <1>3
  <2>2. ASSUME NEW g \in todo[c] PROVE seen[c][f].cash <= seen[c][g].cash
    <3>1. 0 - seen[c][f].cash >= 0 - seen[c][g].cash
      BY <1>1, <2>1
    <3>2. seen[c][f].cash \in Nat /\ seen[c][g].cash \in Nat
      BY <1>1
    <3> QED
      BY <3>1, <3>2
  <2> QED
    BY <2>2
<1> QED
  BY <1>4 DEF Br!Neediest

\* The source of a planned transfer has a surplus; no deficit has one.
LEMMA SourceFound ==
  ASSUME BridgeInv, Br!BridgeAssumption, NEW c \in Calls, Br!Sources(c) # {},
         NEW s, s = CHOOSE g \in Br!Sources(c) :
                       \A h \in Br!Sources(c) : seen[c][g].cash >= seen[c][h].cash
  PROVE  s \in Facs /\ seen[c][s].cash > Reserve /\ Br!Surplus(c, s) \in Nat \ {0}
<1> DEFINE has == [f \in Facs |-> seen[c][f].cash]
<1>1. /\ Br!Sources(c) \subseteq Facs /\ IsFiniteSet(Br!Sources(c)) /\ IsFiniteSet(Facs)
      /\ \A f \in Facs : seen[c][f].cash \in Nat
  <2>1. Br!Sources(c) \subseteq Facs /\ \A f \in Facs : seen[c][f].cash \in Nat
    BY DEF BridgeInv, Br!TypeOK, Br!Sources
  <2>2. IsFiniteSet(Facs)
    BY BridgeLibrary DEF Br!BridgeAssumption
  <2> QED
    BY <2>1, <2>2, FS_Subset
<1>2. \A f \in Br!Sources(c) : has[f] \in Int
  <2> TAKE f \in Br!Sources(c)
  <2>1. f \in Facs /\ seen[c][f].cash \in Nat
    BY <1>1
  <2> QED
    BY <2>1
<1>3. \E f \in Br!Sources(c) : \A g \in Br!Sources(c) : has[f] >= has[g]
  <2> HIDE DEF has
  <2> QED
    BY <1>1, <1>2, Greatest
<1>4. \E f \in Br!Sources(c) : \A g \in Br!Sources(c) : seen[c][f].cash >= seen[c][g].cash
  BY <1>1, <1>3
<1>5. s \in Br!Sources(c)
  BY <1>4
<1>6. /\ s \in Facs /\ seen[c][s].cash - Reserve > Deviation /\ Br!Surplus(c, s) > 0
      /\ seen[c][s].cash \in Nat /\ Reserve \in Nat /\ Deviation \in Nat
  BY <1>1, <1>5 DEF Br!Sources, Br!BridgeAssumption
<1>7. Br!Surplus(c, s) \in Int
  <2>1. \A t \in Facs : Br!UsedUp(c, s)[t] \in Int
    BY DEF BridgeInv, Br!TypeOK, Br!UsedUp
  <2>2. Br!SumFunctionOnSet(Br!UsedUp(c, s), Facs) \in Int
    BY <1>1, <2>1, SumInt, BridgeLibrary
  <2>3. \A i, j, k \in Int : i - j - k \in Int
    OBVIOUS
  <2>4. seen[c][s].cash \in Int /\ Reserve \in Int
    BY <1>6
  <2>5. seen[c][s].cash - Reserve - Br!SumFunctionOnSet(Br!UsedUp(c, s), Facs) \in Int
    BY <2>2, <2>3, <2>4
  <2> QED
    BY <2>5 DEF Br!Surplus
<1>8. seen[c][s].cash > Reserve
  BY <1>6
<1>9. Br!Surplus(c, s) \in Nat \ {0}
  <2> DEFINE n == Br!Surplus(c, s)
  <2>1. n \in Int /\ n > 0
    BY <1>6, <1>7
  <2> HIDE DEF n
  <2>2. n \in Nat \ {0}
    BY <2>1
  <2> QED
    BY <2>2 DEF n
<1> QED
  BY <1>6, <1>8, <1>9

\* The steps of a netting run, and of the call that reads a task.
LEMMA BridgeNetting ==
  ASSUME BridgeInv, Br!BridgeAssumption, NEW c \in Calls,
         \/ Br!Snapshot(c) \/ Br!Look(c) \/ Br!ReadTask(c) \/ Br!CopyRows(c) \/ Br!DebitSource(c)
  PROVE  BridgeInv'
<1>u. UNCHANGED <<cash, active, outflow, ask, task, prior, booked, messy, drained, spent>>
  BY DEF Br!Snapshot, Br!Look, Br!ReadTask, Br!CopyRows, Br!DebitSource, Br!rows, Br!history
<1>1. /\ ask[c].a \in Facs /\ ask[c].b \in Facs /\ CallInv(c)
      /\ held \in [Facs -> Calls \cup {Nobody}] /\ spent' \in 0..MaxFaults
      /\ UNCHANGED <<cash, active, outflow, ask, task, prior, booked, messy, drained>>
  BY <1>u DEF BridgeInv, Br!TypeOK, Br!Requests, CallInv
<1>2. /\ \A s : [step EXCEPT ![c] = s][c] = s
      /\ seen \in [Calls -> [Facs -> [cash : Nat, active : BOOLEAN, out : Nat]]]
      /\ todo \in [Calls -> SUBSET Facs]
      /\ \A f \in Facs : cash[f] \in Nat \cup {NoRow}
  BY DEF BridgeInv, Br!TypeOK
<1>3. CASE Br!Snapshot(c)
  <2> DEFINE T == {f \in Facs : cash[f] # NoRow /\ cash[f] < Reserve}
  <2>1. /\ step' = [step EXCEPT ![c] = "look"] /\ step[c] = "snapshot"
        /\ seen' = [seen EXCEPT ![c] = Br!Seen] /\ todo' = [todo EXCEPT ![c] = T]
        /\ UNCHANGED held
    BY <1>3 DEF Br!Snapshot, Br!To
  <2>2. ask[c].kind = "net" /\ ask[c] \in Menu[c] /\ \A f \in Facs : task[c][f].status = "none"
    BY <1>1, <2>1 DEF CallInv, KindInv, NetInv
  <2>3. seen'[c] = Br!Seen /\ todo'[c] = T /\ step'[c] = "look"
    BY <1>2, <2>1
  <2>4. NetInv(c)'
    BY <1>1, <2>2, <2>3, SeenRows DEF NetInv
  <2>5. KindInv(c)' /\ CopyInv(c)'
    BY <1>1, <2>2, <2>3 DEF KindInv, CopyInv
  <2> QED
    BY <1>1, <2>1, <2>4, <2>5, BridgeQuiet DEF Br!Running, Br!Ended, CallInv
<1>4. CASE Br!Look(c)
  <2>1. /\ step[c] = "look" /\ UNCHANGED <<seen, held>>
        /\ \/ step' = [step EXCEPT ![c] = "done"] /\ todo' = todo
           \/ step' = [step EXCEPT ![c] = "look"] /\ todo' = [todo EXCEPT ![c] = @ \ {Br!Neediest(c)}]
           \/ /\ step' = [step EXCEPT ![c] = "plan"] /\ todo' = todo
              /\ todo[c] # {} /\ Br!Sources(c) # {}
    <3>1. step' = step /\ step[c] = "look" => step' = [step EXCEPT ![c] = "look"]
      BY DEF BridgeInv, Br!TypeOK
    <3> QED
      BY <1>4, <3>1 DEF Br!Look, Br!To
  <2>2. ask[c].kind = "net" /\ ask[c] \in Menu[c]
    BY <1>1, <2>1 DEF CallInv, KindInv
  <2>3. /\ todo'[c] \subseteq todo[c] /\ step'[c] \in {"done", "look", "plan"}
        /\ step'[c] = "plan" => todo'[c] # {} /\ Br!Sources(c) # {}
        /\ Br!Sources(c)' = Br!Sources(c)
    BY <1>1, <1>2, <2>1 DEF Br!Sources, Br!Surplus, Br!UsedUp
  <2>4. NetInv(c)'
    BY <1>1, <2>1, <2>2, <2>3 DEF NetInv, CallInv
  <2>5. KindInv(c)' /\ CopyInv(c)'
    BY <1>1, <2>2, <2>3 DEF KindInv, CopyInv
  <2>6. todo' = todo \/ \E T \in SUBSET Facs : todo' = [todo EXCEPT ![c] = T]
    BY <1>2, <2>1
  <2> QED
    BY <1>1, <2>1, <2>4, <2>5, <2>6, BridgeQuiet DEF Br!Running, Br!Ended, CallInv
<1>5. CASE Br!ReadTask(c)
  <2>1. PICK s \in {"failed", "copy", "close"} :
             /\ step' = [step EXCEPT ![c] = s] /\ step[c] = "readTask"
             /\ s = "copy" => ask[c].kind = "complete"
             /\ UNCHANGED <<seen, held, todo>>
    BY <1>5 DEF Br!ReadTask, Br!To
  <2>2. CallInv(c)'
    BY <1>1, <1>2, <2>1 DEF CallInv, KindInv, NetInv, CopyInv, Br!MyTask
  <2> QED
    BY <1>1, <2>1, <2>2, BridgeQuiet DEF Br!Running, Br!Ended
<1>6. CASE Br!CopyRows(c)
  <2>1. /\ step' = [step EXCEPT ![c] = "first"] /\ step[c] = "copy"
        /\ seen' = [seen EXCEPT ![c] = Br!Seen]
        /\ UNCHANGED <<held, todo>>
    BY <1>6 DEF Br!CopyRows, Br!To
  <2>2. /\ ask[c].kind = "complete" /\ ask[c] \in Menu[c]
        /\ ask[c].run \in Calls /\ Br!MyTask(c).status # "none"
    BY <1>1, <2>1 DEF CallInv, KindInv, NetInv
  <2>3. /\ Br!MyTask(c).source \in Facs /\ Br!MyTask(c)' = Br!MyTask(c)
        /\ cash[Br!MyTask(c).source] # NoRow /\ cash[ask[c].b] # NoRow
    BY <1>1, <2>2 DEF BridgeInv, TasksInv, Br!TypeOK, Br!MyTask
  <2>4. \A f \in {Br!MyTask(c).source, ask[c].b} : seen'[c][f].cash = cash[f]
    BY <1>1, <1>2, <2>1, <2>3, SeenRows
  <2>5. KindInv(c)' /\ NetInv(c)'
    BY <1>1, <1>2, <2>1, <2>2, <2>3 DEF KindInv, NetInv
  <2>6. CopyInv(c)'
    BY <1>1, <1>2, <2>1, <2>2, <2>3, <2>4 DEF CopyInv
  <2> QED
    BY <1>1, <2>1, <2>5, <2>6, BridgeQuiet DEF Br!Running, Br!Ended, CallInv
<1>7. CASE Br!DebitSource(c)
  <2>1. /\ step' = [step EXCEPT ![c] = "second"] /\ step[c] = "first" /\ ask[c].kind = "complete"
        /\ held' \in [Facs -> Calls \cup {Nobody}] /\ UNCHANGED <<seen, todo>>
    BY <1>1, <1>7 DEF Br!DebitSource, Br!To
  <2>2. CallInv(c)'
    BY <1>1, <1>2, <2>1 DEF CallInv, KindInv, NetInv, CopyInv, Br!MyTask
  <2> QED
    BY <1>1, <2>1, <2>2, BridgeQuiet DEF Br!Running, Br!Ended
<1> QED
  BY <1>3, <1>4, <1>5, <1>6, <1>7

\* A run plans a task for a deficit it has left.
LEMMA BridgePlan ==
  ASSUME BridgeInv, Br!BridgeAssumption, NEW c \in Calls, Br!PlanTask(c)
  PROVE  BridgeInv'
<1>1. CallInv(c) /\ step[c] = "plan" /\ c \in Br!Running
  BY DEF BridgeInv, CallInv, Br!PlanTask, Br!Running, Br!Ended
<1>2. /\ todo[c] # {} /\ Br!Sources(c) # {} /\ ask[c].kind = "net" /\ ask[c] \in Menu[c]
      /\ \A f \in todo[c] : /\ task[c][f].status = "none" /\ cash[f] # NoRow
                            /\ seen[c][f].cash < Reserve
      /\ \A f \in Facs : seen[c][f].cash > 0 => cash[f] # NoRow
  BY <1>1 DEF CallInv, KindInv, NetInv
<1>3. PICK f \in todo[c] : f = Br!Neediest(c)
  BY <1>2, NeediestLeft
<1>3a. PICK s :
         s = CHOOSE g \in Br!Sources(c) : \A h \in Br!Sources(c) : seen[c][g].cash >= seen[c][h].cash
  OBVIOUS
<1>4. s \in Facs /\ seen[c][s].cash > Reserve /\ Br!Surplus(c, s) \in Nat \ {0}
  BY <1>2, <1>3a, SourceFound
<1>5. f \in Facs /\ seen[c][f].cash \in Nat /\ seen[c][s].cash \in Nat /\ Reserve \in Nat \ {0}
  BY <1>4 DEF BridgeInv, Br!TypeOK, Br!BridgeAssumption
<1>6. s # f /\ cash[f] # NoRow /\ cash[s] # NoRow /\ task[c][f].status = "none"
  BY <1>2, <1>4, <1>5
<1>7. PICK n \in Nat :
         /\ task' = [task EXCEPT ![c][f] = [status |-> "PENDING", source |-> s, amt |-> n]]
         /\ todo' = [todo EXCEPT ![c] = @ \ {f}] /\ step' = [step EXCEPT ![c] = "look"]
         /\ UNCHANGED <<cash, active, outflow, held, ask, seen, prior, booked, messy, drained, spent>>
  <2>1. Reserve - seen[c][f].cash \in Nat /\ Br!Surplus(c, s) \in Nat
    BY <1>2, <1>4, <1>5
  <2>2. \A i, j \in Nat : Br!Min({i, j}) \in Nat
    BY LessIs
  <2>3. Br!Min({Reserve - seen[c][f].cash, Br!Surplus(c, s)}) \in Nat
    BY <2>1, <2>2
  <2> QED
    BY <1>3, <1>3a, <2>3 DEF Br!PlanTask, Br!To, Br!rows, Br!history
<1>8. /\ task \in [Calls -> [Facs -> [status : {"none", "PENDING", "COMPLETED", "CANCELLED"},
                                      source : Facs, amt : Nat]]]
      /\ todo \in [Calls -> SUBSET Facs] /\ \A r : [step EXCEPT ![c] = r][c] = r
  BY DEF BridgeInv, Br!TypeOK
<1>9. /\ task'[c][f] = [status |-> "PENDING", source |-> s, amt |-> n]
      /\ \A g \in Facs \ {f} : task'[c][g] = task[c][g]
      /\ \A d \in Calls \ {c} : task'[d] = task[d]
      /\ todo'[c] = todo[c] \ {f} /\ step'[c] = "look"
  BY <1>5, <1>7, <1>8
<1>10. Br!TypeOK'
  <2>1. task' \in [Calls -> [Facs -> [status : {"none", "PENDING", "COMPLETED", "CANCELLED"},
                                      source : Facs, amt : Nat]]]
    BY <1>4, <1>5, <1>7, <1>8
  <2>2. /\ todo' \in [Calls -> SUBSET Facs]
        /\ step' \in [Calls -> Br!Ended \cup {"route", "assert", "first", "readRow", "second",
                         "insert", "write", "snapshot", "look", "plan", "readTask", "copy", "close"}]
    BY <1>7 DEF BridgeInv, Br!TypeOK
  <2> QED
    BY <1>7, <2>1, <2>2 DEF BridgeInv, Br!TypeOK
<1>11. Only(c)
  BY <1>6, <1>7, <1>9 DEF Only, BridgeInv, Br!TypeOK
<1>12. RowsInv'
  BY <1>7 DEF BridgeInv, RowsInv, Br!CashExplained, Br!BridgeKeepsReserve
<1>13. TasksInv'
  BY <1>6, <1>7, <1>9 DEF BridgeInv, TasksInv
<1>14. CallInv(c)'
  <2>1. NetInv(c)'
    BY <1>1, <1>2, <1>7, <1>9 DEF NetInv
  <2>2. KindInv(c)' /\ CopyInv(c)'
    BY <1>2, <1>7, <1>9 DEF KindInv, CopyInv
  <2> QED
    BY <2>1, <2>2 DEF CallInv
<1> QED
  BY <1>1, <1>7, <1>10, <1>11, <1>12, <1>13, <1>14, BridgeStep

\* A task is closed.
LEMMA BridgeClose ==
  ASSUME BridgeInv, Br!BridgeAssumption, NEW c \in Calls, Br!CloseTask(c)
  PROVE  BridgeInv'
<1>1. CallInv(c) /\ step[c] = "close" /\ c \in Br!Running
  BY DEF BridgeInv, CallInv, Br!CloseTask, Br!Running, Br!Ended
<1>2. /\ ask[c].kind \in {"complete", "cancel"} /\ ask[c] \in Menu[c] /\ ask[c].b \in Facs
      /\ ask[c].run \in Calls /\ task[ask[c].run][ask[c].b].status # "none"
  BY <1>1 DEF CallInv, KindInv, NetInv, Br!MyTask, BridgeInv, Br!TypeOK, Br!Requests
<1>3. PICK st \in {"COMPLETED", "CANCELLED"} :
         /\ task' = [task EXCEPT ![ask[c].run][ask[c].b].status = st]
         /\ step' = [step EXCEPT ![c] = "done"]
         /\ UNCHANGED <<cash, active, outflow, held, ask, seen, todo, prior, booked, messy, drained,
                        spent>>
  BY Zenon DEF Br!CloseTask, Br!To, Br!rows, Br!history
<1>4. /\ task \in [Calls -> [Facs -> [status : {"none", "PENDING", "COMPLETED", "CANCELLED"},
                                      source : Facs, amt : Nat]]]
      /\ \A r : [step EXCEPT ![c] = r][c] = r
  BY DEF BridgeInv, Br!TypeOK
<1>5. /\ task' \in [Calls -> [Facs -> [status : {"none", "PENDING", "COMPLETED", "CANCELLED"},
                                       source : Facs, amt : Nat]]]
      /\ \A d \in Calls, f \in Facs :
            /\ task'[d][f].source = task[d][f].source /\ task'[d][f].amt = task[d][f].amt
            /\ task'[d][f].status = "none" <=> task[d][f].status = "none"
  BY <1>2, <1>3, <1>4
<1>6. Br!TypeOK'
  <2>1. step' \in [Calls -> Br!Ended \cup {"route", "assert", "first", "readRow", "second",
                         "insert", "write", "snapshot", "look", "plan", "readTask", "copy", "close"}]
    BY <1>3 DEF BridgeInv, Br!TypeOK, Br!Ended
  <2> QED
    BY <1>3, <1>5, <2>1, Zenon DEF BridgeInv, Br!TypeOK
<1>7. Only(c)
  <2>1. \A d \in Calls \ {c} : step'[d] = step[d]
    BY <1>3 DEF BridgeInv, Br!TypeOK
  <2>2. \A f \in Facs : task[c][f].status # "none" => task'[c][f].status # "none"
    BY <1>5
  <2> QED
    BY <1>3, <1>5, <2>1, <2>2, ZenonT(40) DEF Only
<1>8. RowsInv'
  BY <1>3 DEF BridgeInv, RowsInv, Br!CashExplained, Br!BridgeKeepsReserve
<1>9. TasksInv'
  <2>1. cash' = cash /\ TasksInv
    BY <1>3 DEF BridgeInv
  <2>2. ASSUME NEW d \in Calls, NEW f \in Facs, task'[d][f].status # "none"
        PROVE  /\ task'[d][f].source # f
               /\ cash'[task'[d][f].source] # NoRow /\ cash'[f] # NoRow
    <3>1. task[d][f].status # "none" /\ task'[d][f].source = task[d][f].source
      BY <1>5, <2>2
    <3>2. /\ task[d][f].source # f
          /\ cash[task[d][f].source] # NoRow /\ cash[f] # NoRow
      BY <2>1, <3>1 DEF TasksInv
    <3> QED
      BY <2>1, <3>1, <3>2
  <2> QED
    BY <2>2 DEF TasksInv
<1>10. CallInv(c)'
  <2>1. step'[c] = "done"
    BY <1>3, <1>4
  <2> QED
    BY <1>2, <1>3, <1>5, <2>1, Zenon DEF CallInv, KindInv, NetInv, CopyInv, Br!MyTask
<1> QED
  BY <1>1, <1>3, <1>6, <1>7, <1>8, <1>9, <1>10, BridgeStep
\* A step that writes rows and closes no task leaves the tasks as they are.
LEMMA BridgeTasks ==
  ASSUME BridgeInv, task' = task, \A f \in Facs : cash[f] # NoRow => cash'[f] # NoRow
  PROVE  TasksInv'
<1>1. \A c \in Calls : \A f \in Facs : task[c][f].source \in Facs
  BY DEF BridgeInv, Br!TypeOK
<1> QED
  BY <1>1 DEF BridgeInv, TasksInv

\* Both rows of a trade are written, the outgoing one from its copy.
LEMMA BridgeDebit ==
  ASSUME BridgeInv, Br!BridgeAssumption, NEW c \in Calls, Br!DebitOutgoing(c)
  PROVE  BridgeInv'
<1> DEFINE a == ask[c].a
           b == ask[c].b
<1>1. CallInv(c) /\ step[c] = "second" /\ ask[c].kind = "trade" /\ c \in Br!Running
  BY DEF BridgeInv, CallInv, Br!DebitOutgoing, Br!Running, Br!Ended
<1>2. /\ a \in Facs /\ b \in Facs /\ a # b /\ ask[c] \in Menu[c]
      /\ ask[c].amt \in Nat /\ Spread \in Nat /\ ask[c].amt > Spread /\ NoRow \notin Int
  BY <1>1 DEF BridgeInv, CallInv, KindInv, Br!TypeOK, Br!Requests, Br!BridgeAssumption
<1>3. /\ Br!In(c) \in Nat /\ Br!Out(c) \in Nat
  BY <1>2 DEF Br!In, Br!Out
<1>4. /\ cash[a] \in Nat /\ cash[b] \in Nat
      /\ b \notin messy => seen[c][b].cash = cash[b] /\ cash[b] >= Br!Out(c)
      /\ seen[c][b] \in [cash : Nat, active : BOOLEAN, out : Nat]
      /\ booked[a] \in Int /\ booked[b] \in Int
      /\ b \notin drained => (seen[c][b].active => seen[c][b].cash >= Reserve)
      /\ \A r : [step EXCEPT ![c] = r][c] = r
  BY <1>1, <1>2 DEF CallInv, CopyInv, BridgeInv, RowsInv, Br!TypeOK
<1>m. seen[c][b].cash \in Nat /\ seen[c][b].active \in BOOLEAN /\ seen[c][b].out \in Nat
  BY <1>4
<1>d. ASSUME NEW i \in Nat, NEW j \in Nat
      PROVE  Br!Less(i, j) \in Nat /\ (i >= j => Br!Less(i, j) = i - j)
  <2>1. i \in Int /\ j \in Int
    OBVIOUS
  <2> QED
    BY <2>1, LessIs
<1>5. PICK daily \in Nat, left \in Nat :
         /\ left = Br!Less(seen[c][b].cash, Br!Out(c))
         /\ cash' = [cash EXCEPT ![a] = @ + Br!In(c), ![b] = left]
         /\ outflow' = [outflow EXCEPT ![b] = daily]
         /\ active' = [active EXCEPT ![b] = IF Br!Suspends(left, daily) THEN FALSE
                                            ELSE seen[c][b].active]
         /\ held' = [held EXCEPT ![a] = Nobody]
         /\ booked' = [booked EXCEPT ![a] = @ + Br!In(c), ![b] = @ - Br!Out(c)]
         /\ step' = [step EXCEPT ![c] = "done"]
         /\ UNCHANGED <<ask, seen, task, todo, prior, messy, drained, spent>>
  <2>1. seen[c][b].out + Br!Out(c) \in Nat
    BY <1>3, <1>m
  <2>2. Br!Less(seen[c][b].cash, Br!Out(c)) \in Nat
    BY <1>3, <1>m, <1>d, Zenon
  <2> QED
    BY <1>3, <2>1, <2>2 DEF Br!DebitOutgoing, Br!To
<1>6. /\ cash'[a] = cash[a] + Br!In(c) /\ cash'[b] = left
      /\ booked'[a] = booked[a] + Br!In(c) /\ booked'[b] = booked[b] - Br!Out(c)
      /\ active'[b] => left >= Reserve
      /\ active'[a] = active[a]
      /\ \A f \in Facs \ {a, b} :
            cash'[f] = cash[f] /\ booked'[f] = booked[f] /\ active'[f] = active[f]
      /\ b \notin messy => left = cash[b] - Br!Out(c)
  <2>1. active'[b] = IF Br!Suspends(left, daily) THEN FALSE ELSE seen[c][b].active
    BY <1>2, <1>5 DEF BridgeInv, Br!TypeOK
  <2>2. Br!Suspends(left, daily) \/ left >= Reserve
    BY <1>5 DEF Br!Suspends, Br!BridgeAssumption
  <2>3. b \notin messy => left = cash[b] - Br!Out(c)
    BY <1>3, <1>4, <1>5, <1>d
  <2> QED
    BY <1>2, <1>5, <2>1, <2>2, <2>3, Zenon DEF BridgeInv, Br!TypeOK
<1>7. Br!TypeOK'
  <2>1. /\ cash' \in [Facs -> Nat \cup {NoRow}] /\ outflow' \in [Facs -> Nat]
        /\ active' \in [Facs -> BOOLEAN]
    <3>1. cash \in [Facs -> Nat \cup {NoRow}] /\ cash[a] + Br!In(c) \in Nat
      BY <1>3, <1>4 DEF BridgeInv, Br!TypeOK
    <3>2. cash' \in [Facs -> Nat \cup {NoRow}]
      BY <1>2, <1>5, <3>1
    <3>3. outflow' \in [Facs -> Nat]
      BY <1>5 DEF BridgeInv, Br!TypeOK
    <3>4. (IF Br!Suspends(left, daily) THEN FALSE ELSE seen[c][b].active) \in BOOLEAN
      BY <1>m
    <3>5. active' \in [Facs -> BOOLEAN]
      BY <1>5, <3>4 DEF BridgeInv, Br!TypeOK
    <3> QED
      BY <3>2, <3>3, <3>5
  <2>2. held' \in [Facs -> Calls \cup {Nobody}] /\ booked' \in [Facs -> Int]
    BY <1>2, <1>3, <1>4, <1>5 DEF BridgeInv, Br!TypeOK
  <2>3. step' \in [Calls -> Br!Ended \cup {"route", "assert", "first", "readRow", "second",
                         "insert", "write", "snapshot", "look", "plan", "readTask", "copy", "close"}]
    BY <1>5 DEF BridgeInv, Br!TypeOK, Br!Ended
  <2> QED
    BY <1>5, <2>1, <2>2, <2>3 DEF BridgeInv, Br!TypeOK
<1>8. Only(c)
  <2>1. /\ \A f \in Facs : cash[f] # NoRow => cash'[f] # NoRow
        /\ \A f \in Facs : cash'[f] = cash[f] \/ f \in Br!RowsOf(ask[c])
    BY <1>1, <1>2, <1>3, <1>4, <1>6 DEF Br!RowsOf
  <2> QED
    BY <1>1, <1>5, <2>1 DEF Only, BridgeInv, Br!TypeOK
<1>9. RowsInv'
  <2>1. \A f \in Facs : /\ active'[f] => cash'[f] # NoRow
                        /\ cash'[f] = NoRow => Initial[f] = NoRow /\ booked'[f] = 0
    BY <1>2, <1>3, <1>4, <1>6 DEF BridgeInv, RowsInv
  <2>2. Br!CashExplained'
    <3> DEFINE first(f) == IF Initial[f] = NoRow THEN 0 ELSE Initial[f]
    <3>1. \A f \in Facs : first(f) \in Int
      BY DEF Br!BridgeAssumption
    <3>2. \A f \in Facs \ messy : cash[f] # NoRow => cash[f] = first(f) + booked[f]
      BY DEF BridgeInv, RowsInv, Br!CashExplained
    <3>3. \A f \in Facs \ messy : cash'[f] # NoRow => cash'[f] = first(f) + booked'[f]
      <4> HIDE DEF first
      <4>1. ASSUME a \notin messy PROVE cash'[a] = first(a) + booked'[a]
        <5>1. cash[a] = first(a) + booked[a]
          BY <1>2, <1>4, <3>2, <4>1
        <5> QED
          BY <1>2, <1>3, <1>4, <1>6, <3>1, <5>1
      <4>2. ASSUME b \notin messy PROVE cash'[b] = first(b) + booked'[b]
        <5>1. cash[b] = first(b) + booked[b]
          BY <1>2, <1>4, <3>2, <4>2
        <5> QED
          BY <1>2, <1>3, <1>4, <1>6, <3>1, <4>2, <5>1
      <4> QED
        BY <1>6, <3>2, <4>1, <4>2
    <3> QED
      BY <1>5, <3>3 DEF Br!CashExplained
  <2>3. Br!BridgeKeepsReserve'
    <3>1. ASSUME active[a], a \notin drained PROVE cash'[a] >= Reserve
      <4>1. cash[a] >= Reserve /\ Reserve \in Nat
        BY <1>2, <3>1 DEF BridgeInv, RowsInv, Br!BridgeKeepsReserve, Br!BridgeAssumption
      <4> QED
        BY <1>3, <1>4, <1>6, <4>1
    <3>2. ASSUME NEW f \in Facs \ drained, active'[f] PROVE cash'[f] # NoRow /\ cash'[f] >= Reserve
      <4>1. f \in Facs /\ f \notin drained /\ cash'[f] # NoRow
        BY <2>1, <3>2
      <4>2. CASE f = a
        BY <1>6, <3>1, <3>2, <4>1, <4>2
      <4>3. CASE f = b
        BY <1>6, <3>2, <4>1, <4>3
      <4>4. CASE f \notin {a, b}
        <5>1. active[f] /\ cash'[f] = cash[f]
          BY <1>6, <3>2, <4>1, <4>4
        <5> QED
          BY <4>1, <5>1 DEF BridgeInv, RowsInv, Br!BridgeKeepsReserve
      <4> QED
        BY <4>2, <4>3, <4>4
    <3> QED
      BY <1>5, <3>2, Zenon DEF Br!BridgeKeepsReserve
  <2> QED
    BY <1>5, <2>1, <2>2, <2>3, Zenon DEF BridgeInv, RowsInv
<1>10. TasksInv'
  BY <1>5, <1>8, BridgeTasks DEF Only
<1>11. CallInv(c)'
  <2>1. step'[c] = "done"
    BY <1>4, <1>5
  <2> QED
    BY <1>1, <1>2, <1>5, <2>1, Zenon DEF CallInv, KindInv, NetInv, CopyInv
<1> QED
  BY <1>1, <1>5, <1>7, <1>8, <1>9, <1>10, <1>11, BridgeStep

\* A row is inserted, closed and empty, or it is already there.
LEMMA BridgeInsert ==
  ASSUME BridgeInv, Br!BridgeAssumption, NEW c \in Calls, Br!InsertRow(c)
  PROVE  BridgeInv'
<1> DEFINE b == ask[c].b
<1>1. CallInv(c) /\ step[c] = "insert" /\ c \in Br!Running
  BY DEF BridgeInv, CallInv, Br!InsertRow, Br!Running, Br!Ended
<1>2. /\ b \in Facs /\ ask[c] \in Menu[c] /\ ask[c].kind \in {"fund", "register"} /\ NoRow \notin Int
      /\ held \in [Facs -> Calls \cup {Nobody}] /\ spent \in 0..MaxFaults
      /\ \A r : [step EXCEPT ![c] = r][c] = r
  BY <1>1 DEF BridgeInv, CallInv, KindInv, Br!TypeOK, Br!Requests, Br!BridgeAssumption
<1>3. UNCHANGED <<active, outflow, held, ask, task, todo, prior, booked, messy, drained, spent>>
  BY DEF Br!InsertRow, Br!history
<1>4. CASE cash[b] # NoRow
  <2>1. PICK s \in {"failed", "done"} : step' = [step EXCEPT ![c] = s] /\ UNCHANGED <<cash, seen>>
    BY <1>4 DEF Br!InsertRow, Br!To
  <2>2. CallInv(c)'
    BY <1>1, <1>2, <1>3, <2>1 DEF CallInv, KindInv, NetInv, CopyInv
  <2> QED
    BY <1>1, <1>2, <1>3, <2>1, <2>2, BridgeQuiet
<1>5. CASE cash[b] = NoRow
  <2>1. PICK s \in {"write", "done"} :
           /\ step' = [step EXCEPT ![c] = s] /\ cash' = [cash EXCEPT ![b] = 0]
           /\ seen' = [seen EXCEPT ![c][b] = [cash |-> 0, active |-> FALSE, out |-> 0]]
           /\ s = "write" <=> ask[c].kind = "fund"
    BY <1>5 DEF Br!InsertRow, Br!To
  <2>2. /\ cash'[b] = 0 /\ \A f \in Facs \ {b} : cash'[f] = cash[f]
        /\ seen'[c][b] = [cash |-> 0, active |-> FALSE, out |-> 0]
        /\ \A f \in Facs \ {b} : seen'[c][f] = seen[c][f]
        /\ \A d \in Calls \ {c} : seen'[d] = seen[d] /\ step'[d] = step[d]
    BY <1>2, <2>1 DEF BridgeInv, Br!TypeOK
  <2>3. ~active[b] /\ Initial[b] = NoRow /\ booked[b] = 0
    BY <1>2, <1>5 DEF BridgeInv, RowsInv, Br!TypeOK
  <2>4. Br!TypeOK'
    <3>1. /\ cash' \in [Facs -> Nat \cup {NoRow}]
          /\ seen' \in [Calls -> [Facs -> [cash : Nat, active : BOOLEAN, out : Nat]]]
      BY <1>2, <2>1 DEF BridgeInv, Br!TypeOK
    <3>2. step' \in [Calls -> Br!Ended \cup {"route", "assert", "first", "readRow", "second",
                         "insert", "write", "snapshot", "look", "plan", "readTask", "copy", "close"}]
      BY <2>1 DEF BridgeInv, Br!TypeOK, Br!Ended
    <3> QED
      BY <1>3, <3>1, <3>2 DEF BridgeInv, Br!TypeOK
  <2>5. Only(c)
    BY <1>2, <1>3, <1>5, <2>2 DEF Only
  <2>6. RowsInv'
    <3>1. \A f \in Facs : /\ active'[f] => cash'[f] # NoRow
                          /\ cash'[f] = NoRow => Initial[f] = NoRow /\ booked'[f] = 0
      BY <1>2, <1>3, <2>2 DEF BridgeInv, RowsInv
    <3>2. Br!CashExplained' /\ Br!BridgeKeepsReserve'
      BY <1>2, <1>3, <2>2, <2>3 DEF BridgeInv, RowsInv, Br!CashExplained, Br!BridgeKeepsReserve
    <3>3. \A d \in Calls : \A f \in Facs \ drained : seen'[d][f].active => seen'[d][f].cash >= Reserve
      BY <2>2 DEF BridgeInv, RowsInv
    <3> QED
      BY <1>3, <3>1, <3>2, <3>3 DEF RowsInv
  <2>7. TasksInv'
    BY <1>3, <2>5, BridgeTasks DEF Only
  <2>8. CallInv(c)'
    <3>1. step'[c] = s
      BY <1>2, <2>1
    <3> QED
      BY <1>1, <1>2, <1>3, <2>1, <2>2, <3>1 DEF CallInv, KindInv, NetInv, CopyInv
  <2> QED
    BY <1>1, <1>3, <2>4, <2>5, <2>6, <2>7, <2>8, BridgeStep
<1> QED
  BY <1>4, <1>5
\* A funding adds to the copy it has read.
LEMMA BridgeFund ==
  ASSUME BridgeInv, Br!BridgeAssumption, NEW c \in Calls, Br!RecordExternalFunding(c)
  PROVE  BridgeInv'
<1> DEFINE b == ask[c].b
           new == seen[c][b].cash + ask[c].amt
<1>1. CallInv(c) /\ step[c] = "write" /\ ask[c].kind = "fund" /\ c \in Br!Running
  BY DEF BridgeInv, CallInv, KindInv, Br!RecordExternalFunding, Br!Running, Br!Ended
<1>2. /\ b \in Facs /\ ask[c] \in Menu[c] /\ ask[c].amt \in Nat /\ NoRow \notin Int
      /\ seen[c][b].cash \in Nat /\ seen[c][b].active \in BOOLEAN /\ booked[b] \in Int
      /\ cash[b] \in Nat /\ Reserve \in Nat
      /\ b \notin messy => seen[c][b].cash = cash[b]
      /\ b \notin drained => (seen[c][b].active => seen[c][b].cash >= Reserve)
      /\ \A r : [step EXCEPT ![c] = r][c] = r
  BY <1>1 DEF BridgeInv, RowsInv, CallInv, KindInv, CopyInv, Br!TypeOK, Br!Requests,
              Br!BridgeAssumption
<1>3. /\ cash' = [cash EXCEPT ![b] = new] /\ booked' = [booked EXCEPT ![b] = @ + ask[c].amt]
      /\ active' = [active EXCEPT ![b] = Br!Opens(new, seen[c][b].active)]
      /\ step' = [step EXCEPT ![c] = "done"]
      /\ UNCHANGED <<outflow, held, ask, seen, task, todo, prior, messy, drained, spent>>
  BY DEF Br!RecordExternalFunding, Br!To
<1>4. /\ new \in Nat /\ cash'[b] = new /\ booked'[b] = booked[b] + ask[c].amt
      /\ active'[b] /\ b \notin drained => new >= Reserve
      /\ \A f \in Facs \ {b} :
            cash'[f] = cash[f] /\ booked'[f] = booked[f] /\ active'[f] = active[f]
  BY <1>2, <1>3 DEF BridgeInv, Br!TypeOK, Br!Opens
<1>5. Br!TypeOK'
  <2>1. cash' \in [Facs -> Nat \cup {NoRow}] /\ booked' \in [Facs -> Int]
    BY <1>2, <1>3, <1>4 DEF BridgeInv, Br!TypeOK
  <2>2. active' \in [Facs -> BOOLEAN]
    BY <1>2, <1>3 DEF BridgeInv, Br!TypeOK, Br!Opens
  <2>3. step' \in [Calls -> Br!Ended \cup {"route", "assert", "first", "readRow", "second",
                         "insert", "write", "snapshot", "look", "plan", "readTask", "copy", "close"}]
    BY <1>3 DEF BridgeInv, Br!TypeOK, Br!Ended
  <2> QED
    BY <1>3, <2>1, <2>2, <2>3 DEF BridgeInv, Br!TypeOK
<1>6. Only(c)
  <2>1. /\ \A f \in Facs : cash[f] # NoRow => cash'[f] # NoRow
        /\ \A f \in Facs : cash'[f] = cash[f] \/ f \in Br!RowsOf(ask[c])
    BY <1>1, <1>2, <1>4 DEF Br!RowsOf
  <2> QED
    BY <1>1, <1>3, <2>1 DEF Only, BridgeInv, Br!TypeOK
<1>7. RowsInv'
  <2>1. \A f \in Facs : /\ active'[f] => cash'[f] # NoRow
                        /\ cash'[f] = NoRow => Initial[f] = NoRow /\ booked'[f] = 0
    BY <1>2, <1>4 DEF BridgeInv, RowsInv
  <2>2. Br!CashExplained'
    <3> DEFINE first(f) == IF Initial[f] = NoRow THEN 0 ELSE Initial[f]
    <3>1. first(b) \in Int
      BY <1>2 DEF Br!BridgeAssumption
    <3>2. \A f \in Facs \ messy : cash[f] # NoRow => cash[f] = first(f) + booked[f]
      BY DEF BridgeInv, RowsInv, Br!CashExplained
    <3>3. \A f \in Facs \ messy : cash'[f] # NoRow => cash'[f] = first(f) + booked'[f]
      <4> HIDE DEF first
      <4>1. ASSUME b \notin messy PROVE cash'[b] = first(b) + booked'[b]
        <5>1. cash[b] = first(b) + booked[b] /\ seen[c][b].cash = cash[b]
          BY <1>2, <3>2, <4>1
        <5> QED
          BY <1>2, <1>4, <3>1, <5>1
      <4> HIDE DEF new
      <4> QED
        BY <1>4, <3>2, <4>1
    <3> QED
      BY <1>3, <3>3 DEF Br!CashExplained
  <2>3. Br!BridgeKeepsReserve'
    <3>1. ASSUME NEW f \in Facs \ drained, active'[f] PROVE cash'[f] # NoRow /\ cash'[f] >= Reserve
      BY <1>4, <2>1, <3>1 DEF BridgeInv, RowsInv, Br!BridgeKeepsReserve
    <3> QED
      BY <1>3, <3>1 DEF Br!BridgeKeepsReserve
  <2> QED
    BY <1>3, <2>1, <2>2, <2>3 DEF BridgeInv, RowsInv
<1>8. TasksInv'
  BY <1>3, <1>6, BridgeTasks DEF Only
<1>9. CallInv(c)'
  <2>1. step'[c] = "done"
    BY <1>2, <1>3
  <2> QED
    BY <1>1, <1>2, <1>3, <2>1 DEF CallInv, KindInv, NetInv, CopyInv
<1> QED
  BY <1>1, <1>3, <1>5, <1>6, <1>7, <1>8, <1>9, BridgeStep

\* A transfer writes both rows from their copies; what the source lacks is clamped.
LEMMA BridgeTransfer ==
  ASSUME BridgeInv, Br!BridgeAssumption, NEW c \in Calls, Br!CreditTarget(c)
  PROVE  BridgeInv'
<1> DEFINE a == Br!MyTask(c).source
           b == ask[c].b
           n == Br!MyTask(c).amt
           new == seen[c][b].cash + n
           left == Br!Less(seen[c][a].cash, n)
<1>1. CallInv(c) /\ step[c] = "second" /\ ask[c].kind = "complete" /\ c \in Br!Running
  BY DEF BridgeInv, CallInv, Br!CreditTarget, Br!Running, Br!Ended
<1>2. /\ b \in Facs /\ ask[c] \in Menu[c] /\ ask[c].run \in Calls /\ Br!MyTask(c).status # "none"
      /\ NoRow \notin Int /\ Reserve \in Nat
  BY <1>1 DEF CallInv, KindInv, NetInv, BridgeInv, Br!TypeOK, Br!Requests, Br!BridgeAssumption
<1>3. /\ a \in Facs /\ n \in Nat /\ a # b /\ cash[a] \in Nat /\ cash[b] \in Nat
  BY <1>2 DEF BridgeInv, TasksInv, Br!TypeOK, Br!MyTask
<1>4. /\ \A f \in {a, b} : /\ seen[c][f].cash \in Nat /\ seen[c][f].active \in BOOLEAN
                           /\ booked[f] \in Int
                           /\ f \notin messy => seen[c][f].cash = cash[f]
      /\ b \notin drained => (seen[c][b].active => seen[c][b].cash >= Reserve)
      /\ \A r : [step EXCEPT ![c] = r][c] = r
  BY <1>1, <1>2, <1>3 DEF CallInv, CopyInv, BridgeInv, RowsInv, Br!TypeOK
<1>5. /\ left \in Nat
      /\ seen[c][a].cash >= n => left = seen[c][a].cash - n
      /\ new \in Nat
  <2>1. seen[c][a].cash \in Int /\ n \in Int /\ seen[c][b].cash \in Nat
    BY <1>3, <1>4
  <2>2. \A i, j \in Int : /\ Br!Less(i, j) \in Nat
                          /\ i >= j => Br!Less(i, j) = i - j
    BY LessIs
  <2> HIDE DEF n
  <2>3. /\ left \in Nat
        /\ seen[c][a].cash >= n => left = seen[c][a].cash - n
    BY <2>1, <2>2
  <2>4. new \in Nat
    BY <1>3, <2>1
  <2> QED
    BY <2>3, <2>4
<1>6. /\ cash' = [cash EXCEPT ![a] = left, ![b] = new]
      /\ active' = [active EXCEPT ![b] = Br!Opens(new, seen[c][b].active)]
      /\ held' = [held EXCEPT ![a] = Nobody]
      /\ booked' = [booked EXCEPT ![a] = @ - n, ![b] = @ + n]
      /\ messy' = (IF seen[c][a].cash < n THEN messy \cup {a} ELSE messy)
      /\ drained' = drained \cup {a} /\ step' = [step EXCEPT ![c] = "close"]
      /\ UNCHANGED <<outflow, ask, seen, task, todo, prior, spent>>
  BY DEF Br!CreditTarget, Br!To
<1> HIDE DEF left, new
<1>7. /\ cash'[a] = left /\ cash'[b] = new
      /\ booked'[a] = booked[a] - n /\ booked'[b] = booked[b] + n
      /\ active'[b] => new >= Reserve \/ seen[c][b].active
      /\ \A f \in Facs \ {b} : active'[f] = active[f]
      /\ \A f \in Facs \ {a, b} : cash'[f] = cash[f] /\ booked'[f] = booked[f]
  BY <1>2, <1>3, <1>6 DEF BridgeInv, Br!TypeOK, Br!Opens
<1>8. Br!TypeOK'
  <2>1. cash' \in [Facs -> Nat \cup {NoRow}]
    BY <1>2, <1>3, <1>5, <1>6 DEF BridgeInv, Br!TypeOK
  <2>2. booked' \in [Facs -> Int] /\ held' \in [Facs -> Calls \cup {Nobody}]
    BY <1>2, <1>3, <1>4, <1>6 DEF BridgeInv, Br!TypeOK
  <2>3. active' \in [Facs -> BOOLEAN]
    BY <1>2, <1>4, <1>6 DEF BridgeInv, Br!TypeOK, Br!Opens
  <2>4. messy' \subseteq Facs /\ drained' \subseteq Facs
    BY <1>3, <1>6 DEF BridgeInv, Br!TypeOK
  <2>5. step' \in [Calls -> Br!Ended \cup {"route", "assert", "first", "readRow", "second",
                         "insert", "write", "snapshot", "look", "plan", "readTask", "copy", "close"}]
    BY <1>6 DEF BridgeInv, Br!TypeOK
  <2> QED
    BY <1>6, <2>1, <2>2, <2>3, <2>4, <2>5 DEF BridgeInv, Br!TypeOK
<1>9. Only(c)
  <2>1. /\ \A f \in Facs : cash[f] # NoRow => cash'[f] # NoRow
        /\ \A f \in Facs : cash'[f] = cash[f] \/ f \in Br!RowsOf(ask[c])
    <3>1. Br!RowsOf(ask[c]) = {a, b}
      BY <1>1 DEF Br!RowsOf, Br!MyTask
    <3> HIDE DEF a, b
    <3> QED
      BY <1>2, <1>5, <1>7, <3>1
  <2>2. messy \subseteq messy' /\ \A d \in Calls \ {c} : step'[d] = step[d]
    BY <1>6 DEF BridgeInv, Br!TypeOK
  <2> QED
    BY <1>1, <1>6, <2>1, <2>2 DEF Only
<1>10. RowsInv'
  <2>1. \A f \in Facs : /\ active'[f] => cash'[f] # NoRow
                        /\ cash'[f] = NoRow => Initial[f] = NoRow /\ booked'[f] = 0
    BY <1>2, <1>3, <1>5, <1>7 DEF BridgeInv, RowsInv
  <2>2. Br!CashExplained'
    <3> DEFINE first(f) == IF Initial[f] = NoRow THEN 0 ELSE Initial[f]
    <3>1. first(a) \in Int /\ first(b) \in Int
      BY <1>2, <1>3 DEF Br!BridgeAssumption
    <3>2. \A f \in Facs \ messy : cash[f] # NoRow => cash[f] = first(f) + booked[f]
      BY DEF BridgeInv, RowsInv, Br!CashExplained
    <3>3. \A f \in Facs \ messy' : cash'[f] # NoRow => cash'[f] = first(f) + booked'[f]
      <4> HIDE DEF first
      <4>1. ASSUME a \notin messy' PROVE cash'[a] = first(a) + booked'[a]
        <5>1. a \notin messy /\ seen[c][a].cash >= n
          BY <1>3, <1>4, <1>6, <4>1
        <5>2. cash[a] = first(a) + booked[a] /\ cash'[a] = cash[a] - n
          BY <1>2, <1>3, <1>4, <1>5, <1>7, <3>2, <5>1
        <5>3. booked[a] \in Int /\ n \in Int
          BY <1>3, <1>4
        <5> QED
          BY <1>7, <3>1, <5>2, <5>3
      <4>2. ASSUME b \notin messy' PROVE cash'[b] = first(b) + booked'[b]
        <5>1. b \notin messy
          BY <1>6, <4>2
        <5>2. cash[b] = first(b) + booked[b] /\ cash'[b] = cash[b] + n
          BY <1>2, <1>3, <1>4, <1>7, <3>2, <5>1 DEF new
        <5>3. booked[b] \in Int /\ n \in Int
          BY <1>3, <1>4
        <5> QED
          BY <1>7, <3>1, <5>2, <5>3
      <4>3. messy \subseteq messy'
        BY <1>6
      <4> QED
        BY <1>7, <3>2, <4>1, <4>2, <4>3
    <3> QED
      BY <3>3 DEF Br!CashExplained
  <2>3. Br!BridgeKeepsReserve'
    <3>1. ASSUME NEW f \in Facs \ drained', active'[f] PROVE cash'[f] # NoRow /\ cash'[f] >= Reserve
      <4>1. f \in Facs \ drained /\ f # a /\ cash'[f] # NoRow
        BY <1>6, <2>1, <3>1
      <4>2. CASE f = b
        BY <1>2, <1>3, <1>4, <1>7, <3>1, <4>1, <4>2 DEF new
      <4>3. CASE f # b
        <5>1. active[f] /\ cash'[f] = cash[f]
          BY <1>7, <3>1, <4>1, <4>3
        <5> QED
          BY <4>1, <5>1 DEF BridgeInv, RowsInv, Br!BridgeKeepsReserve
      <4> QED
        BY <4>2, <4>3
    <3> QED
      BY <3>1 DEF Br!BridgeKeepsReserve
  <2>4. \A d \in Calls : \A f \in Facs \ drained' : seen'[d][f].active => seen'[d][f].cash >= Reserve
    BY <1>6 DEF BridgeInv, RowsInv
  <2> QED
    BY <2>1, <2>2, <2>3, <2>4 DEF RowsInv
<1>11. TasksInv'
  BY <1>6, <1>9, BridgeTasks DEF Only
<1>12. CallInv(c)'
  <2>1. step'[c] = "close" /\ Br!MyTask(c)' = Br!MyTask(c)
    BY <1>4, <1>6, Zenon DEF Br!MyTask
  <2> QED
    BY <1>1, <1>2, <1>6, <2>1 DEF CallInv, KindInv, NetInv, CopyInv
<1> QED
  BY <1>1, <1>6, <1>8, <1>9, <1>10, <1>11, <1>12, BridgeStep
\* A request begins; rows it has in common with one in progress become messy.
LEMMA BridgeBegin ==
  ASSUME BridgeInv, Br!BridgeAssumption, NEW c \in Calls, Br!Begin(c)
  PROVE  BridgeInv'
<1>1. PICK r \in Menu[c] :
         /\ r.run # Nobody => task[r.run][r.b].status # "none"
         /\ ask' = [ask EXCEPT ![c] = r] /\ step' = [step EXCEPT ![c] = Br!FirstStep(r.kind)]
         /\ messy' = messy \cup UNION {Br!RowsOf(ask[d]) \cap Br!RowsOf(r) : d \in Br!Running}
  BY DEF Br!Begin, Br!To
<1>2. /\ step[c] = "idle" /\ prior' = [prior EXCEPT ![c] = {d \in Calls : step[d] = "done"}]
      /\ UNCHANGED <<cash, active, outflow, held, seen, task, todo, booked, drained, spent>>
  BY DEF Br!Begin, Br!rows
<1>3. /\ r \in Br!Requests /\ r.a \in Facs /\ r.b \in Facs /\ r.kind \in Br!Kinds
      /\ r.kind \in {"complete", "cancel"} => r.run \in Calls
      /\ \A f \in Facs : task[c][f].status = "none"
      /\ \A d \in Calls : ask[d] \in Br!Requests
      /\ \A s : [step EXCEPT ![c] = s][c] = s
  BY <1>2 DEF Br!BridgeAssumption, Br!Requests, BridgeInv, NetInv, Br!TypeOK
<1>4. /\ Br!FirstStep(r.kind) \in {"route", "readRow", "snapshot", "insert", "readTask"}
      /\ Br!FirstStep(r.kind) = "route" => r.kind = "trade"
      /\ Br!FirstStep(r.kind) = "readRow" => r.kind = "fund"
      /\ Br!FirstStep(r.kind) = "snapshot" => r.kind = "net"
      /\ Br!FirstStep(r.kind) = "insert" => r.kind = "register"
      /\ Br!FirstStep(r.kind) = "readTask" => r.kind \in {"complete", "cancel"}
  BY <1>3 DEF Br!FirstStep, Br!Kinds
<1>5. /\ ask'[c] = r /\ step'[c] = Br!FirstStep(r.kind)
      /\ \A d \in Calls \ {c} : ask'[d] = ask[d] /\ step'[d] = step[d]
  BY <1>1, <1>3 DEF BridgeInv, Br!TypeOK
<1>6. messy \subseteq messy' /\ messy' \subseteq Facs
  <2>1. Br!RowsOf(r) \subseteq Facs
    BY <1>3 DEF Br!RowsOf, BridgeInv, Br!TypeOK
  <2>2. messy \subseteq Facs
    BY DEF BridgeInv, Br!TypeOK
  <2> QED
    BY <1>1, <2>1, <2>2
<1>7. Br!TypeOK'
  <2>1. ask' \in [Calls -> Br!Requests] /\ prior' \in [Calls -> SUBSET Calls]
    BY <1>1, <1>2, <1>3 DEF BridgeInv, Br!TypeOK
  <2>2. step' \in [Calls -> Br!Ended \cup {"route", "assert", "first", "readRow", "second",
                         "insert", "write", "snapshot", "look", "plan", "readTask", "copy", "close"}]
    BY <1>1, <1>4 DEF BridgeInv, Br!TypeOK
  <2> QED
    BY <1>2, <1>6, <2>1, <2>2 DEF BridgeInv, Br!TypeOK
<1>8. Only(c)
  BY <1>2, <1>5, <1>6 DEF Only
<1>9. \A d \in Calls \ {c} : CallInv(d)'
  BY <1>8, BridgeOthers
<1>10. CallInv(c)'
  <2>1. KindInv(c)'
    BY <1>3, <1>4, <1>5 DEF KindInv
  <2>2. NetInv(c)'
    <3>1. r.kind \in {"complete", "cancel"} => task[r.run][r.b].status # "none"
      BY <1>1, <1>3 DEF Br!BridgeAssumption
    <3> QED
      BY <1>2, <1>3, <1>4, <1>5, <3>1 DEF NetInv, Br!MyTask
  <2>3. CopyInv(c)'
    BY <1>4, <1>5 DEF CopyInv
  <2> QED
    BY <2>1, <2>2, <2>3 DEF CallInv
<1>11. RowsInv'
  BY <1>2, <1>6 DEF BridgeInv, RowsInv, Br!CashExplained, Br!BridgeKeepsReserve
<1>12. TasksInv'
  BY <1>2 DEF BridgeInv, TasksInv
<1>13. AloneInv'
  <2>1. \A d \in Calls \ {c} : /\ Br!RowsOf(ask[d])' = Br!RowsOf(ask[d])
                               /\ d \in Br!Running' <=> d \in Br!Running
    BY <1>2, <1>5 DEF Br!RowsOf, Br!Running
  <2>2. Br!RowsOf(ask[c])' = Br!RowsOf(r)
    BY <1>2, <1>5 DEF Br!RowsOf
  <2>3. \A d \in Br!Running : Br!RowsOf(ask[d]) \cap Br!RowsOf(r) \subseteq messy'
    BY <1>1
  <2>4. \A d, e \in Br!Running : d # e => Br!RowsOf(ask[d]) \cap Br!RowsOf(ask[e]) \subseteq messy'
    BY <1>6 DEF BridgeInv, AloneInv
  <2>5. Br!Running' \subseteq Calls
    BY DEF Br!Running
  <2>6. ASSUME NEW d \in Br!Running', NEW e \in Br!Running', d # e
        PROVE  Br!RowsOf(ask[d])' \cap Br!RowsOf(ask[e])' \subseteq messy'
    <3>1. CASE d = c
      <4>1. e \in Br!Running /\ Br!RowsOf(ask[e])' = Br!RowsOf(ask[e])
        BY <2>1, <2>5, <2>6, <3>1
      <4> QED
        BY <2>2, <2>3, <3>1, <4>1
    <3>2. CASE e = c
      <4>1. d \in Br!Running /\ Br!RowsOf(ask[d])' = Br!RowsOf(ask[d])
        BY <2>1, <2>5, <2>6, <3>2
      <4> QED
        BY <2>2, <2>3, <3>2, <4>1
    <3>3. CASE d # c /\ e # c
      <4>1. /\ d \in Br!Running /\ Br!RowsOf(ask[d])' = Br!RowsOf(ask[d])
            /\ e \in Br!Running /\ Br!RowsOf(ask[e])' = Br!RowsOf(ask[e])
        BY <2>1, <2>5, <2>6, <3>3
      <4> QED
        BY <2>4, <2>6, <4>1
    <3> QED
      BY <3>1, <3>2, <3>3
  <2> QED
    BY <2>6 DEF AloneInv
<1> QED
  BY <1>7, <1>9, <1>10, <1>11, <1>12, <1>13 DEF BridgeInv, CallInv

\* The platform's cash at the start.
LEMMA BridgeInit ==
  ASSUME Br!BridgeAssumption, Br!Init
  PROVE  BridgeInv
<1>1. /\ Br!NoTask.source \in Facs /\ Br!NoTask.status = "none" /\ Br!NoTask.amt = 0
      /\ Br!NoTask \in [status : {"none", "PENDING", "COMPLETED", "CANCELLED"},
                        source : Facs, amt : Nat]
  <2>1. (CHOOSE f \in Facs : TRUE) \in Facs
    BY DEF Br!BridgeAssumption
  <2> QED
    BY <2>1 DEF Br!NoTask
<1>2. Br!NoAsk \in Br!Requests
  BY <1>1 DEF Br!NoAsk, Br!Requests, Br!Kinds
<1>3. /\ cash = Initial /\ active \in [Facs -> BOOLEAN]
      /\ \A f \in Facs : active[f] => Initial[f] # NoRow /\ Initial[f] >= Reserve
      /\ outflow \in [Facs -> Nat] /\ held \in [Facs -> Calls \cup {Nobody}]
      /\ booked \in [Facs -> Int] /\ \A f \in Facs : booked[f] = 0
  <2>1. active = [f \in Facs |-> Initial[f] # NoRow /\ Initial[f] >= Reserve]
    BY DEF Br!Init
  <2>2. \A f \in Facs : (Initial[f] # NoRow /\ Initial[f] >= Reserve) \in BOOLEAN
    OBVIOUS
  <2>3. active \in [Facs -> BOOLEAN]
    BY <2>1, <2>2
  <2>4. \A f \in Facs : active[f] => Initial[f] # NoRow /\ Initial[f] >= Reserve
    BY <2>1
  <2>5. outflow \in [Facs -> Nat] /\ held \in [Facs -> Calls \cup {Nobody}]
    BY DEF Br!Init
  <2>6. booked \in [Facs -> Int] /\ \A f \in Facs : booked[f] = 0
    BY DEF Br!Init
  <2> QED
    BY <2>3, <2>4, <2>5, <2>6 DEF Br!Init
<1>4. /\ step = [c \in Calls |-> "idle"] /\ ask \in [Calls -> Br!Requests]
      /\ seen \in [Calls -> [Facs -> [cash : Nat, active : BOOLEAN, out : Nat]]]
      /\ \A c \in Calls : \A f \in Facs : ~seen[c][f].active
      /\ todo \in [Calls -> SUBSET Facs] /\ prior \in [Calls -> SUBSET Calls]
  BY <1>2 DEF Br!Init
<1>5. /\ task \in [Calls -> [Facs -> [status : {"none", "PENDING", "COMPLETED", "CANCELLED"},
                                      source : Facs, amt : Nat]]]
      /\ \A c \in Calls : \A f \in Facs : task[c][f].status = "none"
  BY <1>1 DEF Br!Init
<1>6. messy = {} /\ drained = {} /\ spent \in 0..MaxFaults
  BY DEF Br!Init, Br!BridgeAssumption
<1>7. Br!TypeOK
  <2>1. step \in [Calls -> Br!Ended \cup {"route", "assert", "first", "readRow", "second",
                         "insert", "write", "snapshot", "look", "plan", "readTask", "copy", "close"}]
    BY <1>4 DEF Br!Ended
  <2> QED
    BY <1>3, <1>4, <1>5, <1>6, <2>1 DEF Br!TypeOK, Br!BridgeAssumption
<1>8. RowsInv
  BY <1>3, <1>4, <1>6 DEF RowsInv, Br!CashExplained, Br!BridgeKeepsReserve, Br!BridgeAssumption
<1>9. TasksInv
  BY <1>5 DEF TasksInv
<1>10. AloneInv
  BY <1>4 DEF AloneInv, Br!Running, Br!Ended
<1>11. \A c \in Calls : step[c] = "idle"
  BY <1>4
<1>12. \A c \in Calls : KindInv(c) /\ NetInv(c) /\ CopyInv(c)
  BY <1>5, <1>11 DEF KindInv, NetInv, CopyInv
<1> QED
  BY <1>7, <1>8, <1>9, <1>10, <1>12 DEF BridgeInv

\* Every step of a bridge, funding or netting call keeps the invariant.
LEMMA BridgeInvariance ==
  ASSUME Br!BridgeAssumption
  PROVE  Br!Spec => []BridgeInv
<1>1. Br!Init => BridgeInv
  BY BridgeInit
<1>2. BridgeInv /\ [Br!Next]_Br!bridgeVars => BridgeInv'
  <2>1. ASSUME BridgeInv, Br!Next PROVE BridgeInv'
    <3>1. PICK c \in Calls : Br!Begin(c) \/ Br!Step(c) \/ Br!Crash(c)
      BY <2>1 DEF Br!Next
    <3>2. CASE Br!Begin(c)
      BY <2>1, <3>2, BridgeBegin
    <3>3. CASE Br!Crash(c)
      BY <2>1, <3>3, BridgeAbort
    <3>4. CASE Br!Step(c)
      BY <2>1, <3>4, BridgeTrade, BridgeDebit, BridgeInsert, BridgeFund, BridgeNetting, BridgePlan,
         BridgeTransfer, BridgeClose, BridgeAbort DEF Br!Step
    <3> QED
      BY <3>1, <3>2, <3>3, <3>4
  <2>2. ASSUME BridgeInv, UNCHANGED Br!bridgeVars PROVE BridgeInv'
    <3>1. UNCHANGED <<cash, active, outflow, held, step, ask, seen, task, todo, prior, booked,
                      messy, drained, spent>>
      BY <2>2 DEF Br!bridgeVars, Br!rows, Br!history
    <3>2. Br!TypeOK' /\ RowsInv' /\ TasksInv'
      BY <2>2, <3>1 DEF BridgeInv, Br!TypeOK, RowsInv, TasksInv, Br!CashExplained,
                        Br!BridgeKeepsReserve
    <3>3. AloneInv'
      BY <2>2, <3>1 DEF BridgeInv, AloneInv, Br!Running, Br!RowsOf
    <3>4. ASSUME NEW c \in Calls PROVE CallInv(c)'
      <4>1. Br!Sources(c)' = Br!Sources(c) /\ Br!MyTask(c)' = Br!MyTask(c) /\ Br!Out(c)' = Br!Out(c)
        BY <3>1 DEF Br!Sources, Br!Surplus, Br!UsedUp, Br!MyTask, Br!Out
      <4> QED
        BY <2>2, <3>1, <4>1 DEF BridgeInv, CallInv, KindInv, NetInv, CopyInv
    <3> QED
      BY <3>2, <3>3, <3>4 DEF BridgeInv, CallInv
  <2> QED
    BY <2>1, <2>2
<1> QED
  BY <1>1, <1>2, PTL DEF Br!Spec

\* The platform's cash at a facilitator that no two overlapping calls write is what its
\* trades, fundings and transfers booked, both sides of each or none.
THEOREM BridgeCashBooked ==
  ASSUME Br!BridgeAssumption
  PROVE  Br!Spec => []Br!CashExplained
<1>1. BridgeInv => Br!CashExplained
  BY DEF BridgeInv, RowsInv
<1> QED
  BY <1>1, BridgeInvariance, PTL

\* An open bridge holds the reserve, unless a rebalancing took from it.
THEOREM BridgeReserveKept ==
  ASSUME Br!BridgeAssumption
  PROVE  Br!Spec => []Br!BridgeKeepsReserve
<1>1. BridgeInv => Br!BridgeKeepsReserve
  BY DEF BridgeInv, RowsInv
<1> QED
  BY <1>1, BridgeInvariance, PTL

-----------------------------------------------------------------------------
(* Netting tasks.                                                           *)

Closed == {"COMPLETED", "CANCELLED"}

\* Who was done when a call began is done, a run that is about to plan a task has seen
\* that no earlier one left a task open, and a call that closed a task is done.
PriorInv ==
    /\ \A c \in Calls : /\ step[c] = "idle" => prior[c] = {}
                        /\ \A d \in prior[c] : step[d] = "done"
    /\ \A c \in Calls : step[c] = "plan" =>
          \A d \in prior[c] : task[d][Br!Neediest(c)].status # "PENDING"
    /\ \A c \in Calls : step[c] = "done" /\ ask[c].kind \in {"complete", "cancel"} =>
          Br!MyTask(c).status \in Closed
    /\ Br!NoDuplicateTasks /\ Br!NoLateTransfer

\* A call that has begun moves to s.
Moves(c, s) ==
    /\ c \in Br!Running /\ step' = [step EXCEPT ![c] = s] /\ prior' = prior /\ ask' = ask
    /\ \A d \in Calls \ {c} : todo'[d] = todo[d] /\ seen'[d] = seen[d]
    /\ \A d \in Calls : \A f \in Facs :
          \/ task'[d][f].status = task[d][f].status
          \/ task[d][f].status # "none" /\ task'[d][f].status \in Closed
          \/ /\ d = c /\ step[c] = "plan" /\ f = Br!Neediest(c)
             /\ task[d][f].status = "none"
    /\ s # "idle"
    /\ s = "plan" => ~Br!Pending(Br!Neediest(c)) /\ todo' = todo /\ seen' = seen /\ task' = task
    /\ s = "done" /\ ask[c].kind \in {"complete", "cancel"} => Br!MyTask(c)'.status \in Closed
    /\ step[c] = "readTask" /\ Br!MyTask(c).status # "PENDING" => s \in {"failed", "crashed"}

\* A task that is closed stays closed, one that no run plans does not open.
LEMMA TasksClose ==
  ASSUME BridgeInv, NEW c \in Calls, NEW s, Moves(c, s), NEW d \in Calls, NEW f \in Facs
  PROVE  /\ task[d][f].status \in Closed => task'[d][f].status \in Closed
         /\ task[d][f].status # "PENDING" /\ d # c => task'[d][f].status # "PENDING"
         /\ task[d][f].status # "PENDING" /\ task'[d][f].status = "PENDING" =>
               d = c /\ step[c] = "plan" /\ f = Br!Neediest(c)
<1>1. \/ task'[d][f].status = task[d][f].status
      \/ task[d][f].status # "none" /\ task'[d][f].status \in Closed
      \/ /\ d = c /\ step[c] = "plan" /\ f = Br!Neediest(c)
         /\ task[d][f].status = "none"
  BY DEF Moves
<1> QED
  BY <1>1 DEF Closed

\* A call that has begun keeps the history's account of the tasks.
LEMMA PriorStep ==
  ASSUME BridgeInv, Br!BridgeAssumption, PriorInv, NEW c \in Calls, NEW s, Moves(c, s)
  PROVE  PriorInv'
<1>1. /\ step[c] \notin {"idle", "done", "failed", "crashed"} /\ prior' = prior /\ ask' = ask
      /\ step'[c] = s /\ \A d \in Calls \ {c} : step'[d] = step[d]
      /\ \A d \in Calls : ask[d] \in Br!Requests
      /\ \A d \in Calls : prior[d] \subseteq Calls /\ todo[d] \subseteq Facs
  BY DEF Moves, Br!Running, Br!Ended, BridgeInv, Br!TypeOK
<1>2. \A b \in Calls : \A a \in prior[b] : a \in Calls \ {c} /\ step[a] = "done" /\ step'[a] = "done"
  BY <1>1 DEF PriorInv
<1>3. \A b \in Calls : /\ step'[b] = "idle" => prior'[b] = {}
                       /\ \A d \in prior'[b] : step'[d] = "done"
  BY <1>1, <1>2 DEF PriorInv, Moves
<1>4. ASSUME NEW b \in Calls, step'[b] = "plan", NEW d \in prior'[b]
      PROVE  task'[d][Br!Neediest(b)'].status # "PENDING"
  <2>1. d \in Calls \ {c} /\ d \in prior[b]
    BY <1>1, <1>2, <1>4
  <2>2. CASE b = c
    <3>1. ~Br!Pending(Br!Neediest(c)) /\ Br!Neediest(c)' = Br!Neediest(c) /\ task' = task
      BY <1>1, <1>4, <2>2 DEF Moves, Br!Neediest
    <3> QED
      BY <2>1, <2>2, <3>1 DEF Br!Pending
  <2>3. CASE b # c
    <3>1. step[b] = "plan" /\ Br!Neediest(b)' = Br!Neediest(b)
      BY <1>1, <1>4, <2>3 DEF Moves, Br!Neediest
    <3>2. todo[b] # {} /\ task[d][Br!Neediest(b)].status # "PENDING"
      BY <2>1, <3>1 DEF BridgeInv, NetInv, PriorInv
    <3>3. Br!Neediest(b) \in Facs
      BY <1>1, <3>2, NeediestLeft
    <3> QED
      BY <2>1, <3>1, <3>2, <3>3, TasksClose
  <2> QED
    BY <2>2, <2>3
<1>5. ASSUME NEW a \in Calls, step'[a] = "done", ask[a].kind \in {"complete", "cancel"}
      PROVE  Br!MyTask(a)'.status \in Closed
  <2>1. CASE a = c
    BY <1>1, <1>5, <2>1 DEF Moves
  <2>2. CASE a # c
    <3>1. step[a] = "done" /\ Br!MyTask(a).status \in Closed
      BY <1>1, <1>5, <2>2 DEF PriorInv
    <3>2. ask[a].run \in Calls /\ ask[a].b \in Facs
      BY <1>1, <1>5, <3>1 DEF BridgeInv, NetInv, Br!Requests
    <3> QED
      BY <1>1, <3>1, <3>2, TasksClose DEF Br!MyTask
  <2> QED
    BY <2>1, <2>2
<1>6. ASSUME NEW a \in Calls, NEW b \in Calls, NEW f \in Facs, a \in prior[b],
             task'[a][f].status = "PENDING", task'[b][f].status = "PENDING"
      PROVE  FALSE
  <2>1. a # c /\ task[a][f].status = "PENDING"
    BY <1>2, <1>6, TasksClose
  <2>2. task[b][f].status # "PENDING"
    BY <1>6, <2>1 DEF PriorInv, Br!NoDuplicateTasks
  <2>3. b = c /\ step[c] = "plan" /\ f = Br!Neediest(c)
    BY <1>6, <2>2, TasksClose
  <2> QED
    BY <1>6, <2>1, <2>3 DEF PriorInv
<1>7. ASSUME NEW a \in Calls, NEW b \in Calls, a \in prior[b], step'[a] = "done",
             ask[a].kind \in {"complete", "cancel"}, ask[b].kind = "complete",
             ask[a].run = ask[b].run, ask[a].b = ask[b].b
      PROVE  step'[b] \in {"readTask", "failed", "crashed"}
  <2>1. step[a] = "done"
    BY <1>2, <1>7
  <2>2. step[b] \in {"readTask", "failed", "crashed"}
    BY <1>7, <2>1 DEF PriorInv, Br!NoLateTransfer
  <2>3. CASE b = c
    <3>1. step[c] = "readTask"
      BY <1>1, <2>2, <2>3
    <3>2. Br!MyTask(b).status # "PENDING"
      <4>1. Br!MyTask(a).status \in Closed
        BY <1>7, <2>1 DEF PriorInv
      <4>2. Br!MyTask(a) = Br!MyTask(b)
        BY <1>7 DEF Br!MyTask
      <4> QED
        BY <4>1, <4>2 DEF Closed
    <3> QED
      BY <1>1, <2>3, <3>1, <3>2 DEF Moves
  <2>4. CASE b # c
    BY <1>1, <2>2, <2>4
  <2> QED
    BY <2>3, <2>4
<1> QED
  BY <1>1, <1>3, <1>4, <1>5, <1>6, <1>7 DEF PriorInv, Br!NoDuplicateTasks, Br!NoLateTransfer

\* Every step of a call that has begun moves it so.
LEMMA StepMoves ==
  ASSUME BridgeInv, Br!BridgeAssumption, NEW c \in Calls, Br!Step(c) \/ Br!Crash(c)
  PROVE  \E s : Moves(c, s)
<1>1. /\ KindInv(c) /\ NetInv(c) /\ ask[c] \in Br!Requests
      /\ \A r : [step EXCEPT ![c] = r][c] = r
  BY DEF BridgeInv, Br!TypeOK
<1>2. ASSUME UNCHANGED <<task, todo, prior, ask>>, \A d \in Calls \ {c} : seen'[d] = seen[d],
             NEW s, step' = [step EXCEPT ![c] = s], c \in Br!Running,
             s \notin {"idle", "plan"},
             s = "done" => ask[c].kind \notin {"complete", "cancel"},
             step[c] = "readTask" /\ Br!MyTask(c).status # "PENDING" => s \in {"failed", "crashed"}
      PROVE  Moves(c, s)
  BY <1>2 DEF Moves
<1>3. CASE Br!Route(c) \/ Br!AssertBridgeCapacity(c) \/ Br!CreditIncoming(c)
  <2>1. PICK s \in {"failed", "assert", "first", "readRow"} :
           /\ step' = [step EXCEPT ![c] = s] /\ UNCHANGED <<task, todo, prior, ask, seen>>
           /\ step[c] \in {"route", "assert", "first"}
    BY <1>3 DEF Br!Route, Br!AssertBridgeCapacity, Br!CreditIncoming, Br!To, Br!history
  <2> QED
    BY <1>2, <2>1 DEF Br!Running, Br!Ended
<1>4. CASE Br!ReadRow(c) \/ Br!CopyRows(c)
  <2>1. PICK s \in {"second", "insert", "write", "first"} :
           /\ step' = [step EXCEPT ![c] = s] /\ UNCHANGED <<task, todo, prior, ask>>
           /\ step[c] \in {"readRow", "copy"} /\ seen' = [seen EXCEPT ![c] = Br!Seen]
    BY <1>4 DEF Br!ReadRow, Br!CopyRows, Br!To, Br!history
  <2>2. \A d \in Calls \ {c} : seen'[d] = seen[d]
    BY <2>1 DEF BridgeInv, Br!TypeOK
  <2> QED
    BY <1>2, <2>1, <2>2 DEF Br!Running, Br!Ended
<1>5. CASE Br!DebitOutgoing(c) \/ Br!RecordExternalFunding(c)
  <2>1. /\ step' = [step EXCEPT ![c] = "done"] /\ UNCHANGED <<task, todo, prior, ask, seen>>
        /\ step[c] \in {"second", "write"}
        /\ step[c] = "second" => ask[c].kind = "trade"
    BY <1>5 DEF Br!DebitOutgoing, Br!RecordExternalFunding, Br!To
  <2>2. step[c] # "readTask" /\ c \in Br!Running
    BY <2>1 DEF Br!Running, Br!Ended
  <2>3. ask[c].kind \notin {"complete", "cancel"}
    <3>1. CASE step[c] = "write"
      BY <1>1, <3>1 DEF KindInv
    <3>2. CASE step[c] = "second"
      BY <2>1, <3>2
    <3> QED
      BY <2>1, <3>1, <3>2
  <2>4. Moves(c, "done")
    BY <2>1, <2>2, <2>3 DEF Moves
  <2> QED
    BY <2>4
<1>6. CASE Br!InsertRow(c)
  <2>1. PICK s \in {"write", "done", "failed"} :
           /\ step' = [step EXCEPT ![c] = s] /\ UNCHANGED <<task, todo, prior, ask>>
           /\ step[c] = "insert"
    BY <1>6 DEF Br!InsertRow, Br!To, Br!history
  <2>2. \A d \in Calls \ {c} : seen'[d] = seen[d]
    BY <1>6 DEF Br!InsertRow, BridgeInv, Br!TypeOK
  <2>3. ask[c].kind \in {"fund", "register"}
    BY <1>1, <2>1 DEF KindInv
  <2> QED
    BY <1>2, <2>1, <2>2, <2>3 DEF Br!Running, Br!Ended
<1>7. CASE Br!DebitSource(c) \/ Br!CreditTarget(c) \/ Br!ReadTask(c)
  <2>1. PICK s \in {"second", "close", "failed", "copy"} :
           /\ step' = [step EXCEPT ![c] = s] /\ UNCHANGED <<task, todo, prior, ask, seen>>
           /\ step[c] \in {"first", "second", "readTask"}
           /\ step[c] = "readTask" /\ Br!MyTask(c).status # "PENDING" => s = "failed"
    BY <1>7 DEF Br!DebitSource, Br!CreditTarget, Br!ReadTask, Br!To, Br!history
  <2> QED
    BY <1>2, <2>1 DEF Br!Running, Br!Ended
<1>8. CASE Br!DeadlockVictim(c) \/ Br!Crash(c)
  <2>1. PICK s \in {"failed", "crashed"} :
           /\ step' = [step EXCEPT ![c] = s] /\ UNCHANGED <<task, todo, prior, ask, seen>>
    BY <1>8 DEF Br!DeadlockVictim, Br!Crash, Br!Abort, Br!To, Br!history
  <2>2. c \in Br!Running
    BY <1>8 DEF Br!DeadlockVictim, Br!Crash, Br!Blocked, Br!Running, Br!Ended
  <2> QED
    BY <1>2, <2>1, <2>2
<1>9. CASE Br!Snapshot(c) \/ Br!Look(c)
  <2>1. /\ step[c] \in {"snapshot", "look"} /\ UNCHANGED <<task, prior, ask>>
        /\ \A d \in Calls \ {c} : seen'[d] = seen[d] /\ todo'[d] = todo[d]
    BY <1>9 DEF Br!Snapshot, Br!Look, Br!history, BridgeInv, Br!TypeOK
  <2>2. PICK s \in {"look", "done", "plan"} :
           /\ step' = [step EXCEPT ![c] = s]
           /\ s = "plan" => ~Br!Pending(Br!Neediest(c)) /\ UNCHANGED <<todo, seen>>
    <3>1. step' = step /\ step[c] = "look" => step' = [step EXCEPT ![c] = "look"]
      BY DEF BridgeInv, Br!TypeOK
    <3> QED
      BY <1>9, <3>1 DEF Br!Snapshot, Br!Look, Br!To
  <2>3. ask[c].kind = "net"
    BY <1>1, <2>1 DEF KindInv
  <2> QED
    BY <2>1, <2>2, <2>3 DEF Moves, Br!Running, Br!Ended
<1>10. CASE Br!PlanTask(c)
  <2>1. /\ step[c] = "plan" /\ step' = [step EXCEPT ![c] = "look"] /\ UNCHANGED <<prior, ask, seen>>
        /\ \A d \in Calls \ {c} : todo'[d] = todo[d]
    BY <1>10 DEF Br!PlanTask, Br!To, Br!history, BridgeInv, Br!TypeOK
  <2>2. Br!Neediest(c) \in Facs /\ task[c][Br!Neediest(c)].status = "none"
    <3>1. todo[c] # {} /\ todo[c] \subseteq Facs /\ \A f \in todo[c] : task[c][f].status = "none"
      BY <1>1, <2>1 DEF NetInv, BridgeInv, Br!TypeOK
    <3> QED
      BY <3>1, NeediestLeft
  <2>3. \E t : task' = [task EXCEPT ![c][Br!Neediest(c)] = t]
    BY <1>10 DEF Br!PlanTask
  <2>4. \A d \in Calls : \A f \in Facs :
           task'[d][f].status = task[d][f].status \/ (d = c /\ f = Br!Neediest(c))
    BY <2>2, <2>3 DEF BridgeInv, Br!TypeOK
  <2> QED
    BY <2>1, <2>2, <2>4 DEF Moves, Br!Running, Br!Ended
<1>11. CASE Br!CloseTask(c)
  <2>1. PICK st \in Closed :
           /\ task' = [task EXCEPT ![ask[c].run][ask[c].b].status = st]
           /\ step[c] = "close" /\ step' = [step EXCEPT ![c] = "done"]
           /\ UNCHANGED <<prior, ask, seen, todo>>
    BY <1>11, Zenon DEF Br!CloseTask, Br!To, Br!history, Closed
  <2>2. ask[c].run \in Calls /\ ask[c].b \in Facs /\ task[ask[c].run][ask[c].b].status # "none"
    BY <1>1, <2>1 DEF KindInv, NetInv, Br!MyTask, Br!Requests
  <2>3. /\ \A d \in Calls : \A f \in Facs :
              \/ task'[d][f].status = task[d][f].status
              \/ task[d][f].status # "none" /\ task'[d][f].status \in Closed
        /\ task'[ask[c].run][ask[c].b].status = st
    BY <2>1, <2>2 DEF BridgeInv, Br!TypeOK
  <2> QED
    BY <2>1, <2>3, Zenon DEF Moves, Br!MyTask, Br!Running, Br!Ended
<1> QED
  BY <1>3, <1>4, <1>5, <1>6, <1>7, <1>8, <1>9, <1>10, <1>11 DEF Br!Step

\* A request begins after those that are done.
LEMMA PriorBegin ==
  ASSUME BridgeInv, Br!BridgeAssumption, PriorInv, NEW c \in Calls, Br!Begin(c)
  PROVE  PriorInv'
<1>1. PICK r \in Menu[c] :
         /\ r.run # Nobody => task[r.run][r.b].status # "none"
         /\ ask' = [ask EXCEPT ![c] = r] /\ step' = [step EXCEPT ![c] = Br!FirstStep(r.kind)]
  BY DEF Br!Begin, Br!To
<1>2. /\ step[c] = "idle" /\ prior' = [prior EXCEPT ![c] = {d \in Calls : step[d] = "done"}]
      /\ UNCHANGED <<seen, task, todo>>
  BY DEF Br!Begin
<1>3. /\ r.kind \in Br!Kinds /\ \A f \in Facs : task[c][f].status = "none"
      /\ \A d \in Calls : prior[d] \subseteq Calls
  BY <1>2 DEF Br!BridgeAssumption, Br!Requests, BridgeInv, NetInv, Br!TypeOK
<1>4. /\ Br!FirstStep(r.kind) \in {"route", "readRow", "snapshot", "insert", "readTask"}
      /\ r.kind = "complete" => Br!FirstStep(r.kind) = "readTask"
  BY <1>3 DEF Br!FirstStep, Br!Kinds
<1>5. /\ ask'[c] = r /\ step'[c] = Br!FirstStep(r.kind)
      /\ prior'[c] = {d \in Calls : step[d] = "done"}
      /\ \A d \in Calls \ {c} : ask'[d] = ask[d] /\ step'[d] = step[d] /\ prior'[d] = prior[d]
  BY <1>1, <1>2 DEF BridgeInv, Br!TypeOK
<1>6. \A b \in Calls \ {c} : c \notin prior[b]
  BY <1>2 DEF PriorInv
<1>7. \A b \in Calls : /\ step'[b] = "idle" => prior'[b] = {}
                       /\ \A d \in prior'[b] : step'[d] = "done"
  <2>1. \A d \in prior'[c] : d \in Calls \ {c} /\ step'[d] = "done"
    BY <1>2, <1>5
  <2> QED
    BY <1>3, <1>4, <1>5, <1>6, <2>1 DEF PriorInv
<1>8. \A b \in Calls : step'[b] = "plan" =>
         \A d \in prior'[b] : task'[d][Br!Neediest(b)'].status # "PENDING"
  <2>1. \A b \in Calls : Br!Neediest(b)' = Br!Neediest(b)
    BY <1>2 DEF Br!Neediest
  <2> QED
    BY <1>2, <1>4, <1>5, <2>1 DEF PriorInv
<1>9. \A a \in Calls : step'[a] = "done" /\ ask'[a].kind \in {"complete", "cancel"} =>
         Br!MyTask(a)'.status \in Closed
  BY <1>2, <1>4, <1>5 DEF PriorInv, Br!MyTask
<1>10. Br!NoDuplicateTasks'
  BY <1>2, <1>3, <1>5 DEF PriorInv, Br!NoDuplicateTasks
<1>11. Br!NoLateTransfer'
  BY <1>2, <1>4, <1>5, <1>6 DEF PriorInv, Br!NoLateTransfer
<1> QED
  BY <1>7, <1>8, <1>9, <1>10, <1>11 DEF PriorInv

\* Every step of a bridge, funding or netting call keeps the account of the tasks.
LEMMA PriorInvariance ==
  ASSUME Br!BridgeAssumption
  PROVE  Br!Spec => []PriorInv
<1>1. Br!Init => PriorInv
  BY DEF Br!Init, PriorInv, Br!NoDuplicateTasks, Br!NoLateTransfer
<1>2. BridgeInv /\ PriorInv /\ [Br!Next]_Br!bridgeVars => PriorInv'
  <2>1. ASSUME BridgeInv, PriorInv, Br!Next PROVE PriorInv'
    <3>1. PICK c \in Calls : Br!Begin(c) \/ Br!Step(c) \/ Br!Crash(c)
      BY <2>1 DEF Br!Next
    <3>2. CASE Br!Begin(c)
      BY <2>1, <3>2, PriorBegin
    <3>3. CASE Br!Step(c) \/ Br!Crash(c)
      BY <2>1, <3>3, StepMoves, PriorStep
    <3> QED
      BY <3>1, <3>2, <3>3
  <2>2. ASSUME PriorInv, UNCHANGED Br!bridgeVars PROVE PriorInv'
    <3>1. UNCHANGED <<step, ask, seen, task, todo, prior>>
      BY <2>2 DEF Br!bridgeVars, Br!history
    <3>2. \A c \in Calls : Br!Neediest(c)' = Br!Neediest(c) /\ Br!MyTask(c)' = Br!MyTask(c)
      BY <3>1 DEF Br!Neediest, Br!MyTask
    <3> QED
      BY <2>2, <3>1, <3>2 DEF PriorInv, Br!NoDuplicateTasks, Br!NoLateTransfer
  <2> QED
    BY <2>1, <2>2
<1> QED
  BY <1>1, <1>2, BridgeInvariance, PTL DEF Br!Spec

\* A target with an open task gets a second one only from runs that overlapped.
THEOREM OneOpenTask ==
  ASSUME Br!BridgeAssumption
  PROVE  Br!Spec => []Br!NoDuplicateTasks
<1>1. PriorInv => Br!NoDuplicateTasks
  BY DEF PriorInv
<1> QED
  BY <1>1, PriorInvariance, PTL

\* A task that a call has closed is not applied by one that begins later.
THEOREM ClosedTaskStays ==
  ASSUME Br!BridgeAssumption
  PROVE  Br!Spec => []Br!NoLateTransfer
<1>1. PriorInv => Br!NoLateTransfer
  BY DEF PriorInv
<1> QED
  BY <1>1, PriorInvariance, PTL

-----------------------------------------------------------------------------
(* Settlement records.                                                      *)

References == {<<>>} \cup (Trades \X {"debit", "credit", "both"})

\* The records of a trade are made together, once.
RecordShape ==
    /\ record \in [St!Records -> {"none", "pending", "completed", "expired"}]
    /\ matched \subseteq Trades /\ old \subseteq Trades /\ known \in [Hooks -> BOOLEAN]
    /\ hook \in [Hooks -> {"idle", "find", "update", "done", "failed"}]
    /\ ref \in [Hooks -> References] /\ toUpdate \in [Hooks -> SUBSET St!Records]
    /\ \A t \in matched : \A r \in St!Records : r[1] = t => record[r] = "none"
    /\ \A r, q \in St!Records : r[1] = q[1] => (record[r] = "none" <=> record[q] = "none")

\* A delivery whose records existed finds them all, and has completed those it has not
\* left.
HookShape(h) ==
    /\ hook[h] \in {"idle", "find"} => toUpdate[h] = {}
    /\ toUpdate[h] \subseteq St!Of(h)
    /\ hook[h] # "idle" /\ known[h] =>
          \A r \in St!Records : St!Reference(r) = ref[h] =>
             /\ record[r] # "none"
             /\ hook[h] = "update" => r \in toUpdate[h] \/ record[r] = "completed"
             /\ hook[h] = "done" => record[r] = "completed"

SettleInv == RecordShape /\ \A h \in Hooks : HookShape(h)

\* Records of one reference are of one trade.
LEMMA OneTrade ==
  ASSUME NEW r \in St!Records, NEW q \in St!Records, St!Reference(r) = St!Reference(q)
  PROVE  r[1] = q[1]
<1>1. /\ r = <<r[1], r[2]>> /\ q = <<q[1], q[2]>>
      /\ r[2] \in {"debit", "credit"} /\ q[2] \in {"debit", "credit"}
  BY DEF St!Records
<1>2. <<r[1], "both">> = <<q[1], "both">> => r[1] = q[1]
  OBVIOUS
<1>3. r # <<q[1], "both">> /\ q # <<r[1], "both">>
  BY <1>1
<1> QED
  BY <1>2, <1>3 DEF St!Reference

\* A record's reference is one.
LEMMA ReferenceIs ==
  ASSUME NEW r \in St!Records
  PROVE  St!Reference(r) \in References
BY DEF St!Records, St!Reference, References

\* A step that only completes records, makes those of a trade or expires pending ones
\* takes no confirmed record back, and leaves the deliveries that it does not move.
LEMMA HooksKept ==
  ASSUME SettleInv, NEW h \in Hooks, RecordShape',
         hook'[h] = hook[h], ref'[h] = ref[h], toUpdate'[h] = toUpdate[h], known'[h] = known[h],
         \A r \in St!Records : /\ record[r] # "none" => record'[r] # "none"
                               /\ record[r] = "completed" => record'[r] = "completed"
  PROVE  HookShape(h)'
BY DEF SettleInv, HookShape, RecordShape, St!Of

\* Every step of the settlement records keeps the invariant.
LEMMA SettleStep ==
  ASSUME SettleInv, St!SettlementAssumption, St!Next
  PROVE  /\ SettleInv'
         /\ \A r \in St!Records : record[r] = "completed" => record'[r] = "completed"
<1>1. CASE \E t \in Trades : St!CreateSettlement(t)
  <2>1. PICK t \in Trades : St!CreateSettlement(t)
    BY <1>1
  <2>2. /\ UNCHANGED <<old, hook, ref, toUpdate, known>> /\ t \in matched
        /\ matched' = matched \ {t}
        /\ \A r \in St!Records : /\ r[1] # t => record'[r] = record[r]
                                 /\ record[r] # "none" => record'[r] = record[r]
    BY <2>1 DEF St!CreateSettlement, SettleInv, RecordShape
  <2>3. RecordShape'
    <3>1. \/ record' = record
          \/ record' = [r \in St!Records |-> IF r[1] = t THEN "pending" ELSE record[r]]
      BY <2>1 DEF St!CreateSettlement
    <3> QED
      BY <2>2, <3>1 DEF SettleInv, RecordShape
  <2> QED
    BY <2>2, <2>3, HooksKept DEF SettleInv
<1>2. CASE \E h \in Hooks : St!Deliver(h)
  <2>1. PICK h \in Hooks : St!Deliver(h)
    BY <1>2
  <2>2. PICK r \in St!Records :
           /\ hook[h] = "idle" /\ hook' = [hook EXCEPT ![h] = "find"]
           /\ ref' = [ref EXCEPT ![h] = St!Reference(r)]
           /\ known' = [known EXCEPT ![h] = record[r] # "none"]
           /\ UNCHANGED <<matched, record, old, toUpdate>>
    BY <2>1 DEF St!Deliver
  <2>3. RecordShape'
    BY <2>2, ReferenceIs DEF SettleInv, RecordShape
  <2>4. HookShape(h)'
    <3>1. /\ hook'[h] = "find" /\ ref'[h] = St!Reference(r) /\ toUpdate'[h] = {}
          /\ known'[h] <=> record[r] # "none"
      BY <2>2 DEF SettleInv, RecordShape, HookShape
    <3>2. known'[h] => \A q \in St!Records : St!Reference(q) = St!Reference(r) => record[q] # "none"
      BY <3>1, OneTrade DEF SettleInv, RecordShape
    <3> QED
      BY <2>2, <3>1, <3>2 DEF HookShape
  <2>5. \A g \in Hooks \ {h} : HookShape(g)'
    BY <2>2, <2>3, HooksKept DEF SettleInv, RecordShape
  <2> QED
    BY <2>2, <2>3, <2>4, <2>5 DEF SettleInv
<1>3. CASE \E h \in Hooks : St!Find(h) \/ St!Fail(h)
  <2>1. PICK h \in Hooks : St!Find(h) \/ St!Fail(h)
    BY <1>3
  <2>2. PICK s \in {"done", "update", "failed"} :
           /\ hook[h] \in {"find", "update"} /\ hook' = [hook EXCEPT ![h] = s]
           /\ UNCHANGED <<matched, record, old, ref, known>>
           /\ \/ toUpdate' = toUpdate /\ s = "failed"
              \/ toUpdate' = [toUpdate EXCEPT ![h] = St!Of(h)] /\ (s = "done" <=> St!Of(h) = {})
    BY <2>1 DEF St!Find, St!Fail
  <2>3. St!Of(h) \subseteq St!Records /\ St!Of(h)' = St!Of(h)
    BY <2>2 DEF St!Of
  <2>4. RecordShape'
    BY <2>2, <2>3 DEF SettleInv, RecordShape
  <2>5. HookShape(h)'
    <3>1. /\ hook'[h] = s /\ toUpdate'[h] \in {toUpdate[h], St!Of(h)}
          /\ s = "failed" \/ (toUpdate'[h] = St!Of(h) /\ (s = "done" <=> St!Of(h) = {}))
      BY <2>2 DEF SettleInv, RecordShape
    <3> QED
      BY <2>2, <2>3, <3>1 DEF SettleInv, HookShape, St!Of
  <2>6. \A g \in Hooks \ {h} : HookShape(g)'
    BY <2>2, <2>4, HooksKept DEF SettleInv, RecordShape
  <2> QED
    BY <2>2, <2>4, <2>5, <2>6 DEF SettleInv
<1>4. CASE \E h \in Hooks : St!UpdateRecord(h)
  <2>1. PICK h \in Hooks : St!UpdateRecord(h)
    BY <1>4
  <2>2. PICK r \in toUpdate[h] :
           /\ hook[h] = "update" /\ record' = [record EXCEPT ![r] = "completed"]
           /\ toUpdate' = [toUpdate EXCEPT ![h] = @ \ {r}]
           /\ hook' = [hook EXCEPT ![h] = IF toUpdate[h] = {r} THEN "done" ELSE "update"]
           /\ UNCHANGED <<matched, old, ref, known>>
    BY <2>1 DEF St!UpdateRecord
  <2>3. /\ r \in St!Records /\ record[r] # "none"
        /\ record'[r] = "completed" /\ \A q \in St!Records \ {r} : record'[q] = record[q]
        /\ toUpdate'[h] = toUpdate[h] \ {r}
        /\ hook'[h] = IF toUpdate[h] = {r} THEN "done" ELSE "update"
        /\ \A g \in Hooks \ {h} : hook'[g] = hook[g] /\ toUpdate'[g] = toUpdate[g]
    BY <2>2 DEF SettleInv, RecordShape, HookShape, St!Of
  <2>4. RecordShape'
    BY <2>2, <2>3 DEF SettleInv, RecordShape
  <2>5. HookShape(h)'
    BY <2>2, <2>3 DEF SettleInv, HookShape, St!Of
  <2>6. \A g \in Hooks \ {h} : HookShape(g)'
    BY <2>2, <2>3, <2>4, HooksKept
  <2> QED
    BY <2>2, <2>3, <2>4, <2>5, <2>6 DEF SettleInv
<1>5. CASE \E t \in Trades : St!GrowOld(t)
  <2>1. UNCHANGED <<matched, record, hook, ref, toUpdate, known>> /\ old' \subseteq Trades
    BY <1>5 DEF St!GrowOld, SettleInv, RecordShape
  <2>2. RecordShape'
    BY <2>1 DEF SettleInv, RecordShape
  <2> QED
    BY <2>1, <2>2, HooksKept DEF SettleInv
<1>6. CASE St!ExpireStaleSettlements
  <2>1. /\ UNCHANGED <<matched, old, hook, ref, toUpdate, known>>
        /\ record' \in [St!Records -> {"none", "pending", "completed", "expired"}]
        /\ \A r \in St!Records : \/ record'[r] = record[r]
                                 \/ record[r] = "pending" /\ record'[r] = "expired"
    BY <1>6 DEF St!ExpireStaleSettlements, SettleInv, RecordShape
  <2>2. RecordShape'
    BY <2>1 DEF SettleInv, RecordShape
  <2>3. \A r \in St!Records : /\ record[r] # "none" => record'[r] # "none"
                              /\ record[r] = "completed" => record'[r] = "completed"
    BY <2>1
  <2> QED
    BY <2>1, <2>2, <2>3, HooksKept DEF SettleInv
<1> QED
  BY <1>1, <1>2, <1>3, <1>4, <1>5, <1>6 DEF St!Next

\* The settlement records keep the invariant.
LEMMA SettleInvariance ==
  ASSUME St!SettlementAssumption
  PROVE  St!Spec => []SettleInv
<1>1. St!Init => SettleInv
  BY DEF St!Init, SettleInv, RecordShape, HookShape, References, St!Of
<1>2. SettleInv /\ [St!Next]_St!settleVars => SettleInv'
  <2>1. ASSUME SettleInv, UNCHANGED St!settleVars PROVE SettleInv'
    <3>1. UNCHANGED <<matched, record, old, hook, ref, toUpdate, known>>
      BY <2>1 DEF St!settleVars
    <3>2. \A h \in Hooks : St!Of(h)' = St!Of(h)
      BY <3>1 DEF St!Of
    <3> QED
      BY <2>1, <3>1, <3>2 DEF SettleInv, RecordShape, HookShape
  <2> QED
    BY <2>1, SettleStep
<1> QED
  BY <1>1, <1>2, PTL DEF St!Spec

\* A delivery answered with success has completed every record of its reference, if they
\* existed when it arrived.
THEOREM SuccessCompletes ==
  ASSUME St!SettlementAssumption
  PROVE  St!Spec => []St!SuccessMeansCompleted
<1>1. SettleInv => St!SuccessMeansCompleted
  BY DEF SettleInv, HookShape, St!SuccessMeansCompleted
<1> QED
  BY <1>1, SettleInvariance, PTL

\* What the facilitator has confirmed stays confirmed.
THEOREM ConfirmedIsFinal ==
  ASSUME St!SettlementAssumption
  PROVE  St!Spec => St!CompletedIsFinal
<1>1. SettleInv /\ St!Next =>
         \A r \in St!Records : record[r] = "completed" => record'[r] = "completed"
  BY SettleStep
<1> QED
  BY <1>1, SettleInvariance, PTL DEF St!Spec, St!CompletedIsFinal

-----------------------------------------------------------------------------
(* The balance cache.                                                       *)

\* Unless an invalidation has met a fetch or found no Redis, what is cached and what a
\* reader is about to write is as new as the last change announced.
CacheInv ==
    /\ Ca!TypeOK /\ Ca!ShownIsAnnounced
    /\ \A r \in Readers : asOf[r] <= announced /\ (reader[r] # "done" => shown[r] = Empty)
    /\ ~raced =>
          /\ cached \in Nat => cached >= announced
          /\ \A r \in Readers : reader[r] = "write" /\ holds[r] \in Nat => holds[r] >= announced

\* Every step of the cache keeps the invariant.
LEMMA CacheStep ==
  ASSUME CacheInv, Ca!CacheAssumption, Ca!Next
  PROVE  CacheInv'
<1>1. /\ real \in Nat /\ announced \in Nat /\ announced <= real /\ Changes \in Nat
      /\ Empty \notin Nat /\ NoAnswer \notin Nat
      /\ \A r \in Readers : asOf[r] \in Nat
  BY DEF CacheInv, Ca!TypeOK, Ca!CacheAssumption
<1>2. CASE \E h \in Hooks : Ca!Move(h)
  BY <1>1, <1>2 DEF CacheInv, Ca!TypeOK, Ca!ShownIsAnnounced, Ca!Move
<1>3. CASE \E h \in Hooks : Ca!InvalidateCache(h)
  <2>1. /\ announced' = real /\ UNCHANGED <<real, reader, holds, shown, asOf>>
        /\ hooked' \in [Hooks -> {"idle", "delivered", "done"}]
        /\ \/ cached' = Empty /\ raced' = (raced \/ Ca!Fetching)
           \/ raced' = TRUE /\ cached' = cached
    BY <1>3 DEF Ca!InvalidateCache, CacheInv, Ca!TypeOK
  <2>2. Ca!TypeOK'
    <3>1. raced' \in BOOLEAN
      <4>1. (raced \/ Ca!Fetching) \in BOOLEAN
        BY DEF CacheInv, Ca!TypeOK
      <4> QED
        BY <2>1, <4>1
    <3>2. cached' \in 0..real \cup {Empty, NoAnswer} /\ real \in 0..real
      BY <1>1, <2>1 DEF CacheInv, Ca!TypeOK
    <3> QED
      BY <2>1, <3>1, <3>2 DEF CacheInv, Ca!TypeOK
  <2>3. \A r \in Readers : asOf[r] <= real /\ (reader[r] # "done" => shown[r] = Empty)
    BY <1>1 DEF CacheInv
  <2>4. ~raced' => ~raced /\ cached' = Empty /\ \A r \in Readers : reader[r] # "write"
    BY <2>1 DEF Ca!Fetching
  <2> QED
    BY <1>1, <2>1, <2>2, <2>3, <2>4 DEF CacheInv, Ca!ShownIsAnnounced
<1>4. CASE \E r \in Readers : Ca!ReadCache(r)
  <2>1. PICK r \in Readers : Ca!ReadCache(r)
    BY <1>4
  <2>2. /\ reader[r] = "idle" /\ asOf' = [asOf EXCEPT ![r] = announced]
        /\ UNCHANGED <<real, cached, holds, hooked, announced, raced>>
        /\ \/ shown' = [shown EXCEPT ![r] = cached] /\ reader' = [reader EXCEPT ![r] = "done"]
           \/ shown' = shown /\ reader' = [reader EXCEPT ![r] = "fetch"]
    BY <2>1 DEF Ca!ReadCache
  <2>3. Ca!TypeOK'
    BY <1>1, <2>2 DEF CacheInv, Ca!TypeOK
  <2>4. /\ asOf'[r] = announced /\ \A q \in Readers \ {r} :
              asOf'[q] = asOf[q] /\ shown'[q] = shown[q] /\ reader'[q] = reader[q]
        /\ \/ shown'[r] = cached /\ reader'[r] = "done"
           \/ shown'[r] = Empty /\ reader'[r] = "fetch"
    BY <2>2 DEF CacheInv, Ca!TypeOK
  <2>5. Ca!ShownIsAnnounced'
    BY <1>1, <2>2, <2>4 DEF CacheInv, Ca!ShownIsAnnounced
  <2>6. \A q \in Readers : asOf'[q] <= announced' /\ (reader'[q] # "done" => shown'[q] = Empty)
    BY <1>1, <2>2, <2>4 DEF CacheInv
  <2> QED
    BY <2>2, <2>3, <2>4, <2>5, <2>6 DEF CacheInv
<1>5. CASE \E r \in Readers : Ca!Fetch(r)
  BY <1>1, <1>5 DEF CacheInv, Ca!TypeOK, Ca!ShownIsAnnounced, Ca!Fetch
<1>6. CASE \E r \in Readers : Ca!WriteCache(r)
  <2>1. PICK r \in Readers : Ca!WriteCache(r)
    BY <1>6
  <2>2. /\ reader[r] = "write" /\ cached' \in {cached, holds[r]}
        /\ shown' = [shown EXCEPT ![r] = holds[r]] /\ reader' = [reader EXCEPT ![r] = "done"]
        /\ UNCHANGED <<real, holds, asOf, hooked, announced, raced>>
    BY <2>1 DEF Ca!WriteCache
  <2>3. Ca!TypeOK'
    BY <1>1, <2>2 DEF CacheInv, Ca!TypeOK
  <2>4. /\ shown'[r] = holds[r] /\ reader'[r] = "done" /\ holds[r] \in Nat \cup {NoAnswer}
        /\ \A q \in Readers \ {r} : shown'[q] = shown[q] /\ reader'[q] = reader[q]
    BY <1>1, <2>2 DEF CacheInv, Ca!TypeOK
  <2>5. Ca!ShownIsAnnounced'
    BY <1>1, <2>2, <2>4 DEF CacheInv, Ca!ShownIsAnnounced
  <2> QED
    BY <1>1, <2>2, <2>3, <2>4, <2>5 DEF CacheInv
<1>7. CASE Ca!Expire
  BY <1>1, <1>7 DEF CacheInv, Ca!TypeOK, Ca!ShownIsAnnounced, Ca!Expire
<1> QED
  BY <1>2, <1>3, <1>4, <1>5, <1>6, <1>7 DEF Ca!Next

\* A behaviour of the balance cache keeps its invariant.
LEMMA CacheInvariance ==
  ASSUME Ca!CacheAssumption
  PROVE  Ca!Spec => []CacheInv
<1>1. Ca!Init => CacheInv
  <2> SUFFICES ASSUME Ca!Init PROVE CacheInv
    OBVIOUS
  <2>1. Ca!TypeOK
    <3>1. 0 \in 0..Changes /\ 0 \in 0..0
      BY DEF Ca!CacheAssumption
    <3>2. /\ real = 0 /\ announced = 0 /\ cached = Empty /\ raced \in BOOLEAN
          /\ reader \in [Readers -> {"idle", "fetch", "write", "done"}]
          /\ hooked \in [Hooks -> {"idle", "delivered", "done"}]
      BY DEF Ca!Init
    <3>3. /\ holds \in [Readers -> 0..0 \cup {NoAnswer}] /\ asOf \in [Readers -> 0..0]
          /\ shown \in [Readers -> 0..0 \cup {Empty, NoAnswer}]
      BY <3>1 DEF Ca!Init
    <3> QED
      BY <3>1, <3>2, <3>3 DEF Ca!TypeOK
  <2>2. \A r \in Readers : asOf[r] = 0 /\ shown[r] = Empty /\ reader[r] = "idle"
    BY DEF Ca!Init
  <2>3. cached = Empty /\ announced = 0 /\ Empty \notin Nat
    BY DEF Ca!Init, Ca!CacheAssumption
  <2> QED
    BY <2>1, <2>2, <2>3 DEF CacheInv, Ca!ShownIsAnnounced
<1>2. CacheInv /\ [Ca!Next]_Ca!cacheVars => CacheInv'
  <2>1. CacheInv /\ UNCHANGED Ca!cacheVars => CacheInv'
    BY DEF CacheInv, Ca!TypeOK, Ca!ShownIsAnnounced, Ca!cacheVars
  <2> QED
    BY <2>1, CacheStep
<1> QED
  BY <1>1, <1>2, PTL DEF Ca!Spec

\* A balance shown is as new as the last change announced before it was asked for, unless
\* an invalidation ran into a fetch or found no Redis.
THEOREM ShownAnnounced ==
  ASSUME Ca!CacheAssumption
  PROVE  Ca!Spec => []Ca!ShownIsAnnounced
<1>1. CacheInv => Ca!ShownIsAnnounced
  BY DEF CacheInv
<1> QED
  BY <1>1, CacheInvariance, PTL

-----------------------------------------------------------------------------
(* Ticks of the AI participant.                                             *)

\* Slots of all venues, and of none in particular; the open orders of a slot, and all.
General == Ai!At({Anywhere})
AtVenues == Ai!At(Venues)
OrdersIn(s) == fresh[s] + aged[s]
AllIn(s) == OrdersIn(s) + shut[s] + shutAged[s]

\* No slot has more orders than were placed in all; the breaker counts every order.
AiCounts ==
    /\ \A s \in Ai!Slots : AllIn(s) <= total
    /\ placed <= total /\ placed <= count /\ placed < PerMinute

\* While ticks do not overlap, one at most is busy; a venue's slot that it has to fill, or
\* that it saw empty, has only orders that the bridge opened again.
AloneShape ==
    /\ \A t, u \in Ai!Busy : t = u
    /\ \A t \in Ticks : tick[t] = "standing" =>
          /\ missing[t] \subseteq General
          /\ \A s \in AtVenues \ had[t] : OrdersIn(s) <= revived[s]
    /\ \A t \in Ticks : tick[t] = "bridging" =>
          \A s \in missing[t] \cap AtVenues : OrdersIn(s) <= revived[s]
    /\ Ai!OneStandingOrder

\* What a tick answers for is open, lost since it looked, or still to be filled.
LookedShape(t) ==
    /\ tick[t] = "idle" => missing[t] = {} /\ vouched[t] = {}
    /\ tick[t] = "standing" => /\ General \subseteq Ai!Open \cup lost[t] \cup missing[t]
                               /\ had[t] \subseteq Ai!Open \cup lost[t]
    /\ tick[t] = "bridging" => Ai!At(vouched[t]) \subseteq Ai!Open \cup lost[t] \cup missing[t]
    /\ tick[t] = "inventory" => Ai!At(vouched[t]) \subseteq Ai!Open \cup lost[t]

AiInv ==
    /\ Ai!TypeOK /\ AiCounts
    /\ ~overlapped => AloneShape
    /\ \A t \in Ticks : LookedShape(t)

\* Slots are those of venues and the general ones, and no slot is both.
LEMMA SlotsAre ==
  ASSUME Ai!AiAssumption
  PROVE  /\ General \subseteq Ai!Slots /\ AtVenues \subseteq Ai!Slots
         /\ General \cap AtVenues = {}
         /\ \A b \in SUBSET Venues : /\ Ai!At(b) \subseteq AtVenues
                                     /\ Ai!At({Anywhere} \cup b) = General \cup Ai!At(b)
         /\ \A w \in Ai!Sides : <<w, Anywhere>> \in General
BY DEF General, AtVenues, Ai!At, Ai!Slots, Ai!AiAssumption

\* Orders are numbers; an open slot has one.
LEMMA OrdersAre ==
  ASSUME Ai!TypeOK, Ai!AiAssumption
  PROVE  /\ \A s \in Ai!Slots : /\ fresh[s] \in Nat /\ aged[s] \in Nat /\ OrdersIn(s) \in Nat
                                /\ shut[s] \in Nat /\ shutAged[s] \in Nat /\ AllIn(s) \in Nat
                                /\ revived[s] \in 0..MaxRevivals
         /\ \A s \in Ai!Slots : s \in Ai!Open <=> OrdersIn(s) > 0
         /\ Ai!Open \subseteq Ai!Slots /\ total \in Nat /\ placed \in Nat /\ count \in Nat
         /\ MaxPlaced \in Nat /\ MaxRevivals \in Nat
BY DEF Ai!TypeOK, Ai!AiAssumption, Ai!Counts, OrdersIn, AllIn, Ai!Open

\* Tables of orders are within the bound as long as their sums are.
LEMMA TablesFit ==
  ASSUME Ai!AiAssumption, total' \in 0..MaxPlaced,
         fresh' \in [Ai!Slots -> Nat], aged' \in [Ai!Slots -> Nat],
         shut' \in [Ai!Slots -> Nat], shutAged' \in [Ai!Slots -> Nat],
         \A s \in Ai!Slots : AllIn(s)' <= total'
  PROVE  /\ fresh' \in Ai!Counts /\ aged' \in Ai!Counts
         /\ shut' \in Ai!Counts /\ shutAged' \in Ai!Counts
<1>1. ASSUME NEW s \in Ai!Slots
      PROVE  /\ fresh'[s] \in 0..MaxPlaced /\ aged'[s] \in 0..MaxPlaced
             /\ shut'[s] \in 0..MaxPlaced /\ shutAged'[s] \in 0..MaxPlaced
  <2>1. fresh'[s] \in Nat /\ aged'[s] \in Nat /\ shut'[s] \in Nat /\ shutAged'[s] \in Nat
    OBVIOUS
  <2>2. fresh'[s] + aged'[s] + shut'[s] + shutAged'[s] <= total' /\ MaxPlaced \in Nat
    BY DEF AllIn, OrdersIn, Ai!AiAssumption
  <2> QED
    BY <2>1, <2>2
<1> QED
  BY <1>1 DEF Ai!Counts

\* Orders that move, with the ticks at rest: no slot gains an open one but by a revival,
\* and what a slot loses the ticks that look have lost.
LEMMA AiMoves ==
  ASSUME AiInv, Ai!AiAssumption, Ai!TypeOK',
         UNCHANGED <<total, tick, had, vouched, count, tripped, due, placed, overlapped>>,
         \A s \in Ai!Slots : /\ OrdersIn(s)' + revived[s] <= OrdersIn(s) + revived'[s]
                             /\ AllIn(s)' <= AllIn(s),
         \A t \in Ticks : /\ missing'[t] \subseteq missing[t]
                          /\ tick[t] \in {"standing", "bridging"} => missing'[t] = missing[t]
                          /\ lost[t] \subseteq lost'[t]
                          /\ tick[t] \in {"standing", "bridging", "inventory"} =>
                               Ai!Open \subseteq Ai!Open' \cup lost'[t]
  PROVE  AiInv'
<1>1. \A s \in Ai!Slots : /\ OrdersIn(s)' \in Nat /\ OrdersIn(s) \in Nat
                          /\ AllIn(s)' \in Nat /\ AllIn(s) \in Nat /\ AllIn(s) <= total
                          /\ revived[s] \in Nat /\ revived'[s] \in Nat /\ total \in Nat
  BY OrdersAre DEF AiInv, AiCounts, Ai!TypeOK, Ai!AiAssumption, OrdersIn, AllIn, Ai!Counts
<1>2. AiCounts'
  <2>1. \A s \in Ai!Slots : AllIn(s)' <= total
    BY <1>1
  <2> QED
    BY <2>1 DEF AiInv, AiCounts, Ai!Slots, Ai!Sides
<1>3. ~overlapped' => AloneShape'
  <2>1. SUFFICES ASSUME ~overlapped PROVE AloneShape'
    OBVIOUS
  <2>2. AloneShape
    BY <2>1 DEF AiInv
  <2>3. Ai!OneStandingOrder'
    <3>1. \A s \in AtVenues : OrdersIn(s) <= 1 + revived[s]
      BY <2>1, <2>2 DEF AloneShape, Ai!OneStandingOrder, AtVenues, OrdersIn
    <3>2. \A s \in AtVenues : OrdersIn(s)' <= 1 + revived'[s]
      BY <1>1, <3>1, SlotsAre
    <3> QED
      BY <3>2 DEF Ai!OneStandingOrder, AtVenues, OrdersIn
  <2>4. \A s \in AtVenues : OrdersIn(s) <= revived[s] => OrdersIn(s)' <= revived'[s]
    BY <1>1, SlotsAre
  <2> QED
    BY <2>2, <2>3, <2>4 DEF AloneShape, Ai!Busy, General, AtVenues, Ai!At, Ai!Sides
<1>4. \A t \in Ticks : LookedShape(t)'
  <2> TAKE t \in Ticks
  <2>1. LookedShape(t)
    BY DEF AiInv
  <2> QED
    BY <2>1 DEF LookedShape, General, Ai!At, Ai!Sides
<1> QED
  BY <1>2, <1>3, <1>4 DEF AiInv

\* What a slot's order leaves behind when it closes.
LEMMA ShutIs ==
  ASSUME NEW table \in [Ai!Slots -> Nat], NEW s \in Ai!Slots
  PROVE  /\ Ai!Shut(s, table) \in [Ai!Slots -> Nat]
         /\ \A r \in Ai!Slots : r # s => Ai!Shut(s, table)[r] = table[r]
         /\ Ai!Shut(s, table)[s] \in {table[s], table[s] + 1}
BY DEF Ai!Shut

\* One order of slot s is filled or cancelled.
LEMMA AiShuts ==
  ASSUME AiInv, Ai!AiAssumption, NEW s \in Ai!Slots,
         \/ /\ fresh[s] > 0 /\ fresh' = [fresh EXCEPT ![s] = fresh[s] - 1]
            /\ shut' = Ai!Shut(s, shut) /\ UNCHANGED <<aged, shutAged>>
         \/ /\ aged[s] > 0 /\ aged' = [aged EXCEPT ![s] = aged[s] - 1]
            /\ shutAged' = Ai!Shut(s, shutAged) /\ UNCHANGED <<fresh, shut>>,
         Ai!Lose(s),
         UNCHANGED <<revived, total, tick, had, missing, vouched, count, tripped, due, placed,
                     overlapped>>
  PROVE  AiInv'
<1>1. /\ fresh \in [Ai!Slots -> Nat] /\ aged \in [Ai!Slots -> Nat]
      /\ shut \in [Ai!Slots -> Nat] /\ shutAged \in [Ai!Slots -> Nat]
      /\ total \in 0..MaxPlaced
  BY DEF AiInv, Ai!TypeOK, Ai!Counts, Ai!AiAssumption
<1>2. lost' = [t \in Ticks |-> IF tick[t] \in {"standing", "bridging", "inventory"}
                               THEN lost[t] \cup {s} ELSE lost[t]]
  BY DEF Ai!Lose
<1>3. /\ fresh' \in [Ai!Slots -> Nat] /\ aged' \in [Ai!Slots -> Nat]
      /\ shut' \in [Ai!Slots -> Nat] /\ shutAged' \in [Ai!Slots -> Nat]
      /\ \A r \in Ai!Slots : r # s => /\ fresh'[r] = fresh[r] /\ aged'[r] = aged[r]
                                      /\ shut'[r] = shut[r] /\ shutAged'[r] = shutAged[r]
      /\ OrdersIn(s)' = OrdersIn(s) - 1 /\ AllIn(s)' <= AllIn(s)
  <2>1. CASE /\ fresh[s] > 0 /\ fresh' = [fresh EXCEPT ![s] = fresh[s] - 1]
             /\ shut' = Ai!Shut(s, shut) /\ UNCHANGED <<aged, shutAged>>
    <3>1. /\ shut' \in [Ai!Slots -> Nat] /\ \A r \in Ai!Slots : r # s => shut'[r] = shut[r]
          /\ shut'[s] \in {shut[s], shut[s] + 1}
      BY <1>1, <2>1, ShutIs
    <3>2. /\ fresh' \in [Ai!Slots -> Nat] /\ \A r \in Ai!Slots : r # s => fresh'[r] = fresh[r]
          /\ fresh'[s] = fresh[s] - 1
      BY <1>1, <2>1
    <3> QED
      BY <1>1, <2>1, <3>1, <3>2 DEF OrdersIn, AllIn
  <2>2. CASE /\ aged[s] > 0 /\ aged' = [aged EXCEPT ![s] = aged[s] - 1]
             /\ shutAged' = Ai!Shut(s, shutAged) /\ UNCHANGED <<fresh, shut>>
    <3>1. /\ shutAged' \in [Ai!Slots -> Nat]
          /\ \A r \in Ai!Slots : r # s => shutAged'[r] = shutAged[r]
          /\ shutAged'[s] \in {shutAged[s], shutAged[s] + 1}
      BY <1>1, <2>2, ShutIs
    <3>2. /\ aged' \in [Ai!Slots -> Nat] /\ \A r \in Ai!Slots : r # s => aged'[r] = aged[r]
          /\ aged'[s] = aged[s] - 1
      BY <1>1, <2>2
    <3> QED
      BY <1>1, <2>2, <3>1, <3>2 DEF OrdersIn, AllIn
  <2> QED
    BY <2>1, <2>2
<1>4. \A r \in Ai!Slots : r # s => OrdersIn(r)' = OrdersIn(r) /\ AllIn(r)' = AllIn(r)
  BY <1>3 DEF OrdersIn, AllIn
<1>5. \A r \in Ai!Slots : /\ OrdersIn(r)' + revived[r] <= OrdersIn(r) + revived'[r]
                          /\ AllIn(r)' <= AllIn(r) /\ AllIn(r)' <= total'
  <2> TAKE r \in Ai!Slots
  <2>1. OrdersIn(r) \in Nat /\ AllIn(r) \in Nat /\ revived[r] \in Nat /\ AllIn(r) <= total
    BY OrdersAre DEF AiInv, AiCounts
  <2>2. AllIn(r)' \in Nat
    BY <1>3 DEF AllIn, OrdersIn
  <2>3. CASE r = s
    BY <1>1, <1>3, <2>1, <2>2, <2>3
  <2>4. CASE r # s
    BY <1>1, <1>4, <2>1, <2>4
  <2> QED
    BY <2>3, <2>4
<1>6. Ai!TypeOK'
  <2>1. lost' \in [Ticks -> SUBSET Ai!Slots]
    BY <1>2 DEF AiInv, Ai!TypeOK
  <2>2. /\ fresh' \in Ai!Counts /\ aged' \in Ai!Counts
        /\ shut' \in Ai!Counts /\ shutAged' \in Ai!Counts
    BY <1>1, <1>3, <1>5, TablesFit
  <2> QED
    BY <2>1, <2>2 DEF AiInv, Ai!TypeOK, Ai!Counts, Ai!Slots, Ai!Sides
<1>7. \A t \in Ticks : tick[t] \in {"standing", "bridging", "inventory"} =>
         Ai!Open \subseteq Ai!Open' \cup lost'[t]
  BY <1>2, <1>4 DEF AiInv, Ai!TypeOK, Ai!Open, OrdersIn, Ai!Slots, Ai!Sides
<1>8. \A t \in Ticks : lost[t] \subseteq lost'[t]
  BY <1>2
<1> QED
  BY <1>5, <1>6, <1>7, <1>8, AiMoves

\* The bridge opens a closed order of slot s again.
LEMMA AiRevives ==
  ASSUME AiInv, Ai!AiAssumption, NEW s \in AtVenues, Ai!Revive(s)
  PROVE  AiInv'
<1>1. /\ UNCHANGED <<total, tick, had, missing, vouched, count, tripped, due, placed, lost,
                     overlapped>>
      /\ revived[s] < MaxRevivals /\ revived' = [revived EXCEPT ![s] = revived[s] + 1]
      /\ \/ /\ shut[s] > 0 /\ shut' = [shut EXCEPT ![s] = shut[s] - 1]
            /\ fresh' = [fresh EXCEPT ![s] = fresh[s] + 1] /\ UNCHANGED <<aged, shutAged>>
         \/ /\ shutAged[s] > 0 /\ shutAged' = [shutAged EXCEPT ![s] = shutAged[s] - 1]
            /\ aged' = [aged EXCEPT ![s] = aged[s] + 1] /\ UNCHANGED <<fresh, shut>>
  BY DEF Ai!Revive, Ai!breaker
<1>2. /\ fresh \in [Ai!Slots -> Nat] /\ aged \in [Ai!Slots -> Nat]
      /\ shut \in [Ai!Slots -> Nat] /\ shutAged \in [Ai!Slots -> Nat]
      /\ total \in 0..MaxPlaced /\ revived \in [Ai!Slots -> 0..MaxRevivals] /\ s \in Ai!Slots
  BY SlotsAre DEF AiInv, Ai!TypeOK, Ai!Counts, Ai!AiAssumption
<1>3. /\ fresh' \in [Ai!Slots -> Nat] /\ aged' \in [Ai!Slots -> Nat]
      /\ shut' \in [Ai!Slots -> Nat] /\ shutAged' \in [Ai!Slots -> Nat]
  BY <1>1, <1>2
<1>4. revived' \in [Ai!Slots -> 0..MaxRevivals] /\ revived'[s] = revived[s] + 1
      /\ \A r \in Ai!Slots : r # s => revived'[r] = revived[r]
  <2>1. revived[s] + 1 \in 0..MaxRevivals
    BY <1>1, <1>2 DEF Ai!AiAssumption
  <2> QED
    BY <1>1, <1>2, <2>1
<1>5. \A r \in Ai!Slots : /\ OrdersIn(r)' = OrdersIn(r) + revived'[r] - revived[r]
                          /\ AllIn(r)' = AllIn(r)
  <2> TAKE r \in Ai!Slots
  <2>1. /\ fresh[r] \in Nat /\ aged[r] \in Nat /\ shut[r] \in Nat /\ shutAged[r] \in Nat
        /\ revived[r] \in Nat
    BY <1>2, OrdersAre DEF AiInv
  <2>2. CASE r = s
    BY <1>1, <1>2, <1>4, <2>1, <2>2 DEF OrdersIn, AllIn
  <2>3. CASE r # s
    BY <1>1, <1>2, <1>4, <2>1, <2>3 DEF OrdersIn, AllIn
  <2> QED
    BY <2>2, <2>3
<1>6. \A r \in Ai!Slots : /\ OrdersIn(r)' + revived[r] <= OrdersIn(r) + revived'[r]
                          /\ AllIn(r)' <= AllIn(r) /\ AllIn(r)' <= total'
                          /\ OrdersIn(r) > 0 => OrdersIn(r)' > 0
  <2> TAKE r \in Ai!Slots
  <2>1. /\ OrdersIn(r) \in Nat /\ AllIn(r) \in Nat /\ revived[r] \in Nat /\ AllIn(r) <= total
        /\ revived'[r] \in Nat /\ revived'[r] >= revived[r]
    BY <1>2, <1>4, OrdersAre DEF AiInv, AiCounts
  <2> QED
    BY <1>1, <1>5, <2>1
<1>7. Ai!TypeOK'
  <2>1. /\ fresh' \in Ai!Counts /\ aged' \in Ai!Counts
        /\ shut' \in Ai!Counts /\ shutAged' \in Ai!Counts
    BY <1>1, <1>2, <1>3, <1>6, TablesFit
  <2> QED
    BY <1>1, <1>4, <2>1 DEF AiInv, Ai!TypeOK, Ai!Counts, Ai!Slots, Ai!Sides
<1>8. Ai!Open \subseteq Ai!Open'
  <2>1. \A r \in Ai!Slots : OrdersIn(r)' > 0 => r \in Ai!Open'
    BY DEF OrdersIn, Ai!Open, Ai!Slots, Ai!Sides
  <2> QED
    BY <1>6, <2>1, OrdersAre DEF AiInv
<1> QED
  BY <1>1, <1>6, <1>7, <1>8, AiMoves

\* Orders grow old.
LEMMA AiGrows ==
  ASSUME AiInv, Ai!AiAssumption, Ai!GrowAged
  PROVE  AiInv'
<1>1. /\ fresh' = Ai!Zero /\ aged' = [s \in Ai!Slots |-> aged[s] + fresh[s]]
      /\ shut' = Ai!Zero /\ shutAged' = [s \in Ai!Slots |-> shutAged[s] + shut[s]]
      /\ UNCHANGED <<revived, total, tick, had, missing, vouched, count, tripped, due, placed,
                     lost, overlapped>>
  BY DEF Ai!GrowAged, Ai!breaker
<1>2. \A s \in Ai!Slots : /\ fresh'[s] = 0 /\ aged'[s] = OrdersIn(s) /\ OrdersIn(s) \in Nat
                          /\ shut'[s] = 0 /\ shutAged'[s] = shutAged[s] + shut[s]
                          /\ shutAged'[s] \in Nat
                          /\ OrdersIn(s)' = OrdersIn(s) /\ AllIn(s)' = AllIn(s)
                          /\ AllIn(s) \in Nat /\ revived[s] \in Nat
  <2> TAKE s \in Ai!Slots
  <2>1. /\ fresh[s] \in Nat /\ aged[s] \in Nat /\ shut[s] \in Nat /\ shutAged[s] \in Nat
        /\ revived[s] \in Nat
    BY OrdersAre DEF AiInv
  <2>2. /\ fresh'[s] = 0 /\ aged'[s] = aged[s] + fresh[s]
        /\ shut'[s] = 0 /\ shutAged'[s] = shutAged[s] + shut[s]
    BY <1>1 DEF Ai!Zero
  <2> QED
    BY <2>1, <2>2 DEF OrdersIn, AllIn
<1>3. Ai!TypeOK'
  <2>1. /\ fresh' \in [Ai!Slots -> Nat] /\ aged' \in [Ai!Slots -> Nat]
        /\ shut' \in [Ai!Slots -> Nat] /\ shutAged' \in [Ai!Slots -> Nat]
    BY <1>1, <1>2 DEF Ai!Zero, OrdersIn
  <2>2. total' \in 0..MaxPlaced /\ \A s \in Ai!Slots : AllIn(s)' <= total'
    BY <1>1, <1>2 DEF AiInv, AiCounts, Ai!TypeOK
  <2>3. /\ fresh' \in Ai!Counts /\ aged' \in Ai!Counts
        /\ shut' \in Ai!Counts /\ shutAged' \in Ai!Counts
    BY <2>1, <2>2, TablesFit
  <2> QED
    BY <1>1, <2>3 DEF AiInv, Ai!TypeOK, Ai!Counts, Ai!Slots, Ai!Sides
<1>4. Ai!Open' = Ai!Open
  BY <1>2 DEF Ai!Open, OrdersIn, Ai!Slots, Ai!Sides
<1>5. \A s \in Ai!Slots : /\ OrdersIn(s)' + revived[s] <= OrdersIn(s) + revived'[s]
                          /\ AllIn(s)' <= AllIn(s)
  BY <1>1, <1>2
<1> QED
  BY <1>1, <1>3, <1>4, <1>5, AiMoves

\* The market, and a tick that cancels what has aged.
LEMMA AiMarket ==
  ASSUME AiInv, Ai!AiAssumption,
         \/ \E s \in Ai!Slots : Ai!Fill(s)
         \/ \E s \in Ai!At(Venues) : Ai!Revive(s)
         \/ Ai!GrowAged
         \/ \E t \in Ticks : Ai!CancelStale(t)
  PROVE  AiInv'
<1>1. ASSUME NEW s \in Ai!Slots, Ai!Fill(s)
      PROVE  AiInv'
  <2>1. UNCHANGED <<revived, total, tick, had, missing, vouched, count, tripped, due, placed,
                    overlapped>>
    BY <1>1 DEF Ai!Fill, Ai!breaker
  <2> QED
    BY <1>1, <2>1, AiShuts DEF Ai!Fill
<1>2. ASSUME NEW t \in Ticks, Ai!CancelStale(t)
      PROVE  AiInv'
  <2>1. /\ UNCHANGED <<revived, total, tick, had, vouched, count, tripped, due, placed,
                       overlapped, fresh, shut>>
        /\ tick[t] = "cancel"
    BY <1>2 DEF Ai!CancelStale, Ai!breaker
  <2>2. PICK s \in missing[t] :
           \/ /\ aged[s] > 0 /\ aged' = [aged EXCEPT ![s] = aged[s] - 1]
              /\ shutAged' = Ai!Shut(s, shutAged) /\ Ai!Lose(s) /\ missing' = missing
           \/ /\ missing' = [missing EXCEPT ![t] = missing[t] \ {s}]
              /\ UNCHANGED <<aged, shutAged, lost>>
    BY <1>2 DEF Ai!CancelStale
  <2>3. s \in Ai!Slots
    BY <2>2 DEF AiInv, Ai!TypeOK
  <2>4. CASE /\ aged[s] > 0 /\ aged' = [aged EXCEPT ![s] = aged[s] - 1]
             /\ shutAged' = Ai!Shut(s, shutAged) /\ Ai!Lose(s) /\ missing' = missing
    BY <2>1, <2>3, <2>4, AiShuts
  <2>5. CASE /\ missing' = [missing EXCEPT ![t] = missing[t] \ {s}]
             /\ UNCHANGED <<aged, shutAged, lost>>
    <3>1. missing' \in [Ticks -> SUBSET Ai!Slots]
      BY <2>5 DEF AiInv, Ai!TypeOK
    <3>2. Ai!TypeOK'
      BY <2>1, <2>5, <3>1 DEF AiInv, Ai!TypeOK, Ai!Counts, Ai!Slots, Ai!Sides
    <3>3. \A u \in Ticks : missing'[u] \subseteq missing[u] /\ (u # t => missing'[u] = missing[u])
      BY <2>5 DEF AiInv, Ai!TypeOK
    <3>4. \A r \in Ai!Slots : OrdersIn(r)' = OrdersIn(r) /\ AllIn(r)' = AllIn(r)
                              /\ OrdersIn(r) \in Nat /\ AllIn(r) \in Nat /\ revived[r] \in Nat
      BY <2>1, <2>5, OrdersAre DEF AiInv, OrdersIn, AllIn
    <3>5. \A r \in Ai!Slots : /\ OrdersIn(r)' + revived[r] <= OrdersIn(r) + revived'[r]
                              /\ AllIn(r)' <= AllIn(r)
      BY <2>1, <3>4
    <3>6. Ai!Open' = Ai!Open
      BY <2>1, <2>5 DEF Ai!Open, Ai!Slots, Ai!Sides
    <3> QED
      BY <2>1, <2>5, <3>2, <3>3, <3>5, <3>6, AiMoves
  <2> QED
    BY <2>2, <2>4, <2>5
<1> QED
  BY <1>1, <1>2, AiRevives, AiGrows DEF AtVenues

\* A tick looks at the open orders, or fails to.
LEMMA AiLook ==
  ASSUME AiInv, Ai!AiAssumption, NEW t \in Ticks, Ai!Look(t) \/ Ai!LookFails(t)
  PROVE  AiInv'
<1>1. /\ UNCHANGED <<fresh, aged, shut, shutAged, revived, total, vouched, count, tripped, due,
                     placed>>
      /\ lost' = [lost EXCEPT ![t] = {}] /\ tick[t] = "idle"
      /\ overlapped' = (overlapped \/ Ai!Busy # {})
      /\ \/ /\ had' = [had EXCEPT ![t] = Ai!Open] /\ tick' = [tick EXCEPT ![t] = "standing"]
            /\ missing' = [missing EXCEPT ![t] = General \ Ai!Open]
         \/ UNCHANGED <<had, missing>> /\ tick' = [tick EXCEPT ![t] = "bridging"]
  BY DEF Ai!Look, Ai!LookFails, Ai!Start, Ai!Go, Ai!orders, Ai!breaker, General
<1>2. Ai!Open \subseteq Ai!Slots /\ General \subseteq Ai!Slots /\ Ai!Open' = Ai!Open
  BY <1>1, OrdersAre, SlotsAre DEF AiInv, Ai!Open
<1>3. Ai!TypeOK'
  <2>1. had' \in [Ticks -> SUBSET Ai!Slots] /\ missing' \in [Ticks -> SUBSET Ai!Slots]
    BY <1>1, <1>2 DEF AiInv, Ai!TypeOK
  <2> QED
    BY <1>1, <2>1 DEF AiInv, Ai!TypeOK
<1>4. AiCounts' /\ (\A s : OrdersIn(s)' = OrdersIn(s)) /\ AtVenues' = AtVenues /\ General' = General
  BY <1>1 DEF AiInv, AiCounts, OrdersIn, AllIn, AtVenues, General, Ai!At, Ai!Slots, Ai!Sides
<1>5. /\ \A u \in Ticks : u # t => /\ tick'[u] = tick[u] /\ had'[u] = had[u]
                                   /\ missing'[u] = missing[u] /\ lost'[u] = lost[u]
      /\ \/ tick'[t] = "standing" /\ missing'[t] = General \ Ai!Open /\ had'[t] = Ai!Open
         \/ tick'[t] = "bridging" /\ missing'[t] = {} /\ vouched'[t] = {}
  BY <1>1 DEF AiInv, Ai!TypeOK, LookedShape
<1>6. ~overlapped' => AloneShape'
  <2>1. SUFFICES ASSUME ~overlapped' PROVE AloneShape'
    OBVIOUS
  <2>2. ~overlapped /\ Ai!Busy = {} /\ AloneShape
    BY <1>1, <2>1 DEF AiInv, Ai!TypeOK
  <2>3. Ai!Busy' \subseteq {t} /\ \A u \in Ticks : u # t => tick'[u] \in {"idle", "done"}
    BY <1>5, <2>2 DEF AiInv, Ai!TypeOK, Ai!Busy
  <2>4. \A s \in AtVenues \ Ai!Open : OrdersIn(s) <= revived[s]
    <3> TAKE s \in AtVenues \ Ai!Open
    <3>1. OrdersIn(s) \in Nat /\ revived[s] \in Nat /\ ~(OrdersIn(s) > 0)
      BY OrdersAre, SlotsAre DEF AiInv
    <3> QED
      BY <3>1
  <2>5. Ai!OneStandingOrder'
    BY <1>1, <2>2 DEF AloneShape, Ai!OneStandingOrder, Ai!At, Ai!Sides
  <2> QED
    BY <1>1, <1>4, <1>5, <2>3, <2>4, <2>5 DEF AloneShape
<1>7. \A u \in Ticks : LookedShape(u)'
  <2> TAKE u \in Ticks
  <2>1. CASE u = t
    BY <1>2, <1>4, <1>5, <2>1 DEF LookedShape, Ai!At
  <2>2. CASE u # t
    <3>1. LookedShape(u)
      BY DEF AiInv
    <3> QED
      BY <1>1, <1>2, <1>4, <1>5, <2>2, <3>1 DEF LookedShape, Ai!At, Ai!Sides
  <2> QED
    BY <2>1, <2>2
<1> QED
  BY <1>3, <1>4, <1>6, <1>7 DEF AiInv

\* A new order in a slot, with the other tables at rest.
LEMMA SlotGrows ==
  ASSUME AiInv, Ai!AiAssumption, NEW s \in Ai!Slots, UNCHANGED <<aged, shut, shutAged, revived>>,
         \/ /\ total < MaxPlaced /\ total' = total + 1
            /\ fresh' = [fresh EXCEPT ![s] = fresh[s] + 1]
         \/ UNCHANGED <<fresh, total>>
  PROVE  /\ fresh' \in Ai!Counts /\ total' \in 0..MaxPlaced /\ Ai!Open \subseteq Ai!Open'
         /\ \A r \in Ai!Slots : /\ AllIn(r)' <= total' /\ OrdersIn(r) \in Nat
                                /\ r # s => OrdersIn(r)' = OrdersIn(r)
         /\ OrdersIn(s)' <= OrdersIn(s) + 1
<1>1. \A r \in Ai!Slots :
         /\ fresh[r] \in Nat /\ aged[r] \in Nat /\ shut[r] \in Nat /\ shutAged[r] \in Nat
         /\ total \in 0..MaxPlaced /\ AllIn(r) <= total /\ MaxPlaced \in Nat
  BY OrdersAre DEF AiInv, AiCounts, Ai!TypeOK
<1>2. /\ fresh \in [Ai!Slots -> Nat] /\ total \in 0..MaxPlaced /\ MaxPlaced \in Nat
      /\ aged' \in [Ai!Slots -> Nat] /\ shut' \in [Ai!Slots -> Nat]
      /\ shutAged' \in [Ai!Slots -> Nat]
  BY DEF AiInv, Ai!TypeOK, Ai!Counts, Ai!AiAssumption
<1>3. fresh' \in [Ai!Slots -> Nat] /\ total' \in 0..MaxPlaced
  BY <1>2
<1>4. ASSUME NEW r \in Ai!Slots
      PROVE  /\ AllIn(r)' <= total' /\ OrdersIn(r) \in Nat
             /\ r # s => OrdersIn(r)' = OrdersIn(r)
             /\ OrdersIn(r)' <= OrdersIn(r) + 1
             /\ OrdersIn(r) > 0 => OrdersIn(r)' > 0
  <2>1. CASE UNCHANGED <<fresh, total>>
    BY <1>1, <2>1 DEF AllIn, OrdersIn
  <2>2. CASE /\ total < MaxPlaced /\ total' = total + 1
             /\ fresh' = [fresh EXCEPT ![s] = fresh[s] + 1]
    <3>1. fresh'[r] = IF r = s THEN fresh[r] + 1 ELSE fresh[r]
      BY <1>2, <2>2
    <3> QED
      BY <1>1, <2>2, <3>1 DEF AllIn, OrdersIn
  <2> QED
    BY <2>1, <2>2
<1>5. Ai!Open \subseteq Ai!Open'
  <2>1. \A r \in Ai!Slots : OrdersIn(r)' > 0 => r \in Ai!Open'
    BY DEF OrdersIn, Ai!Open, Ai!Slots, Ai!Sides
  <2> QED
    BY <1>4, <2>1, OrdersAre DEF AiInv
<1> QED
  BY <1>2, <1>3, <1>4, <1>5, TablesFit

\* A missing standing order is placed or refused.
LEMMA AiStanding ==
  ASSUME AiInv, Ai!AiAssumption, NEW t \in Ticks, Ai!PlaceStandingOrder(t)
  PROVE  AiInv'
<1>1. /\ UNCHANGED <<aged, shut, shutAged, revived, tick, had, vouched, count, tripped, due,
                     placed, overlapped>>
      /\ tick[t] \in {"standing", "bridging"}
  BY DEF Ai!PlaceStandingOrder, Ai!breaker
<1>2. PICK s \in missing[t] :
         /\ missing' = [missing EXCEPT ![t] = missing[t] \ {s}]
         /\ \/ total < MaxPlaced /\ Ai!Placed(s) /\ UNCHANGED lost
            \/ Ai!Lose(s) /\ UNCHANGED <<fresh, total>>
  BY DEF Ai!PlaceStandingOrder
<1>3. s \in Ai!Slots
  BY <1>2 DEF AiInv, Ai!TypeOK
<1>4. \/ /\ total < MaxPlaced /\ total' = total + 1 /\ lost' = lost
         /\ fresh' = [fresh EXCEPT ![s] = fresh[s] + 1]
      \/ /\ fresh' = fresh /\ total' = total
         /\ lost' = [u \in Ticks |-> IF tick[u] \in {"standing", "bridging", "inventory"}
                                     THEN lost[u] \cup {s} ELSE lost[u]]
  BY <1>2 DEF Ai!Placed, Ai!Lose
<1>5. /\ fresh' \in Ai!Counts /\ total' \in 0..MaxPlaced /\ Ai!Open \subseteq Ai!Open'
      /\ \A r \in Ai!Slots : /\ AllIn(r)' <= total' /\ OrdersIn(r) \in Nat
                             /\ r # s => OrdersIn(r)' = OrdersIn(r)
      /\ OrdersIn(s)' <= OrdersIn(s) + 1
  BY <1>1, <1>3, <1>4, SlotGrows
<1>6. Ai!TypeOK'
  <2>1. missing' \in [Ticks -> SUBSET Ai!Slots] /\ lost' \in [Ticks -> SUBSET Ai!Slots]
    BY <1>2, <1>3, <1>4 DEF AiInv, Ai!TypeOK
  <2> QED
    BY <1>1, <1>5, <2>1 DEF AiInv, Ai!TypeOK, Ai!Counts, Ai!Slots, Ai!Sides
<1>7. AiCounts'
  <2>1. placed' <= total'
    BY <1>1, <1>4, OrdersAre DEF AiInv, AiCounts
  <2> QED
    BY <1>1, <1>5, <2>1 DEF AiInv, AiCounts, Ai!Slots, Ai!Sides
<1>8. missing'[t] = missing[t] \ {s} /\ \A u \in Ticks : u # t => missing'[u] = missing[u]
  BY <1>2 DEF AiInv, Ai!TypeOK
<1>9. ~overlapped' => AloneShape'
  <2>1. SUFFICES ASSUME ~overlapped PROVE AloneShape'
    BY <1>1
  <2>2. AloneShape /\ \A u \in Ticks : u # t => tick[u] \in {"idle", "done"}
    BY <1>1, <2>1 DEF AiInv, AloneShape, Ai!Busy
  <2>3. \A r \in AtVenues : r \in Ai!Slots /\ r \notin General /\ revived[r] \in Nat
                            /\ OrdersIn(r) \in Nat
    BY SlotsAre, OrdersAre DEF AiInv
  <2>4. s \in AtVenues => tick[t] = "bridging" /\ OrdersIn(s) <= revived[s]
    BY <1>1, <1>2, <2>2, <2>3 DEF AloneShape
  <2>5. Ai!OneStandingOrder'
    <3>1. \A r \in AtVenues : OrdersIn(r) <= 1 + revived[r]
      BY <2>1, <2>2 DEF AloneShape, Ai!OneStandingOrder, AtVenues, OrdersIn
    <3>2. OrdersIn(s)' \in Nat
      BY <1>1, <1>3, <1>5, OrdersAre DEF AiInv, OrdersIn, Ai!Counts, Ai!AiAssumption
    <3>3. ASSUME NEW r \in AtVenues
          PROVE  OrdersIn(r)' <= 1 + revived[r]
      <4>1. CASE r = s
        BY <1>5, <2>3, <2>4, <3>2, <4>1
      <4>2. CASE r # s
        BY <1>5, <2>3, <3>1, <4>2
      <4> QED
        BY <4>1, <4>2
    <3> QED
      BY <1>1, <3>3 DEF Ai!OneStandingOrder, AtVenues, OrdersIn, Ai!At, Ai!Sides
  <2>6. tick[t] = "standing" => /\ missing'[t] \subseteq General
                                /\ \A r \in AtVenues \ had[t] : OrdersIn(r)' <= revived[r]
    BY <1>2, <1>5, <1>8, <2>2, <2>3 DEF AloneShape
  <2>7. tick[t] = "bridging" =>
           \A r \in missing'[t] \cap AtVenues : OrdersIn(r)' <= revived[r]
    BY <1>5, <1>8, <2>2, <2>3 DEF AloneShape
  <2>8. AtVenues' = AtVenues /\ General' = General
    BY DEF AtVenues, General, Ai!At, Ai!Sides
  <2> QED
    BY <1>1, <2>2, <2>5, <2>6, <2>7, <2>8 DEF AloneShape, Ai!Busy
<1>10. \A u \in Ticks : LookedShape(u)'
  <2> TAKE u \in Ticks
  <2>1. Ai!Open \subseteq Ai!Open'
    BY <1>5
  <2>2. lost[u] \subseteq lost'[u] /\ missing[u] \subseteq missing'[u] \cup {s}
    BY <1>4, <1>8 DEF AiInv, Ai!TypeOK
  <2>3. u = t => s \in Ai!Open' \cup lost'[u]
    <3>1. CASE fresh' = [fresh EXCEPT ![s] = fresh[s] + 1]
      <4>1. fresh'[s] = fresh[s] + 1 /\ fresh[s] \in Nat /\ aged[s] \in Nat
        BY <1>3, <3>1, OrdersAre DEF AiInv, Ai!TypeOK, Ai!Counts
      <4>2. fresh'[s] + aged'[s] > 0
        BY <1>1, <4>1
      <4> QED
        BY <1>3, <4>2 DEF Ai!Open, Ai!Slots, Ai!Sides
    <3>2. CASE lost' = [v \in Ticks |-> IF tick[v] \in {"standing", "bridging", "inventory"}
                                        THEN lost[v] \cup {s} ELSE lost[v]]
      BY <1>1, <3>2
    <3> QED
      BY <1>4, <3>1, <3>2
  <2>4. u # t => missing'[u] = missing[u]
    BY <1>8
  <2>5. General' = General /\ Ai!At(vouched[u])' = Ai!At(vouched[u])
    BY <1>1 DEF General, Ai!At, Ai!Sides
  <2>6. LookedShape(u)
    BY DEF AiInv
  <2>7. u = t => tick[u] # "idle" /\ tick[u] # "inventory"
    BY <1>1
  <2> QED
    BY <1>1, <2>1, <2>2, <2>3, <2>4, <2>5, <2>6, <2>7 DEF LookedShape
<1> QED
  BY <1>6, <1>7, <1>9, <1>10 DEF AiInv

\* A tick goes on, and orders stay as they are.
LEMMA AiGoes ==
  ASSUME AiInv, Ai!AiAssumption, Ai!TypeOK', NEW t \in Ticks,
         UNCHANGED <<fresh, aged, shut, shutAged, revived, total, overlapped>>,
         placed' <= total' /\ placed' <= count' /\ placed' < PerMinute,
         tick[t] \notin {"idle", "done"},
         \A u \in Ticks : u # t =>
            UNCHANGED <<tick[u], had[u], missing[u], lost[u], vouched[u]>>,
         tick'[t] # "standing",
         tick'[t] = "bridging" /\ ~overlapped =>
            \A s \in missing'[t] \cap AtVenues : OrdersIn(s) <= revived[s],
         LookedShape(t)'
  PROVE  AiInv'
<1>1. AiCounts'
  BY DEF AiInv, AiCounts, OrdersIn, AllIn, Ai!Slots, Ai!Sides
<1>2. AtVenues' = AtVenues /\ General' = General
  BY DEF AtVenues, General, Ai!At, Ai!Sides
<1>3. ~overlapped' => AloneShape'
  <2>1. SUFFICES ASSUME ~overlapped PROVE AloneShape'
    OBVIOUS
  <2>2. AloneShape
    BY <2>1 DEF AiInv
  <2>3. Ai!OneStandingOrder' /\ \A s : OrdersIn(s)' = OrdersIn(s)
    BY <2>2 DEF AloneShape, Ai!OneStandingOrder, OrdersIn, Ai!At, Ai!Sides
  <2>4. Ai!Busy' \subseteq Ai!Busy
    BY DEF Ai!Busy
  <2> QED
    BY <1>2, <2>1, <2>2, <2>3, <2>4 DEF AloneShape
<1>4. \A u \in Ticks : LookedShape(u)'
  <2> TAKE u \in Ticks
  <2>1. Ai!Open' = Ai!Open
    BY DEF Ai!Open, Ai!Slots, Ai!Sides
  <2>2. CASE u # t
    <3>1. LookedShape(u) /\ Ai!At(vouched[u])' = Ai!At(vouched[u])
      BY <2>2 DEF AiInv, Ai!At, Ai!Sides
    <3> QED
      BY <1>2, <2>1, <2>2, <3>1 DEF LookedShape
  <2> QED
    BY <2>2
<1> QED
  BY <1>1, <1>3, <1>4 DEF AiInv

\* The active bridges are read, when the general slots are done.
LEMMA AiBridges ==
  ASSUME AiInv, Ai!AiAssumption, NEW t \in Ticks, Ai!ReadBridges(t)
  PROVE  AiInv'
<1>1. PICK v \in SUBSET Venues :
         /\ missing' = [missing EXCEPT ![t] = Ai!At(v) \ had[t]]
         /\ vouched' = [vouched EXCEPT ![t] = {Anywhere} \cup v]
  BY DEF Ai!ReadBridges
<1>2. /\ UNCHANGED <<fresh, aged, shut, shutAged, revived, total, had, count, tripped, due, placed,
                     lost, overlapped>>
      /\ tick' = [tick EXCEPT ![t] = "bridging"] /\ tick[t] = "standing" /\ missing[t] = {}
  BY DEF Ai!ReadBridges, Ai!Go, Ai!orders, Ai!breaker
<1>3. /\ Ai!At(v) \subseteq AtVenues /\ AtVenues \subseteq Ai!Slots
      /\ Ai!At({Anywhere} \cup v) = General \cup Ai!At(v)
  BY SlotsAre
<1>4. Ai!TypeOK'
  <2>1. vouched' \in [Ticks -> SUBSET (Venues \cup {Anywhere})]
    BY <1>1 DEF AiInv, Ai!TypeOK
  <2>2. missing' \in [Ticks -> SUBSET Ai!Slots]
    BY <1>1, <1>3 DEF AiInv, Ai!TypeOK
  <2> QED
    BY <1>2, <2>1, <2>2 DEF AiInv, Ai!TypeOK, Ai!Counts, Ai!Slots, Ai!Sides
<1>5. /\ tick'[t] = "bridging" /\ missing'[t] = Ai!At(v) \ had[t] /\ lost'[t] = lost[t]
      /\ vouched'[t] = {Anywhere} \cup v
  BY <1>1, <1>2 DEF AiInv, Ai!TypeOK
<1>6. ~overlapped => \A s \in missing'[t] \cap AtVenues : OrdersIn(s) <= revived[s]
  BY <1>2, <1>3, <1>5 DEF AiInv, AloneShape
<1>7. LookedShape(t)'
  <2>1. LookedShape(t)
    BY DEF AiInv
  <2>2. Ai!Open' = Ai!Open /\ General' = General
    BY <1>2 DEF Ai!Open, General, Ai!At, Ai!Slots, Ai!Sides
  <2>3. Ai!At(vouched[t])' = General \cup Ai!At(v)
    BY <1>3, <1>5 DEF Ai!At, Ai!Sides
  <2> QED
    BY <1>2, <1>5, <2>1, <2>2, <2>3 DEF LookedShape
<1>8. \A u \in Ticks : u # t => UNCHANGED <<tick[u], had[u], missing[u], lost[u], vouched[u]>>
  BY <1>1, <1>2 DEF AiInv, Ai!TypeOK
<1>9. placed' <= total' /\ placed' <= count' /\ placed' < PerMinute
  BY <1>2 DEF AiInv, AiCounts
<1> QED
  BY <1>2, <1>4, <1>5, <1>6, <1>7, <1>8, <1>9, AiGoes

\* The breaker lets the tick on or ends it.
LEMMA AiGate ==
  ASSUME AiInv, Ai!AiAssumption, NEW t \in Ticks, Ai!Gate(t)
  PROVE  AiInv'
<1>1. /\ UNCHANGED <<fresh, aged, shut, shutAged, revived, total, missing, vouched, lost,
                     overlapped>>
      /\ had' = [had EXCEPT ![t] = {}]
      /\ tick[t] = "bridging" /\ missing[t] = {}
      /\ tick' = [tick EXCEPT ![t] = IF tripped' THEN "done" ELSE "inventory"]
      /\ \/ tripped' = FALSE /\ count' = 0 /\ placed' = 0 /\ due' = FALSE
         \/ UNCHANGED <<count, tripped, due, placed>>
  BY DEF Ai!Gate, Ai!Go, Ai!orders, Ai!breaker
<1>2. Ai!TypeOK'
  <2>1. /\ tripped' \in BOOLEAN /\ due' \in BOOLEAN
        /\ count' \in Nat /\ placed' \in 0..MaxPlaced
    <3>1. /\ 0 \in 0..MaxPlaced /\ 0 \in Nat /\ FALSE \in BOOLEAN
      BY DEF Ai!AiAssumption
    <3>2. tripped \in BOOLEAN /\ due \in BOOLEAN /\ count \in Nat /\ placed \in 0..MaxPlaced
      BY DEF AiInv, Ai!TypeOK
    <3> QED
      BY <1>1, <3>1, <3>2, Zenon
  <2>2. PICK stage \in {"done", "inventory"} : tick' = [tick EXCEPT ![t] = stage]
    BY <1>1, Zenon
  <2>3. /\ tick' \in [Ticks -> {"idle", "standing", "bridging", "inventory", "cancel", "place",
                                "done"}]
        /\ had' \in [Ticks -> SUBSET Ai!Slots]
    BY <1>1, <2>2 DEF AiInv, Ai!TypeOK
  <2> QED
    BY <1>1, <2>1, <2>3 DEF AiInv, Ai!TypeOK, Ai!Counts, Ai!Slots, Ai!Sides
<1>3. tick'[t] \in {"done", "inventory"}
  BY <1>1 DEF AiInv, Ai!TypeOK
<1>4. LookedShape(t)'
  <2>1. LookedShape(t)
    BY DEF AiInv
  <2>2. Ai!Open' = Ai!Open /\ Ai!At(vouched[t])' = Ai!At(vouched[t])
    BY <1>1 DEF Ai!Open, Ai!At, Ai!Slots, Ai!Sides
  <2> QED
    BY <1>1, <1>3, <2>1, <2>2 DEF LookedShape
<1>5. \A u \in Ticks : u # t => UNCHANGED <<tick[u], had[u], missing[u], lost[u], vouched[u]>>
  BY <1>1 DEF AiInv, Ai!TypeOK
<1>6. placed' <= total' /\ placed' <= count' /\ placed' < PerMinute
  BY <1>1, OrdersAre DEF AiInv, AiCounts, Ai!AiAssumption
<1> QED
  BY <1>1, <1>2, <1>3, <1>4, <1>5, <1>6, AiGoes

\* Inventory is read and recounted.
LEMMA AiInventory ==
  ASSUME AiInv, Ai!AiAssumption, NEW t \in Ticks, Ai!ReadInventory(t) \/ Ai!Recount(t)
  PROVE  AiInv'
<1>1. UNCHANGED <<fresh, aged, shut, shutAged, revived, total, had, count, tripped, due, placed,
                  overlapped>>
  BY DEF Ai!ReadInventory, Ai!Recount, Ai!orders, Ai!breaker
<1>2. /\ tick[t] \in {"inventory", "cancel"}
      /\ \E stage \in {"cancel", "place", "done"} : tick' = [tick EXCEPT ![t] = stage]
      /\ missing' = missing \/ missing' = [missing EXCEPT ![t] = {s \in Ai!Slots : aged[s] > 0}]
      /\ \/ UNCHANGED <<lost, vouched>>
         \/ lost' = [lost EXCEPT ![t] = {}] /\ vouched' = [vouched EXCEPT ![t] = {}]
  BY DEF Ai!ReadInventory, Ai!Recount, Ai!Go
<1>3. /\ missing' \in [Ticks -> SUBSET Ai!Slots] /\ lost' \in [Ticks -> SUBSET Ai!Slots]
      /\ vouched' \in [Ticks -> SUBSET (Venues \cup {Anywhere})]
      /\ tick' \in [Ticks -> {"idle", "standing", "bridging", "inventory", "cancel", "place",
                              "done"}]
      /\ tick'[t] \in {"cancel", "place", "done"}
      /\ \A u \in Ticks : u # t => UNCHANGED <<tick[u], had[u], missing[u], lost[u], vouched[u]>>
  BY <1>1, <1>2 DEF AiInv, Ai!TypeOK
<1>4. Ai!TypeOK'
  BY <1>1, <1>3 DEF AiInv, Ai!TypeOK, Ai!Counts, Ai!Slots, Ai!Sides
<1>5. LookedShape(t)'
  BY <1>3 DEF LookedShape
<1>6. placed' <= total' /\ placed' <= count' /\ placed' < PerMinute
  BY <1>1 DEF AiInv, AiCounts
<1> QED
  BY <1>1, <1>2, <1>3, <1>4, <1>5, <1>6, AiGoes

\* An inventory order is placed, or dropped by the breaker.
LEMMA AiPlace ==
  ASSUME AiInv, Ai!AiAssumption, NEW t \in Ticks, Ai!PlaceOrder(t)
  PROVE  AiInv'
<1>1. /\ UNCHANGED <<aged, shut, shutAged, revived, had, missing, vouched, lost, overlapped>>
      /\ tick[t] = "place" /\ tick' = [tick EXCEPT ![t] = "done"] /\ total < MaxPlaced
      /\ count' = count + 1 /\ tripped' = (tripped \/ count + 1 >= PerMinute)
      /\ due' = (due /\ ~(count + 1 >= PerMinute))
  BY DEF Ai!PlaceOrder, Ai!Go, Ai!Trips
<1>2. PICK side \in Ai!Sides :
         \/ /\ ~tripped' /\ fresh' = [fresh EXCEPT ![<<side, Anywhere>>] =
                                         fresh[<<side, Anywhere>>] + 1]
            /\ total' = total + 1 /\ placed' = placed + 1
         \/ UNCHANGED <<fresh, total, placed>>
  <2>1. "buy" \in Ai!Sides
    BY DEF Ai!Sides
  <2> QED
    BY <2>1 DEF Ai!PlaceOrder, Ai!Placed
<1> DEFINE s == <<side, Anywhere>>
<1>3. s \in General /\ General \subseteq Ai!Slots /\ General \cap AtVenues = {}
      /\ AtVenues \subseteq Ai!Slots
  BY SlotsAre
<1> HIDE DEF s
<1>4. \/ total < MaxPlaced /\ total' = total + 1 /\ fresh' = [fresh EXCEPT ![s] = fresh[s] + 1]
      \/ UNCHANGED <<fresh, total>>
  BY <1>1, <1>2 DEF s
<1>5. /\ fresh' \in Ai!Counts /\ total' \in 0..MaxPlaced /\ Ai!Open \subseteq Ai!Open'
      /\ \A r \in Ai!Slots : /\ AllIn(r)' <= total' /\ OrdersIn(r) \in Nat
                             /\ r # s => OrdersIn(r)' = OrdersIn(r)
  <2>1. s \in Ai!Slots
    BY <1>3
  <2> QED
    BY <1>1, <1>4, <2>1, SlotGrows
<1>6. /\ placed' \in 0..MaxPlaced /\ placed' <= total' /\ placed' <= count' /\ placed' < PerMinute
      /\ count' \in Nat
  <2>1. /\ placed \in Nat /\ total \in 0..MaxPlaced /\ count \in Nat /\ PerMinute \in Nat
        /\ placed <= total /\ placed <= count /\ placed < PerMinute /\ MaxPlaced \in Nat
        /\ total < MaxPlaced
    BY <1>1, OrdersAre DEF AiInv, AiCounts, Ai!TypeOK, Ai!AiAssumption
  <2>2. ~tripped' => ~(count + 1 >= PerMinute)
    BY <1>1, Zenon
  <2>3. \/ placed' = placed + 1 /\ total' = total + 1 /\ ~(count + 1 >= PerMinute)
        \/ placed' = placed /\ total' = total
    BY <1>2, <2>2
  <2> QED
    BY <1>1, <2>1, <2>3
<1>7. Ai!TypeOK'
  <2>1. tripped' \in BOOLEAN /\ due' \in BOOLEAN
    BY <1>1 DEF AiInv, Ai!TypeOK
  <2>2. tick' \in [Ticks -> {"idle", "standing", "bridging", "inventory", "cancel", "place",
                             "done"}]
    BY <1>1 DEF AiInv, Ai!TypeOK
  <2> QED
    BY <1>1, <1>5, <1>6, <2>1, <2>2 DEF AiInv, Ai!TypeOK, Ai!Counts, Ai!Slots, Ai!Sides
<1>8. AiCounts'
  BY <1>5, <1>6 DEF AiCounts, Ai!Slots, Ai!Sides
<1>9. tick'[t] = "done" /\ \A u \in Ticks : u # t => tick'[u] = tick[u]
  BY <1>1 DEF AiInv, Ai!TypeOK
<1>10. AtVenues' = AtVenues /\ General' = General
  BY DEF AtVenues, General, Ai!At, Ai!Sides
<1>11. ~overlapped' => AloneShape'
  <2>1. SUFFICES ASSUME ~overlapped PROVE AloneShape'
    BY <1>1
  <2>2. AloneShape
    BY <2>1 DEF AiInv
  <2>3. \A r \in AtVenues : OrdersIn(r)' = OrdersIn(r)
    BY <1>3, <1>5
  <2>4. Ai!OneStandingOrder'
    <3>1. \A r \in AtVenues : OrdersIn(r) <= 1 + revived[r]
      BY <2>1, <2>2 DEF AloneShape, Ai!OneStandingOrder, AtVenues, OrdersIn
    <3> QED
      BY <1>1, <2>3, <3>1 DEF Ai!OneStandingOrder, AtVenues, OrdersIn, Ai!At, Ai!Sides
  <2>5. Ai!Busy' \subseteq Ai!Busy
    BY <1>9 DEF Ai!Busy
  <2>6. \A u \in Ticks : tick'[u] \in {"standing", "bridging"} => u # t /\ tick[u] = tick'[u]
    BY <1>9
  <2> QED
    BY <1>1, <1>10, <2>2, <2>3, <2>4, <2>5, <2>6 DEF AloneShape
<1>12. \A u \in Ticks : LookedShape(u)'
  <2> TAKE u \in Ticks
  <2>1. Ai!Open \subseteq Ai!Open'
    BY <1>5
  <2>2. LookedShape(u) /\ Ai!At(vouched[u])' = Ai!At(vouched[u])
    BY <1>1 DEF AiInv, Ai!At, Ai!Sides
  <2> QED
    BY <1>1, <1>9, <1>10, <2>1, <2>2 DEF LookedShape
<1> QED
  BY <1>7, <1>8, <1>11, <1>12 DEF AiInv

\* A behaviour of the AI participant keeps its invariant.
LEMMA AiInvariance ==
  ASSUME Ai!AiAssumption
  PROVE  Ai!Spec => []AiInv
<1>1. Ai!Init => AiInv
  <2> SUFFICES ASSUME Ai!Init PROVE AiInv
    OBVIOUS
  <2>1. Ai!TypeOK
    <3>1. 0 \in 0..MaxPlaced /\ 0 \in Nat /\ 0 \in 0..MaxRevivals
      BY DEF Ai!AiAssumption
    <3>2. /\ Ai!Zero \in [Ai!Slots -> 0..MaxPlaced] /\ Ai!None \in [Ticks -> SUBSET Ai!Slots]
          /\ Ai!Zero \in [Ai!Slots -> 0..MaxRevivals]
          /\ Ai!None \in [Ticks -> SUBSET (Venues \cup {Anywhere})]
      BY <3>1 DEF Ai!Zero, Ai!None
    <3> QED
      BY <3>1, <3>2 DEF Ai!Init, Ai!TypeOK, Ai!Counts
  <2>2. \A s \in Ai!Slots : OrdersIn(s) = 0 /\ AllIn(s) = 0 /\ revived[s] = 0
    BY DEF Ai!Init, Ai!Zero, OrdersIn, AllIn
  <2>3. AiCounts
    BY <2>2 DEF Ai!Init, AiCounts, Ai!AiAssumption
  <2>4. \A t \in Ticks : tick[t] = "idle" /\ missing[t] = {} /\ vouched[t] = {}
    BY DEF Ai!Init, Ai!None
  <2>5. Ai!OneStandingOrder
    BY <2>2, SlotsAre DEF Ai!OneStandingOrder, AtVenues, OrdersIn
  <2> QED
    BY <2>1, <2>3, <2>4, <2>5 DEF AiInv, AloneShape, LookedShape, Ai!Busy
<1>2. AiInv /\ [Ai!Next]_(Ai!aiVars) => AiInv'
  <2> SUFFICES ASSUME AiInv, [Ai!Next]_(Ai!aiVars) PROVE AiInv'
    OBVIOUS
  <2>1. CASE \E t \in Ticks : Ai!Run(t)
    BY <2>1, AiLook, AiStanding, AiBridges, AiGate, AiInventory, AiMarket, AiPlace DEF Ai!Run
  <2>2. CASE \/ \E s \in Ai!Slots : Ai!Fill(s)
             \/ \E s \in Ai!At(Venues) : Ai!Revive(s)
             \/ Ai!GrowAged
    BY <2>2, AiMarket
  <2>3. CASE Ai!MinutePasses \/ UNCHANGED Ai!aiVars
    <3>1. UNCHANGED <<fresh, aged, shut, shutAged, revived, total, tick, had, missing, vouched,
                      count, tripped, placed, lost, overlapped>>
      BY <2>3 DEF Ai!MinutePasses, Ai!aiVars, Ai!orders, Ai!breaker
    <3>2. due' = due \/ due' = TRUE
      BY <2>3 DEF Ai!MinutePasses, Ai!aiVars, Ai!breaker
    <3> QED
      BY <3>1, <3>2, ZenonT(40) DEF AiInv, AiCounts, AloneShape, LookedShape, Ai!TypeOK, OrdersIn, AllIn,
         Ai!Counts, Ai!Slots, Ai!Sides, Ai!Busy, General, AtVenues, Ai!At, Ai!OneStandingOrder,
         Ai!Open
  <2> QED
    BY <2>1, <2>2, <2>3 DEF Ai!Next
<1> QED
  BY <1>1, <1>2, PTL DEF Ai!Spec

\* Fewer inventory orders than the limit are placed between two resets, whatever ticks had
\* passed the breaker before it tripped.
THEOREM BreakerHeld ==
  ASSUME Ai!AiAssumption
  PROVE  Ai!Spec => []Ai!BreakerHolds
<1>1. AiInv => Ai!BreakerHolds
  BY DEF AiInv, AiCounts, Ai!BreakerHolds
<1> QED
  BY <1>1, AiInvariance, PTL

\* As long as ticks do not overlap, a venue has at most one standing order a side, and one
\* more for each that the bridge opened again.
THEOREM StandingOnce ==
  ASSUME Ai!AiAssumption
  PROVE  Ai!Spec => []Ai!OneStandingOrder
<1>1. AiInv => Ai!OneStandingOrder
  BY DEF AiInv, AloneShape, Ai!OneStandingOrder
<1> QED
  BY <1>1, AiInvariance, PTL

\* When the first phase has ended, a standing order of what it could read is missing only
\* where one was taken or refused since the tick looked.
THEOREM StandingRestored ==
  ASSUME Ai!AiAssumption
  PROVE  Ai!Spec => []Ai!StandingOrdersRestored
<1>1. AiInv => Ai!StandingOrdersRestored
  BY DEF AiInv, LookedShape, Ai!StandingOrdersRestored
<1> QED
  BY <1>1, AiInvariance, PTL

-----------------------------------------------------------------------------
(* The search index.                                                        *)

\* The index is a sequence of entries; only entities that are remembered were there when
\* it was emptied.
SearchInv ==
    /\ Se!TypeOK /\ Se!FoundIsAsked /\ Se!IndexExplained
    /\ corpus \in Seq([key : Entities \cup 1..MaxDocs, text : Words])
    /\ \A e \in emptied : meta[e] # NoText

\* Documents of a search, as they are in the index.
LEMMA Filled ==
  ASSUME Se!IndexAssumption, NEW docs \in Se!Documents
  PROVE  \E n \in 0..MaxDocs :
            /\ docs \in [1..n -> Words] /\ DOMAIN docs = 1..n
            /\ [i \in DOMAIN docs |-> Se!Entry(i, docs[i])]
                   \in [1..n -> [key : 1..MaxDocs, text : Words]]
<1>1. PICK n \in 0..MaxDocs : docs \in [1..n -> Words]
  BY DEF Se!Documents
<1>2. DOMAIN docs = 1..n /\ \A i \in 1..n : i \in 1..MaxDocs /\ docs[i] \in Words
  BY <1>1 DEF Se!IndexAssumption
<1> QED
  BY <1>1, <1>2 DEF Se!Entry

\* Emptying the index and filling it with the documents of a search.
LEMMA Refilled ==
  ASSUME SearchInv, Se!IndexAssumption, NEW docs \in Se!Documents, Se!Refill(docs),
         UNCHANGED <<stored, meta, saves>>
  PROVE  /\ corpus' \in Seq([key : Entities \cup 1..MaxDocs, text : Words])
         /\ \A i \in DOMAIN corpus' :
               corpus'[i].key \in Entities \cup 1..MaxDocs /\ corpus'[i].text \in Words
         /\ emptied' \subseteq Entities /\ emptied \subseteq emptied'
         /\ \A e \in emptied' : meta'[e] # NoText
         /\ Se!IndexExplained'
         /\ \A w \in Words : /\ Se!Matches(corpus', w) = {i \in DOMAIN docs : docs[i] = w}
                             /\ Se!Matches(corpus', w) \subseteq 1..MaxDocs
<1>1. PICK n \in 0..MaxDocs :
            /\ docs \in [1..n -> Words] /\ DOMAIN docs = 1..n
            /\ [i \in DOMAIN docs |-> Se!Entry(i, docs[i])]
                   \in [1..n -> [key : 1..MaxDocs, text : Words]]
  BY Filled
<1>2. /\ corpus' = [i \in 1..n |-> Se!Entry(i, docs[i])]
      /\ emptied' = {e \in Entities : meta[e] # NoText}
  BY <1>1 DEF Se!Refill
<1>3. DOMAIN corpus' = 1..n /\ n \in Nat /\ 1..n \subseteq 1..MaxDocs
  BY <1>1, <1>2 DEF Se!IndexAssumption
<1>4. \A i \in 1..n : corpus'[i] = [key |-> i, text |-> docs[i]]
  BY <1>2 DEF Se!Entry
<1>5. corpus' \in Seq([key : Entities \cup 1..MaxDocs, text : Words])
  <2>1. corpus' \in [1..n -> [key : Entities \cup 1..MaxDocs, text : Words]]
    BY <1>1, <1>2, <1>3, <1>4
  <2>2. \A S, s : s \in [1..n -> S] => s \in Seq(S)
    BY <1>3
  <2> QED
    BY <2>1, <2>2
<1>6. \A i \in DOMAIN corpus' :
         /\ corpus'[i].key = i /\ corpus'[i].text = docs[i] /\ i \in 1..MaxDocs
         /\ i \notin Entities /\ docs[i] \in Words
  BY <1>1, <1>3, <1>4 DEF Se!IndexAssumption
<1>7. Se!IndexExplained'
  BY <1>2, <1>6 DEF Se!IndexExplained
<1>8. ASSUME NEW w \in Words
      PROVE  /\ Se!Matches(corpus', w) = {i \in DOMAIN docs : docs[i] = w}
             /\ Se!Matches(corpus', w) \subseteq 1..MaxDocs
  BY <1>1, <1>3, <1>6 DEF Se!Matches
<1>9. /\ emptied' \subseteq Entities /\ emptied \subseteq emptied'
      /\ \A e \in emptied' : meta'[e] # NoText
  BY <1>2 DEF SearchInv, Se!TypeOK
<1> QED
  BY <1>5, <1>6, <1>7, <1>8, <1>9

\* An entity is saved: added at the end when it is not remembered.
LEMMA SearchSave ==
  ASSUME SearchInv, Se!IndexAssumption, NEW e \in Entities, NEW w \in Words, Se!SaveEntity(e, w)
  PROVE  SearchInv' /\ emptied \subseteq emptied'
<1> DEFINE Entries == [key : Entities \cup 1..MaxDocs, text : Words]
<1>1. /\ stored' \in [Entities -> Words \cup {NoText}]
      /\ meta' \in [Entities -> Words \cup {NoText}] /\ saves' \in 0..MaxSaves
      /\ answer' = answer /\ emptied' = emptied
  BY DEF Se!SaveEntity, SearchInv, Se!TypeOK, Se!IndexAssumption
<1>2. CASE meta[e] # NoText
  <2>1. corpus' = corpus /\ meta' = meta
    BY <1>2 DEF Se!SaveEntity
  <2> QED
    BY <1>1, <2>1 DEF SearchInv, Se!TypeOK, Se!FoundIsAsked, Se!IndexExplained
<1>3. CASE meta[e] = NoText
  <2> DEFINE new == [key |-> e, text |-> w]
  <2>1. corpus' = Append(corpus, new) /\ meta' = [meta EXCEPT ![e] = w]
    BY <1>3 DEF Se!SaveEntity, Se!Entry
  <2>2. corpus \in Seq(Entries) /\ new \in Entries
    BY DEF SearchInv
  <2>3. /\ corpus' \in Seq(Entries) /\ Len(corpus') = Len(corpus) + 1
        /\ DOMAIN corpus' = 1..(Len(corpus) + 1) /\ DOMAIN corpus = 1..Len(corpus)
        /\ corpus'[Len(corpus) + 1] = new /\ \A i \in 1..Len(corpus) : corpus'[i] = corpus[i]
        /\ Len(corpus) \in Nat
    <3> HIDE DEF Entries, new
    <3> QED
      BY <2>1, <2>2
  <2>4. /\ \A i \in DOMAIN corpus' : corpus'[i] \in Entries
        /\ \A i \in DOMAIN corpus' : i \in DOMAIN corpus \/ i = Len(corpus) + 1
    <3> HIDE DEF Entries
    <3> QED
      BY <2>3
  <2>5. \A i \in DOMAIN corpus : corpus[i].key # e
    BY <1>3 DEF SearchInv, Se!IndexExplained, Se!TypeOK, Se!IndexAssumption
  <2>6. \A i, j \in DOMAIN corpus' : corpus'[i].key = corpus'[j].key => i = j
    <3>1. \A i, j \in DOMAIN corpus : corpus[i].key = corpus[j].key => i = j
      BY DEF SearchInv, Se!IndexExplained
    <3> QED
      BY <2>3, <2>4, <2>5, <3>1
  <2>7. \A i \in DOMAIN corpus' :
           corpus'[i].key \in Entities => meta'[corpus'[i].key] = corpus'[i].text
    <3>1. \A i \in DOMAIN corpus :
             corpus[i].key \in Entities => meta[corpus[i].key] = corpus[i].text
      BY DEF SearchInv, Se!IndexExplained
    <3>2. meta \in [Entities -> Words \cup {NoText}]
      BY DEF SearchInv, Se!TypeOK
    <3> QED
      BY <2>1, <2>3, <2>4, <2>5, <3>1, <3>2
  <2>8. \A d \in Entities : meta'[d] # NoText =>
           (d \in emptied' <=> \A i \in DOMAIN corpus' : corpus'[i].key # d)
    <3> TAKE d \in Entities
    <3>1. CASE d = e
      <4>1. d \notin emptied'
        BY <1>1, <1>3, <3>1 DEF SearchInv
      <4>2. Len(corpus) + 1 \in DOMAIN corpus' /\ corpus'[Len(corpus) + 1].key = d
        BY <2>3, <3>1
      <4> QED
        BY <4>1, <4>2
    <3>2. CASE d # e
      <4>1. meta'[d] = meta[d]
        BY <2>1, <3>2 DEF SearchInv, Se!TypeOK
      <4>2. meta[d] # NoText => (d \in emptied <=> \A i \in DOMAIN corpus : corpus[i].key # d)
        BY DEF SearchInv, Se!IndexExplained
      <4> QED
        BY <1>1, <2>3, <2>4, <3>2, <4>1, <4>2
    <3> QED
      BY <3>1, <3>2
  <2>9. Se!IndexExplained'
    BY <2>6, <2>7, <2>8 DEF Se!IndexExplained
  <2>10. \A d \in emptied' : meta'[d] # NoText
    BY <1>1, <2>1 DEF SearchInv, Se!TypeOK, Se!IndexAssumption
  <2>11. Se!TypeOK'
    BY <1>1, <2>4 DEF SearchInv, Se!TypeOK
  <2>12. Se!FoundIsAsked'
    BY <1>1 DEF SearchInv, Se!FoundIsAsked
  <2> QED
    BY <1>1, <2>3, <2>9, <2>10, <2>11, <2>12 DEF SearchInv
<1> QED
  BY <1>2, <1>3

\* A search over given documents.
LEMMA SearchGiven ==
  ASSUME SearchInv, Se!IndexAssumption, NEW docs \in Se!Documents, NEW w \in Words,
         (\E top \in 1..MaxDocs : Se!SearchDocuments(docs, w, top)) \/ Se!SearchProducts(docs, w)
  PROVE  SearchInv' /\ emptied \subseteq emptied'
<1>1. UNCHANGED <<stored, meta, saves>>
  BY DEF Se!SearchDocuments, Se!SearchProducts
<1>2. ASSUME NEW top \in 1..MaxDocs, Se!SearchDocuments(docs, w, top)
      PROVE  SearchInv' /\ emptied \subseteq emptied'
  <2> DEFINE own == {i \in DOMAIN docs : docs[i] = w}
  <2>1. Se!Refill(docs)
    BY <1>2 DEF Se!SearchDocuments
  <2>2. PICK found \in Se!Found(corpus', w, top) :
           answer' = [kind |-> "documents", given |-> docs, query |-> w, top |-> top,
                      found |-> found]
    BY <1>2 DEF Se!SearchDocuments, Se!Answer
  <2>3. Se!Matches(corpus', w) = own /\ own \subseteq 1..MaxDocs
    BY <1>1, <2>1, Refilled
  <2>4. /\ found \subseteq own
        /\ IF Se!Cardinality(own) <= top THEN found = own ELSE Se!Cardinality(found) = top
    <3> HIDE DEF own
    <3> QED
      BY <2>3 DEF Se!Found
  <2>5. /\ answer'.given = docs /\ answer'.query = w /\ answer'.top = top
        /\ answer'.found = found /\ answer'.kind = "documents"
    BY <2>2
  <2>6. Se!FoundIsAsked'
    BY <2>4, <2>5 DEF Se!FoundIsAsked
  <2>7. found \subseteq 1..MaxDocs
    BY <2>3, <2>4
  <2>8. top \in 0..MaxDocs
    BY <1>2 DEF Se!IndexAssumption
  <2> HIDE DEF own
  <2> QED
    BY <1>1, <2>1, <2>5, <2>6, <2>7, <2>8, Refilled DEF SearchInv, Se!TypeOK
<1>3. CASE Se!SearchProducts(docs, w)
  <2>1. /\ answer' = [kind |-> "products", given |-> docs, query |-> w, top |-> Len(docs),
                      found |-> {}]
        /\ Len(docs) \in 0..MaxDocs
    <3>1. Len(docs) \in 0..MaxDocs
      BY Filled DEF Se!IndexAssumption
    <3> QED
      BY <1>3, <3>1 DEF Se!SearchProducts, Se!Answer
  <2>2. Se!FoundIsAsked'
    BY <2>1 DEF Se!FoundIsAsked
  <2>3. CASE Se!Refill(docs)
    BY <1>1, <2>1, <2>2, <2>3, Refilled DEF SearchInv, Se!TypeOK
  <2>4. CASE UNCHANGED <<corpus, emptied>>
    BY <1>1, <2>1, <2>2, <2>4 DEF SearchInv, Se!TypeOK, Se!IndexExplained
  <2> QED
    BY <1>3, <2>3, <2>4 DEF Se!SearchProducts
<1> QED
  BY <1>2, <1>3

\* Every step of the search index keeps its invariant.
LEMMA SearchStep ==
  ASSUME SearchInv, Se!IndexAssumption, [Se!Next]_(Se!indexVars)
  PROVE  SearchInv' /\ emptied \subseteq emptied'
<1>1. CASE Se!Next
  BY <1>1, SearchSave, SearchGiven DEF Se!Next
<1>2. CASE UNCHANGED Se!indexVars
  BY <1>2 DEF Se!indexVars, SearchInv, Se!TypeOK, Se!FoundIsAsked, Se!IndexExplained
<1> QED
  BY <1>1, <1>2

\* A behaviour of the search index keeps its invariant.
LEMMA SearchInvariance ==
  ASSUME Se!IndexAssumption
  PROVE  Se!Spec => []SearchInv
<1>1. Se!Init => SearchInv
  <2> SUFFICES ASSUME Se!Init PROVE SearchInv
    OBVIOUS
  <2>1. corpus = <<>> /\ DOMAIN corpus = {}
    BY DEF Se!Init
  <2>2. <<>> \in Se!Documents
    <3>1. <<>> \in [1..0 -> Words] /\ 0 \in 0..MaxDocs
      BY DEF Se!IndexAssumption
    <3> QED
      BY <3>1 DEF Se!Documents
  <2>3. corpus \in Seq([key : Entities \cup 1..MaxDocs, text : Words])
    BY <2>1
  <2> QED
    BY <2>1, <2>2, <2>3 DEF Se!Init, Se!Unasked, SearchInv, Se!TypeOK, Se!FoundIsAsked,
       Se!IndexExplained, Se!IndexAssumption
<1>2. SearchInv /\ [Se!Next]_(Se!indexVars) => SearchInv'
  BY SearchStep
<1> QED
  BY <1>1, <1>2, PTL DEF Se!Spec

\* A search finds matching documents of its own only, and all of them or topN.
THEOREM SearchFinds ==
  ASSUME Se!IndexAssumption
  PROVE  Se!Spec => []Se!FoundIsAsked
<1>1. SearchInv => Se!FoundIsAsked
  BY DEF SearchInv
<1> QED
  BY <1>1, SearchInvariance, PTL

\* What is in the index was remembered so, and what is remembered and not in it was
\* there when the index was emptied.
THEOREM IndexOfTheRemembered ==
  ASSUME Se!IndexAssumption
  PROVE  Se!Spec => []Se!IndexExplained
<1>1. SearchInv => Se!IndexExplained
  BY DEF SearchInv
<1> QED
  BY <1>1, SearchInvariance, PTL

\* Whoever is not in the index any more stays out of it.
THEOREM EmptiedForEver ==
  ASSUME Se!IndexAssumption
  PROVE  Se!Spec => Se!EmptiedStaysOut
<1>1. SearchInv /\ [Se!Next]_(Se!indexVars) => [emptied \subseteq emptied']_(Se!indexVars)
  BY SearchStep
<1> QED
  BY <1>1, SearchInvariance, PTL DEF Se!Spec, Se!EmptiedStaysOut

-----------------------------------------------------------------------------
(* The chat gateway.                                                        *)

\* What is waited for, or told to be sent, is stored; who sent a message by a socket is
\* or was connected, and who sent one over REST takes part in the conversation.
LettersFit ==
    \A l \in Letters :
       /\ l \in waiting \cup sent => letter[l].state # "none"
       /\ letter[l].via # Nobody => socket[letter[l].via] \in {"on", "gone"}
       /\ letter[l].state # "none" /\ letter[l].via = Nobody => letter[l].author \in Members

\* No more is served than was counted, and no more counted than called.
ChatInv ==
    /\ Ch!TypeOK /\ Ch!PresenceIsTrue /\ Ch!ErrorsSayNothing /\ LettersFit
    /\ \A u \in Users : served[u] <= window[u] /\ served[u] <= MaxEvents /\ window[u] <= calls

\* What is kept of a message.
LetterKept(l) ==
    /\ letter[l].state = "deleted" => letter'[l].state = "deleted"
    /\ letter[l].state # "none" => letter'[l].author = letter[l].author
    /\ letter'[l].reader # letter[l].reader =>
         \/ \E s \in Sockets : <<s, l>> \in reading /\ Owner[s] = letter'[l].reader
         \/ letter[l].reader = Nobody /\ letter'[l].reader \notin {letter[l].author, Nobody}
    /\ \A s \in Sockets : <<s, l>> \in reading' \ reading => letter[l].state = "stored"

\* Sockets on their way leave what they have sent.
SocketsGo ==
    \A r \in Sockets : /\ told[r] = "error" => told'[r] = "error"
                       /\ socket[r] = "gone" => socket'[r] = "gone"
                       /\ socket[r] = "on" => socket'[r] \in {"on", "gone"}

\* Where no message changes but in its state or its reader, and nobody waits who did not.
LEMMA LettersRest ==
  ASSUME ChatInv, SocketsGo,
         \A l \in Letters : /\ letter'[l].via = letter[l].via
                            /\ letter'[l].author = letter[l].author
                            /\ letter'[l].state = "none" <=> letter[l].state = "none",
         waiting' = waiting, sent' = sent
  PROVE  Ch!ErrorsSayNothing' /\ LettersFit'
<1>1. \A l \in Letters : letter[l].via \in Sockets \cup {Nobody}
  BY DEF ChatInv, Ch!TypeOK
<1>2. Ch!ErrorsSayNothing'
  BY <1>1 DEF ChatInv, SocketsGo, Ch!ErrorsSayNothing
<1>3. LettersFit'
  BY <1>1 DEF ChatInv, SocketsGo, LettersFit
<1> QED
  BY <1>2, <1>3

\* Coming and going leave the events as they are.
LEMMA ChatDoor ==
  ASSUME ChatInv, Ch!ChatAssumption, NEW s \in Sockets,
         Ch!Connect(s) \/ Ch!Admit(s) \/ Ch!Disconnect(s) \/ Ch!Revoke(s)
  PROVE  ChatInv' /\ UNCHANGED <<letter, reading>>
<1>1. UNCHANGED <<letter, reading, waiting, sent, told, joining, window, served, calls>>
  BY DEF Ch!Connect, Ch!Admit, Ch!Disconnect, Ch!Revoke, Ch!letters
<1>2. Ch!TypeOK' /\ Ch!PresenceIsTrue'
  <2>1. CASE Ch!Connect(s)
    BY <1>1, <2>1 DEF Ch!Connect, ChatInv, Ch!TypeOK, Ch!PresenceIsTrue
  <2>2. CASE Ch!Admit(s)
    BY <1>1, <2>2 DEF Ch!Admit, ChatInv, Ch!TypeOK, Ch!PresenceIsTrue
  <2>3. CASE Ch!Disconnect(s)
    BY <1>1, <2>3 DEF Ch!Disconnect, ChatInv, Ch!TypeOK, Ch!PresenceIsTrue
  <2>4. CASE Ch!Revoke(s)
    BY <1>1, <2>4 DEF Ch!Revoke, ChatInv, Ch!TypeOK, Ch!PresenceIsTrue
  <2> QED
    BY <2>1, <2>2, <2>3, <2>4
<1>3. SocketsGo
  BY <1>1 DEF SocketsGo, Ch!Connect, Ch!Admit, Ch!Disconnect, Ch!Revoke, ChatInv, Ch!TypeOK
<1>4. Ch!ErrorsSayNothing' /\ LettersFit'
  BY <1>1, <1>3, LettersRest
<1> QED
  BY <1>1, <1>2, <1>4 DEF ChatInv

\* Who is where is as it was.
LEMMA ChatPresence ==
  ASSUME Ch!PresenceIsTrue, UNCHANGED <<socket, connections, slipped>>, room' \subseteq room
  PROVE  Ch!PresenceIsTrue'
BY DEF Ch!PresenceIsTrue

\* An event that counts, served only within the limit.
LEMMA ChatCount ==
  ASSUME ChatInv, Ch!ChatAssumption, NEW s \in Sockets, Ch!Limited(s)
  PROVE  /\ window' \in [Users -> 0..MaxSends] /\ served' \in [Users -> 0..MaxSends]
         /\ calls' \in 0..MaxSends
         /\ \A u \in Users : served'[u] <= window'[u] /\ served'[u] <= MaxEvents
                             /\ window'[u] <= calls'
<1>1. Owner[s] \in Users /\ calls \in 0..MaxSends /\ calls < MaxSends /\ calls' = calls + 1
  BY DEF Ch!ChatAssumption, ChatInv, Ch!TypeOK, Ch!Calling, Ch!Limited
<1>2. /\ window \in [Users -> 0..MaxSends] /\ served \in [Users -> 0..MaxSends]
      /\ MaxSends \in Nat /\ MaxEvents \in Nat
      /\ window' = [window EXCEPT ![Owner[s]] = window[Owner[s]] + 1]
  BY DEF Ch!ChatAssumption, ChatInv, Ch!TypeOK, Ch!Count, Ch!Limited
<1>3. \A u \in Users : served[u] <= window[u] /\ served[u] <= MaxEvents /\ window[u] <= calls
  BY DEF ChatInv
<1>4. \/ /\ window[Owner[s]] < MaxEvents
         /\ served' = [served EXCEPT ![Owner[s]] = served[Owner[s]] + 1]
      \/ served' = served
  BY DEF Ch!Within, Ch!Serve, Ch!Limited
<1>5. ASSUME NEW u \in Users
      PROVE  /\ window'[u] \in 0..MaxSends /\ served'[u] \in 0..MaxSends
             /\ served'[u] <= window'[u] /\ served'[u] <= MaxEvents /\ window'[u] <= calls'
  <2>1. CASE u = Owner[s]
    BY <1>1, <1>2, <1>3, <1>4, <2>1
  <2>2. CASE u # Owner[s]
    BY <1>1, <1>2, <1>3, <1>4, <2>2
  <2> QED
    BY <2>1, <2>2
<1> QED
  BY <1>1, <1>2, <1>4, <1>5

\* A new message, by socket s or, when s is Nobody, over REST.
LEMMA LettersGrow ==
  ASSUME ChatInv, Ch!ChatAssumption, NEW l \in Letters, letter[l] = Ch!NoLetter,
         NEW u \in Users, NEW s \in Sockets \cup {Nobody},
         letter' = [letter EXCEPT ![l] = [author |-> u, state |-> "stored",
                                          reader |-> Nobody, via |-> s]],
         IF s = Nobody THEN u \in Members ELSE socket[s] = "on",
         waiting' = waiting \cup {l}, UNCHANGED <<socket, told, reading, sent>>
  PROVE  /\ Ch!ErrorsSayNothing' /\ LettersFit' /\ \A k \in Letters : LetterKept(k)
         /\ letter' \in [Letters -> [author : Users \cup {Nobody},
                                     state : {"none", "stored", "deleted"},
                                     reader : Members \cup {Nobody}, via : Sockets \cup {Nobody}]]
         /\ waiting' \subseteq Letters
<1>1. letter' \in [Letters -> [author : Users \cup {Nobody}, state : {"none", "stored", "deleted"},
                               reader : Members \cup {Nobody}, via : Sockets \cup {Nobody}]]
  BY DEF ChatInv, Ch!TypeOK
<1>2. /\ letter'[l] = [author |-> u, state |-> "stored", reader |-> Nobody, via |-> s]
      /\ \A k \in Letters : k # l => letter'[k] = letter[k]
      /\ letter[l].state = "none" /\ letter[l].reader = Nobody
  BY DEF ChatInv, Ch!TypeOK, Ch!NoLetter
<1>3. l \notin sent
  BY <1>2 DEF ChatInv, LettersFit
<1>4. Ch!ErrorsSayNothing'
  BY <1>2, <1>3 DEF ChatInv, Ch!ErrorsSayNothing
<1>5. LettersFit'
  BY <1>2 DEF ChatInv, LettersFit, Ch!ChatAssumption
<1>6. \A k \in Letters : LetterKept(k)
  BY <1>2 DEF LetterKept
<1> QED
  BY <1>1, <1>4, <1>5, <1>6 DEF ChatInv, Ch!TypeOK

\* A message is sent: stored within the limit, or its sender told of an error.
LEMMA ChatSend ==
  ASSUME ChatInv, Ch!ChatAssumption, NEW s \in Sockets, NEW l \in Letters, Ch!SendMessage(s, l)
  PROVE  ChatInv' /\ \A k \in Letters : LetterKept(k)
<1>1. /\ Ch!Limited(s) /\ Owner[s] \in Users /\ socket[s] = "on" /\ letter[l] = Ch!NoLetter
      /\ UNCHANGED <<socket, token, connections, room, joining, slipped, reading, sent>>
  BY DEF Ch!SendMessage, Ch!ChatAssumption, Ch!Limited, Ch!Calling
<1>2. Ch!PresenceIsTrue'
  BY <1>1, ChatPresence DEF ChatInv
<1>3. CASE /\ letter' = [letter EXCEPT ![l] = [author |-> Owner[s], state |-> "stored",
                                               reader |-> Nobody, via |-> s]]
           /\ waiting' = waiting \cup {l} /\ told' = told
  <2>1. s # Nobody
    BY DEF Ch!ChatAssumption
  <2>2. /\ Ch!ErrorsSayNothing' /\ LettersFit' /\ \A k \in Letters : LetterKept(k)
        /\ letter' \in [Letters -> [author : Users \cup {Nobody},
                                    state : {"none", "stored", "deleted"},
                                    reader : Members \cup {Nobody}, via : Sockets \cup {Nobody}]]
        /\ waiting' \subseteq Letters
    BY <1>1, <1>3, <2>1, LettersGrow
  <2>3. Ch!TypeOK'
    BY <1>1, <1>3, <2>2, ChatCount DEF ChatInv, Ch!TypeOK
  <2> QED
    BY <1>1, <1>2, <2>2, <2>3, ChatCount DEF ChatInv
<1>4. CASE told' = [told EXCEPT ![s] = "error"] /\ UNCHANGED <<letter, waiting>>
  <2>1. SocketsGo /\ told' \in [Sockets -> {"nothing", "error"}]
    BY <1>1, <1>4 DEF SocketsGo, ChatInv, Ch!TypeOK
  <2>2. Ch!ErrorsSayNothing' /\ LettersFit'
    BY <1>1, <1>4, <2>1, LettersRest
  <2>3. \A k \in Letters : LetterKept(k)
    BY <1>1, <1>4 DEF LetterKept
  <2>4. Ch!TypeOK'
    BY <1>1, <1>4, <2>1, ChatCount DEF ChatInv, Ch!TypeOK
  <2> QED
    BY <1>1, <1>2, <2>2, <2>3, <2>4, ChatCount DEF ChatInv
<1> QED
  BY <1>3, <1>4 DEF Ch!SendMessage, Ch!Tell, Ch!NoLetter

\* The handler of a message, or of a post, ends.
LEMMA ChatAnswers ==
  ASSUME ChatInv, Ch!ChatAssumption, NEW l \in Letters, Ch!Announce(l) \/ Ch!PostAnswer(l)
  PROVE  ChatInv' /\ UNCHANGED <<letter, reading>>
<1>1. /\ UNCHANGED <<socket, token, connections, room, joining, window, reading, letter, served,
                     calls, slipped>>
      /\ l \in waiting /\ waiting' = waiting \ {l}
  BY DEF Ch!Announce, Ch!PostAnswer
<1>2. Ch!PresenceIsTrue'
  BY <1>1, ChatPresence DEF ChatInv
<1>3. \A k \in Letters : letter[k].via \in Sockets \cup {Nobody}
  BY DEF ChatInv, Ch!TypeOK
<1>4. CASE Ch!Announce(l)
  <2>1. letter[l].via \in Sockets /\ sent' = sent
    BY <1>4 DEF Ch!Announce
  <2>2. letter[l].via # Nobody => socket[letter[l].via] \in {"on", "gone"}
    BY DEF ChatInv, LettersFit
  <2>3. /\ told' \in [Sockets -> {"nothing", "error"}]
        /\ \A r \in Sockets : told[r] = "error" => told'[r] = "error"
        /\ socket[letter[l].via] = "on" => told'[letter[l].via] = "error"
    BY <1>4, <2>1 DEF Ch!Announce, Ch!Tell, ChatInv, Ch!TypeOK
  <2>4. Ch!ErrorsSayNothing'
    BY <1>1, <1>3, <2>1, <2>2, <2>3 DEF ChatInv, Ch!ErrorsSayNothing
  <2>5. LettersFit'
    BY <1>1, <2>1 DEF ChatInv, LettersFit
  <2>6. Ch!TypeOK'
    BY <1>1, <2>1, <2>3 DEF ChatInv, Ch!TypeOK
  <2> QED
    BY <1>1, <1>2, <2>4, <2>5, <2>6 DEF ChatInv
<1>5. CASE Ch!PostAnswer(l)
  <2>1. letter[l].via = Nobody /\ sent' \in {sent, sent \cup {l}} /\ told' = told
    BY <1>5 DEF Ch!PostAnswer
  <2>2. letter[l].state # "none" /\ letter[l].author \in Members
    BY <1>1, <2>1 DEF ChatInv, LettersFit
  <2>3. Ch!ErrorsSayNothing'
    BY <1>1, <2>1, <2>2 DEF ChatInv, Ch!ErrorsSayNothing
  <2>4. LettersFit'
    BY <1>1, <2>1, <2>2 DEF ChatInv, LettersFit
  <2>5. Ch!TypeOK'
    BY <1>1, <2>1 DEF ChatInv, Ch!TypeOK
  <2> QED
    BY <1>1, <1>2, <2>3, <2>4, <2>5 DEF ChatInv
<1> QED
  BY <1>4, <1>5

\* A message is looked for, marked as read, or deleted by its author.
LEMMA ChatMark ==
  ASSUME ChatInv, Ch!ChatAssumption, NEW s \in Sockets, NEW l \in Letters,
         Ch!MessageRead(s, l) \/ Ch!MarkMessageAsRead(s, l) \/ Ch!MessageDelete(s, l)
  PROVE  ChatInv' /\ \A k \in Letters : LetterKept(k)
<1>1. UNCHANGED <<socket, token, connections, room, joining, slipped, waiting, sent>>
  BY DEF Ch!MessageRead, Ch!MarkMessageAsRead, Ch!MessageDelete
<1>2. \/ letter' = letter
      \/ /\ <<s, l>> \in reading /\ Owner[s] \in Members
         /\ letter' = [letter EXCEPT ![l].reader = Owner[s]]
      \/ letter[l].state = "stored" /\ letter' = [letter EXCEPT ![l].state = "deleted"]
  BY DEF Ch!MessageRead, Ch!MarkMessageAsRead, Ch!MessageDelete
<1>3. told' = told \/ told' = [told EXCEPT ![s] = "error"]
  BY DEF Ch!MessageRead, Ch!MarkMessageAsRead, Ch!MessageDelete, Ch!Tell
<1>4. \/ reading' \subseteq reading
      \/ reading' = reading \cup {<<s, l>>} /\ letter[l].state = "stored"
  BY DEF Ch!MessageRead, Ch!MarkMessageAsRead, Ch!MessageDelete
<1>5. /\ letter' \in [Letters -> [author : Users \cup {Nobody},
                                  state : {"none", "stored", "deleted"},
                                  reader : Members \cup {Nobody}, via : Sockets \cup {Nobody}]]
      /\ \A k \in Letters : /\ letter'[k].author = letter[k].author
                            /\ letter'[k].via = letter[k].via
                            /\ letter'[k].state = "none" <=> letter[k].state = "none"
                            /\ letter[k].state = "deleted" => letter'[k].state = "deleted"
                            /\ letter'[k].reader # letter[k].reader =>
                                 <<s, k>> \in reading /\ Owner[s] = letter'[k].reader
  BY <1>2 DEF ChatInv, Ch!TypeOK
<1>6. \A k \in Letters, r \in Sockets : <<r, k>> \in reading' \ reading => letter[k].state = "stored"
  BY <1>4
<1>7. \A k \in Letters : LetterKept(k)
  BY <1>5, <1>6 DEF LetterKept
<1>8. SocketsGo /\ told' \in [Sockets -> {"nothing", "error"}]
  BY <1>1, <1>3 DEF SocketsGo, ChatInv, Ch!TypeOK
<1>9. Ch!ErrorsSayNothing' /\ LettersFit'
  BY <1>1, <1>5, <1>8, LettersRest
<1>10. Ch!PresenceIsTrue'
  BY <1>1, ChatPresence DEF ChatInv
<1>11. /\ window' \in [Users -> 0..MaxSends] /\ served' \in [Users -> 0..MaxSends]
       /\ calls' \in 0..MaxSends
       /\ \A u \in Users : served'[u] <= window'[u] /\ served'[u] <= MaxEvents
                           /\ window'[u] <= calls'
  <2>1. CASE Ch!MessageRead(s, l)
    <3>1. Ch!Limited(s)
      BY <2>1 DEF Ch!MessageRead
    <3> QED
      BY <3>1, ChatCount
  <2>2. CASE Ch!MarkMessageAsRead(s, l)
    BY <2>2 DEF Ch!MarkMessageAsRead, ChatInv, Ch!TypeOK
  <2>3. CASE Ch!MessageDelete(s, l)
    BY <2>3 DEF Ch!MessageDelete, Ch!Calling, ChatInv, Ch!TypeOK, Ch!ChatAssumption
  <2> QED
    BY <2>1, <2>2, <2>3
<1>12. reading' \subseteq Sockets \X Letters
  BY <1>4 DEF ChatInv, Ch!TypeOK
<1>13. Ch!TypeOK'
  BY <1>1, <1>5, <1>8, <1>11, <1>12 DEF ChatInv, Ch!TypeOK
<1> QED
  BY <1>7, <1>9, <1>10, <1>11, <1>13 DEF ChatInv

\* A participant posts a message over REST, or reads all that others wrote.
LEMMA ChatPost ==
  ASSUME ChatInv, Ch!ChatAssumption, NEW u \in Users,
         (\E l \in Letters : Ch!PostMessage(u, l)) \/ Ch!MarkMessagesAsRead(u)
  PROVE  ChatInv' /\ \A k \in Letters : LetterKept(k)
<1>1. /\ UNCHANGED <<socket, token, connections, room, joining, slipped, window, reading, sent,
                     told, served>>
      /\ u \in Members
  BY DEF Ch!PostMessage, Ch!MarkMessagesAsRead
<1>2. Ch!PresenceIsTrue'
  BY <1>1, ChatPresence DEF ChatInv
<1>3. ASSUME NEW l \in Letters, Ch!PostMessage(u, l)
      PROVE  ChatInv' /\ \A k \in Letters : LetterKept(k)
  <2>1. /\ letter[l] = Ch!NoLetter /\ waiting' = waiting \cup {l}
        /\ letter' = [letter EXCEPT ![l] = [author |-> u, state |-> "stored",
                                            reader |-> Nobody, via |-> Nobody]]
    <3>1. /\ letter[l] = Ch!NoLetter /\ waiting' = waiting \cup {l}
          /\ letter' = [letter EXCEPT ![l] = [Ch!NoLetter EXCEPT !.author = u, !.state = "stored"]]
      BY <1>3 DEF Ch!PostMessage
    <3>2. [Ch!NoLetter EXCEPT !.author = u, !.state = "stored"] =
             [author |-> u, state |-> "stored", reader |-> Nobody, via |-> Nobody]
      <4> DEFINE fields == {"author", "state", "reader", "via"}
      <4>1. Ch!NoLetter = [f \in fields |-> IF f = "state" THEN "none" ELSE Nobody]
        BY DEF Ch!NoLetter
      <4>2. [author |-> u, state |-> "stored", reader |-> Nobody, via |-> Nobody] =
               [f \in fields |-> IF f = "state" THEN "stored" ELSE IF f = "author" THEN u ELSE Nobody]
        OBVIOUS
      <4>3. [[Ch!NoLetter EXCEPT !["author"] = u] EXCEPT !["state"] = "stored"] =
               [f \in fields |-> IF f = "state" THEN "stored" ELSE IF f = "author" THEN u ELSE Nobody]
        BY <4>1
      <4> QED
        BY <4>2, <4>3
    <3> QED
      BY <3>1, <3>2
  <2>2. /\ Ch!ErrorsSayNothing' /\ LettersFit' /\ \A k \in Letters : LetterKept(k)
        /\ letter' \in [Letters -> [author : Users \cup {Nobody},
                                    state : {"none", "stored", "deleted"},
                                    reader : Members \cup {Nobody}, via : Sockets \cup {Nobody}]]
        /\ waiting' \subseteq Letters
    BY <1>1, <2>1, LettersGrow
  <2>3. /\ calls' \in 0..MaxSends /\ calls \in 0..MaxSends /\ calls' = calls + 1
        /\ \A v \in Users : window[v] \in 0..MaxSends /\ window[v] <= calls
    <3>1. calls < MaxSends /\ calls' = calls + 1
      BY <1>3 DEF Ch!PostMessage
    <3>2. /\ calls \in 0..MaxSends /\ MaxSends \in Nat
          /\ \A v \in Users : window[v] \in 0..MaxSends /\ window[v] <= calls
      BY DEF ChatInv, Ch!TypeOK, Ch!ChatAssumption
    <3> QED
      BY <3>1, <3>2
  <2>4. \A v \in Users : window[v] <= calls'
    BY <2>3
  <2>5. Ch!TypeOK'
    BY <1>1, <2>2, <2>3 DEF ChatInv, Ch!TypeOK
  <2> QED
    BY <1>1, <1>2, <2>2, <2>4, <2>5 DEF ChatInv
<1>4. CASE Ch!MarkMessagesAsRead(u)
  <2>1. /\ UNCHANGED <<waiting, calls>>
        /\ letter' = [l \in Letters |->
                        IF letter[l].author \notin {u, Nobody} /\ letter[l].reader = Nobody
                        THEN [letter[l] EXCEPT !.reader = u] ELSE letter[l]]
    BY <1>4 DEF Ch!MarkMessagesAsRead
  <2>2. letter' \in [Letters -> [author : Users \cup {Nobody},
                                 state : {"none", "stored", "deleted"},
                                 reader : Members \cup {Nobody}, via : Sockets \cup {Nobody}]]
    BY <1>1, <2>1 DEF ChatInv, Ch!TypeOK
  <2>3. \A l \in Letters : /\ letter'[l].via = letter[l].via
                           /\ letter'[l].author = letter[l].author
                           /\ letter'[l].state = letter[l].state
                           /\ letter'[l].reader # letter[l].reader =>
                                /\ letter[l].reader = Nobody /\ letter[l].author # u
                                /\ letter'[l].reader = u
    BY <2>1 DEF ChatInv, Ch!TypeOK
  <2>4. SocketsGo
    BY <1>1 DEF SocketsGo
  <2>5. Ch!ErrorsSayNothing' /\ LettersFit'
    BY <1>1, <2>1, <2>3, <2>4, LettersRest
  <2>6. u # Nobody
    BY DEF Ch!ChatAssumption
  <2>7. \A k \in Letters : LetterKept(k)
    BY <1>1, <2>3, <2>6 DEF LetterKept
  <2>8. Ch!TypeOK'
    BY <1>1, <2>1, <2>2 DEF ChatInv, Ch!TypeOK
  <2> QED
    BY <1>1, <1>2, <2>1, <2>5, <2>7, <2>8 DEF ChatInv
<1> QED
  BY <1>3, <1>4

\* Joining and leaving the room, and typing in it.
LEMMA ChatRoom ==
  ASSUME ChatInv, Ch!ChatAssumption, NEW s \in Sockets,
         Ch!AskJoin(s) \/ Ch!ConversationJoin(s) \/ Ch!ConversationLeave(s) \/ Ch!Typing(s)
  PROVE  ChatInv' /\ UNCHANGED <<letter, reading>>
<1>1. UNCHANGED <<socket, token, connections, letter, reading, waiting, sent>>
  BY DEF Ch!AskJoin, Ch!ConversationJoin, Ch!ConversationLeave, Ch!Typing, Ch!letters
<1>2. /\ joining' \subseteq Sockets /\ room' \subseteq Sockets /\ slipped' \subseteq Sockets
      /\ told' \in [Sockets -> {"nothing", "error"}]
      /\ \A r \in Sockets : told[r] = "error" => told'[r] = "error"
  BY DEF Ch!AskJoin, Ch!ConversationJoin, Ch!ConversationLeave, Ch!Typing, Ch!Tell, ChatInv,
     Ch!TypeOK
<1>3. SocketsGo
  BY <1>1, <1>2 DEF SocketsGo
<1>4. Ch!ErrorsSayNothing' /\ LettersFit'
  BY <1>1, <1>3, LettersRest
<1>5. Ch!PresenceIsTrue'
  <2>1. CASE Ch!ConversationJoin(s)
    BY <2>1 DEF Ch!ConversationJoin, ChatInv, Ch!TypeOK, Ch!PresenceIsTrue
  <2>2. CASE Ch!AskJoin(s) \/ Ch!ConversationLeave(s) \/ Ch!Typing(s)
    <3>1. UNCHANGED <<socket, connections, slipped>> /\ room' \subseteq room
      BY <2>2 DEF Ch!AskJoin, Ch!ConversationLeave, Ch!Typing
    <3> QED
      BY <3>1, ChatPresence DEF ChatInv
  <2> QED
    BY <2>1, <2>2
<1>6. /\ window' \in [Users -> 0..MaxSends] /\ served' \in [Users -> 0..MaxSends]
      /\ calls' \in 0..MaxSends
      /\ \A u \in Users : served'[u] <= window'[u] /\ served'[u] <= MaxEvents
                          /\ window'[u] <= calls'
  <2>1. CASE Ch!Typing(s)
    <3>1. Ch!Limited(s)
      BY <2>1 DEF Ch!Typing
    <3> QED
      BY <3>1, ChatCount
  <2>2. CASE Ch!ConversationJoin(s)
    BY <2>2 DEF Ch!ConversationJoin, ChatInv, Ch!TypeOK
  <2>3. CASE Ch!AskJoin(s) \/ Ch!ConversationLeave(s)
    BY <2>3 DEF Ch!AskJoin, Ch!ConversationLeave, Ch!Calling, ChatInv, Ch!TypeOK,
       Ch!ChatAssumption
  <2> QED
    BY <2>1, <2>2, <2>3
<1>7. Ch!TypeOK'
  BY <1>1, <1>2, <1>6 DEF ChatInv, Ch!TypeOK
<1> QED
  BY <1>1, <1>4, <1>5, <1>6, <1>7 DEF ChatInv

\* A window ends.
LEMMA ChatWindow ==
  ASSUME ChatInv, Ch!ChatAssumption, NEW u \in Users, Ch!WindowEnds(u)
  PROVE  ChatInv' /\ UNCHANGED <<letter, reading>>
<1>1. /\ window' = [window EXCEPT ![u] = 0] /\ served' = [served EXCEPT ![u] = 0]
      /\ UNCHANGED <<socket, token, connections, room, joining, letter, reading, waiting, sent,
                     told, calls, slipped>>
  BY DEF Ch!WindowEnds, Ch!letters
<1>2. SocketsGo
  BY <1>1 DEF SocketsGo
<1>3. Ch!ErrorsSayNothing' /\ LettersFit' /\ Ch!PresenceIsTrue'
  BY <1>1, <1>2, LettersRest, ChatPresence DEF ChatInv
<1>4. Ch!TypeOK'
  BY <1>1 DEF ChatInv, Ch!TypeOK, Ch!ChatAssumption
<1>5. \A v \in Users : served'[v] <= window'[v] /\ served'[v] <= MaxEvents /\ window'[v] <= calls'
  BY <1>1 DEF ChatInv, Ch!TypeOK, Ch!ChatAssumption
<1> QED
  BY <1>1, <1>3, <1>4, <1>5 DEF ChatInv

\* After a restart nobody is connected and nothing waited for.
LEMMA ChatRestart ==
  ASSUME ChatInv, Ch!ChatAssumption, Ch!Restart
  PROVE  ChatInv' /\ letter' = letter /\ reading' = {}
<1>1. /\ socket' = [s \in Sockets |-> IF socket[s] = "off" THEN "off" ELSE "gone"]
      /\ connections' = {} /\ room' = {} /\ joining' = {} /\ slipped' = {}
      /\ reading' = {} /\ waiting' = {}
      /\ window' = [u \in Users |-> 0] /\ served' = [u \in Users |-> 0]
      /\ UNCHANGED <<token, letter, sent, told, calls>>
  BY DEF Ch!Restart
<1>2. \A l \in Letters : letter[l].via \in Sockets \cup {Nobody}
  BY DEF ChatInv, Ch!TypeOK
<1>3. \A l \in Letters : letter[l].via # Nobody => socket'[letter[l].via] = "gone"
  BY <1>1, <1>2 DEF ChatInv, LettersFit
<1>4. Ch!ErrorsSayNothing'
  BY <1>1, <1>3 DEF ChatInv, Ch!ErrorsSayNothing
<1>5. LettersFit'
  BY <1>1, <1>3 DEF ChatInv, LettersFit
<1>6. Ch!PresenceIsTrue'
  BY <1>1 DEF Ch!PresenceIsTrue
<1>7. Ch!TypeOK'
  BY <1>1 DEF ChatInv, Ch!TypeOK, Ch!ChatAssumption
<1>8. \A v \in Users : served'[v] <= window'[v] /\ served'[v] <= MaxEvents /\ window'[v] <= calls'
  BY <1>1 DEF ChatInv, Ch!TypeOK, Ch!ChatAssumption
<1> QED
  BY <1>1, <1>4, <1>5, <1>6, <1>7, <1>8 DEF ChatInv

\* Every step of the chat keeps its invariant.
LEMMA ChatStep ==
  ASSUME ChatInv, Ch!ChatAssumption, [Ch!Next]_(Ch!chatVars)
  PROVE  ChatInv' /\ \A l \in Letters : LetterKept(l)
<1>1. letter' = letter /\ reading' \subseteq reading => \A l \in Letters : LetterKept(l)
  BY DEF LetterKept
<1>2. CASE \E s \in Sockets : Ch!Connect(s) \/ Ch!Admit(s) \/ Ch!Disconnect(s) \/ Ch!Revoke(s)
  BY <1>1, <1>2, ChatDoor
<1>3. CASE \E s \in Sockets : Ch!Event(s) \/ Ch!ConversationJoin(s)
  BY <1>1, <1>3, ChatSend, ChatMark, ChatRoom DEF Ch!Event
<1>4. CASE \E s \in Sockets, l \in Letters : Ch!MarkMessageAsRead(s, l)
  BY <1>4, ChatMark
<1>5. CASE \E l \in Letters : Ch!Announce(l) \/ Ch!PostAnswer(l)
  BY <1>1, <1>5, ChatAnswers
<1>6. CASE \E u \in Users, l \in Letters : Ch!PostMessage(u, l)
  BY <1>6, ChatPost
<1>7. CASE \E u \in Users : Ch!WindowEnds(u) \/ Ch!MarkMessagesAsRead(u)
  BY <1>1, <1>7, ChatWindow, ChatPost
<1>8. CASE Ch!Restart
  BY <1>1, <1>8, ChatRestart
<1>9. CASE UNCHANGED Ch!chatVars
  <2>1. UNCHANGED <<socket, token, connections, room, joining, window, reading, letter, waiting,
                    sent, told, served, calls, slipped>>
    BY <1>9 DEF Ch!chatVars, Ch!letters
  <2> QED
    BY <1>1, <2>1 DEF ChatInv, Ch!TypeOK, Ch!PresenceIsTrue, Ch!ErrorsSayNothing, LettersFit
<1> QED
  BY <1>2, <1>3, <1>4, <1>5, <1>6, <1>7, <1>8, <1>9 DEF Ch!Next

\* A behaviour of the chat keeps its invariant.
LEMMA ChatInvariance ==
  ASSUME Ch!ChatAssumption
  PROVE  Ch!Spec => []ChatInv
<1>1. Ch!Init => ChatInv
  BY DEF Ch!Init, ChatInv, Ch!TypeOK, Ch!PresenceIsTrue, Ch!ErrorsSayNothing, LettersFit,
     Ch!NoLetter, Ch!ChatAssumption
<1>2. ChatInv /\ [Ch!Next]_(Ch!chatVars) => ChatInv'
  BY ChatStep
<1> QED
  BY <1>1, <1>2, PTL DEF Ch!Spec

\* Who counts as present is connected, but for sockets that slipped away during an await.
THEOREM PresentIsConnected ==
  ASSUME Ch!ChatAssumption
  PROVE  Ch!Spec => []Ch!PresenceIsTrue
<1>1. ChatInv => Ch!PresenceIsTrue
  BY DEF ChatInv
<1> QED
  BY <1>1, ChatInvariance, PTL

\* However many sockets he has, a user is served no more than the limit in a window.
THEOREM RateHeld ==
  ASSUME Ch!ChatAssumption
  PROVE  Ch!Spec => []Ch!RateHolds
<1>1. ChatInv => Ch!RateHolds
  BY DEF ChatInv, Ch!RateHolds
<1> QED
  BY <1>1, ChatInvariance, PTL

\* The sender of a message that the gateway has stored was told of an error unless he, or
\* the process, was gone; what REST said to be sent is a participant's, and stored.
THEOREM SenderToldError ==
  ASSUME Ch!ChatAssumption
  PROVE  Ch!Spec => []Ch!ErrorsSayNothing
<1>1. ChatInv => Ch!ErrorsSayNothing
  BY DEF ChatInv
<1> QED
  BY <1>1, ChatInvariance, PTL

\* A deleted message stays deleted and a message keeps its author; its reader changes
\* only by a read that had found it, or by one of all that others wrote.
THEOREM LettersStay ==
  ASSUME Ch!ChatAssumption
  PROVE  Ch!Spec => Ch!LettersKept
<1>1. ChatInv /\ [Ch!Next]_(Ch!chatVars) =>
        [\A l \in Letters :
          /\ letter[l].state = "deleted" => letter'[l].state = "deleted"
          /\ letter[l].state # "none" => letter'[l].author = letter[l].author
          /\ letter'[l].reader # letter[l].reader =>
               \/ \E s \in Sockets : <<s, l>> \in reading /\ Owner[s] = letter'[l].reader
               \/ letter[l].reader = Nobody /\ letter'[l].reader \notin {letter[l].author, Nobody}
          /\ \A s \in Sockets : <<s, l>> \in reading' \ reading => letter[l].state = "stored"
        ]_(Ch!chatVars)
  BY ChatStep DEF LetterKept
<1> QED
  BY <1>1, ChatInvariance, PTL DEF Ch!Spec, Ch!LettersKept

-----------------------------------------------------------------------------
(* Inferences.                                                              *)

InRows == {"none", "pending", "processing", "completed", "failed"}
InStages == {"none", "asked", "step", "queued", "running", "answered", "counting", "failing",
             "failingWithOutput", "done"}
InModels == [status : {"training", "active", "deprecated"}, count : Nat]
InFlows == [status : {"pending", "running", "completed", "failed"}, done : 0..Steps]

\* The row that goes with each stage of an inference.
StageShape(j) ==
    /\ row[j] = "none" <=> job[j] \in {"none", "asked", "step"}
    /\ job[j] = "queued" => row[j] = "pending"
    /\ job[j] \in {"running", "answered"} => row[j] = "processing"
    /\ job[j] = "counting" => row[j] = "completed"
    /\ job[j] \in {"failing", "failingWithOutput"} => breaks > 0
    /\ j \in counted => job[j] \in {"failingWithOutput", "done"}
    /\ row[j] = "completed" => j \in output
    /\ row[j] = "failed" => breaks > 0
    /\ job[j] = "done" /\ row[j] = "completed" /\ breaks = 0 /\ ~stopped => j \in counted

\* A copy of the model's row has at most the count there is.
CopiedShape(a) ==
    admin[a] = "read" =>
        copy[a] \in InModels /\ (~edited => copy[a].count <= Cardinality(counted))

\* The rows of the inferences and of the model, and what runs on them.
RowsShape ==
    /\ row \in [Jobs -> InRows] /\ job \in [Jobs -> InStages]
    /\ output \subseteq Jobs /\ counted \subseteq output
    /\ model \in InModels /\ (~edited => model.count <= Cardinality(counted))
    /\ ~edited /\ ~stale => model.count = Cardinality(counted)
    /\ admin \in [Admins -> {"idle", "read", "done"}] /\ copy \in [Admins -> InModels \cup {NoCopy}]
    /\ breaks \in 0..MaxBreaks
    /\ stale \in BOOLEAN /\ edited \in BOOLEAN /\ stopped \in BOOLEAN
    /\ \A j \in Jobs : StageShape(j)
    /\ \A a \in Admins : CopiedShape(a)

\* The workflow has stored an inference for each of its steps, and says it is complete only
\* after the last.
WorkShape ==
    /\ flow \in InFlows /\ runner \in {"idle", "running", "storing", "failing", "done"}
    /\ asked \subseteq Jobs /\ flow.done = Cardinality(asked)
    /\ \A j \in asked : row[j] # "none"
    /\ runner = "storing" => flow.done < Steps
    /\ flow.status = "completed" => flow.done = Steps /\ runner = "done"
    /\ runner = "done" /\ flow.status = "running" => stopped \/ breaks > 0

InferenceInv == RowsShape /\ WorkShape

\* What becomes of a row.
RowMoves(j) ==
    /\ row[j] = "failed" => row'[j] = "failed"
    /\ row[j] = "completed" => row'[j] \in {"completed", "failed"}
    /\ row'[j] = "completed" /\ row[j] # "completed" => row[j] = "processing"
    /\ j \in output => j \in output'

\* The instance's finite sets are those of the library.
LEMMA InferenceLibrary ==
  /\ \A S : Nf!IsFiniteSet(S) <=> IsFiniteSet(S)
  /\ \A S : Nf!Cardinality(S) = Cardinality(S)
BY DEF Nf!IsFiniteSet, IsFiniteSet, Nf!Cardinality, Cardinality

\* How many there are of some of the inferences.
LEMMA JobsCount ==
  ASSUME Nf!InferenceAssumption, NEW S \in SUBSET Jobs
  PROVE  /\ IsFiniteSet(S) /\ Cardinality(S) \in Nat /\ Cardinality(S) <= Cardinality(Jobs)
         /\ Cardinality(Jobs) \in Nat
         /\ \A j \in Jobs : Cardinality(S \cup {j}) = IF j \in S THEN Cardinality(S)
                                                      ELSE Cardinality(S) + 1
<1>1. IsFiniteSet(Jobs) /\ IsFiniteSet(S)
  BY InferenceLibrary, FS_Subset DEF Nf!InferenceAssumption
<1>2. Cardinality(S) \in Nat /\ Cardinality(Jobs) \in Nat /\ Cardinality(S) <= Cardinality(Jobs)
  BY <1>1, FS_CardinalityType, FS_Subset
<1>3. \A j \in Jobs : Cardinality(S \cup {j}) = IF j \in S THEN Cardinality(S)
                                                ELSE Cardinality(S) + 1
  BY <1>1, FS_AddElement
<1> QED
  BY <1>1, <1>2, <1>3

\* One inference moves on, and the model's row stays.
LEMMA RowsMove ==
  ASSUME RowsShape, NEW j \in Jobs,
         UNCHANGED <<model, admin, copy, counted, stale, edited, stopped>>,
         row' \in [Jobs -> InRows], job' \in [Jobs -> InStages],
         \A k \in Jobs : k # j => row'[k] = row[k] /\ job'[k] = job[k],
         output \subseteq output', output' \subseteq output \cup {j},
         breaks' \in 0..MaxBreaks, breaks <= breaks', StageShape(j)', RowMoves(j)
  PROVE  RowsShape' /\ \A k \in Jobs : RowMoves(k)
<1>1. \A k \in Jobs : k # j => StageShape(k)' /\ RowMoves(k)
  BY DEF RowsShape, StageShape, RowMoves
<1>2. \A a \in Admins : CopiedShape(a)'
  BY DEF RowsShape, CopiedShape, InModels
<1> QED
  BY <1>1, <1>2 DEF RowsShape, InModels

\* A failure, when there may be one.
LEMMA BreakIs ==
  ASSUME RowsShape, Nf!InferenceAssumption, Nf!Break
  PROVE  breaks' \in 0..MaxBreaks /\ breaks <= breaks' /\ breaks' > 0
BY DEF RowsShape, Nf!InferenceAssumption, Nf!Break

\* An inference is stored and marked, its model runs, and its end is saved.
LEMMA RowsStage ==
  ASSUME RowsShape, Nf!InferenceAssumption, NEW j \in Jobs,
         UNCHANGED <<model, admin, copy, counted, stale, edited, stopped>>,
         \/ /\ Nf!Stored(j) /\ job[j] \in {"asked", "step"}
            /\ UNCHANGED <<output, breaks>>
         \/ Nf!MarkProcessing(j) \/ Nf!RunModel(j) \/ Nf!SaveCompleted(j) \/ Nf!SaveFailed(j)
  PROVE  RowsShape' /\ \A k \in Jobs : RowMoves(k)
<1>0. /\ row \in [Jobs -> InRows] /\ job \in [Jobs -> InStages] /\ StageShape(j)
      /\ breaks \in 0..MaxBreaks /\ MaxBreaks \in Nat
  BY DEF RowsShape, Nf!InferenceAssumption
<1>1. \A r, s : /\ Nf!Row(j, r) <=> row' = [row EXCEPT ![j] = r]
                /\ Nf!To(j, s) <=> job' = [job EXCEPT ![j] = s]
                /\ Nf!At(j, s) <=> job[j] = s
  BY DEF Nf!Row, Nf!To, Nf!At
<1>2. CASE Nf!Stored(j) /\ job[j] \in {"asked", "step"} /\ UNCHANGED <<output, breaks>>
  <2>1. /\ row[j] = "none" /\ row' = [row EXCEPT ![j] = "pending"]
        /\ job' = [job EXCEPT ![j] = "queued"]
    BY <1>0, <1>1, <1>2 DEF Nf!Stored, StageShape
  <2>2. row' \in [Jobs -> InRows] /\ job' \in [Jobs -> InStages]
    BY <1>0, <2>1 DEF InRows, InStages
  <2>3. StageShape(j)' /\ RowMoves(j)
    BY <1>0, <1>2, <2>1 DEF StageShape, RowMoves
  <2> QED
    BY <1>0, <1>2, <2>1, <2>2, <2>3, RowsMove
<1>3. CASE Nf!MarkProcessing(j)
  <2>1. /\ job[j] = "queued" /\ output' = output
        /\ \/ /\ row' = [row EXCEPT ![j] = "processing"] /\ job' = [job EXCEPT ![j] = "running"]
              /\ breaks' = breaks
           \/ /\ row' = row /\ Nf!Break
              /\ job' = [job EXCEPT ![j] = "done"] \/ job' = [job EXCEPT ![j] = "failing"]
    BY <1>1, <1>3 DEF Nf!MarkProcessing
  <2>2. breaks' \in 0..MaxBreaks /\ breaks <= breaks' /\ (row' = row => breaks' > 0 \/ breaks' = breaks)
    BY <1>0, <2>1, BreakIs
  <2>3. row' \in [Jobs -> InRows] /\ job' \in [Jobs -> InStages]
    BY <1>0, <2>1 DEF InRows, InStages
  <2>4. StageShape(j)' /\ RowMoves(j)
    BY <1>0, <2>1, <2>2, BreakIs DEF StageShape, RowMoves
  <2> QED
    BY <1>0, <2>1, <2>2, <2>3, <2>4, RowsMove
<1>4. CASE Nf!RunModel(j)
  <2>1. /\ job[j] = "running" /\ output' = output /\ row' = row
        /\ \/ job' = [job EXCEPT ![j] = "answered"] /\ breaks' = breaks
           \/ job' = [job EXCEPT ![j] = "failing"] /\ Nf!Break
    BY <1>1, <1>4 DEF Nf!RunModel
  <2>2. breaks' \in 0..MaxBreaks /\ breaks <= breaks'
    BY <1>0, <2>1, BreakIs
  <2>3. job' \in [Jobs -> InStages]
    BY <1>0, <2>1 DEF InStages
  <2>4. StageShape(j)' /\ RowMoves(j)
    BY <1>0, <2>1, <2>2, BreakIs DEF StageShape, RowMoves
  <2> QED
    BY <1>0, <2>1, <2>2, <2>3, <2>4, RowsMove
<1>5. CASE Nf!SaveCompleted(j)
  <2>1. /\ job[j] = "answered"
        /\ \/ /\ row' = [row EXCEPT ![j] = "completed"] /\ output' = output \cup {j}
              /\ job' = [job EXCEPT ![j] = "counting"] /\ breaks' = breaks
           \/ /\ row' = row /\ output' = output /\ Nf!Break
              /\ job' = [job EXCEPT ![j] = "failingWithOutput"]
    BY <1>1, <1>5 DEF Nf!SaveCompleted
  <2>2. breaks' \in 0..MaxBreaks /\ breaks <= breaks'
    BY <1>0, <2>1, BreakIs
  <2>3. row' \in [Jobs -> InRows] /\ job' \in [Jobs -> InStages]
    BY <1>0, <2>1 DEF InRows, InStages
  <2>4. StageShape(j)' /\ RowMoves(j)
    BY <1>0, <2>1, <2>2, BreakIs DEF StageShape, RowMoves
  <2> QED
    BY <1>0, <2>1, <2>2, <2>3, <2>4, RowsMove
<1>6. CASE Nf!SaveFailed(j)
  <2>1. /\ job[j] \in {"failing", "failingWithOutput"}
        /\ job' = [job EXCEPT ![j] = "done"]
        /\ \/ /\ row' = [row EXCEPT ![j] = "failed"] /\ breaks' = breaks
              /\ output' = output \/ output' = output \cup {j}
           \/ row' = row /\ output' = output /\ Nf!Break
    BY <1>1, <1>6 DEF Nf!SaveFailed
  <2>2. breaks' \in 0..MaxBreaks /\ breaks <= breaks' /\ breaks' > 0
    BY <1>0, <2>1, BreakIs DEF StageShape
  <2>3. row' \in [Jobs -> InRows] /\ job' \in [Jobs -> InStages]
    BY <1>0, <2>1 DEF InRows, InStages
  <2>4. output \subseteq output' /\ output' \subseteq output \cup {j}
    BY <2>1
  <2>5. StageShape(j)' /\ RowMoves(j)
    BY <1>0, <2>1, <2>2, <2>4 DEF StageShape, RowMoves
  <2> QED
    BY <1>0, <2>1, <2>2, <2>3, <2>4, <2>5, RowsMove
<1> QED
  BY <1>2, <1>3, <1>4, <1>5, <1>6

\* A call that has not stored its inference moves.
LEMMA RowsAsk ==
  ASSUME RowsShape, Nf!InferenceAssumption, NEW j \in Jobs,
         NEW r \in {"none", "asked", "step"}, job[j] \in {"none", "asked", "step"},
         job' = [job EXCEPT ![j] = r], breaks' = breaks \/ Nf!Break,
         UNCHANGED <<row, output, model, admin, copy, counted, stale, edited, stopped>>
  PROVE  RowsShape' /\ \A k \in Jobs : RowMoves(k)
<1>1. /\ row \in [Jobs -> InRows] /\ job \in [Jobs -> InStages] /\ StageShape(j)
      /\ breaks \in 0..MaxBreaks /\ MaxBreaks \in Nat
  BY DEF RowsShape, Nf!InferenceAssumption
<1>2. breaks' \in 0..MaxBreaks /\ breaks <= breaks'
  BY <1>1, BreakIs
<1>3. job' \in [Jobs -> InStages]
  BY <1>1 DEF InStages
<1>4. StageShape(j)' /\ RowMoves(j)
  BY <1>1, <1>2 DEF StageShape, RowMoves
<1> QED
  BY <1>1, <1>2, <1>3, <1>4, RowsMove

\* An inference is counted.
LEMMA RowsCount ==
  ASSUME RowsShape, Nf!InferenceAssumption, NEW j \in Jobs, Nf!CountInference(j)
  PROVE  RowsShape' /\ \A k \in Jobs : RowMoves(k)
<1>1. /\ job[j] = "counting" /\ UNCHANGED <<row, output, admin, copy, stale, edited, stopped>>
      /\ \/ job' = [job EXCEPT ![j] = "done"] /\ breaks' = breaks
         \/ job' = [job EXCEPT ![j] = "failingWithOutput"] /\ Nf!Break
      /\ \/ /\ model' = [model EXCEPT !.count = model.count + 1]
            /\ counted' = counted \cup {j}
         \/ /\ model' = model /\ counted' = counted
            /\ job' = [job EXCEPT ![j] = "failingWithOutput"] /\ Nf!Break
  BY DEF Nf!CountInference, Nf!At, Nf!To, Nf!adminVars
<1>2. /\ row \in [Jobs -> InRows] /\ job \in [Jobs -> InStages] /\ StageShape(j)
      /\ breaks \in 0..MaxBreaks /\ MaxBreaks \in Nat
  BY DEF RowsShape, Nf!InferenceAssumption
<1>3. /\ job' \in [Jobs -> InStages]
      /\ breaks' \in 0..MaxBreaks /\ breaks <= breaks'
  BY <1>1, <1>2, BreakIs DEF InStages
<1>4. j \notin counted /\ row[j] = "completed" /\ j \in output /\ counted \subseteq Jobs
  BY <1>1, <1>2 DEF StageShape, RowsShape
<1>5. /\ counted' \subseteq output /\ Cardinality(counted) <= Cardinality(counted')
      /\ model' \in InModels /\ (~edited => model'.count <= Cardinality(counted'))
      /\ ~edited /\ ~stale => model'.count = Cardinality(counted')
  <2>1. /\ model \in InModels /\ (~edited => model.count <= Cardinality(counted))
        /\ ~edited /\ ~stale => model.count = Cardinality(counted)
        /\ counted \subseteq output /\ output \subseteq Jobs
    BY DEF RowsShape
  <2>2. CASE model' = model /\ counted' = counted
    BY <1>4, <2>1, <2>2, JobsCount
  <2>3. CASE model' = [model EXCEPT !.count = model.count + 1] /\ counted' = counted \cup {j}
    <3>1. /\ Cardinality(counted') = Cardinality(counted) + 1
          /\ Cardinality(counted) \in Nat
      <4>1. counted' \in SUBSET Jobs
        BY <1>4, <2>3
      <4> QED
        BY <1>4, <2>3, <4>1, JobsCount
    <3>2. model.count \in Nat /\ model'.count = model.count + 1 /\ model'.status = model.status
      BY <2>1, <2>3 DEF InModels
    <3>3. model' \in InModels
      BY <2>1, <2>3, <3>2 DEF InModels
    <3> QED
      BY <1>4, <2>1, <2>3, <3>1, <3>2, <3>3
  <2> QED
    BY <1>1, <2>2, <2>3
<1>6. StageShape(j)'
  <2>1. CASE job' = [job EXCEPT ![j] = "done"] /\ counted' = counted \cup {j}
    BY <1>1, <1>2, <1>3, <1>4, <2>1 DEF StageShape
  <2>2. CASE job' = [job EXCEPT ![j] = "failingWithOutput"] /\ Nf!Break
    BY <1>1, <1>2, <1>3, <1>4, <2>2, BreakIs DEF StageShape
  <2> QED
    BY <1>1, <2>1, <2>2
<1>7. \A k \in Jobs : k # j => StageShape(k)'
  BY <1>1, <1>2, <1>3 DEF StageShape, RowsShape
<1>8. \A a \in Admins : CopiedShape(a)'
  <2> TAKE a \in Admins
  <2>1. CASE admin[a] = "read"
    <3>1. copy[a] \in InModels /\ (~edited => copy[a].count <= Cardinality(counted))
      BY <2>1 DEF RowsShape, CopiedShape
    <3>2. copy[a].count \in Nat /\ Cardinality(counted) \in Nat /\ Cardinality(counted') \in Nat
      BY <1>4, <1>5, <3>1, JobsCount DEF InModels, RowsShape
    <3> QED
      BY <1>1, <1>5, <3>1, <3>2 DEF CopiedShape, InModels
  <2> QED
    BY <1>1, <2>1 DEF CopiedShape
<1>9. \A k \in Jobs : RowMoves(k)
  BY <1>1 DEF RowMoves
<1> QED
  BY <1>1, <1>2, <1>3, <1>5, <1>6, <1>7, <1>8, <1>9 DEF RowsShape, InModels

\* An administrator reads the model's row and saves it whole.
LEMMA RowsAdmin ==
  ASSUME RowsShape, Nf!InferenceAssumption, NEW a \in Admins,
         \/ Nf!ReadModel(a)
         \/ \E s \in {"active", "deprecated"} : Nf!UpdateModelStatus(a, s)
         \/ \E n \in Edits : Nf!UpdateModel(a, n)
  PROVE  RowsShape' /\ \A k \in Jobs : RowMoves(k)
<1>1. UNCHANGED <<row, output, job, counted, breaks, stopped>>
  BY DEF Nf!ReadModel, Nf!UpdateModelStatus, Nf!UpdateModel
<1>2. (\A j \in Jobs : StageShape(j)') /\ \A j \in Jobs : RowMoves(j)
  BY <1>1 DEF RowsShape, StageShape, RowMoves
<1>3. /\ admin \in [Admins -> {"idle", "read", "done"}]
      /\ copy \in [Admins -> InModels \cup {NoCopy}]
      /\ model \in InModels /\ (~edited => model.count <= Cardinality(counted))
      /\ ~edited /\ ~stale => model.count = Cardinality(counted)
      /\ stale \in BOOLEAN /\ edited \in BOOLEAN
      /\ \A b \in Admins : CopiedShape(b)
  BY DEF RowsShape
<1>4. CASE Nf!ReadModel(a)
  <2>1. /\ admin' = [admin EXCEPT ![a] = "read"] /\ copy' = [copy EXCEPT ![a] = model]
        /\ model' = model /\ stale' = stale /\ edited' = edited
    BY <1>4 DEF Nf!ReadModel
  <2>2. /\ admin' \in [Admins -> {"idle", "read", "done"}]
        /\ copy' \in [Admins -> InModels \cup {NoCopy}]
    BY <1>3, <2>1
  <2>3. \A b \in Admins : CopiedShape(b)'
    BY <1>1, <1>3, <2>1 DEF CopiedShape, InModels
  <2> QED
    BY <1>1, <1>2, <2>1, <2>2, <2>3 DEF RowsShape, InModels
<1>5. ASSUME NEW s \in {"active", "deprecated"}, Nf!UpdateModelStatus(a, s)
      PROVE  RowsShape'
  <2>1. /\ admin[a] = "read" /\ admin' = [admin EXCEPT ![a] = "done"]
        /\ copy' = [copy EXCEPT ![a] = NoCopy] /\ model' = [copy[a] EXCEPT !.status = s]
        /\ stale' = (stale \/ copy[a].count # model.count) /\ edited' = edited
    BY <1>5 DEF Nf!UpdateModelStatus
  <2>2. /\ admin' \in [Admins -> {"idle", "read", "done"}]
        /\ copy' \in [Admins -> InModels \cup {NoCopy}]
    BY <1>3, <2>1
  <2>3. copy[a] \in InModels /\ (~edited => copy[a].count <= Cardinality(counted))
    BY <1>3, <2>1 DEF CopiedShape
  <2>4. model' \in InModels /\ model'.count = copy[a].count
    BY <2>1, <2>3 DEF InModels
  <2>5. stale' \in BOOLEAN
    BY <2>1, Zenon
  <2>6. ~stale' => ~stale /\ copy[a].count = model.count
    BY <2>1, Zenon
  <2>7. \A b \in Admins : CopiedShape(b)'
    BY <1>1, <1>3, <2>1 DEF CopiedShape, InModels
  <2> QED
    <3>1. edited' = edited /\ counted' = counted
      BY <1>1, <2>1
    <3>2. /\ ~edited' => model'.count <= Cardinality(counted')
          /\ ~edited' /\ ~stale' => model'.count = Cardinality(counted')
      BY <1>3, <2>3, <2>4, <2>6, <3>1
    <3> QED
      BY <1>1, <1>2, <1>3, <2>2, <2>4, <2>5, <2>7, <3>1, <3>2 DEF RowsShape
<1>6. ASSUME NEW n \in Edits, Nf!UpdateModel(a, n)
      PROVE  RowsShape'
  <2>1. /\ admin[a] = "read" /\ admin' = [admin EXCEPT ![a] = "done"]
        /\ copy' = [copy EXCEPT ![a] = NoCopy] /\ model' = [copy[a] EXCEPT !.count = n]
        /\ stale' = stale /\ edited' = TRUE
    BY <1>6 DEF Nf!UpdateModel
  <2>2. /\ admin' \in [Admins -> {"idle", "read", "done"}]
        /\ copy' \in [Admins -> InModels \cup {NoCopy}]
    BY <1>3, <2>1
  <2>3. copy[a] \in InModels /\ n \in Nat
    BY <1>3, <2>1 DEF CopiedShape, Nf!InferenceAssumption
  <2>4. model' \in InModels
    BY <2>1, <2>3 DEF InModels
  <2>5. \A b \in Admins : CopiedShape(b)'
    BY <1>1, <1>3, <2>1 DEF CopiedShape, InModels
  <2> QED
    BY <1>1, <1>2, <1>3, <2>1, <2>2, <2>4, <2>5 DEF RowsShape
<1> QED
  BY <1>2, <1>4, <1>5, <1>6

\* The process stops.
LEMMA RowsCrash ==
  ASSUME RowsShape, Nf!InferenceAssumption, Nf!Crash
  PROVE  RowsShape' /\ \A k \in Jobs : RowMoves(k)
<1>1. /\ UNCHANGED <<model, row, output, counted, stale, edited, breaks>> /\ stopped' = TRUE
      /\ job' = [j \in Jobs |-> IF row[j] = "none" THEN "none" ELSE "done"]
      /\ admin' = [a \in Admins |-> IF admin[a] = "read" THEN "done" ELSE admin[a]]
      /\ copy' = [a \in Admins |-> NoCopy]
  BY DEF Nf!Crash
<1>2. /\ admin' \in [Admins -> {"idle", "read", "done"}]
      /\ copy' \in [Admins -> InModels \cup {NoCopy}] /\ job' \in [Jobs -> InStages]
  BY <1>1 DEF RowsShape, InStages
<1>3. \A j \in Jobs : StageShape(j)' /\ RowMoves(j)
  BY <1>1 DEF RowsShape, StageShape, RowMoves
<1>4. \A a \in Admins : CopiedShape(a)'
  BY <1>1 DEF CopiedShape
<1> QED
  BY <1>1, <1>2, <1>3, <1>4 DEF RowsShape, InModels

\* A step of the workflow, or one that leaves it and does not lose a row.
LEMMA WorkStep ==
  ASSUME InferenceInv, Nf!InferenceAssumption,
         \/ Nf!StartWorkflow \/ Nf!CompleteWorkflow \/ Nf!FailWorkflow \/ Nf!Crash
         \/ \E j \in Jobs : Nf!RunStep(j) \/ Nf!StoreStep(j)
         \/ /\ UNCHANGED <<flow, runner, asked, stopped>> /\ breaks' \in Nat /\ breaks <= breaks'
            /\ \A j \in Jobs : row[j] # "none" => row'[j] # "none"
  PROVE  WorkShape'
<1>0. /\ flow \in InFlows /\ breaks \in 0..MaxBreaks /\ MaxBreaks \in Nat /\ Steps \in Nat
      /\ WorkShape /\ stopped \in BOOLEAN
  BY DEF InferenceInv, RowsShape, WorkShape, Nf!InferenceAssumption
<1>1. Nf!Break => breaks' \in Nat /\ breaks' > 0
  BY <1>0 DEF Nf!Break
<1>2. CASE Nf!StartWorkflow
  <2>1. /\ UNCHANGED <<row, asked, stopped>> /\ runner = "idle"
        /\ \/ /\ runner' = "running" /\ flow' = [flow EXCEPT !.status = "running"]
              /\ breaks' = breaks
           \/ Nf!Break /\ runner' \in {"done", "failing"} /\ flow' = flow
    BY <1>2 DEF Nf!StartWorkflow
  <2> QED
    BY <1>0, <1>1, <2>1 DEF WorkShape, InFlows
<1>3. CASE Nf!CompleteWorkflow
  <2>1. /\ UNCHANGED <<row, asked, stopped>> /\ runner = "running" /\ flow.done = Steps
        /\ \/ /\ runner' = "done" /\ flow' = [flow EXCEPT !.status = "completed"]
              /\ breaks' = breaks
           \/ Nf!Break /\ runner' = "failing" /\ flow' = flow
    BY <1>3 DEF Nf!CompleteWorkflow
  <2> QED
    BY <1>0, <1>1, <2>1 DEF WorkShape, InFlows
<1>4. CASE Nf!FailWorkflow
  <2>1. /\ UNCHANGED <<row, asked, stopped>> /\ runner = "failing" /\ runner' = "done"
        /\ \/ flow' = [flow EXCEPT !.status = "failed"] /\ breaks' = breaks
           \/ Nf!Break /\ flow' = flow
    BY <1>4 DEF Nf!FailWorkflow
  <2> QED
    BY <1>0, <1>1, <2>1 DEF WorkShape, InFlows
<1>5. CASE Nf!Crash
  <2>1. /\ UNCHANGED <<row, flow, asked, breaks>> /\ stopped' = TRUE
        /\ runner' = IF runner = "idle" THEN "idle" ELSE "done"
    BY <1>5 DEF Nf!Crash
  <2> QED
    BY <1>0, <2>1 DEF WorkShape, InFlows
<1>6. ASSUME NEW j \in Jobs, Nf!RunStep(j) PROVE WorkShape'
  <2>1. /\ UNCHANGED <<flow, row, asked, stopped>> /\ runner = "running" /\ flow.done < Steps
        /\ runner' \in {"storing", "failing"}
    BY <1>6 DEF Nf!RunStep
  <2> QED
    BY <1>0, <2>1 DEF WorkShape, InFlows
<1>8. ASSUME NEW j \in Jobs, Nf!StoreStep(j) PROVE WorkShape'
  <2>1. /\ runner = "storing" /\ job[j] = "step" /\ stopped' = stopped
        /\ \/ /\ Nf!Stored(j) /\ asked' = asked \cup {j}
              /\ flow' = [flow EXCEPT !.done = flow.done + 1]
              /\ runner' = "running"
           \/ runner' = "failing" /\ UNCHANGED <<flow, row, asked>>
    BY <1>8 DEF Nf!StoreStep, Nf!At
  <2>2. CASE Nf!Stored(j) /\ asked' = asked \cup {j} /\ runner' = "running"
             /\ flow' = [flow EXCEPT !.done = flow.done + 1]
    <3>1. row[j] = "none" /\ row' = [row EXCEPT ![j] = "pending"]
      BY <2>1, <2>2 DEF Nf!Stored, Nf!Row, InferenceInv, RowsShape, StageShape
    <3>2. row \in [Jobs -> InRows]
      BY DEF InferenceInv, RowsShape
    <3>3. j \notin asked /\ asked \subseteq Jobs
      BY <1>0, <3>1 DEF WorkShape
    <3>4. Cardinality(asked') = Cardinality(asked) + 1
      BY <2>2, <3>3, JobsCount
    <3>5. flow.done < Steps
      BY <1>0, <2>1 DEF WorkShape
    <3>6. flow'.done = flow.done + 1 /\ flow'.status = flow.status /\ flow' \in InFlows
      BY <1>0, <2>2, <3>5 DEF InFlows
    <3> QED
      BY <1>0, <2>1, <2>2, <3>1, <3>2, <3>3, <3>4, <3>6 DEF WorkShape
  <2>3. CASE runner' = "failing" /\ UNCHANGED <<flow, row, asked>>
    BY <1>0, <2>1, <2>3 DEF WorkShape, InFlows
  <2> QED
    BY <2>1, <2>2, <2>3
<1>7. CASE /\ UNCHANGED <<flow, runner, asked, stopped>> /\ breaks' \in Nat /\ breaks <= breaks'
           /\ \A j \in Jobs : row[j] # "none" => row'[j] # "none"
  BY <1>0, <1>7 DEF WorkShape, InFlows
<1> QED
  BY <1>2, <1>3, <1>4, <1>5, <1>6, <1>7, <1>8

\* The workflow's own steps and the rows: only a step that is run stores an inference.
LEMMA RowsWork ==
  ASSUME RowsShape, Nf!InferenceAssumption,
         \/ Nf!StartWorkflow \/ Nf!CompleteWorkflow \/ Nf!FailWorkflow
         \/ \E j \in Jobs : Nf!RunStep(j) \/ Nf!StoreStep(j)
  PROVE  RowsShape' /\ \A k \in Jobs : RowMoves(k)
<1>1. ASSUME UNCHANGED <<model, row, output, job, admin, copy, counted, stale, edited, stopped>>,
             breaks' = breaks \/ Nf!Break
      PROVE  RowsShape' /\ \A k \in Jobs : RowMoves(k)
  <2>1. breaks' \in 0..MaxBreaks /\ breaks <= breaks'
    BY <1>1, BreakIs DEF RowsShape, Nf!InferenceAssumption
  <2>2. \A j \in Jobs : StageShape(j)' /\ RowMoves(j)
    BY <1>1, <2>1 DEF RowsShape, StageShape, RowMoves, Nf!InferenceAssumption
  <2> QED
    BY <1>1, <2>1, <2>2 DEF RowsShape, CopiedShape, InModels
<1>2. CASE Nf!StartWorkflow \/ Nf!CompleteWorkflow \/ Nf!FailWorkflow
  <2>1. UNCHANGED <<model, row, output, job, admin, copy, counted, stale, edited, stopped>>
        /\ (breaks' = breaks \/ Nf!Break)
    BY <1>2 DEF Nf!StartWorkflow, Nf!CompleteWorkflow, Nf!FailWorkflow, Nf!adminVars
  <2> QED
    BY <1>1, <2>1
<1>3. ASSUME NEW j \in Jobs, Nf!RunStep(j)
      PROVE  RowsShape' /\ \A k \in Jobs : RowMoves(k)
  <2>1. /\ UNCHANGED <<model, row, output, admin, copy, counted, stale, edited, stopped>>
        /\ \/ /\ job[j] = "none" /\ job' = [job EXCEPT ![j] = "step"] /\ breaks' = breaks
           \/ job' = job /\ (breaks' = breaks \/ Nf!Break)
    BY <1>3 DEF Nf!RunStep, Nf!Asked, Nf!At, Nf!To, Nf!adminVars
  <2> QED
    BY <1>1, <2>1, RowsAsk
<1>4. ASSUME NEW j \in Jobs, Nf!StoreStep(j)
      PROVE  RowsShape' /\ \A k \in Jobs : RowMoves(k)
  <2>1. /\ UNCHANGED <<model, output, admin, copy, counted, stale, edited, stopped>>
        /\ job[j] = "step"
        /\ \/ Nf!Stored(j) /\ breaks' = breaks
           \/ job' = [job EXCEPT ![j] = "none"] /\ row' = row /\ Nf!Break
    BY <1>4 DEF Nf!StoreStep, Nf!At, Nf!To, Nf!adminVars
  <2> QED
    BY <2>1, RowsStage, RowsAsk
<1> QED
  BY <1>2, <1>3, <1>4

\* Every step of an inference keeps the invariant.
LEMMA InferenceStep ==
  ASSUME InferenceInv, Nf!InferenceAssumption, [Nf!Next]_(Nf!inferenceVars)
  PROVE  InferenceInv' /\ \A j \in Jobs : RowMoves(j)
<1>0. RowsShape /\ breaks \in 0..MaxBreaks /\ MaxBreaks \in Nat
  BY DEF InferenceInv, RowsShape, Nf!InferenceAssumption
<1>1. ASSUME UNCHANGED <<flow, runner, asked, stopped>>, RowsShape', breaks <= breaks',
             \A j \in Jobs : row[j] # "none" => row'[j] # "none"
      PROVE  WorkShape'
  <2>1. breaks' \in Nat
    BY <1>0, <1>1 DEF RowsShape
  <2> QED
    BY <1>1, <2>1, WorkStep
<1>2. ASSUME NEW j \in Jobs, Nf!AskInference(j) \/ Nf!CreateInference(j) \/ Nf!Process(j)
      PROVE  InferenceInv' /\ \A k \in Jobs : RowMoves(k)
  <2>1. /\ UNCHANGED <<flow, runner, asked, admin, copy, stale, edited, stopped>>
        /\ breaks' = breaks \/ Nf!Break
        /\ \/ row' = row
           \/ \E r \in InRows \ {"none"} : row' = [row EXCEPT ![j] = r]
    BY <1>2 DEF Nf!AskInference, Nf!CreateInference, Nf!Process, Nf!Stored, Nf!MarkProcessing, Nf!RunModel,
       Nf!SaveCompleted, Nf!CountInference, Nf!SaveFailed, Nf!flowVars, Nf!adminVars, Nf!Row, InRows
  <2>2. /\ breaks <= breaks'
        /\ \A k \in Jobs : row[k] # "none" => row'[k] # "none"
    BY <1>0, <2>1, BreakIs DEF RowsShape
  <2>3. RowsShape' /\ \A k \in Jobs : RowMoves(k)
    <3>1. CASE Nf!CountInference(j)
      BY <1>0, <3>1, RowsCount
    <3>2. CASE Nf!CreateInference(j)
      <4>1. /\ UNCHANGED <<model, admin, copy, counted, stale, edited, stopped, output>>
            /\ job[j] = "asked"
            /\ \/ Nf!Stored(j) /\ breaks' = breaks
               \/ job' = [job EXCEPT ![j] = "none"] /\ row' = row /\ Nf!Break
        BY <3>2 DEF Nf!CreateInference, Nf!At, Nf!To, Nf!adminVars
      <4> QED
        BY <1>0, <4>1, RowsStage, RowsAsk
    <3>4. CASE Nf!AskInference(j)
      <4>1. /\ UNCHANGED <<model, row, admin, copy, counted, stale, edited, stopped, output, breaks>>
            /\ job[j] = "none" /\ job' = [job EXCEPT ![j] = "asked"]
        BY <3>4 DEF Nf!AskInference, Nf!Asked, Nf!At, Nf!To, Nf!adminVars
      <4> QED
        BY <1>0, <4>1, RowsAsk
    <3>3. CASE Nf!MarkProcessing(j) \/ Nf!RunModel(j) \/ Nf!SaveCompleted(j) \/ Nf!SaveFailed(j)
      <4>1. UNCHANGED <<model, admin, copy, counted, stale, edited, stopped>>
        BY <3>3 DEF Nf!MarkProcessing, Nf!RunModel, Nf!SaveCompleted, Nf!SaveFailed, Nf!adminVars
      <4> QED
        BY <1>0, <3>3, <4>1, RowsStage
    <3> QED
      BY <1>2, <3>1, <3>2, <3>3, <3>4 DEF Nf!Process
  <2> QED
    BY <1>1, <2>1, <2>2, <2>3 DEF InferenceInv
<1>3. CASE \E j \in Jobs : Nf!RunStep(j) \/ Nf!StoreStep(j)
  BY <1>0, <1>3, RowsWork, WorkStep DEF InferenceInv
<1>4. ASSUME NEW a \in Admins,
             \/ Nf!ReadModel(a)
             \/ \E s \in {"active", "deprecated"} : Nf!UpdateModelStatus(a, s)
             \/ \E n \in Edits : Nf!UpdateModel(a, n)
      PROVE  InferenceInv' /\ \A k \in Jobs : RowMoves(k)
  <2>1. UNCHANGED <<flow, runner, asked, stopped, row, breaks>>
    BY <1>4 DEF Nf!ReadModel, Nf!UpdateModelStatus, Nf!UpdateModel, Nf!flowVars
  <2>2. RowsShape' /\ \A k \in Jobs : RowMoves(k)
    BY <1>0, <1>4, RowsAdmin
  <2>3. breaks <= breaks'
    BY <1>0, <2>1
  <2> QED
    BY <1>1, <2>1, <2>2, <2>3 DEF InferenceInv
<1>5. CASE Nf!StartWorkflow \/ Nf!CompleteWorkflow \/ Nf!FailWorkflow
  BY <1>0, <1>5, RowsWork, WorkStep DEF InferenceInv
<1>6. CASE Nf!Crash
  BY <1>0, <1>6, RowsCrash, WorkStep DEF InferenceInv
<1>7. CASE UNCHANGED Nf!inferenceVars
  <2>1. \A j \in Jobs : RowMoves(j) /\ StageShape(j)'
    BY <1>0, <1>7 DEF Nf!inferenceVars, RowMoves, StageShape, RowsShape
  <2>2. RowsShape'
    BY <1>0, <1>7, <2>1 DEF Nf!inferenceVars, RowsShape, CopiedShape, InModels
  <2>3. WorkShape'
    BY <1>7 DEF InferenceInv, Nf!inferenceVars, WorkShape, InFlows
  <2> QED
    BY <2>1, <2>2, <2>3 DEF InferenceInv
<1> QED
  BY <1>2, <1>3, <1>4, <1>5, <1>6, <1>7 DEF Nf!Next

\* A behaviour of the inferences keeps their invariant.
LEMMA InferenceInvariance ==
  ASSUME Nf!InferenceAssumption
  PROVE  Nf!Spec => []InferenceInv
<1>1. Nf!Init => InferenceInv
  <2> SUFFICES ASSUME Nf!Init PROVE InferenceInv
    OBVIOUS
  <2>1. /\ Cardinality({}) = 0 /\ Cardinality(Jobs) \in Nat /\ Steps \in Nat /\ MaxBreaks \in Nat
    BY JobsCount, FS_EmptySet DEF Nf!InferenceAssumption
  <2>2. \A j \in Jobs : StageShape(j)
    BY DEF Nf!Init, StageShape
  <2>3. \A a \in Admins : CopiedShape(a)
    BY DEF Nf!Init, CopiedShape
  <2>4. RowsShape
    <3>1. model \in InModels /\ model.count = 0 /\ breaks \in 0..MaxBreaks /\ counted = {}
      BY <2>1 DEF Nf!Init, InModels
    <3>2. /\ row \in [Jobs -> InRows] /\ job \in [Jobs -> InStages] /\ output = {}
          /\ admin \in [Admins -> {"idle", "read", "done"}]
          /\ copy \in [Admins -> InModels \cup {NoCopy}]
      BY DEF Nf!Init, InRows, InStages
    <3>3. stale \in BOOLEAN /\ edited \in BOOLEAN /\ stopped \in BOOLEAN
      BY DEF Nf!Init
    <3> QED
      BY <2>1, <2>2, <2>3, <3>1, <3>2, <3>3 DEF RowsShape
  <2>5. WorkShape
    BY <2>1 DEF Nf!Init, WorkShape, InFlows
  <2> QED
    BY <2>4, <2>5 DEF InferenceInv
<1>2. InferenceInv /\ [Nf!Next]_(Nf!inferenceVars) => InferenceInv'
  BY InferenceStep
<1> QED
  BY <1>1, <1>2, PTL DEF Nf!Spec

\* What the properties name, from the invariant.
LEMMA InferenceFacts ==
  ASSUME InferenceInv, Nf!InferenceAssumption
  PROVE  Nf!TypeOK /\ Nf!CountExplained /\ Nf!RowsExplained /\ Nf!FlowClaims
<1>1. Nf!TypeOK
  BY InferenceLibrary DEF InferenceInv, RowsShape, WorkShape, Nf!TypeOK, InModels, InRows,
     InStages, InFlows
<1>2. Nf!CountExplained
  BY InferenceLibrary DEF InferenceInv, RowsShape, Nf!CountExplained
<1>3. Nf!RowsExplained
  BY DEF InferenceInv, RowsShape, StageShape, Nf!RowsExplained
<1>4. Nf!FlowClaims
  BY InferenceLibrary DEF InferenceInv, WorkShape, Nf!FlowClaims
<1> QED
  BY <1>1, <1>2, <1>3, <1>4

\* The model's count is what was counted, unless somebody set it, and never more.
THEOREM InferencesCounted ==
  ASSUME Nf!InferenceAssumption
  PROVE  Nf!Spec => []Nf!CountExplained
<1>1. InferenceInv => Nf!CountExplained
  BY InferenceFacts
<1> QED
  BY <1>1, InferenceInvariance, PTL

\* A completed inference has its output, and what was counted too.
THEOREM InferenceRows ==
  ASSUME Nf!InferenceAssumption
  PROVE  Nf!Spec => []Nf!RowsExplained
<1>1. InferenceInv => Nf!RowsExplained
  BY InferenceFacts
<1> QED
  BY <1>1, InferenceInvariance, PTL

\* A workflow that says it is complete has stored an inference for every step.
THEOREM FlowKeepsItsClaim ==
  ASSUME Nf!InferenceAssumption
  PROVE  Nf!Spec => []Nf!FlowClaims
<1>1. InferenceInv => Nf!FlowClaims
  BY InferenceFacts
<1> QED
  BY <1>1, InferenceInvariance, PTL

\* Rows only move on.
THEOREM InferencesMoveOn ==
  ASSUME Nf!InferenceAssumption
  PROVE  Nf!Spec => Nf!RowsMoveOn
<1>1. InferenceInv /\ [Nf!Next]_(Nf!inferenceVars) =>
        [\A j \in Jobs :
            /\ row[j] = "failed" => row'[j] = "failed"
            /\ row[j] = "completed" => row'[j] \in {"completed", "failed"}
            /\ row'[j] = "completed" /\ row[j] # "completed" => row[j] = "processing"
            /\ j \in output => j \in output']_(Nf!inferenceVars)
  BY InferenceStep DEF RowMoves
<1> QED
  BY <1>1, InferenceInvariance, PTL DEF Nf!Spec, Nf!RowsMoveOn

-----------------------------------------------------------------------------
(* Stored features.                                                         *)

StoreCallers == [at : Fe!Places, ask : Fe!AllAsks \cup {Nothing}, found : Calls \cup Nat \cup {Nothing},
                 left : Seq(Fe!Features)]

StoreTypes ==
    /\ features \subseteq [name : Fe!Features, id : 1..made, value : Calls] /\ IsFiniteSet(features)
    /\ made \in Nat
    /\ featureCache \in [Fe!Features -> Calls \cup {Nothing}]
    /\ pipeline \in [Pipelines -> [status : {"idle", "running", "success", "error"}, records : {0, 1}]]
    /\ loaded \in [Pipelines -> SUBSET Fe!Features]
    /\ crossing \subseteq Fe!Features /\ behind \subseteq Fe!Features
    /\ failures \in 0..MaxFaults

\* Where a call may be, by what it was asked, and what it has found there.
CallerShape ==
    /\ caller \in [Calls -> StoreCallers]
    /\ \A c \in Calls :
         /\ caller[c].at = "idle" => caller[c].ask = Nothing
         /\ caller[c].at # "idle" => caller[c].ask \in Fe!AllAsks
         /\ caller[c].at = "read" => caller[c].ask.kind = "get" /\ caller[c].found \in Calls
         /\ caller[c].at = "found" =>
              caller[c].ask.kind \in {"set", "run"} /\ caller[c].found \in (1..made) \cup {Nothing}
         /\ caller[c].at = "saved" => caller[c].ask.kind \in {"set", "delete", "forget", "run"}
         /\ caller[c].at \in {"extracting", "loading"} => caller[c].ask.kind = "run"
         /\ caller[c].at \in {"found", "saved", "loading"} /\ caller[c].ask.kind = "run" =>
              caller[c].left # <<>> /\ Len(caller[c].left) <= 3

\* The rows a call may still make.
Owed == [c \in Calls |->
    IF caller[c].at \in {"idle", "extracting"} THEN 3
    ELSE IF caller[c].at \in {"found", "saved", "loading"} /\ caller[c].ask.kind = "run"
         THEN IF caller[c].at = "saved" THEN Len(caller[c].left) - 1 ELSE Len(caller[c].left)
    ELSE IF caller[c].at = "found" THEN 1 ELSE 0]

OwedShape == made + SumFunctionOnSet(Owed, Calls) <= 3 * Cardinality(Calls)

\* The calls that run a pipeline.
Runners(p) == {c \in Calls : caller[c].ask = [kind |-> "run", of |-> p] /\ caller[c].at # "done"}

PipelineShape ==
    \A p \in Pipelines : /\ \A c, q \in Runners(p) : c = q
                         /\ pipeline[p].status = "running" <=> Runners(p) # {}

\* What a run has saved and what it has still to save are together what it computes.
LoadShape ==
    \A p \in Pipelines :
      /\ pipeline[p].records > 0 =>
           pipeline[p].status = "success" /\ loaded[p] = Fe!Range(Fe!Loads(p))
      /\ \A c \in Runners(p) :
           /\ caller[c].at = "extracting" => loaded[p] = {}
           /\ caller[c].at \in {"found", "saved", "loading"} =>
                loaded[p] \cup Fe!Range(caller[c].left) = Fe!Range(Fe!Loads(p))
           /\ caller[c].at = "saved" => Head(caller[c].left) \in loaded[p]

\* The calls that are about to save a feature.
Setters(f) == {c \in Calls : caller[c].at = "found" /\ Fe!Of(c) = f}

\* While no two writers crossed, a feature has one row, and a call that is about to save
\* it has found that row, or is the only one that found none.
OneRowShape ==
    \A f \in Fe!Features \ crossing :
      /\ \A r, t \in Fe!Rows(f) : r = t
      /\ \A c \in Setters(f) : caller[c].found = Nothing =>
           /\ Fe!Rows(f) = {}
           /\ \A q \in Setters(f) : caller[q].found = Nothing => q = c
      /\ \A c \in Setters(f) : caller[c].found # Nothing =>
           /\ Fe!Rows(f) # {}
           /\ \A r \in Fe!Rows(f) : r.id = caller[c].found

\* The calls that hold a feature they have read.
CallsReading(f) == {c \in Calls : caller[c].at = "read" /\ Fe!Of(c) = f}

\* While no write overtook a reader, a reader holds the newest value, and the cache does
\* unless its entry is about to be dropped.
FreshValue ==
    \A f \in Fe!Features \ behind :
      /\ \A c \in CallsReading(f) : Fe!Rows(f) # {} /\ caller[c].found = Fe!Newest(f).value
      /\ featureCache[f] # Nothing /\ (\A c \in Calls : caller[c].at = "saved" =>
           f \notin Fe!Dropped(c)) =>
           Fe!Rows(f) # {} /\ featureCache[f] = Fe!Newest(f).value

StoreInv == StoreTypes /\ CallerShape /\ OwedShape /\ PipelineShape /\ LoadShape /\ OneRowShape
            /\ FreshValue

\* Finite sets and their sizes are those of the library.
LEMMA StoreLibrary ==
  /\ \A S : Fe!IsFiniteSet(S) <=> IsFiniteSet(S)
  /\ \A S : Fe!Cardinality(S) = Cardinality(S)
BY DEF Fe!IsFiniteSet, IsFiniteSet, Fe!Cardinality, Cardinality

\* What the assumption says of the constants.
LEMMA StoreAssumed ==
  ASSUME Fe!FeatureStoreAssumption
  PROVE  /\ IsFiniteSet(Calls) /\ Cardinality(Calls) \in Nat /\ MaxFaults \in Nat
         /\ Nothing \notin Calls /\ Nothing \notin Nat /\ Nothing \notin Fe!AllAsks
         /\ \A c \in Calls : FeatureAsks[c] \subseteq Fe!AllAsks
BY StoreLibrary, FS_CardinalityType DEF Fe!FeatureStoreAssumption

\* What may be asked.
LEMMA AskFacts ==
  ASSUME NEW a \in Fe!AllAsks
  PROVE  /\ a.kind \in {"get", "set", "delete", "forget", "run"}
         /\ a.kind \in {"get", "set", "delete"} => a.of \in Fe!Features
         /\ a.kind = "run" => a.of \in Pipelines /\ a = [kind |-> "run", of |-> a.of]
BY DEF Fe!AllAsks

\* What a pipeline saves.
LEMMA LoadsFacts ==
  ASSUME NEW p \in Pipelines
  PROVE  Fe!Loads(p) \in Seq(Fe!Features) /\ Len(Fe!Loads(p)) <= 3 /\ Len(Fe!Loads(p)) \in Nat
<1> DEFINE s == Fe!Loads(p)
<1>1. \A i \in DOMAIN s : s[i] \in Fe!Features
  BY DEF Fe!Features, Fe!Range
<1>2. \/ s = <<"daily_action_count", "last_active_at">>
      \/ s = <<"weekly_txn_count", "weekly_avg_txn_amount", "weekly_max_txn_amount">>
      \/ s = <<"monthly_view_count", "monthly_purchase_count">>
      \/ s = <<>>
  BY DEF Fe!Loads
<1> HIDE DEF s
<1> SUFFICES s \in Seq(Fe!Features) /\ Len(s) <= 3 /\ Len(s) \in Nat
  BY DEF s
<1>3. CASE s = <<"daily_action_count", "last_active_at">>
  <2>1. /\ 1 \in DOMAIN s
        /\ s[1] = "daily_action_count"
        /\ 2 \in DOMAIN s
        /\ s[2] = "last_active_at"
    BY <1>3
  <2>2. /\ "daily_action_count" \in Fe!Features
        /\ "last_active_at" \in Fe!Features
    BY <1>1, <2>1
  <2> QED
    BY <1>3, <2>2
<1>4. CASE s = <<"weekly_txn_count", "weekly_avg_txn_amount", "weekly_max_txn_amount">>
  <2>1. /\ 1 \in DOMAIN s
        /\ s[1] = "weekly_txn_count"
        /\ 2 \in DOMAIN s
        /\ s[2] = "weekly_avg_txn_amount"
        /\ 3 \in DOMAIN s
        /\ s[3] = "weekly_max_txn_amount"
    BY <1>4
  <2>2. /\ "weekly_txn_count" \in Fe!Features
        /\ "weekly_avg_txn_amount" \in Fe!Features
        /\ "weekly_max_txn_amount" \in Fe!Features
    BY <1>1, <2>1
  <2> QED
    BY <1>4, <2>2
<1>5. CASE s = <<"monthly_view_count", "monthly_purchase_count">>
  <2>1. /\ 1 \in DOMAIN s
        /\ s[1] = "monthly_view_count"
        /\ 2 \in DOMAIN s
        /\ s[2] = "monthly_purchase_count"
    BY <1>5
  <2>2. /\ "monthly_view_count" \in Fe!Features
        /\ "monthly_purchase_count" \in Fe!Features
    BY <1>1, <2>1
  <2> QED
    BY <1>5, <2>2
<1>6. CASE s = <<>>
  BY <1>6
<1> QED
  BY <1>2, <1>3, <1>4, <1>5, <1>6

\* The feature a call is about.
LEMMA OfFacts ==
  ASSUME CallerShape, NEW c \in Calls
  PROVE  /\ caller[c].at \in {"read", "found", "loading"} => Fe!Of(c) \in Fe!Features
         /\ caller[c].at = "saved" /\ caller[c].ask.kind # "forget" => Fe!Of(c) \in Fe!Features
         /\ caller[c].at \in {"found", "saved", "loading"} /\ caller[c].ask.kind = "run" =>
              /\ Fe!Of(c) = Head(caller[c].left) /\ Head(caller[c].left) \in Fe!Features
              /\ Tail(caller[c].left) \in Seq(Fe!Features)
              /\ Len(Tail(caller[c].left)) = Len(caller[c].left) - 1
              /\ Len(caller[c].left) \in Nat /\ Len(caller[c].left) >= 1
         /\ caller[c].left \in Seq(Fe!Features) /\ caller[c] \in StoreCallers
<1>1. caller[c] \in StoreCallers /\ caller[c].left \in Seq(Fe!Features)
  BY DEF CallerShape, StoreCallers
<1>2. ASSUME caller[c].at \in {"found", "saved", "loading"}, caller[c].ask.kind = "run"
      PROVE  /\ Fe!Of(c) = Head(caller[c].left) /\ Head(caller[c].left) \in Fe!Features
             /\ Tail(caller[c].left) \in Seq(Fe!Features)
             /\ Len(Tail(caller[c].left)) = Len(caller[c].left) - 1
             /\ Len(caller[c].left) \in Nat /\ Len(caller[c].left) >= 1
  <2>1. caller[c].left # <<>>
    BY <1>2 DEF CallerShape
  <2>2. Len(caller[c].left) \in Nat /\ Len(caller[c].left) >= 1
    BY <1>1, <2>1, EmptySeq, LenProperties
  <2> QED
    BY <1>1, <1>2, <2>1, <2>2, HeadTailProperties DEF Fe!Of
<1>3. ASSUME caller[c].at # "idle", caller[c].ask.kind \in {"get", "set", "delete"}
      PROVE  Fe!Of(c) \in Fe!Features
  <2>1. caller[c].ask \in Fe!AllAsks
    BY <1>3 DEF CallerShape
  <2> QED
    BY <1>3, <2>1, AskFacts DEF Fe!Of
<1>4. /\ caller[c].at = "read" => caller[c].ask.kind = "get"
      /\ caller[c].at = "found" => caller[c].ask.kind \in {"set", "run"}
      /\ caller[c].at = "saved" => caller[c].ask.kind \in {"set", "delete", "forget", "run"}
      /\ caller[c].at = "loading" => caller[c].ask.kind = "run"
  BY DEF CallerShape
<1> QED
  BY <1>1, <1>2, <1>3, <1>4

\* A row of a feature, and the newest one.
LEMMA RowsFacts ==
  ASSUME StoreTypes, NEW f \in Fe!Features
  PROVE  /\ \A r \in Fe!Rows(f) : /\ r.name = f /\ r.id \in 1..made /\ r.id \in Nat
                                       /\ r.value \in Calls
                                   /\ r = [name |-> f, id |-> r.id, value |-> r.value]
         /\ Fe!Rows(f) # {} => Fe!Newest(f) \in Fe!Rows(f) /\ Fe!Newest(f).value \in Calls
<1>1. \A r \in Fe!Rows(f) : /\ r.name = f /\ r.id \in 1..made /\ r.id \in Nat /\ r.value \in Calls
                            /\ r = [name |-> f, id |-> r.id, value |-> r.value]
  BY DEF StoreTypes, Fe!Rows
<1>2. ASSUME Fe!Rows(f) # {}
      PROVE  Fe!Newest(f) \in Fe!Rows(f)
  <2>1. IsFiniteSet(Fe!Rows(f))
    BY FS_Subset DEF StoreTypes, Fe!Rows
  <2> DEFINE ids == [r \in Fe!Rows(f) |-> r.id]
  <2>2. \A r \in Fe!Rows(f) : ids[r] \in Int /\ ids[r] = r.id
    BY <1>1
  <2> HIDE DEF ids
  <2>3. PICK r \in Fe!Rows(f) : \A t \in Fe!Rows(f) : ids[r] >= ids[t]
    BY <1>2, <2>1, <2>2, Greatest
  <2>4. \A t \in Fe!Rows(f) : t.id <= r.id
    BY <2>2, <2>3
  <2> QED
    BY <2>4 DEF Fe!Newest
<1> QED
  BY <1>1, <1>2

\* What a call may still create is a number.
LEMMA OwedFacts ==
  ASSUME CallerShape, Fe!FeatureStoreAssumption
  PROVE  /\ \A c \in Calls : Owed[c] \in Nat
         /\ SumFunctionOnSet(Owed, Calls) \in Nat
<1>1. \A c \in Calls : Owed[c] \in Nat
  <2> SUFFICES ASSUME NEW c \in Calls
      PROVE  Owed[c] \in Nat
    OBVIOUS
  <2>1. CASE caller[c].at \in {"found", "saved", "loading"} /\ caller[c].ask.kind = "run"
    <3>1. Len(caller[c].left) \in Nat /\ Len(caller[c].left) - 1 \in Nat
      BY <2>1, OfFacts
    <3> QED
      BY <2>1, <3>1 DEF Owed
  <2>2. CASE ~(caller[c].at \in {"found", "saved", "loading"} /\ caller[c].ask.kind = "run")
    BY <2>2 DEF Owed
  <2> QED
    BY <2>1, <2>2
<1> QED
  BY <1>1, SumNat, StoreAssumed

\* The first state has the invariant.
LEMMA StoreStart ==
  ASSUME Fe!FeatureStoreAssumption, Fe!Init
  PROVE  StoreInv
<1>1. /\ \A c \in Calls : caller[c] = [at |-> "idle", ask |-> Nothing, found |-> Nothing, left |-> <<>>]
      /\ features = {} /\ made = 0 /\ failures = 0 /\ crossing = {} /\ behind = {}
      /\ \A p \in Pipelines : pipeline[p] = [status |-> "idle", records |-> 0]
      /\ \A f \in Fe!Features : featureCache[f] = Nothing /\ Fe!Rows(f) = {}
  BY DEF Fe!Init, Fe!Rows
<1>2. StoreTypes
  <2>1. IsFiniteSet(features)
    BY <1>1, FS_EmptySet
  <2>2. failures \in 0..MaxFaults
    BY <1>1, StoreAssumed
  <2> QED
    BY <1>1, <2>1, <2>2 DEF Fe!Init, StoreTypes
<1>3. CallerShape
  <2>1. caller \in [Calls -> StoreCallers]
    <3>1. <<>> \in Seq(Fe!Features)
      BY EmptySeq
    <3> QED
      BY <3>1 DEF Fe!Init, StoreCallers, Fe!Places
  <2> QED
    BY <1>1, <2>1 DEF CallerShape
<1>4. OwedShape
  <2>1. \A c \in Calls : Owed[c] = 3
    BY <1>1 DEF Owed
  <2>2. SumFunctionOnSet(Owed, Calls) = 3 * Cardinality(Calls)
    BY <2>1, StoreAssumed, SumSame
  <2> QED
    BY <1>1, <2>2, StoreAssumed DEF OwedShape
<1>5. \A p \in Pipelines : Runners(p) = {}
  BY <1>1, StoreAssumed DEF Runners, Fe!AllAsks
<1>6. PipelineShape
  BY <1>1, <1>5 DEF PipelineShape
<1>7. LoadShape
  BY <1>1, <1>5 DEF LoadShape
<1>8. OneRowShape
  BY <1>1 DEF OneRowShape, Setters
<1>9. FreshValue
  BY <1>1 DEF FreshValue, CallsReading
<1> QED
  BY <1>2, <1>3, <1>4, <1>6, <1>7, <1>8, <1>9 DEF StoreInv

-----------------------------------------------------------------------------
(* What a step of one call leaves as it was.                                *)

\* The rows it may make.
LEMMA OwedKeeps ==
  ASSUME StoreInv, Fe!FeatureStoreAssumption, NEW c \in Calls, CallerShape', made' \in Nat,
         \A q \in Calls \ {c} : caller'[q] = caller[q],
         made' + Owed'[c] <= made + Owed[c]
  PROVE  OwedShape'
<1>1. \A q \in Calls : Owed[q] \in Nat
  BY OwedFacts DEF StoreInv
<1>2. \A q \in Calls \ {c} : Owed'[q] = Owed[q]
  BY DEF Owed
<1>3. Owed'[c] \in Nat
  <2>1. CASE caller'[c].at \in {"found", "saved", "loading"} /\ caller'[c].ask.kind = "run"
    <3>1. caller'[c].left \in Seq(Fe!Features) /\ caller'[c].left # <<>>
      BY <2>1 DEF CallerShape, StoreCallers
    <3>2. Len(caller'[c].left) \in Nat /\ Len(caller'[c].left) - 1 \in Nat
      BY <3>1, EmptySeq, LenProperties
    <3> QED
      BY <2>1, <3>2 DEF Owed
  <2>2. CASE ~(caller'[c].at \in {"found", "saved", "loading"} /\ caller'[c].ask.kind = "run")
    BY <2>2 DEF Owed
  <2> QED
    BY <2>1, <2>2
<1>4. SumFunctionOnSet(Owed', Calls) = SumFunctionOnSet(Owed, Calls) - Owed[c] + Owed'[c]
  <2>1. \A q \in Calls : Owed[q] \in Int /\ Owed'[q] \in Int
    BY <1>1, <1>2, <1>3
  <2> QED
    BY <1>2, <2>1, StoreAssumed, SumUpdate
<1>5. SumFunctionOnSet(Owed, Calls) \in Nat /\ made \in Nat /\ Cardinality(Calls) \in Nat
  BY OwedFacts, StoreAssumed DEF StoreInv, StoreTypes
<1>6. made + SumFunctionOnSet(Owed, Calls) <= 3 * Cardinality(Calls)
  BY DEF StoreInv, OwedShape
<1> QED
  BY <1>1, <1>3, <1>4, <1>5, <1>6 DEF OwedShape

\* Which pipelines run.
LEMMA PipelineKeeps ==
  ASSUME StoreInv, NEW c \in Calls, UNCHANGED pipeline,
         \A q \in Calls \ {c} : caller'[q] = caller[q],
         \A p \in Pipelines : c \in Runners(p)' <=> c \in Runners(p)
  PROVE  PipelineShape' /\ \A p \in Pipelines : Runners(p)' = Runners(p)
<1>1. ASSUME NEW p \in Pipelines
      PROVE  Runners(p)' = Runners(p)
  <2>1. c \in Runners(p)' <=> c \in Runners(p)
    OBVIOUS
  <2>2. \A q \in Calls : q \in Runners(p)' <=> q \in Runners(p)
    BY <2>1 DEF Runners
  <2>3. Runners(p) \subseteq Calls /\ Runners(p)' \subseteq Calls
    BY DEF Runners
  <2> QED
    BY <2>2, <2>3
<1> QED
  BY <1>1 DEF StoreInv, PipelineShape

\* What a run has saved.
LEMMA LoadKeeps ==
  ASSUME StoreInv, NEW c \in Calls, UNCHANGED <<pipeline, loaded>>,
         \A q \in Calls \ {c} : caller'[q] = caller[q],
         \A p \in Pipelines : c \in Runners(p)' =>
            /\ caller'[c].at = "extracting" => loaded[p] = {}
            /\ caller'[c].at \in {"found", "saved", "loading"} =>
                loaded[p] \cup Fe!Range(caller'[c].left) = Fe!Range(Fe!Loads(p))
            /\ caller'[c].at = "saved" => Head(caller'[c].left) \in loaded[p]
  PROVE  LoadShape'
<1> SUFFICES ASSUME NEW p \in Pipelines
    PROVE  /\ pipeline'[p].records > 0 =>
               pipeline'[p].status = "success" /\ loaded'[p] = Fe!Range(Fe!Loads(p))
           /\ \A q \in Runners(p)' :
               /\ caller'[q].at = "extracting" => loaded'[p] = {}
               /\ caller'[q].at \in {"found", "saved", "loading"} =>
                    loaded'[p] \cup Fe!Range(caller'[q].left) = Fe!Range(Fe!Loads(p))
               /\ caller'[q].at = "saved" => Head(caller'[q].left) \in loaded'[p]
  BY DEF LoadShape, Fe!Range, Fe!Loads
<1>1. pipeline[p].records > 0 =>
               pipeline[p].status = "success" /\ loaded[p] = Fe!Range(Fe!Loads(p))
  BY DEF StoreInv, LoadShape
<1>2. ASSUME NEW q \in Runners(p)'
      PROVE  /\ caller'[q].at = "extracting" => loaded[p] = {}
             /\ caller'[q].at \in {"found", "saved", "loading"} =>
                  loaded[p] \cup Fe!Range(caller'[q].left) = Fe!Range(Fe!Loads(p))
             /\ caller'[q].at = "saved" => Head(caller'[q].left) \in loaded[p]
  <2>1. CASE q = c
    BY <1>2, <2>1
  <2>2. CASE q # c
    <3>1. caller'[q] = caller[q] /\ q \in Runners(p)
      BY <1>2, <2>2 DEF Runners
    <3> QED
      BY <3>1 DEF StoreInv, LoadShape
  <2> QED
    BY <2>1, <2>2
<1> QED
  BY <1>1, <1>2

\* A call that is not about to save a feature it was not about to save before.
LEMMA RowKeeps ==
  ASSUME StoreInv, NEW c \in Calls, UNCHANGED features, crossing \subseteq crossing',
         \A q \in Calls \ {c} : caller'[q] = caller[q],
         caller'[c].at # "found"
  PROVE  OneRowShape'
<1> SUFFICES ASSUME NEW f \in Fe!Features \ crossing'
    PROVE /\ \A r, t \in Fe!Rows(f)' : r = t
          /\ \A q \in Setters(f)' : caller'[q].found = Nothing =>
               /\ Fe!Rows(f)' = {}
               /\ \A u \in Setters(f)' : caller'[u].found = Nothing => u = q
          /\ \A q \in Setters(f)' : caller'[q].found # Nothing =>
               /\ Fe!Rows(f)' # {}
               /\ \A r \in Fe!Rows(f)' : r.id = caller'[q].found
  BY DEF OneRowShape, Fe!Features, Fe!Range, Fe!Loads
<1>1. f \in Fe!Features \ crossing /\ Fe!Rows(f)' = Fe!Rows(f)
  BY DEF Fe!Rows
<1>2. \A q \in Setters(f)' : q \in Setters(f) /\ caller'[q] = caller[q]
  BY DEF Setters, Fe!Of
<1> QED
  BY <1>1, <1>2 DEF StoreInv, OneRowShape

\* Who holds the newest value, when no row changes.
LEMMA FreshKeeps ==
  ASSUME StoreInv, NEW c \in Calls, UNCHANGED <<features, featureCache, behind>>,
         \A q \in Calls \ {c} : caller'[q] = caller[q],
         caller'[c].at # "read", caller[c].at # "saved"
  PROVE  FreshValue'
<1> SUFFICES ASSUME NEW f \in Fe!Features \ behind
    PROVE /\ \A q \in CallsReading(f)' : Fe!Rows(f)' # {} /\ caller'[q].found = Fe!Newest(f)'.value
          /\ featureCache[f] # Nothing /\ (\A q \in Calls : caller'[q].at = "saved" =>
               f \notin Fe!Dropped(q)') =>
               Fe!Rows(f)' # {} /\ featureCache[f] = Fe!Newest(f)'.value
  BY DEF FreshValue, Fe!Features, Fe!Range, Fe!Loads
<1>1. Fe!Rows(f)' = Fe!Rows(f) /\ Fe!Newest(f)' = Fe!Newest(f)
  BY DEF Fe!Rows, Fe!Newest
<1>2. \A q \in CallsReading(f)' : q \in CallsReading(f) /\ caller'[q] = caller[q]
  BY DEF CallsReading, Fe!Of
<1>3. (\A q \in Calls : caller'[q].at = "saved" => f \notin Fe!Dropped(q)') =>
          \A q \in Calls : caller[q].at = "saved" => f \notin Fe!Dropped(q)
  BY DEF Fe!Dropped, Fe!Of, Fe!Features, Fe!Range, Fe!Loads
<1> QED
  BY <1>1, <1>2, <1>3 DEF StoreInv, FreshValue

\* A call's next place and request; the others stay.
LEMMA CallerMoves ==
  ASSUME caller \in [Calls -> StoreCallers], NEW c \in Calls, NEW r,
         caller' = [caller EXCEPT ![c] = r]
  PROVE  /\ caller'[c] = r /\ \A q \in Calls \ {c} : caller'[q] = caller[q]
         /\ r \in StoreCallers => caller' \in [Calls -> StoreCallers]
OBVIOUS

\* The shape of the call that moves.
LEMMA CallerKeeps ==
  ASSUME CallerShape, made \in Nat, NEW c \in Calls, made' \in Nat, made <= made',
         caller' \in [Calls -> StoreCallers], \A q \in Calls \ {c} : caller'[q] = caller[q],
         /\ caller'[c].at # "idle" /\ caller'[c].ask \in Fe!AllAsks
         /\ caller'[c].at = "read" => caller'[c].ask.kind = "get" /\ caller'[c].found \in Calls
         /\ caller'[c].at = "found" =>
              caller'[c].ask.kind \in {"set", "run"}
                /\ caller'[c].found \in (1..made') \cup {Nothing}
         /\ caller'[c].at = "saved" => caller'[c].ask.kind \in {"set", "delete", "forget", "run"}
         /\ caller'[c].at \in {"extracting", "loading"} => caller'[c].ask.kind = "run"
         /\ caller'[c].at \in {"found", "saved", "loading"} /\ caller'[c].ask.kind = "run" =>
              caller'[c].left # <<>> /\ Len(caller'[c].left) <= 3
  PROVE  CallerShape'
<1>1. caller' \in [Calls -> StoreCallers]'
  BY DEF StoreCallers, Fe!Places, Fe!AllAsks, Fe!Features, Fe!Range, Fe!Loads
<1>2. 1..made \subseteq 1..made'
  OBVIOUS
<1>3. ASSUME NEW q \in Calls
      PROVE /\ caller'[q].at = "idle" => caller'[q].ask = Nothing
            /\ caller'[q].at # "idle" => caller'[q].ask \in Fe!AllAsks
            /\ caller'[q].at = "read" => caller'[q].ask.kind = "get" /\ caller'[q].found \in Calls
            /\ caller'[q].at = "found" =>
                 caller'[q].ask.kind \in {"set", "run"}
                   /\ caller'[q].found \in (1..made') \cup {Nothing}
            /\ caller'[q].at = "saved" => caller'[q].ask.kind \in {"set", "delete", "forget", "run"}
            /\ caller'[q].at \in {"extracting", "loading"} => caller'[q].ask.kind = "run"
            /\ caller'[q].at \in {"found", "saved", "loading"} /\ caller'[q].ask.kind = "run" =>
                 caller'[q].left # <<>> /\ Len(caller'[q].left) <= 3
  <2>1. CASE q = c
    BY <2>1
  <2>2. CASE q # c
    <3>1. caller'[q] = caller[q]
      BY <2>2
    <3> QED
      BY <1>2, <3>1 DEF CallerShape
  <2> QED
    BY <2>1, <2>2
<1> QED
  BY <1>1, <1>3 DEF CallerShape, Fe!AllAsks, Fe!Features, Fe!Range, Fe!Loads

-----------------------------------------------------------------------------
\* A read answers from the cache, or fetches the newest row.
LEMMA GetFeatureInv ==
  ASSUME StoreInv, Fe!FeatureStoreAssumption, NEW c \in Calls, NEW a \in FeatureAsks[c],
         Fe!GetFeature(c, a)
  PROVE  StoreInv'
<1>1. /\ a \in Fe!AllAsks /\ a.kind = "get" /\ a.of \in Fe!Features
      /\ caller[c].at = "idle" /\ caller[c].ask = Nothing /\ caller[c] \in StoreCallers
      /\ UNCHANGED <<features, made, featureCache, pipeline, loaded, crossing, behind, failures>>
  BY StoreAssumed, AskFacts, OfFacts DEF StoreInv, CallerShape, Fe!GetFeature, Fe!Doing
<1>2. PICK r \in StoreCallers :
        /\ caller' = [caller EXCEPT ![c] = r] /\ r.ask = a
        /\ \/ r.at = "done"
           \/ /\ r.at = "read" /\ Fe!Rows(a.of) # {} /\ r.found = Fe!Newest(a.of).value
              /\ r.found \in Calls
  <2> DEFINE k == caller[c]
  <2>1. k \in StoreCallers
    BY <1>1
  <2>2. CASE featureCache[a.of] # Nothing \/ Fe!Rows(a.of) = {}
    <3>1. caller' = [caller EXCEPT ![c].at = "done", ![c].ask = a]
      BY <2>2 DEF Fe!GetFeature
    <3>2. caller' = [caller EXCEPT ![c] = [k EXCEPT !.at = "done", !.ask = a]]
      BY <2>1, <3>1 DEF StoreInv, CallerShape, StoreCallers
    <3>3. /\ [k EXCEPT !.at = "done", !.ask = a] \in StoreCallers
          /\ [k EXCEPT !.at = "done", !.ask = a].ask = a
          /\ [k EXCEPT !.at = "done", !.ask = a].at = "done"
      BY <1>1, <2>1 DEF StoreCallers, Fe!Places
    <3> HIDE DEF k
    <3> QED
      BY <3>2, <3>3
  <2>3. CASE ~(featureCache[a.of] # Nothing \/ Fe!Rows(a.of) = {})
    <3> DEFINE v == Fe!Newest(a.of).value
    <3>1. caller' = [caller EXCEPT ![c].at = "read", ![c].ask = a, ![c].found = v]
      BY <2>3 DEF Fe!GetFeature
    <3>2. v \in Calls
      BY <1>1, <2>3, RowsFacts DEF StoreInv
    <3> HIDE DEF v
    <3>3. caller' = [caller EXCEPT ![c] = [k EXCEPT !.at = "read", !.ask = a, !.found = v]]
      BY <2>1, <3>1 DEF StoreInv, CallerShape, StoreCallers
    <3>4. /\ [k EXCEPT !.at = "read", !.ask = a, !.found = v] \in StoreCallers
          /\ [k EXCEPT !.at = "read", !.ask = a, !.found = v].ask = a
          /\ [k EXCEPT !.at = "read", !.ask = a, !.found = v].found = v
          /\ [k EXCEPT !.at = "read", !.ask = a, !.found = v].at = "read"
      BY <1>1, <2>1, <3>2 DEF StoreCallers, Fe!Places
    <3> HIDE DEF k
    <3> QED
      BY <2>3, <3>2, <3>3, <3>4 DEF v
  <2> QED
    BY <2>2, <2>3
<1>3. /\ caller'[c] = r /\ \A q \in Calls \ {c} : caller'[q] = caller[q]
      /\ caller' \in [Calls -> StoreCallers]
  BY <1>2, CallerMoves DEF StoreInv, CallerShape
<1>4. StoreTypes'
  BY <1>1 DEF StoreInv, StoreTypes, Fe!Features, Fe!Range, Fe!Loads
<1>5. CallerShape'
  BY <1>1, <1>2, <1>3, CallerKeeps DEF StoreInv, StoreTypes
<1>6. OwedShape'
  <2>1. Owed[c] = 3 /\ Owed'[c] = 0
    BY <1>1, <1>2, <1>3 DEF Owed
  <2> QED
    BY <1>1, <1>3, <1>5, <2>1, OwedKeeps DEF StoreInv, StoreTypes
<1>7. \A p \in Pipelines : c \notin Runners(p)' /\ c \notin Runners(p)
  BY <1>1, <1>2, <1>3, StoreAssumed DEF Runners, Fe!AllAsks
<1>8. PipelineShape'
  BY <1>1, <1>3, <1>7, PipelineKeeps
<1>9. LoadShape'
  BY <1>1, <1>3, <1>7, LoadKeeps
<1>10. OneRowShape'
  BY <1>1, <1>2, <1>3, RowKeeps
<1>11. FreshValue'
  <2>1. CASE r.at = "done"
    BY <1>1, <1>3, <2>1, FreshKeeps
  <2>2. CASE r.at = "read"
    <3> SUFFICES ASSUME NEW f \in Fe!Features \ behind
        PROVE /\ \A q \in CallsReading(f)' : Fe!Rows(f)' # {} /\ caller'[q].found = Fe!Newest(f)'.value
              /\ featureCache[f] # Nothing /\ (\A q \in Calls : caller'[q].at = "saved" =>
                   f \notin Fe!Dropped(q)') =>
                   Fe!Rows(f)' # {} /\ featureCache[f] = Fe!Newest(f)'.value
      BY <1>1 DEF FreshValue, Fe!Features, Fe!Range, Fe!Loads
    <3>1. Fe!Rows(f)' = Fe!Rows(f) /\ Fe!Newest(f)' = Fe!Newest(f)
      BY <1>1 DEF Fe!Rows, Fe!Newest
    <3>2. \A q \in CallsReading(f)' : q # c => q \in CallsReading(f) /\ caller'[q] = caller[q]
      BY <1>3 DEF CallsReading, Fe!Of
    <3>3. c \in CallsReading(f)' => a.of = f
      BY <1>1, <1>2, <1>3 DEF CallsReading, Fe!Of
    <3>4. (\A q \in Calls : caller'[q].at = "saved" => f \notin Fe!Dropped(q)') =>
              \A q \in Calls : caller[q].at = "saved" => f \notin Fe!Dropped(q)
      BY <1>1, <1>3 DEF Fe!Dropped, Fe!Of, Fe!Features, Fe!Range, Fe!Loads
    <3>5. \A q \in CallsReading(f)' : Fe!Rows(f) # {} /\ caller'[q].found = Fe!Newest(f).value
      BY <1>2, <1>3, <2>2, <3>2, <3>3 DEF StoreInv, FreshValue
    <3> QED
      BY <3>1, <3>4, <3>5 DEF StoreInv, FreshValue
  <2> QED
    BY <1>2, <2>1, <2>2
<1> QED
  BY <1>4, <1>5, <1>6, <1>8, <1>9, <1>10, <1>11 DEF StoreInv

\* A call goes to another place with what it has.
LEMMA GotoFacts ==
  ASSUME CallerShape, NEW c \in Calls, NEW s \in Fe!Places, Fe!Goto(c, s)
  PROVE  /\ caller'[c].at = s /\ caller'[c].ask = caller[c].ask
              /\ caller'[c].found = caller[c].found
         /\ caller'[c].left = caller[c].left
         /\ \A q \in Calls \ {c} : caller'[q] = caller[q]
         /\ caller' \in [Calls -> StoreCallers]
<1> DEFINE k == caller[c]
<1>1. k \in StoreCallers /\ caller \in [Calls -> StoreCallers]
  BY OfFacts DEF CallerShape
<1>2. caller' = [caller EXCEPT ![c] = [k EXCEPT !.at = s]]
  BY <1>1 DEF Fe!Goto, StoreCallers
<1>3. /\ [k EXCEPT !.at = s] \in StoreCallers /\ [k EXCEPT !.at = s].at = s
      /\ [k EXCEPT !.at = s].ask = k.ask /\ [k EXCEPT !.at = s].found = k.found
      /\ [k EXCEPT !.at = s].left = k.left
  BY <1>1 DEF StoreCallers
<1> HIDE DEF k
<1>4. caller'[c] = [k EXCEPT !.at = s] /\ \A q \in Calls \ {c} : caller'[q] = caller[q]
  BY <1>1, <1>2
<1>5. caller' \in [Calls -> StoreCallers]
  BY <1>1, <1>2, <1>3
<1> QED
  BY <1>3, <1>4, <1>5 DEF k

\* A fetched row is featureCache.
LEMMA SetCacheInv ==
  ASSUME StoreInv, Fe!FeatureStoreAssumption, NEW c \in Calls, Fe!SetCache(c)
  PROVE  StoreInv'
<1>1. /\ caller[c].at = "read" /\ caller[c].ask \in Fe!AllAsks /\ caller[c].ask.kind = "get"
      /\ caller[c].found \in Calls /\ Fe!Of(c) \in Fe!Features
      /\ Fe!Goto(c, "done") /\ featureCache' = [featureCache EXCEPT ![Fe!Of(c)] = caller[c].found]
      /\ UNCHANGED <<features, made, pipeline, loaded, crossing, behind, failures>>
  BY OfFacts DEF StoreInv, CallerShape, Fe!SetCache, Fe!Doing
<1>2. /\ caller'[c].at = "done" /\ caller'[c].ask = caller[c].ask
      /\ \A q \in Calls \ {c} : caller'[q] = caller[q]
      /\ caller' \in [Calls -> StoreCallers]
  BY <1>1, GotoFacts DEF StoreInv, Fe!Places
<1>3. StoreTypes'
  BY <1>1 DEF StoreInv, StoreTypes, Fe!Features, Fe!Range, Fe!Loads
<1>4. CallerShape'
  BY <1>1, <1>2, CallerKeeps DEF StoreInv, StoreTypes
<1>5. OwedShape'
  <2>1. Owed[c] = 0 /\ Owed'[c] = 0
    BY <1>1, <1>2 DEF Owed
  <2> QED
    BY <1>1, <1>2, <1>4, <2>1, OwedKeeps DEF StoreInv, StoreTypes
<1>6. \A p \in Pipelines : c \notin Runners(p)' /\ c \notin Runners(p)
  BY <1>1, <1>2 DEF Runners
<1>7. PipelineShape'
  BY <1>1, <1>2, <1>6, PipelineKeeps
<1>8. LoadShape'
  BY <1>1, <1>2, <1>6, LoadKeeps
<1>9. OneRowShape'
  BY <1>1, <1>2, RowKeeps
<1>10. FreshValue'
  <2> SUFFICES ASSUME NEW f \in Fe!Features \ behind
      PROVE /\ \A q \in CallsReading(f)' : Fe!Rows(f)' # {} /\ caller'[q].found = Fe!Newest(f)'.value
            /\ featureCache'[f] # Nothing /\ (\A q \in Calls : caller'[q].at = "saved" =>
                 f \notin Fe!Dropped(q)') =>
                 Fe!Rows(f)' # {} /\ featureCache'[f] = Fe!Newest(f)'.value
    BY <1>1 DEF FreshValue, Fe!Features, Fe!Range, Fe!Loads
  <2>1. Fe!Rows(f)' = Fe!Rows(f) /\ Fe!Newest(f)' = Fe!Newest(f)
    BY <1>1 DEF Fe!Rows, Fe!Newest
  <2>2. \A q \in CallsReading(f)' : q \in CallsReading(f) /\ caller'[q] = caller[q]
    BY <1>2 DEF CallsReading, Fe!Of
  <2>3. (\A q \in Calls : caller'[q].at = "saved" => f \notin Fe!Dropped(q)') =>
            \A q \in Calls : caller[q].at = "saved" => f \notin Fe!Dropped(q)
    BY <1>1, <1>2 DEF Fe!Dropped, Fe!Of, Fe!Features, Fe!Range, Fe!Loads
  <2>4. CASE f = Fe!Of(c)
    <3>1. c \in CallsReading(f) /\ featureCache'[f] = caller[c].found
      BY <1>1, <2>4 DEF CallsReading, StoreInv, StoreTypes
    <3> QED
      BY <2>1, <2>2, <3>1 DEF StoreInv, FreshValue
  <2>5. CASE f # Fe!Of(c)
    <3>1. featureCache'[f] = featureCache[f]
      BY <1>1, <2>5 DEF StoreInv, StoreTypes
    <3> QED
      BY <2>1, <2>2, <2>3, <3>1 DEF StoreInv, FreshValue
  <2> QED
    BY <2>4, <2>5
<1> QED
  BY <1>3, <1>4, <1>5, <1>7, <1>8, <1>9, <1>10 DEF StoreInv

\* The cache forgets, and nothing else happens.
LEMMA ForgetsInv ==
  ASSUME StoreInv, Fe!FeatureStoreAssumption,
         UNCHANGED <<features, made, pipeline, caller, loaded, crossing, behind, failures>>,
         featureCache' \in [Fe!Features -> Calls \cup {Nothing}],
         \A f \in Fe!Features : featureCache'[f] \in {featureCache[f], Nothing}
  PROVE  StoreInv'
<1>1. StoreTypes' /\ CallerShape'
  BY DEF StoreInv, StoreTypes, CallerShape, StoreCallers, Fe!Places, Fe!AllAsks, Fe!Features,
       Fe!Range, Fe!Loads
<1>2. OwedShape'
  <2>1. Owed' = Owed
    BY DEF Owed
  <2> QED
    BY <2>1 DEF StoreInv, OwedShape
<1>3. PipelineShape' /\ LoadShape'
  <2>1. \A p \in Pipelines : Runners(p)' = Runners(p)
    BY DEF Runners
  <2>2. PipelineShape'
    BY <2>1 DEF StoreInv, PipelineShape
  <2>3. LoadShape'
    <3> SUFFICES ASSUME NEW p \in Pipelines
        PROVE  /\ pipeline'[p].records > 0 =>
                   pipeline'[p].status = "success" /\ loaded'[p] = Fe!Range(Fe!Loads(p))
               /\ \A q \in Runners(p)' :
                   /\ caller'[q].at = "extracting" => loaded'[p] = {}
                   /\ caller'[q].at \in {"found", "saved", "loading"} =>
                        loaded'[p] \cup Fe!Range(caller'[q].left) = Fe!Range(Fe!Loads(p))
                   /\ caller'[q].at = "saved" => Head(caller'[q].left) \in loaded'[p]
      BY DEF LoadShape, Fe!Range, Fe!Loads
    <3> QED
      BY <2>1 DEF StoreInv, LoadShape
  <2> QED
    BY <2>2, <2>3
<1>4. OneRowShape'
  BY DEF StoreInv, OneRowShape, Setters, Fe!Of, Fe!Rows, Fe!Features, Fe!Range, Fe!Loads
<1>5. FreshValue'
  <2> SUFFICES ASSUME NEW f \in Fe!Features \ behind
      PROVE /\ \A q \in CallsReading(f)' : Fe!Rows(f)' # {} /\ caller[q].found = Fe!Newest(f)'.value
            /\ featureCache'[f] # Nothing /\ (\A q \in Calls : caller[q].at = "saved" =>
                 f \notin Fe!Dropped(q)') =>
                 Fe!Rows(f)' # {} /\ featureCache'[f] = Fe!Newest(f)'.value
    BY DEF FreshValue, Fe!Features, Fe!Range, Fe!Loads
  <2>1. /\ Fe!Rows(f)' = Fe!Rows(f) /\ Fe!Newest(f)' = Fe!Newest(f)
        /\ CallsReading(f)' = CallsReading(f) /\ \A q \in Calls : Fe!Dropped(q)' = Fe!Dropped(q)
    BY DEF Fe!Rows, Fe!Newest, CallsReading, Fe!Of, Fe!Dropped, Fe!Features, Fe!Range, Fe!Loads
  <2> QED
    BY <2>1 DEF StoreInv, FreshValue
<1> QED
  BY <1>1, <1>2, <1>3, <1>4, <1>5 DEF StoreInv

\* A cache entry expires.
LEMMA ExpireEntryInv ==
  ASSUME StoreInv, Fe!FeatureStoreAssumption, NEW f \in Fe!Features, Fe!Expire(f)
  PROVE  StoreInv'
<1>1. /\ UNCHANGED <<features, made, pipeline, caller, loaded, crossing, behind, failures>>
      /\ featureCache' = [featureCache EXCEPT ![f] = Nothing]
  BY DEF Fe!Expire
<1>2. /\ featureCache' \in [Fe!Features -> Calls \cup {Nothing}]
      /\ \A g \in Fe!Features : featureCache'[g] \in {featureCache[g], Nothing}
  BY <1>1 DEF StoreInv, StoreTypes
<1> QED
  BY <1>1, <1>2, ForgetsInv

-----------------------------------------------------------------------------
(* Writing.                                                                 *)

\* A setter finds a row, or none.
LEMMA FoundRow ==
  ASSUME StoreInv, Fe!FeatureStoreAssumption, NEW c \in Calls, UNCHANGED features,
         \A q \in Calls \ {c} : caller'[q] = caller[q],
         caller[c].at # "found", caller'[c].at = "found",
         NEW f \in Fe!Features, Fe!Of(c)' = f, NEW id \in Fe!Found(f), caller'[c].found = id,
         crossing \subseteq crossing',
         id = Nothing /\ (\E d \in Fe!Rivals(c, "found", f) : caller[d].found = Nothing) =>
           f \in crossing'
  PROVE  OneRowShape'
<1> SUFFICES ASSUME NEW g \in Fe!Features \ crossing'
    PROVE /\ \A r, t \in Fe!Rows(g)' : r = t
          /\ \A q \in Setters(g)' : caller'[q].found = Nothing =>
               /\ Fe!Rows(g)' = {}
               /\ \A u \in Setters(g)' : caller'[u].found = Nothing => u = q
          /\ \A q \in Setters(g)' : caller'[q].found # Nothing =>
               /\ Fe!Rows(g)' # {}
               /\ \A r \in Fe!Rows(g)' : r.id = caller'[q].found
  BY DEF OneRowShape, Fe!Features, Fe!Range, Fe!Loads
<1>1. g \in Fe!Features \ crossing /\ Fe!Rows(g)' = Fe!Rows(g)
  BY DEF Fe!Rows
<1>2. \A q \in Setters(g)' : q # c => q \in Setters(g) /\ caller'[q] = caller[q]
  BY DEF Setters, Fe!Of
<1>3. CASE g # f
  <2>1. c \notin Setters(g)'
    BY <1>3 DEF Setters
  <2> QED
    BY <1>1, <1>2, <2>1 DEF StoreInv, OneRowShape
<1>4. CASE g = f
  <2>1. \A r \in Fe!Rows(f) : r.id \in Nat /\ r.id # Nothing
    BY RowsFacts, StoreAssumed DEF StoreInv
  <2>2. CASE id = Nothing
    <3>1. Fe!Rows(f) = {}
      BY <2>1, <2>2 DEF Fe!Found
    <3>2. \A q \in Setters(f) : caller[q].found = Nothing
      BY <1>1, <1>4, <3>1 DEF StoreInv, OneRowShape
    <3>3. \A q \in Setters(f) : q # c => q \in Fe!Rivals(c, "found", f)
      BY DEF Setters, Fe!Rivals, Fe!Doing
    <3>4. Setters(f) \subseteq {c}
      BY <1>4, <2>2, <3>2, <3>3
    <3> QED
      BY <1>1, <1>2, <1>4, <2>2, <3>1, <3>4
  <2>3. CASE id # Nothing
    <3>1. Fe!Rows(f) # {} /\ \E r \in Fe!Rows(f) : r.id = id
      BY <2>3 DEF Fe!Found
    <3>2. \A r \in Fe!Rows(f) : r.id = id
      BY <1>1, <1>4, <3>1 DEF StoreInv, OneRowShape
    <3>3. \A q \in Setters(f) : caller[q].found # Nothing
      BY <1>1, <1>4, <3>1 DEF StoreInv, OneRowShape
    <3>4. \A q \in Setters(g)' : caller'[q].found # Nothing
            /\ \A r \in Fe!Rows(f) : r.id = caller'[q].found
      BY <1>1, <1>2, <1>4, <2>3, <3>1, <3>2, <3>3 DEF StoreInv, OneRowShape
    <3>5. \A r, t \in Fe!Rows(f) : r = t
      BY <1>1, <1>4 DEF StoreInv, OneRowShape
    <3> QED
      BY <1>1, <1>4, <3>1, <3>4, <3>5
  <2> QED
    BY <2>2, <2>3
<1> QED
  BY <1>3, <1>4

\* A setter looks for the row it will save.
LEMMA FindFeatureInv ==
  ASSUME StoreInv, Fe!FeatureStoreAssumption, NEW c \in Calls, NEW a \in FeatureAsks[c],
         Fe!FindFeature(c, a)
  PROVE  StoreInv'
<1>1. /\ a \in Fe!AllAsks /\ a.kind = "set" /\ a.of \in Fe!Features
      /\ caller[c].at = "idle" /\ caller[c].ask = Nothing /\ caller[c] \in StoreCallers
      /\ UNCHANGED <<features, made, featureCache, pipeline, loaded, behind, failures>>
  BY StoreAssumed, AskFacts, OfFacts DEF StoreInv, CallerShape, Fe!FindFeature, Fe!Doing
<1>2. PICK id \in Fe!Found(a.of) :
         /\ caller' = [caller EXCEPT ![c].at = "found", ![c].ask = a, ![c].found = id]
         /\ Fe!Find(c, id)
  BY DEF Fe!FindFeature
<1>3. id \in (1..made) \cup {Nothing}
  BY <1>1, RowsFacts DEF Fe!Found, StoreInv
<1>4. /\ caller'[c].at = "found" /\ caller'[c].ask = a /\ caller'[c].found = id
      /\ \A q \in Calls \ {c} : caller'[q] = caller[q]
      /\ caller' \in [Calls -> StoreCallers]
  <2> DEFINE k == caller[c]
             r == [k EXCEPT !.at = "found", !.ask = a, !.found = id]
  <2>1. k \in StoreCallers
    BY <1>1
  <2>2. caller' = [caller EXCEPT ![c] = r]
    BY <1>2, <2>1 DEF StoreInv, CallerShape, StoreCallers
  <2>3. id \in Calls \cup Nat \cup {Nothing}
    BY <1>3 DEF StoreInv, StoreTypes
  <2>4. r \in StoreCallers /\ r.at = "found" /\ r.ask = a /\ r.found = id
    BY <1>1, <2>1, <2>3 DEF StoreCallers, Fe!Places
  <2> HIDE DEF k, r
  <2> QED
    BY <2>2, <2>4, CallerMoves DEF StoreInv, CallerShape
<1>5. Fe!Of(c)' = a.of
  BY <1>1, <1>4 DEF Fe!Of
<1>6. crossing' = crossing \cup
         {f \in {a.of} : id = Nothing
           /\ \E d \in Fe!Rivals(c, "found", f) : caller[d].found = Nothing}
  BY <1>2, <1>5 DEF Fe!Find
<1>7. StoreTypes'
  BY <1>1, <1>6 DEF StoreInv, StoreTypes, Fe!Features, Fe!Range, Fe!Loads
<1>8. CallerShape'
  BY <1>1, <1>3, <1>4, CallerKeeps DEF StoreInv, StoreTypes
<1>9. OwedShape'
  <2>1. Owed[c] = 3 /\ Owed'[c] = 1
    BY <1>1, <1>4 DEF Owed
  <2> QED
    BY <1>1, <1>4, <1>8, <2>1, OwedKeeps DEF StoreInv, StoreTypes
<1>10. \A p \in Pipelines : c \notin Runners(p)' /\ c \notin Runners(p)
  BY <1>1, <1>4, StoreAssumed DEF Runners, Fe!AllAsks
<1>11. PipelineShape'
  BY <1>1, <1>4, <1>10, PipelineKeeps
<1>12. LoadShape'
  BY <1>1, <1>4, <1>10, LoadKeeps
<1>13. OneRowShape'
  BY <1>1, <1>4, <1>5, <1>6, FoundRow
<1>14. FreshValue'
  BY <1>1, <1>4, FreshKeeps
<1> QED
  BY <1>7, <1>8, <1>9, <1>11, <1>12, <1>13, <1>14 DEF StoreInv

\* A pipeline looks for the row of its next feature.
LEMMA LoadFeatureInv ==
  ASSUME StoreInv, Fe!FeatureStoreAssumption, NEW c \in Calls, Fe!LoadFeature(c)
  PROVE  StoreInv'
<1>1. /\ caller[c].at = "loading" /\ caller[c].ask \in Fe!AllAsks /\ caller[c].ask.kind = "run"
      /\ caller[c].left # <<>> /\ Len(caller[c].left) <= 3 /\ Fe!Of(c) \in Fe!Features
      /\ Fe!Of(c) = Head(caller[c].left)
      /\ UNCHANGED <<features, made, featureCache, pipeline, loaded, behind, failures>>
  BY OfFacts DEF StoreInv, CallerShape, Fe!LoadFeature, Fe!Doing
<1>2. PICK id \in Fe!Found(Fe!Of(c)) :
         /\ caller' = [caller EXCEPT ![c].at = "found", ![c].found = id]
         /\ Fe!Find(c, id)
  BY DEF Fe!LoadFeature
<1>3. id \in (1..made) \cup {Nothing}
  BY <1>1, RowsFacts DEF Fe!Found, StoreInv
<1>4. /\ caller'[c].at = "found" /\ caller'[c].ask = caller[c].ask /\ caller'[c].found = id
      /\ caller'[c].left = caller[c].left
      /\ \A q \in Calls \ {c} : caller'[q] = caller[q]
      /\ caller' \in [Calls -> StoreCallers]
  <2> DEFINE k == caller[c]
             r == [k EXCEPT !.at = "found", !.found = id]
  <2>1. k \in StoreCallers
    BY OfFacts DEF StoreInv
  <2>2. caller' = [caller EXCEPT ![c] = r]
    BY <1>2, <2>1 DEF StoreInv, CallerShape, StoreCallers
  <2>3. id \in Calls \cup Nat \cup {Nothing}
    BY <1>3 DEF StoreInv, StoreTypes
  <2>4. r \in StoreCallers /\ r.at = "found" /\ r.ask = k.ask /\ r.found = id /\ r.left = k.left
    BY <2>1, <2>3 DEF StoreCallers, Fe!Places
  <2>5. k.ask = caller[c].ask /\ k.left = caller[c].left
    OBVIOUS
  <2> HIDE DEF k, r
  <2> QED
    BY <2>2, <2>4, <2>5, CallerMoves DEF StoreInv, CallerShape
<1>5. Fe!Of(c)' = Fe!Of(c)
  BY <1>1, <1>4 DEF Fe!Of
<1>6. crossing' = crossing \cup
         {f \in {Fe!Of(c)} : id = Nothing
           /\ \E d \in Fe!Rivals(c, "found", f) : caller[d].found = Nothing}
  BY <1>2, <1>5 DEF Fe!Find
<1>7. StoreTypes'
  BY <1>1, <1>6 DEF StoreInv, StoreTypes, Fe!Features, Fe!Range, Fe!Loads
<1>8. CallerShape'
  BY <1>1, <1>3, <1>4, CallerKeeps DEF StoreInv, StoreTypes
<1>9. OwedShape'
  <2>1. Owed[c] = Len(caller[c].left) /\ Owed'[c] = Len(caller[c].left)
    BY <1>1, <1>4 DEF Owed
  <2>2. Len(caller[c].left) \in Nat /\ made \in Nat
    BY <1>1, OfFacts DEF StoreInv, StoreTypes
  <2> QED
    BY <1>1, <1>4, <1>8, <2>1, <2>2, OwedKeeps
<1>10. \A p \in Pipelines : c \in Runners(p)' <=> c \in Runners(p)
  BY <1>1, <1>4 DEF Runners
<1>11. PipelineShape'
  BY <1>1, <1>4, <1>10, PipelineKeeps
<1>12. LoadShape'
  <2>1. \A p \in Pipelines : c \in Runners(p)' =>
            loaded[p] \cup Fe!Range(caller'[c].left) = Fe!Range(Fe!Loads(p))
    BY <1>1, <1>4, <1>10 DEF StoreInv, LoadShape
  <2> QED
    BY <1>1, <1>4, <2>1, LoadKeeps
<1>13. OneRowShape'
  BY <1>1, <1>4, <1>5, <1>6, FoundRow
<1>14. FreshValue'
  BY <1>1, <1>4, FreshKeeps
<1> QED
  BY <1>7, <1>8, <1>9, <1>11, <1>12, <1>13, <1>14 DEF StoreInv

\* A feature is saved.
LEMMA SaveFeatureInv ==
  ASSUME StoreInv, Fe!FeatureStoreAssumption, NEW c \in Calls, Fe!SaveFeature(c)
  PROVE  StoreInv'
<1>1. /\ caller[c].at = "found" /\ caller[c].ask \in Fe!AllAsks
           /\ caller[c].ask.kind \in {"set", "run"}
      /\ caller[c].found \in (1..made) \cup {Nothing} /\ Fe!Of(c) \in Fe!Features
      /\ caller[c].ask.kind = "run" =>
           /\ caller[c].left # <<>> /\ Len(caller[c].left) <= 3 /\ Fe!Of(c) = Head(caller[c].left)
           /\ Len(caller[c].left) \in Nat
      /\ Fe!Goto(c, "saved") /\ made \in Nat
      /\ UNCHANGED <<featureCache, pipeline, crossing, failures>>
  BY OfFacts DEF StoreInv, StoreTypes, CallerShape, Fe!SaveFeature, Fe!Doing
<1>2. /\ caller'[c].at = "saved" /\ caller'[c].ask = caller[c].ask
           /\ caller'[c].left = caller[c].left
      /\ \A q \in Calls \ {c} : caller'[q] = caller[q]
      /\ caller' \in [Calls -> StoreCallers]
  BY <1>1, GotoFacts DEF StoreInv, Fe!Places
<1>3. PICK g \in Fe!Features : g = Fe!Of(c)
  BY <1>1
<1>4. PICK id \in Nat : id = IF caller[c].found = Nothing THEN made + 1 ELSE caller[c].found
  BY <1>1
<1>5. /\ features' = {r \in features : r.name # g \/ r.id # id} \cup {[name |-> g, id |-> id, value |-> c]}
      /\ made' = (IF caller[c].found = Nothing THEN made + 1 ELSE made)
      /\ behind' = behind \cup {f \in {g} : \E d \in Calls : caller[d].at = "read" /\ Fe!Of(d) = f}
      /\ loaded' = [p \in Pipelines |->
                      IF caller[c].ask = [kind |-> "run", of |-> p] THEN loaded[p] \cup {g} ELSE loaded[p]]
  BY <1>1, <1>3, <1>4 DEF Fe!SaveFeature, Fe!Saved, Fe!Overtakes, Fe!Doing
<1>6. made' \in Nat /\ made <= made' /\ id \in 1..made' /\ Fe!Of(c)' = g
  BY <1>1, <1>2, <1>3, <1>4, <1>5, StoreAssumed DEF Fe!Of
<1>7. StoreTypes'
  <2>1. features' \subseteq [name : Fe!Features, id : 1..made', value : Calls]
    <3>1. features \subseteq [name : Fe!Features, id : 1..made', value : Calls]
      BY <1>1, <1>6 DEF StoreInv, StoreTypes
    <3> QED
      BY <1>5, <1>6, <3>1
  <2>2. IsFiniteSet(features')
    <3>1. {r \in features : r.name # g \/ r.id # id} \subseteq features /\ IsFiniteSet(features)
      BY DEF StoreInv, StoreTypes
    <3>2. IsFiniteSet({r \in features : r.name # g \/ r.id # id})
      BY <3>1, FS_Subset
    <3> QED
      BY <1>5, <3>2, FS_AddElement
  <2>3. loaded' \in [Pipelines -> SUBSET Fe!Features] /\ behind' \subseteq Fe!Features
    BY <1>5 DEF StoreInv, StoreTypes
  <2> QED
    BY <1>1, <1>6, <2>1, <2>2, <2>3 DEF StoreInv, StoreTypes, Fe!Features, Fe!Range, Fe!Loads
<1>8. CallerShape'
  BY <1>1, <1>2, <1>6, CallerKeeps DEF StoreInv
<1>9. OwedShape'
  <2>1. made' + Owed'[c] <= made + Owed[c]
    <3>1. CASE caller[c].ask.kind = "run"
      <4>1. Owed[c] = Len(caller[c].left) /\ Owed'[c] = Len(caller[c].left) - 1
        BY <1>1, <1>2, <3>1 DEF Owed
      <4>2. made' = made \/ made' = made + 1
        BY <1>5
      <4>3. Len(caller[c].left) \in Nat
        BY <1>1, <3>1
      <4> QED
        BY <1>1, <4>1, <4>2, <4>3
    <3>2. CASE caller[c].ask.kind = "set"
      <4>1. Owed[c] = 1 /\ Owed'[c] = 0
        BY <1>1, <1>2, <3>2 DEF Owed
      <4> QED
        BY <1>1, <1>5, <4>1
    <3> QED
      BY <1>1, <3>1, <3>2
  <2> QED
    BY <1>2, <1>6, <1>8, <2>1, OwedKeeps
<1>10. \A p \in Pipelines : c \in Runners(p)' <=> c \in Runners(p)
  BY <1>1, <1>2 DEF Runners
<1>11. PipelineShape' /\ \A p \in Pipelines : Runners(p)' = Runners(p)
  BY <1>1, <1>2, <1>10, PipelineKeeps
<1>12. LoadShape'
  <2> SUFFICES ASSUME NEW p \in Pipelines
      PROVE  /\ pipeline[p].records > 0 =>
                 pipeline[p].status = "success" /\ loaded'[p] = Fe!Range(Fe!Loads(p))
             /\ \A q \in Runners(p)' :
                 /\ caller'[q].at = "extracting" => loaded'[p] = {}
                 /\ caller'[q].at \in {"found", "saved", "loading"} =>
                      loaded'[p] \cup Fe!Range(caller'[q].left) = Fe!Range(Fe!Loads(p))
                 /\ caller'[q].at = "saved" => Head(caller'[q].left) \in loaded'[p]
    BY <1>1 DEF LoadShape, Fe!Range, Fe!Loads
  <2>1. CASE c \in Runners(p)
    <3>1. /\ caller[c].ask = [kind |-> "run", of |-> p] /\ caller[c].ask.kind = "run"
          /\ \A q \in Runners(p)' : q = c
      BY <1>11, <2>1 DEF Runners, StoreInv, PipelineShape
    <3>2. loaded'[p] = loaded[p] \cup {g} /\ g = Head(caller[c].left)
      BY <1>1, <1>3, <1>5, <3>1
    <3>3. loaded[p] \cup Fe!Range(caller[c].left) = Fe!Range(Fe!Loads(p))
      BY <1>1, <2>1 DEF StoreInv, LoadShape
    <3>4. g \in Fe!Range(caller[c].left)
      <4>1. 1 \in DOMAIN caller[c].left /\ g = caller[c].left[1]
        BY <1>1, <3>1, <3>2, OfFacts DEF StoreInv
      <4> QED
        BY <4>1 DEF Fe!Range
    <3>5. loaded'[p] \cup Fe!Range(caller[c].left) = Fe!Range(Fe!Loads(p))
      BY <3>2, <3>3, <3>4
    <3>6. pipeline[p].status = "running"
      BY <2>1 DEF StoreInv, PipelineShape
    <3>7. ~(pipeline[p].records > 0)
      BY <3>6 DEF StoreInv, LoadShape
    <3> QED
      BY <1>2, <3>1, <3>2, <3>5, <3>7
  <2>2. CASE c \notin Runners(p)
    <3>1. loaded'[p] = loaded[p]
      BY <1>1, <1>5, <2>2 DEF Runners
    <3>2. \A q \in Runners(p)' : q \in Runners(p) /\ caller'[q] = caller[q]
      BY <1>2, <1>11, <2>2 DEF Runners
    <3> QED
      BY <3>1, <3>2 DEF StoreInv, LoadShape
  <2> QED
    BY <2>1, <2>2
<1>13. \A f \in Fe!Features : f # g => Fe!Rows(f)' = Fe!Rows(f)
  <2> SUFFICES ASSUME NEW f \in Fe!Features, f # g
      PROVE  Fe!Rows(f)' = Fe!Rows(f)
    OBVIOUS
  <2>1. \A r : r \in features' /\ r.name = f <=> r \in features /\ r.name = f
    BY <1>5
  <2> QED
    BY <2>1 DEF Fe!Rows
<1>14. OneRowShape'
  <2> SUFFICES ASSUME NEW f \in Fe!Features \ crossing
      PROVE /\ \A r, t \in Fe!Rows(f)' : r = t
            /\ \A q \in Setters(f)' : caller'[q].found = Nothing =>
                 /\ Fe!Rows(f)' = {}
                 /\ \A u \in Setters(f)' : caller'[u].found = Nothing => u = q
            /\ \A q \in Setters(f)' : caller'[q].found # Nothing =>
                 /\ Fe!Rows(f)' # {}
                 /\ \A r \in Fe!Rows(f)' : r.id = caller'[q].found
    BY <1>1 DEF OneRowShape, Fe!Features, Fe!Range, Fe!Loads
  <2>1. \A q \in Setters(f)' : q \in Setters(f) /\ caller'[q] = caller[q] /\ q # c
    BY <1>2 DEF Setters, Fe!Of
  <2>2. CASE f # g
    BY <1>13, <2>1, <2>2 DEF StoreInv, OneRowShape
  <2>3. CASE f = g
    <3>1. c \in Setters(f)
      BY <1>1, <1>3, <2>3 DEF Setters
    <3>2. \A r \in Fe!Rows(f) : r.id = id
      BY <1>4, <3>1 DEF StoreInv, OneRowShape
    <3>3. Fe!Rows(f)' = {[name |-> f, id |-> id, value |-> c]}
      <4>1. \A r \in features : r.name = g => r.id = id
        BY <2>3, <3>2 DEF Fe!Rows
      <4>2. Fe!Rows(f)' = {r \in features' : r.name = f}
        BY DEF Fe!Rows
      <4> QED
        BY <1>5, <2>3, <4>1, <4>2
    <3>4. \A q \in Setters(f)' : caller'[q].found # Nothing
      BY <2>1, <3>1 DEF StoreInv, OneRowShape
    <3>5. \A q \in Setters(f)' : caller'[q].found = id
      BY <1>4, <2>1, <3>1, <3>2, <3>4 DEF StoreInv, OneRowShape
    <3> QED
      BY <3>3, <3>4, <3>5
  <2> QED
    BY <2>2, <2>3
<1>15. FreshValue'
  <2> SUFFICES ASSUME NEW f \in Fe!Features \ behind'
      PROVE /\ \A q \in CallsReading(f)' : Fe!Rows(f)' # {} /\ caller'[q].found = Fe!Newest(f)'.value
            /\ featureCache[f] # Nothing /\ (\A q \in Calls : caller'[q].at = "saved" =>
                 f \notin Fe!Dropped(q)') =>
                 Fe!Rows(f)' # {} /\ featureCache[f] = Fe!Newest(f)'.value
    BY <1>1 DEF FreshValue, Fe!Features, Fe!Range, Fe!Loads
  <2>1. \A q \in CallsReading(f)' : q \in CallsReading(f) /\ caller'[q] = caller[q]
    BY <1>2 DEF CallsReading, Fe!Of
  <2>2. CASE f = g
    <3>1. CallsReading(f) = {}
      BY <1>5, <2>2 DEF CallsReading
    <3>2. f \in Fe!Dropped(c)'
      BY <1>6, <2>2 DEF Fe!Dropped
    <3> QED
      BY <1>2, <2>1, <3>1, <3>2
  <2>3. CASE f # g
    <3>1. Fe!Rows(f)' = Fe!Rows(f)
      BY <1>13, <2>3
    <3>2. Fe!Newest(f)' = Fe!Newest(f)
      BY <3>1 DEF Fe!Newest
    <3>3. (\A q \in Calls : caller'[q].at = "saved" => f \notin Fe!Dropped(q)') =>
              \A q \in Calls : caller[q].at = "saved" => f \notin Fe!Dropped(q)
      BY <1>1, <1>2 DEF Fe!Dropped, Fe!Of, Fe!Features, Fe!Range, Fe!Loads
    <3>4. f \in Fe!Features \ behind
      BY <1>5
    <3> QED
      BY <2>1, <3>1, <3>2, <3>3, <3>4 DEF StoreInv, FreshValue
  <2> QED
    BY <2>2, <2>3
<1> QED
  BY <1>7, <1>8, <1>9, <1>11, <1>12, <1>14, <1>15 DEF StoreInv

\* The rows of a feature, or of all, are deleted.
LEMMA DeleteFeaturesInv ==
  ASSUME StoreInv, Fe!FeatureStoreAssumption, NEW c \in Calls, NEW a \in FeatureAsks[c],
         Fe!DeleteFeatures(c, a)
  PROVE  StoreInv'
<1>1. /\ a \in Fe!AllAsks /\ a.kind \in {"delete", "forget"} /\ (a.kind = "delete" =>
           a.of \in Fe!Features)
      /\ caller[c].at = "idle" /\ caller[c].ask = Nothing /\ caller[c] \in StoreCallers
      /\ caller' = [caller EXCEPT ![c].at = "saved", ![c].ask = a]
      /\ UNCHANGED <<made, featureCache, pipeline, loaded, failures>>
  BY StoreAssumed, AskFacts, OfFacts DEF StoreInv, CallerShape, Fe!DeleteFeatures, Fe!Doing
<1>2. PICK erased \in SUBSET Fe!Features : erased = Fe!Gone(a)
  BY <1>1 DEF Fe!Gone
<1>3. /\ features' = {r \in features : r.name \notin erased}
      /\ behind' = behind \cup {f \in erased : \E d \in Calls : caller[d].at = "read"
           /\ Fe!Of(d) = f}
      /\ crossing' = crossing \cup
           {f \in erased : \E d \in Fe!Rivals(c, "found", f) : caller[d].found # Nothing}
  BY <1>2 DEF Fe!DeleteFeatures, Fe!Overtakes, Fe!Doing
<1>4. /\ caller'[c].at = "saved" /\ caller'[c].ask = a
      /\ \A q \in Calls \ {c} : caller'[q] = caller[q]
      /\ caller' \in [Calls -> StoreCallers]
  <2> DEFINE k == caller[c]
             r == [k EXCEPT !.at = "saved", !.ask = a]
  <2>1. k \in StoreCallers
    BY <1>1
  <2>2. caller' = [caller EXCEPT ![c] = r]
    BY <1>1, <2>1 DEF StoreInv, CallerShape, StoreCallers
  <2>3. r \in StoreCallers /\ r.at = "saved" /\ r.ask = a
    BY <1>1, <2>1 DEF StoreCallers, Fe!Places
  <2> HIDE DEF k, r
  <2> QED
    BY <2>2, <2>3, CallerMoves DEF StoreInv, CallerShape
<1>5. Fe!Dropped(c)' = erased
  BY <1>1, <1>2, <1>4 DEF Fe!Dropped, Fe!Gone, Fe!Of, Fe!Features, Fe!Range, Fe!Loads
<1>6. StoreTypes'
  <2>1. IsFiniteSet(features') /\ features' \subseteq features
    BY <1>3, FS_Subset DEF StoreInv, StoreTypes
  <2> QED
    BY <1>1, <1>3, <2>1 DEF StoreInv, StoreTypes, Fe!Features, Fe!Range, Fe!Loads
<1>7. CallerShape'
  BY <1>1, <1>4, CallerKeeps DEF StoreInv, StoreTypes
<1>8. OwedShape'
  <2>1. Owed[c] = 3 /\ Owed'[c] = 0
    BY <1>1, <1>4 DEF Owed
  <2> QED
    BY <1>1, <1>4, <1>7, <2>1, OwedKeeps DEF StoreInv, StoreTypes
<1>9. \A p \in Pipelines : c \notin Runners(p)' /\ c \notin Runners(p)
  BY <1>1, <1>4, StoreAssumed DEF Runners, Fe!AllAsks
<1>10. PipelineShape'
  BY <1>1, <1>4, <1>9, PipelineKeeps
<1>11. LoadShape'
  BY <1>1, <1>4, <1>9, LoadKeeps
<1>12. \A f \in Fe!Features : Fe!Rows(f)' = IF f \in erased THEN {} ELSE Fe!Rows(f)
  <2> SUFFICES ASSUME NEW f \in Fe!Features
      PROVE  Fe!Rows(f)' = IF f \in erased THEN {} ELSE Fe!Rows(f)
    OBVIOUS
  <2>1. Fe!Rows(f)' = {r \in features' : r.name = f}
    BY DEF Fe!Rows
  <2> QED
    BY <1>3, <2>1 DEF Fe!Rows
<1>13. OneRowShape'
  <2> SUFFICES ASSUME NEW f \in Fe!Features \ crossing'
      PROVE /\ \A r, t \in Fe!Rows(f)' : r = t
            /\ \A q \in Setters(f)' : caller'[q].found = Nothing =>
                 /\ Fe!Rows(f)' = {}
                 /\ \A u \in Setters(f)' : caller'[u].found = Nothing => u = q
            /\ \A q \in Setters(f)' : caller'[q].found # Nothing =>
                 /\ Fe!Rows(f)' # {}
                 /\ \A r \in Fe!Rows(f)' : r.id = caller'[q].found
    BY DEF OneRowShape, Fe!Features, Fe!Range, Fe!Loads
  <2>1. \A q \in Setters(f)' : q \in Setters(f) /\ caller'[q] = caller[q] /\ q # c
    BY <1>4 DEF Setters, Fe!Of
  <2>2. f \in Fe!Features \ crossing
    BY <1>3
  <2>3. CASE f \notin erased
    BY <1>12, <2>1, <2>2, <2>3 DEF StoreInv, OneRowShape
  <2>4. CASE f \in erased
    <3>1. \A q \in Setters(f)' : q \in Fe!Rivals(c, "found", f)
      BY <2>1 DEF Setters, Fe!Rivals, Fe!Doing
    <3>2. \A q \in Setters(f)' : caller'[q].found = Nothing
      BY <1>3, <2>1, <2>4, <3>1
    <3> QED
      BY <1>12, <2>1, <2>2, <2>4, <3>2 DEF StoreInv, OneRowShape
  <2> QED
    BY <2>3, <2>4
<1>14. FreshValue'
  <2> SUFFICES ASSUME NEW f \in Fe!Features \ behind'
      PROVE /\ \A q \in CallsReading(f)' : Fe!Rows(f)' # {} /\ caller'[q].found = Fe!Newest(f)'.value
            /\ featureCache[f] # Nothing /\ (\A q \in Calls : caller'[q].at = "saved" =>
                 f \notin Fe!Dropped(q)') =>
                 Fe!Rows(f)' # {} /\ featureCache[f] = Fe!Newest(f)'.value
    BY <1>1 DEF FreshValue, Fe!Features, Fe!Range, Fe!Loads
  <2>1. \A q \in CallsReading(f)' : q \in CallsReading(f) /\ caller'[q] = caller[q]
    BY <1>4 DEF CallsReading, Fe!Of
  <2>2. CASE f \in erased
    <3>1. CallsReading(f) = {}
      BY <1>3, <2>2 DEF CallsReading
    <3>2. f \in Fe!Dropped(c)'
      BY <1>5, <2>2
    <3> QED
      BY <1>4, <2>1, <3>1, <3>2
  <2>3. CASE f \notin erased
    <3>1. Fe!Rows(f)' = Fe!Rows(f)
      BY <1>12, <2>3
    <3>2. Fe!Newest(f)' = Fe!Newest(f)
      BY <3>1 DEF Fe!Newest
    <3>3. (\A q \in Calls : caller'[q].at = "saved" => f \notin Fe!Dropped(q)') =>
              \A q \in Calls : caller[q].at = "saved" => f \notin Fe!Dropped(q)
      BY <1>1, <1>4 DEF Fe!Dropped, Fe!Of, Fe!Features, Fe!Range, Fe!Loads
    <3>4. f \in Fe!Features \ behind
      BY <1>3
    <3> QED
      BY <2>1, <3>1, <3>2, <3>3, <3>4 DEF StoreInv, FreshValue
  <2> QED
    BY <2>2, <2>3
<1> QED
  BY <1>6, <1>7, <1>8, <1>10, <1>11, <1>13, <1>14 DEF StoreInv

\* What is left after the first.
LEMMA TailSet ==
  ASSUME NEW S, NEW s \in Seq(S), s # <<>>
  PROVE  Fe!Range(s) = {Head(s)} \cup Fe!Range(Tail(s)) /\ (Len(s) = 1 => Fe!Range(s) = {Head(s)})
<1>1. /\ Len(s) \in Nat /\ Len(s) >= 1 /\ DOMAIN s = 1..Len(s) /\ Head(s) = s[1]
  BY EmptySeq, LenProperties
<1>2. /\ Tail(s) \in Seq(S) /\ Len(Tail(s)) = Len(s) - 1 /\ DOMAIN Tail(s) = 1..(Len(s) - 1)
      /\ \A i \in 1..(Len(s) - 1) : Tail(s)[i] = s[i + 1]
  BY HeadTailProperties, LenProperties
<1>3. \A i \in 2..Len(s) : i - 1 \in 1..(Len(s) - 1) /\ (i - 1) + 1 = i
  BY <1>1
<1>4. \A i \in 2..Len(s) : s[i] = Tail(s)[i - 1]
  BY <1>2, <1>3
<1>5. Fe!Range(s) \subseteq {Head(s)} \cup Fe!Range(Tail(s))
  <2> SUFFICES ASSUME NEW i \in 1..Len(s)
      PROVE  s[i] \in {Head(s)} \cup Fe!Range(Tail(s))
    BY <1>1 DEF Fe!Range
  <2>1. CASE i = 1
    BY <1>1, <2>1
  <2>2. CASE i # 1
    <3>1. i \in 2..Len(s)
      BY <1>1, <2>2
    <3> QED
      BY <1>2, <1>3, <1>4, <3>1 DEF Fe!Range
  <2> QED
    BY <2>1, <2>2
<1>6. {Head(s)} \cup Fe!Range(Tail(s)) \subseteq Fe!Range(s)
  <2>1. Head(s) \in Fe!Range(s)
    BY <1>1 DEF Fe!Range
  <2>2. \A i \in 1..(Len(s) - 1) : i + 1 \in 1..Len(s)
    BY <1>1
  <2> QED
    BY <1>1, <1>2, <2>1, <2>2 DEF Fe!Range
<1>7. Len(s) = 1 => Fe!Range(Tail(s)) = {}
  BY <1>2 DEF Fe!Range
<1> QED
  BY <1>5, <1>6, <1>7

\* The entries that a call has saved or deleted are dropped, and it goes on.
LEMMA CacheDropped ==
  ASSUME StoreInv, Fe!FeatureStoreAssumption, NEW c \in Calls, caller[c].at = "saved",
         featureCache' = [f \in Fe!Features |-> IF f \in Fe!Dropped(c) THEN Nothing ELSE featureCache[f]],
         UNCHANGED <<features, made, loaded, crossing, behind, failures>>,
         \A q \in Calls \ {c} : caller'[q] = caller[q],
         caller'[c].at \in {"done", "loading"},
         pipeline' \in [Pipelines -> [status : {"idle", "running", "success", "error"}, records : {0, 1}]],
         CallerShape', PipelineShape', LoadShape', Owed'[c] <= Owed[c]
  PROVE  StoreInv'
<1>1. StoreTypes'
  BY DEF StoreInv, StoreTypes, Fe!Features, Fe!Range, Fe!Loads
<1>2. OwedShape'
  <2>1. Owed[c] \in Nat /\ made \in Nat
    BY OwedFacts DEF StoreInv, StoreTypes
  <2>2. Owed'[c] \in Int
    <3>1. CASE caller'[c].at = "loading" /\ caller'[c].ask.kind = "run"
      <4>1. caller'[c].left \in Seq(Fe!Features)
        BY DEF CallerShape, StoreCallers
      <4> QED
        BY <3>1, <4>1, LenProperties DEF Owed
    <3>2. CASE ~(caller'[c].at = "loading" /\ caller'[c].ask.kind = "run")
      BY <3>2 DEF Owed
    <3> QED
      BY <3>1, <3>2
  <2> QED
    BY <2>1, <2>2, OwedKeeps
<1>3. OneRowShape'
  BY RowKeeps
<1>4. FreshValue'
  <2> SUFFICES ASSUME NEW f \in Fe!Features \ behind
      PROVE /\ \A q \in CallsReading(f)' : Fe!Rows(f)' # {} /\ caller'[q].found = Fe!Newest(f)'.value
            /\ featureCache'[f] # Nothing /\ (\A q \in Calls : caller'[q].at = "saved" =>
                 f \notin Fe!Dropped(q)') =>
                 Fe!Rows(f)' # {} /\ featureCache'[f] = Fe!Newest(f)'.value
    BY DEF FreshValue, Fe!Features, Fe!Range, Fe!Loads
  <2>1. Fe!Rows(f)' = Fe!Rows(f) /\ Fe!Newest(f)' = Fe!Newest(f)
    BY DEF Fe!Rows, Fe!Newest
  <2>2. \A q \in CallsReading(f)' : q \in CallsReading(f) /\ caller'[q] = caller[q]
    BY DEF CallsReading, Fe!Of
  <2>3. CASE f \in Fe!Dropped(c)
    <3>1. featureCache'[f] = Nothing
      BY <2>3
    <3> QED
      BY <2>1, <2>2, <3>1 DEF StoreInv, FreshValue
  <2>4. CASE f \notin Fe!Dropped(c)
    <3>1. featureCache'[f] = featureCache[f]
      BY <2>4
    <3>2. (\A q \in Calls : caller'[q].at = "saved" => f \notin Fe!Dropped(q)') =>
              \A q \in Calls : caller[q].at = "saved" => f \notin Fe!Dropped(q)
      BY <2>4 DEF Fe!Dropped, Fe!Of, Fe!Features, Fe!Range, Fe!Loads
    <3> QED
      BY <2>1, <2>2, <3>1, <3>2 DEF StoreInv, FreshValue
  <2> QED
    BY <2>3, <2>4
<1> QED
  BY <1>1, <1>2, <1>3, <1>4 DEF StoreInv

\* The cache entry of what was written is dropped, and a pipeline goes on.
LEMMA InvalidateCacheInv ==
  ASSUME StoreInv, Fe!FeatureStoreAssumption, NEW c \in Calls, Fe!InvalidateCache(c)
  PROVE  StoreInv'
<1>1. /\ caller[c].at = "saved" /\ caller[c].ask \in Fe!AllAsks
      /\ caller[c].ask.kind \in {"set", "delete", "forget", "run"}
      /\ caller[c] \in StoreCallers /\ made \in Nat
      /\ featureCache' = [f \in Fe!Features |-> IF f \in Fe!Dropped(c) THEN Nothing ELSE featureCache[f]]
      /\ UNCHANGED <<features, made, loaded, crossing, behind, failures>>
  BY OfFacts DEF StoreInv, StoreTypes, CallerShape, Fe!InvalidateCache, Fe!Doing
<1>2. CASE caller[c].ask.kind # "run"
  <2>1. Fe!Goto(c, "done") /\ UNCHANGED pipeline
    BY <1>2 DEF Fe!InvalidateCache
  <2>2. /\ caller'[c].at = "done" /\ caller'[c].ask = caller[c].ask
             /\ caller'[c].left = caller[c].left
        /\ \A q \in Calls \ {c} : caller'[q] = caller[q]
        /\ caller' \in [Calls -> StoreCallers]
    BY <2>1, GotoFacts DEF StoreInv, Fe!Places
  <2>3. Owed'[c] <= Owed[c]
    <3>1. Owed'[c] = 0 /\ Owed[c] = 0
      BY <1>1, <1>2, <2>2 DEF Owed
    <3> QED
      BY <3>1
  <2>4. \A p \in Pipelines : c \notin Runners(p)' /\ c \notin Runners(p)
    BY <1>2, <2>2 DEF Runners
  <2>5. PipelineShape' /\ LoadShape'
    BY <1>1, <2>1, <2>2, <2>4, PipelineKeeps, LoadKeeps
  <2>6. pipeline' \in [Pipelines -> [status : {"idle", "running", "success", "error"}, records : {0, 1}]]
    BY <2>1 DEF StoreInv, StoreTypes
  <2>7. CallerShape'
    BY <1>1, <2>2, CallerKeeps DEF StoreInv
  <2> QED
    BY <1>1, <2>2, <2>3, <2>5, <2>6, <2>7, CacheDropped
<1>3. CASE caller[c].ask.kind = "run"
  <2> DEFINE last == Len(caller[c].left) = 1
             to == IF last THEN "done" ELSE "loading"
  <2>1. PICK p \in Pipelines : p = caller[c].ask.of /\ caller[c].ask = [kind |-> "run", of |-> p]
    BY <1>1, <1>3, AskFacts
  <2>2. /\ caller[c].left # <<>> /\ caller[c].left \in Seq(Fe!Features) /\ Len(caller[c].left) <= 3
        /\ Tail(caller[c].left) \in Seq(Fe!Features)
        /\ Len(Tail(caller[c].left)) = Len(caller[c].left) - 1 /\ Len(caller[c].left) \in Nat
    BY <1>1, <1>3, OfFacts DEF StoreInv, CallerShape
  <2>3. /\ caller' = [caller EXCEPT ![c].at = IF last THEN "done" ELSE "loading", ![c].left = Tail(@)]
        /\ pipeline' = IF last THEN [pipeline EXCEPT ![p] = [status |-> "success", records |-> 1]]
                       ELSE pipeline
    BY <1>3, <2>1 DEF Fe!InvalidateCache
  <2>4. /\ caller'[c].at = to /\ caller'[c].ask = caller[c].ask
             /\ caller'[c].left = Tail(caller[c].left)
        /\ \A q \in Calls \ {c} : caller'[q] = caller[q]
        /\ caller' \in [Calls -> StoreCallers]
    <3> DEFINE k == caller[c]
               t == Tail(k.left)
               r == [k EXCEPT !.at = to, !.left = t]
    <3>1. k \in StoreCallers
      BY <1>1
    <3>2. caller' = [caller EXCEPT ![c] = r]
      BY <2>3, <3>1 DEF StoreInv, CallerShape, StoreCallers
    <3>3. t \in Seq(Fe!Features) /\ to \in Fe!Places /\ k.ask = caller[c].ask
            /\ t = Tail(caller[c].left)
      BY <2>2 DEF Fe!Places
    <3> HIDE DEF t, to
    <3>4. r \in StoreCallers /\ r.at = to /\ r.ask = k.ask /\ r.left = t
      BY <3>1, <3>3 DEF StoreCallers
    <3> HIDE DEF k, r
    <3> QED
      BY <3>2, <3>3, <3>4, CallerMoves DEF StoreInv, CallerShape
  <2>5. Tail(caller[c].left) = <<>> => last
    <3>1. Tail(caller[c].left) = <<>> => Len(Tail(caller[c].left)) = 0
      BY EmptySeq
    <3>2. Tail(caller[c].left) = <<>> => Len(caller[c].left) = 1
      BY <2>2, <3>1
    <3> QED
      BY <3>2
  <2>6. CallerShape'
    <3>1. /\ to \in {"done", "loading"} /\ (to = "loading" => Tail(caller[c].left) # <<>>)
          /\ Len(Tail(caller[c].left)) <= 3
      BY <2>2, <2>5
    <3> HIDE DEF to, last
    <3>2. /\ caller'[c].at # "idle" /\ caller'[c].ask \in Fe!AllAsks
          /\ caller'[c].at # "read" /\ caller'[c].at # "found" /\ caller'[c].at # "saved"
          /\ caller'[c].ask.kind = "run"
      BY <1>1, <1>3, <2>4, <3>1
    <3>3. caller'[c].at = "loading" => caller'[c].left # <<>> /\ Len(caller'[c].left) <= 3
      BY <2>4, <3>1
    <3>4. CallerShape /\ made' = made /\ made <= made' /\ made' \in Nat
      BY <1>1 DEF StoreInv
    <3> QED
      BY <1>1, <2>4, <3>2, <3>3, <3>4, CallerKeeps
  <2>7. Owed'[c] <= Owed[c]
    <3>1. Owed[c] = Len(caller[c].left) - 1
      BY <1>1, <1>3 DEF Owed
    <3>2. CASE last
      <4>1. Owed'[c] = 0
        BY <2>4, <3>2 DEF Owed
      <4> QED
        BY <3>1, <3>2, <4>1
    <3>3. CASE ~last
      <4>1. Owed'[c] = Len(Tail(caller[c].left))
        BY <1>3, <2>4, <3>3 DEF Owed
      <4> QED
        BY <2>2, <3>1, <4>1
    <3> QED
      BY <3>2, <3>3
  <2>8. pipeline' \in [Pipelines -> [status : {"idle", "running", "success", "error"}, records : {0, 1}]]
    BY <2>3 DEF StoreInv, StoreTypes
  <2>9. c \in Runners(p) /\ \A q \in Runners(p) : q = c
    BY <1>1, <2>1 DEF Runners, StoreInv, PipelineShape
  <2>10. /\ loaded[p] \cup Fe!Range(caller[c].left) = Fe!Range(Fe!Loads(p))
         /\ Head(caller[c].left) \in loaded[p]
         /\ Fe!Range(caller[c].left) = {Head(caller[c].left)} \cup Fe!Range(Tail(caller[c].left))
         /\ last => Fe!Range(caller[c].left) = {Head(caller[c].left)}
    BY <1>1, <2>2, <2>9, TailSet DEF StoreInv, LoadShape
  <2>11. loaded[p] \cup Fe!Range(Tail(caller[c].left)) = Fe!Range(Fe!Loads(p))
         /\ (last => loaded[p] = Fe!Range(Fe!Loads(p)))
    BY <2>10
  <2>12. \A o \in Pipelines : o # p => Runners(o)' = Runners(o) /\ pipeline'[o] = pipeline[o]
    <3> SUFFICES ASSUME NEW o \in Pipelines, o # p
        PROVE  Runners(o)' = Runners(o) /\ pipeline'[o] = pipeline[o]
      OBVIOUS
    <3>1. \A q \in Calls : q \in Runners(o)' <=> q \in Runners(o)
      BY <2>1, <2>4 DEF Runners
    <3>2. Runners(o) \subseteq Calls /\ Runners(o)' \subseteq Calls
      BY DEF Runners
    <3>3. pipeline'[o] = pipeline[o]
      BY <2>3 DEF StoreInv, StoreTypes
    <3> QED
      BY <3>1, <3>2, <3>3
  <2>13. Runners(p)' = IF last THEN {} ELSE {c}
    <3>1. \A q \in Calls : q # c => (q \in Runners(p)' <=> q \in Runners(p))
      BY <2>4 DEF Runners
    <3>2. c \in Runners(p)' <=> ~last
      BY <2>1, <2>4 DEF Runners
    <3>3. Runners(p) \subseteq Calls /\ Runners(p)' \subseteq Calls
      BY DEF Runners
    <3> HIDE DEF last
    <3> QED
      BY <2>9, <3>1, <3>2, <3>3
  <2>14. IF last THEN pipeline'[p] = [status |-> "success", records |-> 1] ELSE pipeline'[p] = pipeline[p]
    BY <2>3 DEF StoreInv, StoreTypes
  <2>15. pipeline[p].status = "running" /\ ~(pipeline[p].records > 0)
    BY <2>9 DEF StoreInv, PipelineShape, LoadShape
  <2>16. PipelineShape'
    <3> SUFFICES ASSUME NEW o \in Pipelines
        PROVE  /\ \A x, y \in Runners(o)' : x = y
               /\ pipeline'[o].status = "running" <=> Runners(o)' # {}
      BY DEF PipelineShape
    <3> HIDE DEF last, to
    <3>1. CASE o = p
      BY <2>13, <2>14, <2>15, <3>1
    <3>2. CASE o # p
      BY <2>12, <3>2 DEF StoreInv, PipelineShape
    <3> QED
      BY <3>1, <3>2
  <2>17. LoadShape'
    <3> SUFFICES ASSUME NEW o \in Pipelines
        PROVE  /\ pipeline'[o].records > 0 =>
                   pipeline'[o].status = "success" /\ loaded'[o] = Fe!Range(Fe!Loads(o))
               /\ \A q \in Runners(o)' :
                   /\ caller'[q].at = "extracting" => loaded'[o] = {}
                   /\ caller'[q].at \in {"found", "saved", "loading"} =>
                        loaded'[o] \cup Fe!Range(caller'[q].left) = Fe!Range(Fe!Loads(o))
                   /\ caller'[q].at = "saved" => Head(caller'[q].left) \in loaded'[o]
      BY <1>1 DEF LoadShape, Fe!Range, Fe!Loads
    <3>a. loaded' = loaded
      BY <1>1
    <3>1. CASE o = p
      <4>1. pipeline'[p].records > 0 =>
               pipeline'[p].status = "success" /\ loaded[p] = Fe!Range(Fe!Loads(p))
        BY <2>11, <2>14, <2>15
      <4>2. \A q \in Runners(p)' : q = c /\ caller'[q].at = "loading"
        BY <2>4, <2>13
      <4> QED
        BY <2>4, <2>11, <3>a, <3>1, <4>1, <4>2
    <3>2. CASE o # p
      <4>1. \A q \in Runners(o)' : q \in Runners(o) /\ q # c /\ caller'[q] = caller[q]
        BY <2>1, <2>4, <2>12, <3>2 DEF Runners
      <4> QED
        BY <2>12, <3>a, <3>2, <4>1 DEF StoreInv, LoadShape
    <3> QED
      BY <3>1, <3>2
  <2> QED
    BY <1>1, <2>4, <2>6, <2>7, <2>8, <2>16, <2>17, CacheDropped
<1> QED
  BY <1>2, <1>3

\* A run starts, or is skipped while one runs.
LEMMA RunPipelineInv ==
  ASSUME StoreInv, Fe!FeatureStoreAssumption, NEW c \in Calls, NEW a \in FeatureAsks[c],
         Fe!RunPipeline(c, a)
  PROVE  StoreInv'
<1> DEFINE p == a.of
           skip == pipeline[p].status = "running"
           to == IF skip THEN "done" ELSE "extracting"
<1>1. /\ a \in Fe!AllAsks /\ a.kind = "run" /\ p \in Pipelines /\ a = [kind |-> "run", of |-> p]
      /\ caller[c].at = "idle" /\ caller[c].ask = Nothing /\ caller[c] \in StoreCallers
      /\ made \in Nat
      /\ UNCHANGED <<features, made, featureCache, crossing, behind, failures>>
  BY StoreAssumed, AskFacts, OfFacts DEF StoreInv, StoreTypes, CallerShape, Fe!RunPipeline, Fe!Doing
<1>2. /\ caller' = [caller EXCEPT ![c].at = to, ![c].ask = a]
      /\ pipeline' = IF skip THEN pipeline
                     ELSE [pipeline EXCEPT ![p] = [status |-> "running", records |-> 0]]
      /\ loaded' = IF skip THEN loaded ELSE [loaded EXCEPT ![p] = {}]
  BY DEF Fe!RunPipeline
<1>3. to \in {"done", "extracting"} /\ (to = "done" <=> skip)
  OBVIOUS
<1>4. /\ caller'[c].at = to /\ caller'[c].ask = a
      /\ \A q \in Calls \ {c} : caller'[q] = caller[q]
      /\ caller' \in [Calls -> StoreCallers]
  <2> DEFINE k == caller[c]
             r == [k EXCEPT !.at = to, !.ask = a]
  <2> HIDE DEF to, skip, p
  <2>1. k \in StoreCallers
    BY <1>1
  <2>2. caller' = [caller EXCEPT ![c] = r]
    BY <1>2, <2>1 DEF StoreInv, CallerShape, StoreCallers
  <2>3. r \in StoreCallers /\ r.at = to /\ r.ask = a
    BY <1>1, <1>3, <2>1 DEF StoreCallers, Fe!Places
  <2> HIDE DEF k, r
  <2> QED
    BY <2>2, <2>3, CallerMoves DEF StoreInv, CallerShape
<1>5. IF skip THEN pipeline' = pipeline /\ loaded' = loaded
      ELSE /\ pipeline'[p] = [status |-> "running", records |-> 0] /\ loaded'[p] = {}
           /\ \A o \in Pipelines \ {p} : pipeline'[o] = pipeline[o] /\ loaded'[o] = loaded[o]
  BY <1>1, <1>2 DEF StoreInv, StoreTypes
<1>6. StoreTypes'
  <2>1. /\ pipeline' \in [Pipelines -> [status : {"idle", "running", "success", "error"},
                                       records : {0, 1}]]
        /\ loaded' \in [Pipelines -> SUBSET Fe!Features]
    BY <1>2 DEF StoreInv, StoreTypes
  <2> QED
    BY <1>1, <2>1 DEF StoreInv, StoreTypes, Fe!Features, Fe!Range, Fe!Loads
<1> HIDE DEF to, skip, p
<1>7. CallerShape'
  <2>1. /\ caller'[c].at \in {"done", "extracting"} /\ caller'[c].ask \in Fe!AllAsks
        /\ caller'[c].ask.kind = "run"
    BY <1>1, <1>3, <1>4
  <2>2. CallerShape /\ made' = made /\ made <= made' /\ made' \in Nat
    BY <1>1 DEF StoreInv
  <2> QED
    BY <1>1, <1>4, <2>1, <2>2, CallerKeeps
<1>8. OwedShape'
  <2>1. Owed[c] = 3 /\ Owed'[c] \in {0, 3}
    BY <1>1, <1>3, <1>4 DEF Owed
  <2>2. made' + Owed'[c] <= made + Owed[c]
    BY <1>1, <2>1
  <2> QED
    BY <1>1, <1>4, <1>7, <2>2, OwedKeeps
<1>9. \A o \in Pipelines : o # p => Runners(o)' = Runners(o)
  <2> SUFFICES ASSUME NEW o \in Pipelines, o # p
      PROVE  Runners(o)' = Runners(o)
    OBVIOUS
  <2>1. c \notin Runners(o) /\ c \notin Runners(o)'
    BY <1>1, <1>4, StoreAssumed DEF Runners, Fe!AllAsks
  <2>2. \A q \in Calls : q \in Runners(o)' <=> q \in Runners(o)
    BY <1>4, <2>1 DEF Runners
  <2>3. Runners(o) \subseteq Calls /\ Runners(o)' \subseteq Calls
    BY DEF Runners
  <2> QED
    BY <2>2, <2>3
<1>10. c \notin Runners(p) /\ Runners(p)' = IF skip THEN Runners(p) ELSE {c}
  <2>1. c \notin Runners(p) /\ (c \in Runners(p)' <=> ~skip)
    BY <1>1, <1>3, <1>4, StoreAssumed DEF Runners, Fe!AllAsks
  <2>2. \A q \in Calls : q # c => (q \in Runners(p)' <=> q \in Runners(p))
    BY <1>4 DEF Runners
  <2>3. Runners(p) \subseteq Calls /\ Runners(p)' \subseteq Calls
    BY DEF Runners
  <2>4. ~skip => Runners(p) = {}
    BY <1>1 DEF StoreInv, PipelineShape, skip
  <2> QED
    BY <2>1, <2>2, <2>3, <2>4
<1>11. PipelineShape'
  <2> SUFFICES ASSUME NEW o \in Pipelines
      PROVE  /\ \A x, y \in Runners(o)' : x = y
             /\ pipeline'[o].status = "running" <=> Runners(o)' # {}
    BY DEF PipelineShape
  <2>1. CASE o = p /\ ~skip
    BY <1>5, <1>10, <2>1
  <2>2. CASE ~(o = p /\ ~skip)
    <3>1. Runners(o)' = Runners(o) /\ pipeline'[o] = pipeline[o]
      BY <1>5, <1>9, <1>10, <2>2
    <3> QED
      BY <3>1 DEF StoreInv, PipelineShape
  <2> QED
    BY <2>1, <2>2
<1>12. LoadShape'
  <2> SUFFICES ASSUME NEW o \in Pipelines
      PROVE  /\ pipeline'[o].records > 0 =>
                 pipeline'[o].status = "success" /\ loaded'[o] = Fe!Range(Fe!Loads(o))
             /\ \A q \in Runners(o)' :
                 /\ caller'[q].at = "extracting" => loaded'[o] = {}
                 /\ caller'[q].at \in {"found", "saved", "loading"} =>
                      loaded'[o] \cup Fe!Range(caller'[q].left) = Fe!Range(Fe!Loads(o))
                 /\ caller'[q].at = "saved" => Head(caller'[q].left) \in loaded'[o]
    BY DEF LoadShape, Fe!Range, Fe!Loads
  <2>1. CASE o = p /\ ~skip
    <3>1. \A q \in Runners(o)' : caller'[q].at = "extracting"
      BY <1>3, <1>4, <1>10, <2>1
    <3>2. ~(pipeline'[o].records > 0) /\ loaded'[o] = {}
      BY <1>5, <2>1
    <3> QED
      BY <3>1, <3>2
  <2>2. CASE ~(o = p /\ ~skip)
    <3>1. Runners(o)' = Runners(o) /\ pipeline'[o] = pipeline[o] /\ loaded'[o] = loaded[o]
      BY <1>5, <1>9, <1>10, <2>2
    <3>2. c \notin Runners(o)
      BY <1>1, StoreAssumed DEF Runners, Fe!AllAsks
    <3>3. \A q \in Runners(o) : caller'[q] = caller[q]
      BY <1>4, <3>2 DEF Runners
    <3> QED
      BY <3>1, <3>3 DEF StoreInv, LoadShape
  <2> QED
    BY <2>1, <2>2
<1>13. OneRowShape'
  BY <1>1, <1>3, <1>4, RowKeeps
<1>14. FreshValue'
  BY <1>1, <1>3, <1>4, FreshKeeps
<1> QED
  BY <1>6, <1>7, <1>8, <1>11, <1>12, <1>13, <1>14 DEF StoreInv

\* The call of a run ends it, and the run reports something other than running.
LEMMA RunEnds ==
  ASSUME StoreInv, Fe!FeatureStoreAssumption, NEW c \in Calls, CallerShape',
         caller[c].at \in {"found", "loading", "extracting"}, caller'[c].at = "done",
         caller'[c].ask = caller[c].ask,
         \A q \in Calls \ {c} : caller'[q] = caller[q],
         pipeline' \in [Pipelines -> [status : {"idle", "running", "success", "error"},
                                     records : {0, 1}]],
         \A p \in Pipelines :
            IF caller[c].ask = [kind |-> "run", of |-> p]
            THEN pipeline'[p].status # "running" /\ pipeline'[p].records = 0
            ELSE pipeline'[p] = pipeline[p],
         failures' \in 0..MaxFaults,
         UNCHANGED <<features, made, featureCache, loaded, crossing, behind>>
  PROVE  StoreInv'
<1>0. UNCHANGED <<features, made, featureCache, loaded, crossing, behind>>
  OBVIOUS
<1>1. made \in Nat
  BY DEF StoreInv, StoreTypes
<1>2. StoreTypes'
  BY DEF StoreInv, StoreTypes, Fe!Features, Fe!Range, Fe!Loads
<1>3. OwedShape'
  <2>1. Owed[c] \in Nat
    BY OwedFacts DEF StoreInv
  <2>2. Owed'[c] = 0
    BY DEF Owed
  <2>3. made' + Owed'[c] <= made + Owed[c]
    BY <1>1, <2>1, <2>2
  <2> QED
    BY <1>1, <2>3, OwedKeeps
<1>4. ASSUME NEW p \in Pipelines, caller[c].ask # [kind |-> "run", of |-> p]
      PROVE  /\ Runners(p)' = Runners(p) /\ pipeline'[p] = pipeline[p]
             /\ \A q \in Runners(p) : caller'[q] = caller[q]
  <2>1. c \notin Runners(p) /\ c \notin Runners(p)'
    BY <1>4 DEF Runners
  <2>2. \A q \in Calls : q \in Runners(p)' <=> q \in Runners(p)
    BY <2>1 DEF Runners
  <2>3. Runners(p) \subseteq Calls /\ Runners(p)' \subseteq Calls
    BY DEF Runners
  <2> QED
    BY <1>4, <2>1, <2>2, <2>3
<1>5. ASSUME NEW p \in Pipelines, caller[c].ask = [kind |-> "run", of |-> p]
      PROVE  Runners(p)' = {}
  <2>1. c \in Runners(p) /\ c \notin Runners(p)'
    BY <1>5 DEF Runners
  <2>2. \A q \in Runners(p)' : q # c /\ q \in Runners(p)
    BY <2>1 DEF Runners
  <2> QED
    BY <2>1, <2>2 DEF StoreInv, PipelineShape
<1>6. PipelineShape'
  <2> SUFFICES ASSUME NEW p \in Pipelines
      PROVE  /\ \A x, y \in Runners(p)' : x = y
             /\ pipeline'[p].status = "running" <=> Runners(p)' # {}
    BY DEF PipelineShape
  <2>1. CASE caller[c].ask = [kind |-> "run", of |-> p]
    <3>1. Runners(p)' = {} /\ pipeline'[p].status # "running"
      BY <1>5, <2>1
    <3> QED
      BY <3>1
  <2>2. CASE caller[c].ask # [kind |-> "run", of |-> p]
    <3>1. Runners(p)' = Runners(p) /\ pipeline'[p] = pipeline[p]
      BY <1>4, <2>2
    <3> QED
      BY <3>1 DEF StoreInv, PipelineShape
  <2> QED
    BY <2>1, <2>2
<1>7. LoadShape'
  <2> SUFFICES ASSUME NEW p \in Pipelines
      PROVE  /\ pipeline'[p].records > 0 =>
                 pipeline'[p].status = "success" /\ loaded'[p] = Fe!Range(Fe!Loads(p))
             /\ \A q \in Runners(p)' :
                 /\ caller'[q].at = "extracting" => loaded'[p] = {}
                 /\ caller'[q].at \in {"found", "saved", "loading"} =>
                      loaded'[p] \cup Fe!Range(caller'[q].left) = Fe!Range(Fe!Loads(p))
                 /\ caller'[q].at = "saved" => Head(caller'[q].left) \in loaded'[p]
    BY DEF LoadShape, Fe!Range, Fe!Loads
  <2>1. CASE caller[c].ask = [kind |-> "run", of |-> p]
    <3>1. Runners(p)' = {} /\ ~(pipeline'[p].records > 0)
      BY <1>5, <2>1
    <3> QED
      BY <3>1
  <2>2. CASE caller[c].ask # [kind |-> "run", of |-> p]
    <3>1. /\ Runners(p)' = Runners(p) /\ pipeline'[p] = pipeline[p] /\ loaded'[p] = loaded[p]
          /\ \A q \in Runners(p) : caller'[q] = caller[q]
      BY <1>0, <1>4, <2>2
    <3> QED
      BY <3>1 DEF StoreInv, LoadShape
  <2> QED
    BY <2>1, <2>2
<1>8. OneRowShape'
  BY RowKeeps
<1>9. FreshValue'
  BY FreshKeeps
<1> QED
  BY <1>2, <1>3, <1>6, <1>7, <1>8, <1>9 DEF StoreInv

\* The extract query answers.
LEMMA ExtractInv ==
  ASSUME StoreInv, Fe!FeatureStoreAssumption, NEW c \in Calls, Fe!Extract(c)
  PROVE  StoreInv'
<1>1. /\ caller[c].at = "extracting" /\ caller[c].ask \in Fe!AllAsks /\ caller[c].ask.kind = "run"
      /\ caller[c] \in StoreCallers /\ made \in Nat
      /\ UNCHANGED <<features, made, featureCache, loaded, crossing, behind, failures>>
  BY OfFacts DEF StoreInv, StoreTypes, CallerShape, Fe!Extract, Fe!Doing
<1>2. PICK p \in Pipelines : p = caller[c].ask.of /\ caller[c].ask = [kind |-> "run", of |-> p]
  BY <1>1, AskFacts
<1>3. CASE /\ Fe!Loads(p) # <<>> /\ UNCHANGED pipeline
           /\ caller' = [caller EXCEPT ![c].at = "loading", ![c].left = Fe!Loads(p)]
  <2> DEFINE s == Fe!Loads(p)
  <2>1. s \in Seq(Fe!Features) /\ Len(s) <= 3 /\ Len(s) \in Nat /\ s # <<>> /\ s = Fe!Loads(p)
    BY <1>3, LoadsFacts
  <2>2. caller' = [caller EXCEPT ![c].at = "loading", ![c].left = s] /\ UNCHANGED pipeline
    BY <1>3
  <2> HIDE DEF s
  <2>3. /\ caller'[c].at = "loading" /\ caller'[c].ask = caller[c].ask /\ caller'[c].left = s
        /\ \A q \in Calls \ {c} : caller'[q] = caller[q]
        /\ caller' \in [Calls -> StoreCallers]
    <3> DEFINE k == caller[c]
               r == [k EXCEPT !.at = "loading", !.left = s]
    <3>1. k \in StoreCallers
      BY <1>1
    <3>2. caller' = [caller EXCEPT ![c] = r]
      BY <2>2, <3>1 DEF StoreInv, CallerShape, StoreCallers
    <3>3. r \in StoreCallers /\ r.at = "loading" /\ r.ask = k.ask /\ r.left = s
      BY <2>1, <3>1 DEF StoreCallers, Fe!Places
    <3> HIDE DEF r
    <3>4. caller'[c] = r /\ \A q \in Calls \ {c} : caller'[q] = caller[q]
      BY <3>2 DEF StoreInv, CallerShape
    <3>5. caller' \in [Calls -> StoreCallers]
      BY <3>2, <3>3 DEF StoreInv, CallerShape
    <3> QED
      BY <3>3, <3>4, <3>5
  <2>4. CallerShape'
    <3>1. /\ caller'[c].at = "loading" /\ caller'[c].ask \in Fe!AllAsks
               /\ caller'[c].ask.kind = "run"
          /\ caller'[c].left # <<>> /\ Len(caller'[c].left) <= 3
      BY <1>1, <2>1, <2>3
    <3>2. CallerShape /\ made' = made /\ made <= made' /\ made' \in Nat
      BY <1>1 DEF StoreInv
    <3> QED
      BY <1>1, <2>3, <3>1, <3>2, CallerKeeps
  <2>5. StoreTypes'
    BY <1>1, <2>2 DEF StoreInv, StoreTypes, Fe!Features, Fe!Range, Fe!Loads
  <2>6. OwedShape'
    <3>1. Owed[c] = 3
      BY <1>1 DEF Owed
    <3>2. Owed'[c] = Len(s)
      BY <1>1, <2>3 DEF Owed
    <3>3. made' + Owed'[c] <= made + Owed[c]
      BY <1>1, <2>1, <3>1, <3>2
    <3> QED
      BY <1>1, <2>3, <2>4, <3>3, OwedKeeps
  <2>7. c \in Runners(p) /\ \A o \in Pipelines : c \in Runners(o)' <=> c \in Runners(o)
    BY <1>1, <1>2, <2>3 DEF Runners
  <2>8. PipelineShape'
    BY <2>2, <2>3, <2>7, PipelineKeeps
  <2>9. \A o \in Pipelines : c \in Runners(o)' => o = p
    BY <1>2, <2>3 DEF Runners
  <2>10. loaded[p] = {}
    BY <1>1, <2>7 DEF StoreInv, LoadShape
  <2>11. LoadShape'
    <3>1. \A o \in Pipelines : c \in Runners(o)' =>
            loaded[o] \cup Fe!Range(caller'[c].left) = Fe!Range(Fe!Loads(o))
      BY <2>1, <2>3, <2>9, <2>10
    <3>2. caller'[c].at = "loading"
      BY <2>3
    <3> QED
      BY <1>1, <2>2, <2>3, <3>1, <3>2, LoadKeeps
  <2>12. OneRowShape'
    BY <1>1, <2>3, RowKeeps
  <2>13. FreshValue'
    BY <1>1, <2>3, FreshKeeps
  <2> QED
    BY <2>4, <2>5, <2>6, <2>8, <2>11, <2>12, <2>13 DEF StoreInv
<1>4. CASE /\ Fe!Goto(c, "done")
           /\ pipeline' = [pipeline EXCEPT ![p] = [status |-> "success", records |-> 0]]
  <2>1. /\ caller'[c].at = "done" /\ caller'[c].ask = caller[c].ask
        /\ \A q \in Calls \ {c} : caller'[q] = caller[q]
        /\ caller' \in [Calls -> StoreCallers]
    BY <1>4, GotoFacts DEF StoreInv, Fe!Places
  <2>2. CallerShape'
    <3>1. CallerShape /\ made' = made /\ made <= made' /\ made' \in Nat
      BY <1>1 DEF StoreInv
    <3> QED
      BY <1>1, <2>1, <3>1, CallerKeeps
  <2>3. pipeline' \in [Pipelines -> [status : {"idle", "running", "success", "error"},
                                    records : {0, 1}]]
    BY <1>4 DEF StoreInv, StoreTypes
  <2>4. /\ pipeline'[p] = [status |-> "success", records |-> 0]
        /\ \A o \in Pipelines \ {p} : pipeline'[o] = pipeline[o]
    BY <1>4 DEF StoreInv, StoreTypes
  <2>5. \A o \in Pipelines :
          IF caller[c].ask = [kind |-> "run", of |-> o]
          THEN pipeline'[o].status # "running" /\ pipeline'[o].records = 0
          ELSE pipeline'[o] = pipeline[o]
    BY <1>2, <2>4
  <2>6. failures' \in 0..MaxFaults
    BY <1>1 DEF StoreInv, StoreTypes
  <2> QED
    BY <1>1, <2>1, <2>2, <2>3, <2>5, <2>6, RunEnds
<1> QED
  BY <1>2, <1>3, <1>4 DEF Fe!Extract

\* A lookup or a save fails.
LEMMA FailsInv ==
  ASSUME StoreInv, Fe!FeatureStoreAssumption, NEW c \in Calls, Fe!Fails(c)
  PROVE  StoreInv'
<1>1. /\ caller[c].at \in {"found", "loading"} /\ caller[c].ask \in Fe!AllAsks
      /\ caller[c] \in StoreCallers /\ made \in Nat /\ Fe!Goto(c, "done")
      /\ pipeline' = [p \in Pipelines |-> IF caller[c].ask = [kind |-> "run", of |-> p]
                                         THEN [status |-> "error", records |-> 0] ELSE pipeline[p]]
      /\ UNCHANGED <<features, made, featureCache, loaded, crossing, behind>>
  BY OfFacts DEF StoreInv, StoreTypes, CallerShape, Fe!Fails
<1>2. /\ caller'[c].at = "done" /\ caller'[c].ask = caller[c].ask
      /\ \A q \in Calls \ {c} : caller'[q] = caller[q]
      /\ caller' \in [Calls -> StoreCallers]
  BY <1>1, GotoFacts DEF StoreInv, Fe!Places
<1>3. CallerShape'
  <2>1. CallerShape /\ made' = made /\ made <= made' /\ made' \in Nat
    BY <1>1 DEF StoreInv
  <2> QED
    BY <1>1, <1>2, <2>1, CallerKeeps
<1>4. pipeline' \in [Pipelines -> [status : {"idle", "running", "success", "error"},
                                  records : {0, 1}]]
  BY <1>1 DEF StoreInv, StoreTypes
<1>5. failures' \in 0..MaxFaults
  BY StoreAssumed DEF StoreInv, StoreTypes, Fe!Fails
<1>6. \A o \in Pipelines :
        IF caller[c].ask = [kind |-> "run", of |-> o]
        THEN pipeline'[o].status # "running" /\ pipeline'[o].records = 0
        ELSE pipeline'[o] = pipeline[o]
  BY <1>1
<1> QED
  BY <1>1, <1>2, <1>3, <1>4, <1>5, <1>6, RunEnds

\* The process restarts.
LEMMA RestartInv ==
  ASSUME StoreInv, Fe!FeatureStoreAssumption, Fe!Restart
  PROVE  StoreInv'
<1>1. /\ caller' = [c \in Calls |-> IF caller[c].at = "idle" THEN caller[c]
                                    ELSE [caller[c] EXCEPT !.at = "done"]]
      /\ featureCache' = [f \in Fe!Features |-> Nothing]
      /\ pipeline' = [p \in Pipelines |-> [status |-> "idle", records |-> 0]]
      /\ failures < MaxFaults /\ failures' = failures + 1
      /\ UNCHANGED <<features, made, loaded, crossing, behind>>
  BY DEF Fe!Restart, Fe!Doing
<1>2. \A c \in Calls :
        /\ caller'[c] \in StoreCallers
        /\ caller[c].at = "idle" => caller'[c] = caller[c]
        /\ caller[c].at # "idle" => caller'[c].at = "done" /\ caller'[c].ask = caller[c].ask
  <2> SUFFICES ASSUME NEW c \in Calls
      PROVE  /\ caller'[c] \in StoreCallers
             /\ caller[c].at = "idle" => caller'[c] = caller[c]
             /\ caller[c].at # "idle" =>
                  (caller'[c].at = "done" /\ caller'[c].ask = caller[c].ask)
    OBVIOUS
  <2> DEFINE k == caller[c]
  <2>1. k \in StoreCallers
    BY OfFacts DEF StoreInv
  <2>2. caller'[c] = IF k.at = "idle" THEN k ELSE [k EXCEPT !.at = "done"]
    BY <1>1
  <2>3. /\ [k EXCEPT !.at = "done"] \in StoreCallers /\ [k EXCEPT !.at = "done"].at = "done"
        /\ [k EXCEPT !.at = "done"].ask = k.ask
    BY <2>1 DEF StoreCallers, Fe!Places
  <2> HIDE DEF k
  <2>4. /\ caller'[c] \in StoreCallers /\ (k.at = "idle" => caller'[c] = k)
        /\ (k.at # "idle" => caller'[c].at = "done" /\ caller'[c].ask = k.ask)
    BY <2>1, <2>2, <2>3
  <2> QED
    BY <2>4 DEF k
<1>3. StoreTypes'
  <2>1. failures' \in 0..MaxFaults
    BY <1>1, StoreAssumed DEF StoreInv, StoreTypes
  <2> QED
    BY <1>1, <2>1 DEF StoreInv, StoreTypes, Fe!Features, Fe!Range, Fe!Loads
<1>4. CallerShape'
  <2>1. caller' \in [Calls -> StoreCallers]'
    BY <1>1, <1>2 DEF StoreCallers, Fe!Places, Fe!AllAsks, Fe!Features, Fe!Range, Fe!Loads
  <2>2. \A c \in Calls :
          /\ caller'[c].at \in {"idle", "done"}
          /\ caller'[c].at = "idle" => caller'[c].ask = Nothing
          /\ caller'[c].at # "idle" => caller'[c].ask \in Fe!AllAsks
    BY <1>2 DEF StoreInv, CallerShape
  <2> QED
    BY <2>1, <2>2 DEF CallerShape, Fe!AllAsks, Fe!Features, Fe!Range, Fe!Loads
<1>5. OwedShape'
  <2>1. \A c \in Calls : Owed[c] \in Nat /\ Owed'[c] \in Nat /\ Owed'[c] <= Owed[c]
    <3> SUFFICES ASSUME NEW c \in Calls
        PROVE  Owed[c] \in Nat /\ Owed'[c] \in Nat /\ Owed'[c] <= Owed[c]
      OBVIOUS
    <3>1. Owed[c] \in Nat
      BY OwedFacts DEF StoreInv
    <3>2. CASE caller[c].at = "idle"
      <4>1. Owed'[c] = 3 /\ Owed[c] = 3
        BY <1>2, <3>2 DEF Owed
      <4> QED
        BY <4>1
    <3>3. CASE caller[c].at # "idle"
      <4>1. Owed'[c] = 0
        BY <1>2, <3>3 DEF Owed
      <4> QED
        BY <3>1, <4>1
    <3> QED
      BY <3>2, <3>3
  <2> DEFINE less == [c \in Calls |-> Owed[c] - Owed'[c]]
             now == [c \in Calls |-> Owed'[c]]
  <2>2. SumFunctionOnSet(Owed', Calls) <= SumFunctionOnSet(Owed, Calls)
        /\ SumFunctionOnSet(Owed', Calls) \in Nat
    <3>1. \A c \in Calls :
            /\ less[c] \in Nat /\ less[c] \in Int /\ Owed'[c] \in Int
            /\ Owed[c] = Owed'[c] + less[c]
      BY <2>1
    <3> HIDE DEF less, now
    <3>2. SumFunctionOnSet(Owed, Calls) = SumFunctionOnSet(Owed', Calls) + SumFunctionOnSet(less, Calls)
      BY <3>1, StoreAssumed, SumPlus
    <3>3. SumFunctionOnSet(less, Calls) \in Nat /\ SumFunctionOnSet(Owed', Calls) \in Nat
      BY <2>1, <3>1, StoreAssumed, SumNat
    <3> QED
      BY <3>2, <3>3
  <2>3. /\ SumFunctionOnSet(Owed, Calls) \in Nat /\ made \in Nat /\ Cardinality(Calls) \in Nat
        /\ made + SumFunctionOnSet(Owed, Calls) <= 3 * Cardinality(Calls) /\ made' = made
    BY <1>1, OwedFacts, StoreAssumed DEF StoreInv, StoreTypes, OwedShape
  <2> QED
    BY <2>2, <2>3 DEF OwedShape
<1>6. \A p \in Pipelines : Runners(p)' = {} /\ pipeline'[p] = [status |-> "idle", records |-> 0]
  <2>1. \A c \in Calls : caller[c].at = "idle" => caller[c].ask = Nothing
    BY DEF StoreInv, CallerShape
  <2> QED
    BY <1>1, <1>2, <2>1, StoreAssumed DEF Runners, Fe!AllAsks
<1>7. PipelineShape'
  BY <1>6 DEF PipelineShape
<1>8. LoadShape'
  BY <1>6 DEF LoadShape
<1>9. \A c \in Calls : caller'[c].at \in {"idle", "done"}
  BY <1>2
<1>10. OneRowShape'
  <2>1. \A f \in Fe!Features : Setters(f)' = {} /\ Fe!Rows(f)' = Fe!Rows(f)
    BY <1>1, <1>9 DEF Setters, Fe!Rows
  <2> QED
    BY <1>1, <2>1 DEF StoreInv, OneRowShape, Fe!Features, Fe!Range, Fe!Loads
<1>11. FreshValue'
  <2>1. \A f \in Fe!Features : CallsReading(f)' = {} /\ featureCache'[f] = Nothing
    BY <1>1, <1>9 DEF CallsReading
  <2> QED
    BY <2>1 DEF FreshValue, Fe!Features, Fe!Range, Fe!Loads
<1> QED
  BY <1>3, <1>4, <1>5, <1>7, <1>8, <1>10, <1>11 DEF StoreInv

\* No variable changes.
LEMMA StoreStays ==
  ASSUME StoreInv, UNCHANGED Fe!vars
  PROVE  StoreInv'
<1>1. UNCHANGED <<features, made, featureCache, pipeline, caller, loaded, crossing, behind, failures>>
  BY DEF Fe!vars
<1>2. StoreTypes'
  BY <1>1 DEF StoreInv, StoreTypes, Fe!Features, Fe!Range, Fe!Loads
<1>9. CallerShape'
  BY <1>1 DEF StoreInv, CallerShape, StoreCallers, Fe!Features, Fe!Range, Fe!Loads, Fe!AllAsks,
              Fe!Places
<1>10. \A p : Runners(p)' = Runners(p)
  BY <1>1 DEF Runners
<1>11. PipelineShape'
  BY <1>1, <1>10 DEF StoreInv, PipelineShape
<1>12. LoadShape'
  <2> SUFFICES ASSUME NEW p \in Pipelines
      PROVE  /\ pipeline'[p].records > 0 =>
                 pipeline'[p].status = "success" /\ loaded'[p] = Fe!Range(Fe!Loads(p))
             /\ \A q \in Runners(p)' :
                 /\ caller'[q].at = "extracting" => loaded'[p] = {}
                 /\ caller'[q].at \in {"found", "saved", "loading"} =>
                      loaded'[p] \cup Fe!Range(caller'[q].left) = Fe!Range(Fe!Loads(p))
                 /\ caller'[q].at = "saved" => Head(caller'[q].left) \in loaded'[p]
    BY DEF LoadShape, Fe!Range, Fe!Loads
  <2>1. Runners(p)' = Runners(p) /\ pipeline' = pipeline /\ loaded' = loaded /\ caller' = caller
    BY <1>1, <1>10
  <2> QED
    BY <2>1 DEF StoreInv, LoadShape
<1>3. OwedShape'
  <2>1. Owed' = Owed
    BY <1>1 DEF Owed
  <2> QED
    BY <1>1, <2>1 DEF StoreInv, OwedShape
<1>4. \A f : Fe!Rows(f)' = Fe!Rows(f)
  BY <1>1 DEF Fe!Rows
<1>5. \A f : Setters(f)' = Setters(f) /\ CallsReading(f)' = CallsReading(f) /\ Fe!Newest(f)' = Fe!Newest(f)
  BY <1>1 DEF Setters, CallsReading, Fe!Of, Fe!Newest, Fe!Rows
<1>6. OneRowShape'
  BY <1>1, <1>4, <1>5 DEF StoreInv, OneRowShape, Fe!Features, Fe!Range, Fe!Loads
<1>7. \A c \in Calls : Fe!Dropped(c)' = Fe!Dropped(c)
  BY <1>1 DEF Fe!Dropped, Fe!Of, Fe!Features, Fe!Range, Fe!Loads
<1>8. FreshValue'
  BY <1>1, <1>4, <1>5, <1>7 DEF StoreInv, FreshValue, Fe!Features, Fe!Range, Fe!Loads
<1> QED
  BY <1>2, <1>3, <1>6, <1>8, <1>9, <1>11, <1>12 DEF StoreInv

\* Every step of the store keeps the invariant.
LEMMA StoreStep ==
  ASSUME StoreInv, Fe!FeatureStoreAssumption, [Fe!Next]_(Fe!vars)
  PROVE  StoreInv'
<1>1. ASSUME NEW c \in Calls, NEW a \in FeatureAsks[c],
             Fe!GetFeature(c, a) \/ Fe!FindFeature(c, a) \/ Fe!DeleteFeatures(c, a)
               \/ Fe!RunPipeline(c, a)
      PROVE  StoreInv'
  BY <1>1, GetFeatureInv, FindFeatureInv, DeleteFeaturesInv, RunPipelineInv
<1>2. ASSUME NEW c \in Calls,
             \/ Fe!SetCache(c) \/ Fe!SaveFeature(c) \/ Fe!InvalidateCache(c)
             \/ Fe!Extract(c) \/ Fe!LoadFeature(c) \/ Fe!Fails(c)
      PROVE  StoreInv'
  BY <1>2, SetCacheInv, SaveFeatureInv, InvalidateCacheInv, ExtractInv, LoadFeatureInv, FailsInv
<1>3. ASSUME NEW f \in Fe!Features, Fe!Expire(f)
      PROVE  StoreInv'
  BY <1>3, ExpireEntryInv
<1>4. CASE Fe!Restart
  BY <1>4, RestartInv
<1>5. CASE UNCHANGED Fe!vars
  BY <1>5, StoreStays
<1> QED
  BY <1>1, <1>2, <1>3, <1>4, <1>5 DEF Fe!Next, Fe!Step

\* What the invariant says of the store.
LEMMA StoreInvImplies ==
  ASSUME StoreInv, Fe!FeatureStoreAssumption
  PROVE  /\ Fe!TypeOK /\ Fe!RunningIsRun /\ Fe!ReportedIsLoaded /\ Fe!CacheTellsStore
         /\ Fe!OneRowPerFeature
<1>1. /\ made \in Nat /\ SumFunctionOnSet(Owed, Calls) \in Nat /\ Cardinality(Calls) \in Nat
      /\ made + SumFunctionOnSet(Owed, Calls) <= 3 * Cardinality(Calls)
  BY OwedFacts, StoreAssumed DEF StoreInv, StoreTypes, OwedShape
<1>2. Fe!TypeOK
  <2>1. made \in 0..Fe!Cardinality(Calls) * 3 /\ 1..made \subseteq 1..Fe!Cardinality(Calls) * 3
    BY <1>1, StoreLibrary
  <2>2. features \subseteq [name : Fe!Features, id : 1..Fe!Cardinality(Calls) * 3, value : Calls]
    BY <2>1 DEF StoreInv, StoreTypes
  <2>3. \A c \in Calls : caller[c].at \in Fe!Places /\ caller[c].left \in Seq(Fe!Features)
    BY DEF StoreInv, CallerShape, StoreCallers
  <2> QED
    BY <2>1, <2>2, <2>3 DEF Fe!TypeOK, StoreInv, StoreTypes
<1>3. Fe!RunningIsRun
  <2> SUFFICES ASSUME NEW p \in Pipelines
      PROVE  Cardinality(Runners(p)) = IF pipeline[p].status = "running" THEN 1 ELSE 0
    BY StoreLibrary DEF Fe!RunningIsRun, Runners, Fe!Doing
  <2>1. CASE Runners(p) = {}
    <3>1. Cardinality(Runners(p)) = 0
      BY <2>1, FS_EmptySet
    <3> QED
      BY <2>1, <3>1 DEF StoreInv, PipelineShape
  <2>2. CASE Runners(p) # {}
    <3>1. PICK c \in Runners(p) : Runners(p) = {c}
      BY <2>2 DEF StoreInv, PipelineShape
    <3>2. Cardinality({c}) = 1
      BY FS_Singleton
    <3> QED
      BY <2>2, <3>1, <3>2 DEF StoreInv, PipelineShape
  <2> QED
    BY <2>1, <2>2
<1>4. Fe!ReportedIsLoaded
  BY DEF Fe!ReportedIsLoaded, StoreInv, LoadShape
<1>5. Fe!CacheTellsStore
  BY DEF Fe!CacheTellsStore, StoreInv, FreshValue, Fe!Doing
<1>6. Fe!OneRowPerFeature
  <2> SUFFICES ASSUME NEW f \in Fe!Features \ crossing
      PROVE  Cardinality(Fe!Rows(f)) <= 1
    BY StoreLibrary DEF Fe!OneRowPerFeature
  <2>1. CASE Fe!Rows(f) = {}
    BY <2>1, FS_EmptySet
  <2>2. CASE Fe!Rows(f) # {}
    <3>1. PICK r \in Fe!Rows(f) : Fe!Rows(f) = {r}
      BY <2>2 DEF StoreInv, OneRowShape
    <3>2. Cardinality({r}) = 1
      BY FS_Singleton
    <3> QED
      BY <3>1, <3>2
  <2> QED
    BY <2>1, <2>2
<1> QED
  BY <1>2, <1>3, <1>4, <1>5, <1>6

\* A behaviour of the store keeps the invariant.
LEMMA StoreHolds ==
  ASSUME Fe!FeatureStoreAssumption
  PROVE  Fe!Spec => []StoreInv
<1>1. Fe!Init => StoreInv
  BY StoreStart
<1>2. StoreInv /\ [Fe!Next]_(Fe!vars) => StoreInv'
  BY StoreStep
<1> QED
  BY <1>1, <1>2, PTL DEF Fe!Spec

\* What features report: a pipeline runs exactly while it says so, a run that reports
\* records has saved every feature, the cache answers the newest row and a feature has
\* one row (feature-store.service.ts, etl.service.ts), each but for the races it names.
THEOREM FeaturesAreTold ==
  ASSUME Fe!FeatureStoreAssumption
  PROVE  Fe!Spec => [](/\ Fe!RunningIsRun /\ Fe!ReportedIsLoaded /\ Fe!CacheTellsStore
                       /\ Fe!OneRowPerFeature)
<1>1. StoreInv => /\ Fe!RunningIsRun /\ Fe!ReportedIsLoaded /\ Fe!CacheTellsStore
                  /\ Fe!OneRowPerFeature
  BY StoreInvImplies
<1> QED
  BY <1>1, StoreHolds, PTL

-----------------------------------------------------------------------------
(* The properties of the whole.                                             *)

AnswerTypes == Pr!TypeOK /\ Ra!TypeOK /\ In!TypeOK

\* Requests are of the kinds that the services answer.
LEMMA AnswerStep ==
  ASSUME AnswerTypes, Answer \/ UNCHANGED answers
  PROVE  AnswerTypes'
<1>1. CASE Answer
  <2>1. Pr!Next => Pr!TypeOK'
    BY DEF Pr!Next, Pr!AskRide, Pr!AskDiscount, Pr!AskRetention, Pr!AskFraud, Pr!AskRisk, Pr!TypeOK
  <2>2. Ra!Next => Ra!TypeOK'
    BY DEF Ra!Next, Ra!AskItems, Ra!AskTaste, Ra!AskAdvice, Ra!AskText, Ra!TypeOK
  <2>3. In!Next => In!TypeOK'
    BY DEF In!Next, In!AskInsights, In!AskForecast, In!TypeOK
  <2>4. /\ priced' = priced => Pr!TypeOK'
        /\ wanted' = wanted => Ra!TypeOK'
        /\ books' = books => In!TypeOK'
    BY DEF AnswerTypes, Pr!TypeOK, Ra!TypeOK, In!TypeOK
  <2> QED
    BY <1>1, <2>1, <2>2, <2>3, <2>4 DEF Answer, AnswerTypes
<1>2. CASE UNCHANGED answers
  BY <1>2 DEF answers, AnswerTypes, Pr!TypeOK, Ra!TypeOK, In!TypeOK
<1> QED
  BY <1>1, <1>2

\* The answers keep their types.
LEMMA AnswerInvariance == Spec => []AnswerTypes
<1>1. Init => AnswerTypes
  BY DEF Init, AnswerTypes, Pr!Init, Ra!Init, In!Init, Pr!TypeOK, Ra!TypeOK, In!TypeOK
<1>2. AnswerTypes /\ [Next]_vars => AnswerTypes'
  <2> SUFFICES ASSUME AnswerTypes, [Next]_vars PROVE AnswerTypes'
    OBVIOUS
  <2>1. Answer \/ UNCHANGED answers
    BY DEF Next, vars, services
  <2> QED
    BY <2>1, AnswerStep
<1> QED
  BY <1>1, <1>2, PTL DEF Spec

Surges == 60..210
SupplySteps == {0, 1, 2, 3, 6}

\* A ride's request with any demand, distance and hour, and a supply that divides six.
AnyRide ==
    [kind : {"ride"}, demand : Nat, supply : SupplySteps, hour : Nat, weekend : BOOLEAN,
     km : Nat, hint : 0..100 \cup {NoHint}]

\* The surge grows with demand and falls with supply, across its bands and caps.
LEMMA DemandSurgeGrows ==
  ASSUME NEW d \in Nat, NEW e \in Nat, d <= e, NEW s \in SupplySteps
  PROVE  Pr!DemandSurge(d, s) \in Surges /\ Pr!DemandSurge(d, s) <= Pr!DemandSurge(e, s)
<1>0. CASE s = 0
  BY <1>0 DEF Surges, Pr!DemandSurge
<1>1. CASE s = 1
  BY <1>1 DEF Surges, Pr!DemandSurge, Pr!Least
<1>2. CASE s = 2
  BY <1>2 DEF Surges, Pr!DemandSurge, Pr!Least
<1>3. CASE s = 3
  BY <1>3 DEF Surges, Pr!DemandSurge, Pr!Least
<1>4. CASE s = 6
  BY <1>4 DEF Surges, Pr!DemandSurge, Pr!Least
<1> QED
  BY <1>0, <1>1, <1>2, <1>3, <1>4 DEF SupplySteps

\* The surge of demand is one of the surges.
LEMMA DemandSurgeType ==
  ASSUME NEW d \in Nat, NEW s \in SupplySteps
  PROVE  Pr!DemandSurge(d, s) \in Surges /\ Pr!DemandSurge(d, s) <= Pr!DemandSurge(d, s)
<1>1. d <= d
  OBVIOUS
<1> QED
  BY <1>1, DemandSurgeGrows DEF Surges

\* More drivers never raise the surge of the same demand.
LEMMA DemandSurgeFalls ==
  ASSUME NEW d \in Nat, NEW s \in {1, 2, 3, 6}, NEW q \in {1, 2, 3, 6}, s <= q
  PROVE  Pr!DemandSurge(d, s) >= Pr!DemandSurge(d, q)
<1>1. CASE s = 1 /\ q = 2
  BY <1>1 DEF Pr!DemandSurge, Pr!Least
<1>2. CASE s = 2 /\ q = 3
  BY <1>2 DEF Pr!DemandSurge, Pr!Least
<1>3. CASE s = 3 /\ q = 6
  BY <1>3 DEF Pr!DemandSurge, Pr!Least
<1>4. CASE s = 1 /\ q = 3
  BY <1>4 DEF Pr!DemandSurge, Pr!Least
<1>5. CASE s = 1 /\ q = 6
  BY <1>5 DEF Pr!DemandSurge, Pr!Least
<1>6. CASE s = 2 /\ q = 6
  BY <1>6 DEF Pr!DemandSurge, Pr!Least
<1>7. CASE s = q
  BY <1>7, DemandSurgeType DEF SupplySteps, Surges
<1> QED
  BY <1>1, <1>2, <1>3, <1>4, <1>5, <1>6, <1>7

Multipliers == 100..350
HourFactors == {100, 115, 125}
DayFactors == {100, 110}
Hourly(h) == IF Pr!Peak(h) THEN 125 ELSE IF Pr!LateNight(h) THEN 115 ELSE 100

Scaled(x, h, w) == Pr!Round(x * h * w, 6000)

\* The factors of hour and day keep the order of two surges.
LEMMA FactorsKeep ==
  ASSUME NEW x \in Surges, NEW y \in Surges, x <= y,
         NEW h \in HourFactors, NEW w \in DayFactors
  PROVE  /\ Scaled(x, h, w) <= Scaled(y, h, w) /\ Scaled(x, h, w) \in Nat
         /\ x = 60 => Scaled(x, h, w) <= 138
<1>1. CASE h = 100 /\ w = 100
  BY <1>1 DEF Scaled, Pr!Round, Surges
<1>2. CASE h = 100 /\ w = 110
  BY <1>2 DEF Scaled, Pr!Round, Surges
<1>3. CASE h = 115 /\ w = 100
  BY <1>3 DEF Scaled, Pr!Round, Surges
<1>4. CASE h = 115 /\ w = 110
  BY <1>4 DEF Scaled, Pr!Round, Surges
<1>5. CASE h = 125 /\ w = 100
  BY <1>5 DEF Scaled, Pr!Round, Surges
<1>6. CASE h = 125 /\ w = 110
  BY <1>6 DEF Scaled, Pr!Round, Surges
<1> QED
  BY <1>1, <1>2, <1>3, <1>4, <1>5, <1>6 DEF HourFactors, DayFactors

\* So does the surge of a ride.
LEMMA SurgeKeeps ==
  ASSUME NEW d \in Nat, NEW e \in Nat, NEW s \in SupplySteps, NEW q \in SupplySteps,
         NEW hour \in Nat, NEW weekend \in BOOLEAN,
         Pr!DemandSurge(d, s) <= Pr!DemandSurge(e, q)
  PROVE  /\ Pr!Surge(d, s, hour, weekend) <= Pr!Surge(e, q, hour, weekend)
         /\ Pr!Surge(d, s, hour, weekend) \in Multipliers
         /\ d <= s => Pr!Surge(d, s, hour, weekend) <= 138
<1> DEFINE h == Hourly(hour)
           w == IF weekend THEN 110 ELSE 100
           x == Pr!DemandSurge(d, s)
           y == Pr!DemandSurge(e, q)
<1>1. h \in HourFactors /\ w \in DayFactors
  BY DEF Hourly, HourFactors, DayFactors
<1>2. x \in Surges /\ y \in Surges /\ x <= y /\ y <= y
  BY DemandSurgeType DEF Surges
<1>3. d <= s => x = 60
  BY SMTT(30) DEF Pr!DemandSurge
<1>4. /\ Pr!Surge(d, s, hour, weekend) = Pr!Clamp(Scaled(x, h, w), 100, 350)
      /\ Pr!Surge(e, q, hour, weekend) = Pr!Clamp(Scaled(y, h, w), 100, 350)
  BY Zenon DEF Pr!Surge, Hourly, Scaled
<1> HIDE DEF h, w, x, y
<1>5. /\ Scaled(x, h, w) <= Scaled(y, h, w) /\ Scaled(x, h, w) \in Nat
      /\ x = 60 => Scaled(x, h, w) <= 138
  BY <1>1, <1>2, FactorsKeep
<1>6. Scaled(y, h, w) \in Nat
  BY <1>1, <1>2, FactorsKeep
<1> QED
  BY <1>3, <1>4, <1>5, <1>6 DEF Multipliers, Pr!Clamp, Pr!Least, Pr!Most

\* With the model's answer it is still a multiplier of [1, 3.5] and keeps the order.
LEMMA RideSurgeKeeps ==
  ASSUME NEW r \in AnyRide, NEW q \in AnyRide, r.hour = q.hour, r.weekend = q.weekend,
         r.hint = q.hint, r.km = q.km,
         Pr!DemandSurge(r.demand, r.supply) <= Pr!DemandSurge(q.demand, q.supply)
  PROVE  Pr!RideSurge(r) \in Multipliers /\ Pr!RideSurge(r) <= Pr!RideSurge(q)
<1> DEFINE x == Pr!Surge(r.demand, r.supply, r.hour, r.weekend)
           y == Pr!Surge(q.demand, q.supply, q.hour, q.weekend)
<1>1. x \in Multipliers /\ y \in Multipliers /\ x <= y
  <2>1. /\ r.demand \in Nat /\ q.demand \in Nat /\ r.hour \in Nat /\ r.weekend \in BOOLEAN
        /\ r.supply \in SupplySteps /\ q.supply \in SupplySteps
    BY DEF AnyRide
  <2>2. /\ x <= Pr!Surge(q.demand, q.supply, r.hour, r.weekend)
        /\ x \in Multipliers
    BY <2>1, SurgeKeeps
  <2>3. Pr!DemandSurge(q.demand, q.supply) <= Pr!DemandSurge(q.demand, q.supply)
    BY <2>1, DemandSurgeType
  <2>4. Pr!Surge(q.demand, q.supply, r.hour, r.weekend) \in Multipliers
    BY <2>1, <2>3, SurgeKeeps
  <2> QED
    BY <2>2, <2>4
<1>2. r.hint \in 0..100 \/ r.hint = NoHint
  BY DEF AnyRide
<1> HIDE DEF x, y
<1>3. CASE r.hint = NoHint
  BY <1>1, <1>3 DEF Pr!RideSurge, x, y
<1>4. CASE r.hint # NoHint
  <2>1. /\ Pr!RideSurge(r) = Pr!Clamp(Pr!Round(7 * (1000 + 25 * r.hint) + 30 * x, 100), 100, 350)
        /\ Pr!RideSurge(q) = Pr!Clamp(Pr!Round(7 * (1000 + 25 * r.hint) + 30 * y, 100), 100, 350)
    BY <1>4 DEF Pr!RideSurge, x, y
  <2> DEFINE m == r.hint
  <2>2. m \in 0..100
    BY <1>2, <1>4
  <2> HIDE DEF m
  <2>3. \A z \in Multipliers :
          Pr!Clamp(Pr!Round(7 * (1000 + 25 * m) + 30 * z, 100), 100, 350) \in Multipliers
    BY <2>2 DEF Multipliers, Pr!Clamp, Pr!Least, Pr!Most, Pr!Round
  <2>4. Pr!Clamp(Pr!Round(7 * (1000 + 25 * m) + 30 * x, 100), 100, 350)
          <= Pr!Clamp(Pr!Round(7 * (1000 + 25 * m) + 30 * y, 100), 100, 350)
    BY <1>1, <2>2 DEF Multipliers, Pr!Clamp, Pr!Least, Pr!Most, Pr!Round
  <2> QED
    BY <1>1, <2>1, <2>3, <2>4 DEF m
<1> QED
  BY <1>3, <1>4

\* A fare grows with the surge, and strictly with the distance.
LEMMA FareGrows ==
  ASSUME NEW k \in Nat, NEW l \in Nat, k <= l, NEW s \in Multipliers, NEW t \in Multipliers, s <= t
  PROVE  Pr!Fare(k, s) <= Pr!Fare(l, t) /\ (k < l => Pr!Fare(k, s) < Pr!Fare(l, s))
<1> DEFINE g == Pr!PreGross(k)
           h == Pr!PreGross(l)
<1>1. g \in Nat /\ h \in Nat /\ g <= h /\ (k < l => g < h)
  BY DEF Pr!PreGross, Pr!Minutes, Pr!Round
<1> HIDE DEF g, h
<1>2. /\ (s - 100) * g \in Nat /\ (t - 100) * h \in Nat /\ (s - 100) * h \in Nat
      /\ (s - 100) * g <= (t - 100) * h /\ (s - 100) * g <= (s - 100) * h
  <2>1. \A a, b, c \in Nat : a * c \in Nat /\ (a <= b => a * c <= b * c)
    OBVIOUS
  <2>2. \A a, b, c \in Nat : b <= c => a * b <= a * c
    OBVIOUS
  <2>3. s - 100 \in Nat /\ t - 100 \in Nat /\ s - 100 <= t - 100
    BY DEF Multipliers
  <2>4. /\ (s - 100) * g \in Nat /\ (t - 100) * h \in Nat /\ (s - 100) * h \in Nat
        /\ (s - 100) * h <= (t - 100) * h
    BY <1>1, <2>1, <2>3
  <2>5. (s - 100) * g <= (s - 100) * h
    BY <1>1, <2>2, <2>3
  <2> QED
    BY <2>4, <2>5
<1> DEFINE A == (s - 100) * g
           B == (t - 100) * h
           C == (s - 100) * h
<1>3. /\ Pr!Fare(k, s) = g + Pr!Round(A, 100) + Pr!Round(8 * (g + Pr!Round(A, 100)), 100)
      /\ Pr!Fare(l, t) = h + Pr!Round(B, 100) + Pr!Round(8 * (h + Pr!Round(B, 100)), 100)
      /\ Pr!Fare(l, s) = h + Pr!Round(C, 100) + Pr!Round(8 * (h + Pr!Round(C, 100)), 100)
  BY Zenon DEF Pr!Fare, g, h
<1>4. A \in Nat /\ B \in Nat /\ C \in Nat /\ A <= B /\ A <= C
  BY <1>2
<1> HIDE DEF A, B, C
<1> QED
  BY <1>1, <1>3, <1>4 DEF Pr!Round

\* A longer way costs more at the same surge.
LEMMA FareLonger ==
  ASSUME NEW k \in Nat, NEW l \in Nat, k < l, NEW s \in Multipliers
  PROVE  Pr!Fare(k, s) < Pr!Fare(l, s)
<1>1. k <= l /\ s <= s
  BY DEF Multipliers
<1> QED
  BY <1>1, FareGrows

\* A fare is a number.
LEMMA FareType ==
  ASSUME NEW k \in Nat, NEW s \in Multipliers
  PROVE  Pr!Fare(k, s) \in Int
<1> DEFINE A == (s - 100) * Pr!PreGross(k)
<1>1. Pr!PreGross(k) \in Int
  BY DEF Pr!PreGross, Pr!Minutes, Pr!Round
<1>2. A \in Int
  BY <1>1 DEF Multipliers
<1>3. Pr!Fare(k, s) = Pr!PreGross(k) + Pr!Round(A, 100)
                        + Pr!Round(8 * (Pr!PreGross(k) + Pr!Round(A, 100)), 100)
  BY Zenon DEF Pr!Fare
<1> HIDE DEF A
<1> QED
  BY <1>1, <1>2, <1>3 DEF Pr!Round

\* Products and subscribers with any numbers.
AnyProduct ==
    [kind : {"discount"}, days : Nat, views : Nat, conversion : Nat, stock : Nat,
     hint : 0..100 \cup {NoHint}]
AnySubscriber ==
    [kind : {"retention"}, months : Nat, login : Nat, usage : Nat, hint : 0..100 \cup {NoHint}]

\* A product that sells worse gets no smaller discount, by the rules and with the model.
LEMMA DiscountGrows ==
  ASSUME NEW p \in AnyProduct, NEW q \in AnyProduct, p.hint = q.hint, p.views = q.views,
         p.days <= q.days, p.conversion >= q.conversion, p.stock <= q.stock
  PROVE  /\ Pr!RuleDiscount(p) \in 0..33 /\ Pr!Discount(p) \in 0..50
         /\ Pr!Discount(q) >= Pr!Discount(p)
<1>1. Pr!RuleDiscount(p) \in 0..33 /\ Pr!RuleDiscount(q) \in 0..33
      /\ Pr!RuleDiscount(q) >= Pr!RuleDiscount(p)
  <2> DEFINE d == p.days
             e == q.days
             c == p.conversion
             b == q.conversion
             s == p.stock
             t == q.stock
             v == p.views
             u == q.views
  <2>1. /\ d \in Nat /\ e \in Nat /\ c \in Nat /\ b \in Nat /\ s \in Nat /\ t \in Nat /\ v \in Nat
        /\ d <= e /\ b <= c /\ s <= t /\ u = v
    BY DEF AnyProduct
  <2> HIDE DEF d, e, c, b, s, t, v, u
  <2> DEFINE x == Pr!When(v > 50 /\ c < 2, 30)
             y == Pr!When(u > 50 /\ b < 2, 30)
             m == Pr!When(d > 30, 24 + Pr!Least(30, d - 30))
             n == Pr!When(e > 30, 24 + Pr!Least(30, e - 30))
             j == Pr!When(s > 200, 15)
             k == Pr!When(t > 200, 15)
  <2>2. x \in 0..30 /\ y \in 0..30 /\ x <= y
    BY <2>1 DEF Pr!When
  <2>3. m \in 0..54 /\ n \in 0..54 /\ m <= n
    BY <2>1 DEF Pr!When, Pr!Least
  <2>4. j \in 0..15 /\ k \in 0..15 /\ j <= k
    BY <2>1 DEF Pr!When
  <2>5. /\ Pr!RuleDiscount(p) = Pr!Least(40, Pr!Round(x + m + j, 3))
        /\ Pr!RuleDiscount(q) = Pr!Least(40, Pr!Round(y + n + k, 3))
    BY Zenon DEF Pr!RuleDiscount, d, e, c, b, s, t, v, u
  <2> HIDE DEF x, y, m, n, j, k
  <2> QED
    BY <2>2, <2>3, <2>4, <2>5 DEF Pr!Least, Pr!Round
<1>2. p.hint \in 0..100 \/ p.hint = NoHint
  BY DEF AnyProduct
<1> DEFINE x == Pr!RuleDiscount(p)
           y == Pr!RuleDiscount(q)
<1>3. CASE p.hint = NoHint
  BY <1>1, <1>3 DEF Pr!Discount
<1>4. CASE p.hint # NoHint
  <2> DEFINE h == p.hint
  <2>1. /\ Pr!Discount(p) = Pr!Clamp(Pr!Round(7 * h + 6 * x, 20), 0, 50)
        /\ Pr!Discount(q) = Pr!Clamp(Pr!Round(7 * h + 6 * y, 20), 0, 50)
    BY <1>4 DEF Pr!Discount
  <2>2. h \in 0..100
    BY <1>2, <1>4
  <2> HIDE DEF h, x, y
  <2>3. x \in 0..33 /\ y \in 0..33 /\ x <= y
    BY <1>1 DEF x, y
  <2>4. /\ Pr!Clamp(Pr!Round(7 * h + 6 * x, 20), 0, 50) \in 0..50
        /\ Pr!Clamp(Pr!Round(7 * h + 6 * x, 20), 0, 50)
             <= Pr!Clamp(Pr!Round(7 * h + 6 * y, 20), 0, 50)
        /\ Pr!Clamp(Pr!Round(7 * h + 6 * y, 20), 0, 50) \in 0..50
    BY <2>2, <2>3 DEF Pr!Clamp, Pr!Least, Pr!Most, Pr!Round
  <2> QED
    BY <1>1, <2>1, <2>4
<1> QED
  BY <1>2, <1>3, <1>4

\* A subscriber more likely to leave is offered no less, by the rules and by the model.
LEMMA OfferGrows ==
  ASSUME NEW s \in AnySubscriber, NEW t \in AnySubscriber, s.months = t.months,
         s.login <= t.login, s.usage >= t.usage,
         \/ s.hint = NoHint /\ t.hint = NoHint
         \/ s.hint # NoHint /\ t.hint # NoHint /\ s.hint <= t.hint
  PROVE  Pr!Retention(t) >= Pr!Retention(s) /\ (s.hint = NoHint => Pr!Retention(s) # 30)
<1>1. /\ s.months \in Nat /\ s.login \in Nat /\ s.usage \in Nat
      /\ t.months \in Nat /\ t.login \in Nat /\ t.usage \in Nat
      /\ s.hint # NoHint => s.hint \in 0..100
      /\ t.hint # NoHint => t.hint \in 0..100
  BY DEF AnySubscriber
<1>2. CASE s.hint = NoHint /\ t.hint = NoHint
  BY <1>1, <1>2 DEF Pr!Retention, Pr!Offer, Pr!ChurnRisk, Pr!When
<1>3. CASE s.hint # NoHint /\ t.hint # NoHint /\ s.hint <= t.hint
  BY <1>1, <1>3 DEF Pr!Retention, Pr!Offer
<1> QED
  BY <1>2, <1>3

\* What the composition asks is a ride of that kind.
LEMMA RideAsked ==
  ASSUME AnswerTypes, priced.kind = "ride"
  PROVE  priced \in AnyRide /\ priced \in Pr!RideAsks
<1>1. priced \in Pr!RideAsks
  BY DEF AnswerTypes, Pr!TypeOK, Pr!NoAsk, Pr!DiscountAsks, Pr!RetentionAsks, Pr!FraudAsks,
         Pr!RiskAsks
<1> QED
  BY <1>1 DEF Pr!RideAsks, AnyRide, SupplySteps

\* A request for a discount tells a product.
LEMMA ProductAsked ==
  ASSUME AnswerTypes, priced.kind = "discount"
  PROVE  priced \in AnyProduct
<1>1. priced \in Pr!DiscountAsks
  BY DEF AnswerTypes, Pr!TypeOK, Pr!NoAsk, Pr!RideAsks, Pr!RetentionAsks, Pr!FraudAsks,
         Pr!RiskAsks
<1> QED
  BY <1>1 DEF Pr!DiscountAsks, AnyProduct

\* A request for an offer tells a subscriber.
LEMMA SubscriberAsked ==
  ASSUME AnswerTypes, priced.kind = "retention"
  PROVE  priced \in AnySubscriber
<1>1. priced \in Pr!RetentionAsks
  BY DEF AnswerTypes, Pr!TypeOK, Pr!NoAsk, Pr!RideAsks, Pr!DiscountAsks, Pr!FraudAsks,
         Pr!RiskAsks
<1> QED
  BY <1>1 DEF Pr!RetentionAsks, AnySubscriber

\* The prices among them: a ride is never cheaper for more demand, less supply or a longer
\* way, and a booked one pays no more than the hour adds; a product that sells worse gets
\* no smaller discount and a subscriber more likely to leave no smaller offer
\* (computeRidePrice, computeProductDiscount, computeSubscriptionRecommendation).
LEMMA PricesFollowReasons ==
  Spec => []( /\ Pr!FareFollowsScarcity /\ Pr!SurgeIsBounded
              /\ Pr!DiscountFollowsSales /\ Pr!OfferFollowsRisk )
<1>1. AnswerTypes => Pr!FareFollowsScarcity
  <2> SUFFICES ASSUME AnswerTypes, priced.kind = "ride"
               PROVE  /\ \A d \in 0..7 : d > priced.demand =>
                           Pr!RidePrice([priced EXCEPT !.demand = d]) >= Pr!RidePrice(priced)
                      /\ \A s \in 0..3 : 0 < s /\ s < priced.supply =>
                           Pr!RidePrice([priced EXCEPT !.supply = s]) >= Pr!RidePrice(priced)
                      /\ \A k \in {1, 2, 5} : k > priced.km =>
                           Pr!RidePrice([priced EXCEPT !.km = k]) > Pr!RidePrice(priced)
    BY DEF Pr!FareFollowsScarcity
  <2>0. priced \in AnyRide /\ priced.km \in Nat /\ Pr!RideSurge(priced) \in Multipliers
    <3>1. priced \in AnyRide
      BY RideAsked
    <3>2. Pr!DemandSurge(priced.demand, priced.supply) <= Pr!DemandSurge(priced.demand, priced.supply)
      BY <3>1, DemandSurgeType DEF AnyRide
    <3> QED
      BY <3>1, <3>2, RideSurgeKeeps DEF AnyRide
  <2>1. ASSUME NEW d \in 0..7, d > priced.demand
        PROVE  Pr!RidePrice([priced EXCEPT !.demand = d]) >= Pr!RidePrice(priced)
    <3> DEFINE q == [priced EXCEPT !.demand = d]
    <3>1. /\ q \in AnyRide /\ q.hour = priced.hour /\ q.weekend = priced.weekend
          /\ q.hint = priced.hint /\ q.km = priced.km
          /\ q.demand = d /\ q.supply = priced.supply
      BY <2>0, <2>1 DEF AnyRide
    <3> HIDE DEF q
    <3>2. Pr!DemandSurge(priced.demand, priced.supply) <= Pr!DemandSurge(q.demand, q.supply)
      BY <2>0, <2>1, <3>1, DemandSurgeGrows DEF AnyRide
    <3>3. Pr!RideSurge(priced) <= Pr!RideSurge(q) /\ Pr!RideSurge(q) \in Multipliers
      <4>1. Pr!DemandSurge(q.demand, q.supply) <= Pr!DemandSurge(q.demand, q.supply)
        BY <3>1, DemandSurgeType DEF AnyRide
      <4> QED
        BY <2>0, <3>1, <3>2, <4>1, RideSurgeKeeps
    <3>4. Pr!Fare(priced.km, Pr!RideSurge(priced)) <= Pr!Fare(priced.km, Pr!RideSurge(q))
      BY <2>0, <3>3, FareGrows
    <3>5. Pr!Fare(priced.km, Pr!RideSurge(q)) \in Int /\ Pr!Fare(priced.km, Pr!RideSurge(priced)) \in Int
      BY <2>0, <3>3, FareType
    <3> QED
      BY <3>1, <3>4, <3>5 DEF Pr!RidePrice, q
  <2>2. ASSUME NEW s \in 0..3, 0 < s, s < priced.supply
        PROVE  Pr!RidePrice([priced EXCEPT !.supply = s]) >= Pr!RidePrice(priced)
    <3> DEFINE q == [priced EXCEPT !.supply = s]
    <3>1. /\ q \in AnyRide /\ q.hour = priced.hour /\ q.weekend = priced.weekend
          /\ q.hint = priced.hint /\ q.km = priced.km
          /\ q.demand = priced.demand /\ q.supply = s
      BY <2>0, <2>2 DEF AnyRide, SupplySteps
    <3> HIDE DEF q
    <3>2. Pr!DemandSurge(priced.demand, priced.supply) <= Pr!DemandSurge(q.demand, q.supply)
      <4>1. /\ s \in {1, 2, 3, 6} /\ priced.supply \in {1, 2, 3, 6} /\ s <= priced.supply
            /\ priced.demand \in Nat
        BY <2>0, <2>2 DEF AnyRide, SupplySteps
      <4>2. Pr!DemandSurge(priced.demand, s) >= Pr!DemandSurge(priced.demand, priced.supply)
        BY <4>1, DemandSurgeFalls
      <4>3. /\ Pr!DemandSurge(priced.demand, s) \in Int
            /\ Pr!DemandSurge(priced.demand, priced.supply) \in Int
        <5>1. s \in SupplySteps /\ priced.supply \in SupplySteps
          BY <4>1 DEF SupplySteps
        <5>2. /\ Pr!DemandSurge(priced.demand, s) \in Surges
              /\ Pr!DemandSurge(priced.demand, priced.supply) \in Surges
          BY <4>1, <5>1, DemandSurgeType
        <5> QED
          BY <5>2 DEF Surges
      <4> QED
        BY <3>1, <4>2, <4>3
    <3>3. Pr!RideSurge(priced) <= Pr!RideSurge(q) /\ Pr!RideSurge(q) \in Multipliers
      <4>1. Pr!DemandSurge(q.demand, q.supply) <= Pr!DemandSurge(q.demand, q.supply)
        BY <3>1, DemandSurgeType DEF AnyRide
      <4> QED
        BY <2>0, <3>1, <3>2, <4>1, RideSurgeKeeps
    <3>4. Pr!Fare(priced.km, Pr!RideSurge(priced)) <= Pr!Fare(priced.km, Pr!RideSurge(q))
      BY <2>0, <3>3, FareGrows
    <3>5. Pr!Fare(priced.km, Pr!RideSurge(q)) \in Int /\ Pr!Fare(priced.km, Pr!RideSurge(priced)) \in Int
      BY <2>0, <3>3, FareType
    <3> QED
      BY <3>1, <3>4, <3>5 DEF Pr!RidePrice, q
  <2>3. ASSUME NEW k \in {1, 2, 5}, k > priced.km
        PROVE  Pr!RidePrice([priced EXCEPT !.km = k]) > Pr!RidePrice(priced)
    <3> DEFINE q == [priced EXCEPT !.km = k]
    <3>1. /\ q.hour = priced.hour /\ q.weekend = priced.weekend /\ q.hint = priced.hint
          /\ q.demand = priced.demand /\ q.supply = priced.supply /\ q.km = k
      BY <2>0 DEF AnyRide
    <3> HIDE DEF q
    <3>2. Pr!RideSurge(q) = Pr!RideSurge(priced)
      BY <3>1 DEF Pr!RideSurge
    <3>3. Pr!Fare(priced.km, Pr!RideSurge(priced)) < Pr!Fare(k, Pr!RideSurge(priced))
      BY <2>0, <2>3, FareLonger
    <3>4. Pr!Fare(k, Pr!RideSurge(priced)) \in Int /\ Pr!Fare(priced.km, Pr!RideSurge(priced)) \in Int
      BY <2>0, FareType, SMTT(30)
    <3> QED
      BY <3>1, <3>2, <3>3, <3>4 DEF Pr!RidePrice, q
  <2> QED
    BY <2>1, <2>2, <2>3
<1>2. AnswerTypes => Pr!SurgeIsBounded
  <2> SUFFICES ASSUME AnswerTypes, priced.kind = "ride"
               PROVE  Pr!RideSurge(priced) \in 100..350 /\ Pr!RideSurge(Pr!BookedRide(priced)) <= 138
    BY DEF Pr!SurgeIsBounded
  <2>1. priced \in AnyRide
    BY RideAsked
  <2>2. Pr!DemandSurge(priced.demand, priced.supply) <= Pr!DemandSurge(priced.demand, priced.supply)
    BY <2>1, DemandSurgeType DEF AnyRide
  <2>3. Pr!RideSurge(priced) \in 100..350
    BY <2>1, <2>2, RideSurgeKeeps DEF Multipliers
  <2> DEFINE q == Pr!BookedRide(priced)
  <2>4. q.hint = NoHint /\ q.demand = 1 /\ q.supply = 1 /\ q.hour \in Nat /\ q.weekend \in BOOLEAN
    BY <2>1 DEF Pr!BookedRide, AnyRide
  <2> HIDE DEF q
  <2>5. Pr!Surge(1, 1, q.hour, q.weekend) <= 138
    <3>1. 1 \in Nat /\ 1 \in SupplySteps /\ 1 <= 1
      BY DEF SupplySteps
    <3>2. Pr!DemandSurge(1, 1) <= Pr!DemandSurge(1, 1)
      BY <3>1, DemandSurgeType
    <3> QED
      BY <2>4, <3>1, <3>2, SurgeKeeps
  <2> QED
    BY <2>3, <2>4, <2>5 DEF Pr!RideSurge, q
<1>3. AnswerTypes => Pr!DiscountFollowsSales
  <2> SUFFICES ASSUME AnswerTypes, priced.kind = "discount"
               PROVE  /\ \A d \in {0, 30, 31, 35, 60, 90} : d > priced.days =>
                           Pr!Discount([priced EXCEPT !.days = d]) >= Pr!Discount(priced)
                      /\ \A c \in {1, 2} : c < priced.conversion =>
                           Pr!Discount([priced EXCEPT !.conversion = c]) >= Pr!Discount(priced)
                      /\ \A s \in {200, 201} : s > priced.stock =>
                           Pr!Discount([priced EXCEPT !.stock = s]) >= Pr!Discount(priced)
                      /\ Pr!RuleDiscount(priced) <= 33 /\ Pr!Discount(priced) <= 50
                      /\ Pr!CatalogueDiscount(priced) \in {0, 5}
    BY DEF Pr!DiscountFollowsSales
  <2>1. /\ priced \in AnyProduct
        /\ priced.days <= priced.days /\ priced.stock <= priced.stock
        /\ priced.conversion >= priced.conversion
    BY ProductAsked DEF AnyProduct
  <2>2. ASSUME NEW d \in {0, 30, 31, 35, 60, 90}, d > priced.days
        PROVE  Pr!Discount([priced EXCEPT !.days = d]) >= Pr!Discount(priced)
    <3> DEFINE q == [priced EXCEPT !.days = d]
    <3>1. /\ q \in AnyProduct /\ q.hint = priced.hint /\ q.views = priced.views /\ q.days = d
          /\ q.conversion = priced.conversion /\ q.stock = priced.stock /\ priced.days <= d
      BY <2>1, <2>2 DEF AnyProduct
    <3> HIDE DEF q
    <3> QED
      BY <2>1, <3>1, DiscountGrows DEF q
  <2>3. ASSUME NEW c \in {1, 2}, c < priced.conversion
        PROVE  Pr!Discount([priced EXCEPT !.conversion = c]) >= Pr!Discount(priced)
    <3> DEFINE q == [priced EXCEPT !.conversion = c]
    <3>1. /\ q \in AnyProduct /\ q.hint = priced.hint /\ q.views = priced.views
          /\ q.days = priced.days /\ q.conversion = c /\ q.stock = priced.stock
          /\ priced.conversion >= c
      BY <2>1, <2>3 DEF AnyProduct
    <3> HIDE DEF q
    <3> QED
      BY <2>1, <3>1, DiscountGrows DEF q
  <2>4. ASSUME NEW s \in {200, 201}, s > priced.stock
        PROVE  Pr!Discount([priced EXCEPT !.stock = s]) >= Pr!Discount(priced)
    <3> DEFINE q == [priced EXCEPT !.stock = s]
    <3>1. /\ q \in AnyProduct /\ q.hint = priced.hint /\ q.views = priced.views
          /\ q.days = priced.days /\ q.conversion = priced.conversion /\ q.stock = s
          /\ priced.stock <= s
      BY <2>1, <2>4 DEF AnyProduct
    <3> HIDE DEF q
    <3> QED
      BY <2>1, <3>1, DiscountGrows, ZenonT(60) DEF q
  <2>5. Pr!RuleDiscount(priced) \in 0..33 /\ Pr!Discount(priced) \in 0..50
    BY <2>1, DiscountGrows
  <2>6. Pr!CatalogueDiscount(priced) \in {0, 5}
    <3> DEFINE q == [priced EXCEPT !.days = 0, !.conversion = 2]
    <3>1. q.days = 0 /\ q.conversion = 2
      BY <2>1 DEF AnyProduct
    <3>2. Pr!CatalogueDiscount(priced) = Pr!RuleDiscount(q)
      BY DEF Pr!CatalogueDiscount
    <3> HIDE DEF q
    <3> QED
      BY <3>1, <3>2 DEF Pr!RuleDiscount, Pr!When, Pr!Least, Pr!Round
  <2> QED
    BY <2>2, <2>3, <2>4, <2>5, <2>6
<1>4. AnswerTypes => Pr!OfferFollowsRisk
  <2> SUFFICES ASSUME AnswerTypes, priced.kind = "retention"
               PROVE  /\ \A d \in {14, 15} : d > priced.login =>
                           Pr!Retention([priced EXCEPT !.login = d]) >= Pr!Retention(priced)
                      /\ \A u \in {29, 30} : u < priced.usage =>
                           Pr!Retention([priced EXCEPT !.usage = u]) >= Pr!Retention(priced)
                      /\ \A h \in {NoHint, 0, 40, 50, 70, 100} \ {NoHint} :
                           (priced.hint # NoHint /\ h > priced.hint) =>
                             Pr!Retention([priced EXCEPT !.hint = h]) >= Pr!Retention(priced)
                      /\ priced.hint = NoHint => Pr!Retention(priced) # 30
    BY DEF Pr!OfferFollowsRisk
  <2>1. /\ priced \in AnySubscriber
        /\ priced.login <= priced.login /\ priced.usage >= priced.usage
        /\ priced.hint # NoHint => priced.hint <= priced.hint
    BY SubscriberAsked DEF AnySubscriber
  <2>2. ASSUME NEW d \in {14, 15}, d > priced.login
        PROVE  Pr!Retention([priced EXCEPT !.login = d]) >= Pr!Retention(priced)
    <3> DEFINE q == [priced EXCEPT !.login = d]
    <3>1. /\ q \in AnySubscriber /\ q.months = priced.months /\ q.login = d
          /\ q.usage = priced.usage /\ q.hint = priced.hint /\ priced.login <= d
      BY <2>1, <2>2 DEF AnySubscriber
    <3> HIDE DEF q
    <3> QED
      BY <2>1, <3>1, OfferGrows DEF q
  <2>3. ASSUME NEW u \in {29, 30}, u < priced.usage
        PROVE  Pr!Retention([priced EXCEPT !.usage = u]) >= Pr!Retention(priced)
    <3> DEFINE q == [priced EXCEPT !.usage = u]
    <3>1. /\ q \in AnySubscriber /\ q.months = priced.months /\ q.login = priced.login
          /\ q.usage = u /\ q.hint = priced.hint /\ priced.usage >= u
      BY <2>1, <2>3 DEF AnySubscriber
    <3> HIDE DEF q
    <3> QED
      BY <2>1, <3>1, OfferGrows DEF q
  <2>4. ASSUME NEW h \in {NoHint, 0, 40, 50, 70, 100} \ {NoHint}, priced.hint # NoHint,
               h > priced.hint
        PROVE  Pr!Retention([priced EXCEPT !.hint = h]) >= Pr!Retention(priced)
    <3> DEFINE q == [priced EXCEPT !.hint = h]
    <3>1. /\ q \in AnySubscriber /\ q.months = priced.months /\ q.login = priced.login
          /\ q.usage = priced.usage /\ q.hint = h /\ priced.hint <= h /\ h # NoHint
      BY <2>1, <2>4 DEF AnySubscriber
    <3> HIDE DEF q
    <3> QED
      BY <2>1, <2>4, <3>1, OfferGrows DEF q
  <2>5. priced.hint = NoHint => Pr!Retention(priced) # 30
    BY <2>1, OfferGrows
  <2> QED
    BY <2>2, <2>3, <2>4, <2>5
<1> QED
  BY <1>1, <1>2, <1>3, <1>4, AnswerInvariance, PTL

\* A wish that is more urgent or newer counts more, one without a budget some.
LEMMA WishesGrow ==
  ASSUME AnswerTypes
  PROVE  Ra!WishesFollowUrgency
<1> SUFFICES ASSUME wanted.kind = "wish"
             PROVE  /\ Ra!WishScore(wanted) \in 0..1000
                    /\ \A p \in 1..wanted.priority :
                         Ra!WishScore([wanted EXCEPT !.priority = p]) >= Ra!WishScore(wanted)
                    /\ \A d \in {0, 15, 29, 30} : d < wanted.days =>
                         Ra!WishScore([wanted EXCEPT !.days = d]) >= Ra!WishScore(wanted)
                    /\ Ra!Suggestion(Ra!WishScore(wanted)) = "buy" => wanted.priority <= 4
                    /\ Ra!WishScore(Ra!OwnWish(wanted)) >= IF wanted.price = 0 THEN 230 ELSE 380
  BY DEF Ra!WishesFollowUrgency
<1>1. wanted \in Ra!WishAsks
  BY DEF AnswerTypes, Ra!TypeOK, Ra!NoAsk, Ra!ItemAsks, Ra!RelevanceAsks, Ra!TasteAsks, Ra!BlendAsks,
         Ra!PlanAsks, Ra!IntentAsks, Ra!SummaryAsks
<1> DEFINE Score(p, d, c, b) ==
             (6 - p) * 80 + (IF d >= 30 THEN 0 ELSE 300 - 10 * d)
             + (IF b > 0 /\ c <= b THEN 300 ELSE IF b = 0 THEN 150 ELSE 0)
           k == wanted.priority
           n == wanted.days
           m == wanted.price
           h == wanted.budget
<1>2. k \in 1..5 /\ n \in 0..60 /\ m \in 0..20 /\ h \in 0..20
  BY <1>1 DEF Ra!WishAsks
<1>3. /\ Ra!WishScore(wanted) = Score(k, n, m, h)
      /\ \A p : Ra!WishScore([wanted EXCEPT !.priority = p]) = Score(p, n, m, h)
      /\ \A d : Ra!WishScore([wanted EXCEPT !.days = d]) = Score(k, d, m, h)
      /\ Ra!WishScore(Ra!OwnWish(wanted)) = Score(k, n, m, m)
  BY <1>1, SMTT(30) DEF Ra!WishAsks, Ra!WishScore, Ra!OwnWish
<1> HIDE DEF k, n, m, h
<1>4. /\ Score(k, n, m, h) \in 0..1000
      /\ \A p \in 1..k : Score(p, n, m, h) >= Score(k, n, m, h)
      /\ \A d \in {0, 15, 29, 30} : d < n => Score(k, d, m, h) >= Score(k, n, m, h)
      /\ Score(k, n, m, h) > 700 => k <= 4
      /\ Score(k, n, m, m) >= IF m = 0 THEN 230 ELSE 380
  BY <1>2
<1>5. Ra!Suggestion(Ra!WishScore(wanted)) = "buy" => Ra!WishScore(wanted) > 700
  BY DEF Ra!Suggestion
<1> HIDE DEF Score
<1>6. Ra!WishScore(wanted) \in 0..1000
  BY <1>3, <1>4, ZenonT(60)
<1>7. \A p \in 1..wanted.priority :
        Ra!WishScore([wanted EXCEPT !.priority = p]) >= Ra!WishScore(wanted)
  BY <1>3, <1>4, ZenonT(60) DEF k
<1>8. \A d \in {0, 15, 29, 30} : d < wanted.days =>
        Ra!WishScore([wanted EXCEPT !.days = d]) >= Ra!WishScore(wanted)
  BY <1>3, <1>4, ZenonT(60) DEF n
<1>9. Ra!Suggestion(Ra!WishScore(wanted)) = "buy" => wanted.priority <= 4
  BY <1>3, <1>4, <1>5, ZenonT(60) DEF k
<1>10. Ra!WishScore(Ra!OwnWish(wanted)) >= IF wanted.price = 0 THEN 230 ELSE 380
  BY <1>3, <1>4, ZenonT(60) DEF m
<1> QED
  BY <1>6, <1>7, <1>8, <1>9, <1>10

\* A nonempty set of plans has a first one.
LEMMA FirstPlan ==
  ASSUME NEW S \in SUBSET (1..3), S # {}
  PROVE  \E i \in S : \A j \in 1..(i - 1) : j \notin S
<1>1. CASE 1 \in S
  <2>1. 1 \in S /\ \A j \in 1..(1 - 1) : j \notin S
    BY <1>1
  <2> QED
    BY <2>1
<1>2. CASE 1 \notin S /\ 2 \in S
  <2>1. 2 \in S /\ \A j \in 1..(2 - 1) : j \notin S
    <3>1. \A j \in 1..(2 - 1) : j = 1
      OBVIOUS
    <3> QED
      BY <1>2, <3>1, Zenon
  <2> QED
    BY <2>1
<1>3. CASE 1 \notin S /\ 2 \notin S
  <2>1. 3 \in S /\ \A j \in 1..(3 - 1) : j \notin S
    <3>1. PICK i : i \in S
      OBVIOUS
    <3>2. i \in 1..3 /\ i # 1 /\ i # 2
      BY <1>3, <3>1
    <3>3. i = 3 /\ \A j \in 1..(3 - 1) : j = 1 \/ j = 2
      BY <3>2
    <3> QED
      BY <1>3, <3>1, <3>3, Zenon
  <2> QED
    BY <2>1
<1> QED
  BY <1>1, <1>2, <1>3

\* Who uses little is not told to upgrade, nor who uses much to downgrade.
LEMMA AdviceGoesWithUse ==
  ASSUME AnswerTypes
  PROVE  Ra!AdviceFitsUse
<1> DEFINE P == wanted.plans
           advice == Ra!PlanAdvice(wanted.usage, wanted.tier, P)
           mine == {P[i].features : i \in {k \in DOMAIN P : P[k].tier = wanted.tier}}
<1> SUFFICES ASSUME wanted.kind = "plan"
             PROVE  /\ advice.why = "upgrade" =>
                         /\ wanted.usage > 20 /\ P[advice.plan].tier # wanted.tier
                         /\ \A f \in mine : f <= 70 => P[advice.plan].features > f
                    /\ advice.why = "downgrade" =>
                         /\ wanted.usage < 80
                         /\ \A f \in mine : f >= 40 => P[advice.plan].features < f
                    /\ (advice.why = "keep" /\ mine # {}) => P[advice.plan].tier = wanted.tier
  BY DEF Ra!AdviceFitsUse
<1>1. wanted \in Ra!PlanAsks
  BY DEF AnswerTypes, Ra!TypeOK, Ra!NoAsk, Ra!ItemAsks, Ra!RelevanceAsks, Ra!TasteAsks, Ra!BlendAsks,
         Ra!WishAsks, Ra!IntentAsks, Ra!SummaryAsks
<1> DEFINE Rich(i) == P[i].features > 70 /\ P[i].tier # wanted.tier
           Light(i) == P[i].features < 40
           Current(i) == P[i].tier = wanted.tier
           r == CHOOSE i \in DOMAIN P : Rich(i) /\ \A j \in 1..(i - 1) : ~Rich(j)
           l == CHOOSE i \in DOMAIN P : Light(i) /\ \A j \in 1..(i - 1) : ~Light(j)
           c == CHOOSE i \in DOMAIN P : Current(i) /\ \A j \in 1..(i - 1) : ~Current(j)
<1>2. /\ DOMAIN P \subseteq 1..3 /\ \A i \in DOMAIN P : P[i].features \in Nat
      /\ \A i \in DOMAIN P : \A j \in 1..(i - 1) : j \in DOMAIN P
      /\ wanted.usage \in Nat
  BY <1>1, SMTT(30) DEF Ra!PlanAsks, Ra!UpTo
<1>3. advice =
        IF wanted.usage > 80 /\ \E i \in DOMAIN P : Rich(i) THEN [plan |-> r, why |-> "upgrade"]
        ELSE IF wanted.usage < 20 /\ \E i \in DOMAIN P : Light(i)
          THEN [plan |-> l, why |-> "downgrade"]
        ELSE IF \E i \in DOMAIN P : Current(i) THEN [plan |-> c, why |-> "keep"]
        ELSE [plan |-> Ra!Least(1, Len(P)), why |-> "keep"]
  BY Zenon DEF Ra!PlanAdvice, Ra!Some, Ra!FirstThat
<1> HIDE DEF advice
<1>4. (\E i \in DOMAIN P : Rich(i)) => r \in DOMAIN P /\ Rich(r)
  <2> SUFFICES ASSUME \E i \in DOMAIN P : Rich(i)
               PROVE  \E i \in DOMAIN P : Rich(i) /\ \A j \in 1..(i - 1) : ~Rich(j)
    BY Zenon
  <2> DEFINE S == {i \in DOMAIN P : Rich(i)}
  <2>1. S \in SUBSET (1..3) /\ S # {}
    BY <1>2
  <2>2. PICK i \in S : \A j \in 1..(i - 1) : j \notin S
    BY <2>1, FirstPlan
  <2> QED
    BY <1>2, <2>2
<1>5. (\E i \in DOMAIN P : Light(i)) => l \in DOMAIN P /\ Light(l)
  <2> SUFFICES ASSUME \E i \in DOMAIN P : Light(i)
               PROVE  \E i \in DOMAIN P : Light(i) /\ \A j \in 1..(i - 1) : ~Light(j)
    BY Zenon
  <2> DEFINE S == {i \in DOMAIN P : Light(i)}
  <2>1. S \in SUBSET (1..3) /\ S # {}
    BY <1>2
  <2>2. PICK i \in S : \A j \in 1..(i - 1) : j \notin S
    BY <2>1, FirstPlan
  <2> QED
    BY <1>2, <2>2
<1>6. (\E i \in DOMAIN P : Current(i)) => c \in DOMAIN P /\ Current(c)
  <2> SUFFICES ASSUME \E i \in DOMAIN P : Current(i)
               PROVE  \E i \in DOMAIN P : Current(i) /\ \A j \in 1..(i - 1) : ~Current(j)
    BY Zenon
  <2> DEFINE S == {i \in DOMAIN P : Current(i)}
  <2>1. S \in SUBSET (1..3) /\ S # {}
    BY <1>2
  <2>2. PICK i \in S : \A j \in 1..(i - 1) : j \notin S
    BY <2>1, FirstPlan
  <2> QED
    BY <1>2, <2>2
<1>7. \A f \in mine : f \in Nat /\ \E i \in DOMAIN P : Current(i)
  BY <1>2, SMTT(30)
<1> HIDE DEF r, l, c, mine
<1>8. CASE wanted.usage > 80 /\ \E i \in DOMAIN P : Rich(i)
  BY <1>2, <1>3, <1>4, <1>7, <1>8, SMTT(30)
<1>9. CASE ~(wanted.usage > 80 /\ \E i \in DOMAIN P : Rich(i))
           /\ wanted.usage < 20 /\ \E i \in DOMAIN P : Light(i)
  BY <1>2, <1>3, <1>5, <1>7, <1>9, SMTT(30)
<1>10. CASE /\ ~(wanted.usage > 80 /\ \E i \in DOMAIN P : Rich(i))
            /\ ~(wanted.usage < 20 /\ \E i \in DOMAIN P : Light(i))
  BY <1>2, <1>3, <1>6, <1>7, <1>10, SMTT(30)
<1> QED
  BY <1>8, <1>9, <1>10

\* A day after those the planner reads changes nothing of what it forecasts.
LEMMA LaterDaysUnread ==
  ASSUME AnswerTypes
  PROVE  In!OldDaysOnly
<1> SUFFICES ASSUME books.kind = "sales", Len(books.days) > 4, NEW r \in {0, 1, 4}
             PROVE  In!PlannerForecast([books.days EXCEPT ![Len(books.days)] = r])
                      = In!PlannerForecast(books.days)
  BY DEF In!OldDaysOnly
<1>1. books \in In!Sales
  BY DEF AnswerTypes, In!TypeOK, In!NoBooks, In!Books
<1> DEFINE v == books.days
           u == [v EXCEPT ![Len(v)] = r]
<1>2. v \in Seq({0, 1, 4}) /\ Len(v) > 4
  <2>1. v \in UNION {[1..n -> {0, 1, 4}] : n \in 0..5}
    BY <1>1 DEF In!Sales
  <2>2. PICK n \in 0..5 : v \in [1..n -> {0, 1, 4}]
    BY <2>1, Zenon
  <2> HIDE DEF v
  <2>3. v \in Seq({0, 1, 4})
    BY <2>2
  <2> QED
    BY <2>3 DEF v
<1> HIDE DEF v
<1>3. u \in Seq({0, 1, 4}) /\ Len(u) = Len(v) /\ \A i \in 1..4 : u[i] = v[i]
  <2> DEFINE n == Len(v)
  <2>1. n \in Nat /\ n > 4 /\ DOMAIN v = 1..n
    BY <1>2
  <2> HIDE DEF n
  <2>2. u = [v EXCEPT ![n] = r]
    BY DEF n
  <2> HIDE DEF u
  <2>3. \A i \in 1..4 : u[i] = v[i]
    BY <2>1, <2>2
  <2>4. u \in Seq({0, 1, 4}) /\ Len(u) = Len(v)
    BY <1>2, <2>1, <2>2
  <2> QED
    BY <2>3, <2>4
<1> HIDE DEF u
<1>4. SubSeq(u, 1, 4) = SubSeq(v, 1, 4)
  BY <1>2, <1>3
<1>5. Len(u) < 4 <=> FALSE
  BY <1>2, <1>3
<1>6. Len(v) < 4 <=> FALSE
  BY <1>2
<1>7. In!PlannerForecast(u) = In!Forecast(SubSeq(u, 1, 4))
      /\ In!PlannerForecast(v) = In!Forecast(SubSeq(v, 1, 4))
  BY <1>5, <1>6 DEF In!PlannerForecast
<1> QED
  BY <1>4, <1>7 DEF u, v

\* The AI modules' answers follow their reasons, as far as they are proved: a fare grows
\* with demand and falls with supply within its bounds, a discount follows sales, an offer
\* the risk of leaving, a wish its urgency, a plan the use, and an old day is not read.
THEOREM AdviceFollowsReasons ==
  Spec => [](/\ Pr!FareFollowsScarcity /\ Pr!SurgeIsBounded /\ Pr!DiscountFollowsSales
             /\ Pr!OfferFollowsRisk /\ Ra!WishesFollowUrgency /\ Ra!AdviceFitsUse
             /\ In!OldDaysOnly)
<1>1. AnswerTypes => Ra!WishesFollowUrgency /\ Ra!AdviceFitsUse /\ In!OldDaysOnly
  BY WishesGrow, AdviceGoesWithUse, LaterDaysUnread
<1> QED
  BY <1>1, PricesFollowReasons, AnswerInvariance, PTL

\* A behaviour of the whole is one of every part.
LEMMA PartsBehave ==
  Spec => /\ Br!Spec /\ St!Spec /\ Ai!Spec /\ Ca!Spec /\ Se!Spec /\ Ch!Spec /\ Nf!Spec
          /\ Fe!Spec
<1>1. Init => /\ Br!Init /\ St!Init /\ Ai!Init /\ Ca!Init /\ Se!Init /\ Ch!Init /\ Nf!Init
              /\ Fe!Init
  BY DEF Init
<1>2. [Next]_vars => [Br!Next]_(Br!bridgeVars)
  BY DEF Next, vars, market, bridge, Br!bridgeVars, Br!rows, Br!history
<1>3. [Next]_vars => [St!Next]_(St!settleVars)
  BY DEF Next, vars, market, settlement, St!settleVars
<1>4. [Next]_vars => [Ai!Next]_(Ai!aiVars)
  BY DEF Next, vars, market, participant, Ai!aiVars, Ai!orders, Ai!breaker
<1>5. [Next]_vars => [Ca!Next]_(Ca!cacheVars)
  BY DEF Next, vars, market, cache, Ca!cacheVars
<1>6. [Next]_vars => [Se!Next]_(Se!indexVars)
  BY DEF Next, vars, services, search, Se!indexVars
<1>7. [Next]_vars => [Ch!Next]_(Ch!chatVars)
  BY DEF Next, vars, services, chat, Ch!chatVars, Ch!letters
<1>8. [Next]_vars => [Nf!Next]_(Nf!inferenceVars)
  BY DEF Next, vars, services, inferences, Nf!inferenceVars
<1>9. [Next]_vars => [Fe!Next]_(Fe!vars)
  BY DEF Next, vars, services, store, Fe!vars
<1> QED
  BY <1>1, <1>2, <1>3, <1>4, <1>5, <1>6, <1>7, <1>8, <1>9, PTL
     DEF Spec, Br!Spec, St!Spec, Ai!Spec, Ca!Spec, Se!Spec, Ch!Spec, Nf!Spec, Fe!Spec

PartOK == part \in {"bridge", "settlement", "participant", "cache",
                    "answers", "search", "chat", "inferences", "features"}

\* A behaviour follows one part.
LEMMA PartStays == Spec => []PartOK
<1>1. Init => PartOK
  BY DEF Init, PartOK
<1>2. PartOK /\ [Next]_vars => PartOK'
  BY DEF PartOK, Next, vars
<1> QED
  BY <1>1, <1>2, PTL DEF Spec

\* Every value keeps its type: rows, copies, requests and positions of the calls.
THEOREM OperationTypes == Spec => []TypeOK
<1>1. BridgeInv => Br!TypeOK
  BY DEF BridgeInv
<1>2. SettleInv => St!TypeOK
  BY DEF SettleInv, RecordShape, HookShape, St!TypeOK
<1>3. AiInv => Ai!TypeOK
  BY DEF AiInv
<1>4. CacheInv => Ca!TypeOK
  BY DEF CacheInv
<1>5. SearchInv => Se!TypeOK
  BY DEF SearchInv
<1>6. ChatInv => Ch!TypeOK
  BY DEF ChatInv
<1>7. InferenceInv => Nf!TypeOK
  BY OperationsAssumption, InferenceFacts
<1>8. StoreInv => Fe!TypeOK
  BY OperationsAssumption, StoreInvImplies
<1>9. /\ Br!TypeOK /\ St!TypeOK /\ Ai!TypeOK /\ Ca!TypeOK /\ Se!TypeOK /\ Ch!TypeOK /\ Nf!TypeOK
      /\ Fe!TypeOK /\ AnswerTypes /\ PartOK
      => TypeOK
  <2> SUFFICES ASSUME Br!TypeOK, St!TypeOK, Ai!TypeOK, Ca!TypeOK, Se!TypeOK, Ch!TypeOK,
                      Nf!TypeOK, Fe!TypeOK, AnswerTypes, PartOK
               PROVE  TypeOK
    OBVIOUS
  <2>1. CASE part = "bridge"
    BY <2>1 DEF TypeOK
  <2>2. CASE part = "settlement"
    BY <2>2 DEF TypeOK
  <2>3. CASE part = "participant"
    BY <2>3 DEF TypeOK
  <2>4. CASE part = "cache"
    BY <2>4 DEF TypeOK
  <2>5. CASE part = "answers"
    BY <2>5 DEF TypeOK, AnswerTypes
  <2>6. CASE part = "search"
    BY <2>6 DEF TypeOK
  <2>7. CASE part = "chat"
    BY <2>7 DEF TypeOK
  <2>8. CASE part = "inferences"
    BY <2>8 DEF TypeOK
  <2>9. CASE part = "features"
    BY <2>9 DEF TypeOK
  <2> QED
    BY <2>1, <2>2, <2>3, <2>4, <2>5, <2>6, <2>7, <2>8, <2>9 DEF PartOK
<1> QED
  BY <1>1, <1>2, <1>3, <1>4, <1>5, <1>6, <1>7, <1>8, <1>9, PartsBehave, PartStays,
     AnswerInvariance, OperationsAssumption, BridgeInvariance, SettleInvariance, AiInvariance,
     CacheInvariance, SearchInvariance, ChatInvariance, InferenceInvariance, StoreHolds, PTL

\* The platform's cash at every facilitator is explained by its bookings, and every open
\* bridge that no rebalancing drained keeps its reserve.
THEOREM CashIsKept == Spec => []CashKept
<1>1. Br!CashExplained /\ Br!BridgeKeepsReserve => CashKept
  BY DEF CashKept
<1> QED
  BY <1>1, PartsBehave, OperationsAssumption, BridgeCashBooked, BridgeReserveKept, PTL

\* Automatic work is done once: netting, standing orders, events, inferences and pipelines.
THEOREM WorkDoneOnce == Spec => []DoneOnce
<1>1. /\ Br!NoDuplicateTasks /\ Br!NoLateTransfer
      /\ Ai!OneStandingOrder /\ Ai!StandingOrdersRestored /\ Ai!BreakerHolds
      /\ Ch!RateHolds /\ Nf!CountExplained /\ Nf!RowsExplained /\ Nf!FlowClaims
      /\ Fe!RunningIsRun /\ Fe!ReportedIsLoaded /\ Fe!OneRowPerFeature
      => DoneOnce
  BY DEF DoneOnce
<1> QED
  BY <1>1, PartsBehave, OperationsAssumption, OneOpenTask, ClosedTaskStays, StandingOnce,
     StandingRestored, BreakerHeld, RateHeld, InferencesCounted, InferenceRows,
     FlowKeepsItsClaim, FeaturesAreTold, PTL

\* What a webhook, the caches, a search, the chat's presence and its errors tell is true.
THEOREM AnswersAreTrue == Spec => []AnswersTrue
<1>1. /\ St!SuccessMeansCompleted /\ Ca!ShownIsAnnounced /\ Se!FoundIsAsked /\ Se!IndexExplained
      /\ Ch!PresenceIsTrue /\ Ch!ErrorsSayNothing /\ Fe!CacheTellsStore
      => AnswersTrue
  BY DEF AnswersTrue
<1> QED
  BY <1>1, PartsBehave, OperationsAssumption, SuccessCompletes, ShownAnnounced, SearchFinds,
     IndexOfTheRemembered, PresentIsConnected, SenderToldError, FeaturesAreTold, PTL

\* The safe half of RecordsSettle: what is confirmed, deleted, emptied out or ended stays so.
THEOREM RecordsStay ==
  Spec => St!CompletedIsFinal /\ Ch!LettersKept /\ Se!EmptiedStaysOut /\ Nf!RowsMoveOn
<1> QED
  BY PartsBehave, OperationsAssumption, ConfirmedIsFinal, LettersStay, EmptiedForEver,
     InferencesMoveOn, PTL
=============================================================================
