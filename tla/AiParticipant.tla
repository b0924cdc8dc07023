----------------------------- MODULE AiParticipant -----------------------------
(***************************************************************************)
(* The AI participant (ai-participant.service.ts): every five seconds a    *)
(* tick restores missing last-resort orders and then manages the           *)
(* inventory, behind a circuit breaker.  A tick that takes longer than     *)
(* five seconds overlaps the next one.                                     *)
(*                                                                         *)
(* An order is known by its slot (side and venue) and its age; the order   *)
(* book itself is OrderBook.  Of the book the module keeps what it does to *)
(* the participant's orders: it fills them, and its bridge, which writes   *)
(* the status of the order it has read some awaits before, may open a      *)
(* closed one again.                                                       *)
(***************************************************************************)
EXTENDS Integers, FiniteSetsExt

CONSTANTS Ticks, Venues, Anywhere,
          PerMinute,   \* MAX_ORDERS_PER_MINUTE
          MaxOpen,     \* maxOpenOrders
          MaxPlaced,   \* bound: orders placed in all
          MaxRevivals  \* bound: closed orders of a slot that the bridge opens again

AiAssumption ==
    /\ Ticks \subseteq Nat /\ Anywhere \notin Venues
    /\ PerMinute \in Nat \ {0} /\ MaxOpen \in Nat /\ MaxPlaced \in Nat
    /\ MaxRevivals \in Nat

Sides == {"buy", "sell"}
Slots == Sides \X (Venues \cup {Anywhere})
At(v) == Sides \X v

VARIABLES
    fresh,      \* open orders in each slot
    aged,       \* open orders older than orderTtlSeconds
    shut,       \* closed orders, not aged
    shutAged,   \* closed orders, aged
    revived,    \* times the bridge opened a closed order of a slot again (history)
    tick,       \* where each tick is
    had,        \* the slots with an open order when it looked
    missing,    \* the slots it still has to fill, or to clear of aged orders
    vouched,    \* the venues it answers for (history)
    count,      \* ordersPlacedThisMinute
    tripped,    \* circuitBreakerOpen
    due,        \* circuitBreakerResetAt has passed
    placed,     \* inventory orders since the last reset (history)
    total,      \* orders placed
    lost,       \* slots that lost an order, or got none, since each tick looked (history)
    overlapped  \* two ticks have run at the same time (history)

orders  == <<fresh, aged, shut, shutAged, revived, total>>
breaker == <<count, tripped, due, placed>>
aiVars  == <<orders, tick, had, missing, vouched, breaker, lost, overlapped>>

Zero == [s \in Slots |-> 0]
None == [t \in Ticks |-> {}]

Init ==
    /\ fresh = Zero /\ aged = Zero /\ shut = Zero /\ shutAged = Zero /\ revived = Zero
    /\ tick = [t \in Ticks |-> "idle"]
    /\ had = None /\ missing = None /\ lost = None /\ vouched = None
    /\ count = 0 /\ placed = 0 /\ total = 0
    /\ tripped = FALSE /\ due = TRUE /\ overlapped = FALSE

Go(t, s)  == tick' = [tick EXCEPT ![t] = s]
Open      == {s \in Slots : fresh[s] + aged[s] > 0}
OpenCount == MapThenSumSet(LAMBDA s : fresh[s] + aged[s], Slots)
Busy      == {t \in Ticks : tick[t] \notin {"idle", "done"}}
Lose(s)   == lost' = [t \in Ticks |-> IF tick[t] \in {"standing", "bridging", "inventory"} THEN lost[t] \cup {s} ELSE lost[t]]
Placed(s) == /\ fresh' = [fresh EXCEPT ![s] = @ + 1]
             /\ total' = total + 1

-----------------------------------------------------------------------------
(* Phase 1: _ensureStandingOrders, whatever the breaker says.               *)

\* A tick does not start while the participant is disabled; ticks start in turn.
Start(t) ==
    /\ tick[t] = "idle" /\ \A u \in Ticks : u < t => tick[u] # "idle"
    /\ lost' = [lost EXCEPT ![t] = {}]
    /\ overlapped' = (overlapped \/ Busy # {})
    /\ UNCHANGED <<orders, vouched, breaker>>

Look(t) ==
    /\ Start(t) /\ Go(t, "standing")
    /\ had' = [had EXCEPT ![t] = Open]
    /\ missing' = [missing EXCEPT ![t] = At({Anywhere}) \ Open]

\* What fails in phase 1 is logged, and phase 2 begins.
LookFails(t) == Start(t) /\ Go(t, "bridging") /\ UNCHANGED <<had, missing>>

\* Venues of which the tick has begun to place the orders that were missing.
Begun(t) == {s[2] : s \in Slots \ (had[t] \cup missing[t])}

\* Venue by venue, the buy order first.  A refused order is logged; the next tick
\* tries again.
PlaceStandingOrder(t) ==
    /\ tick[t] \in {"standing", "bridging"}
    /\ \E s \in missing[t] :
         /\ \A o \in missing[t] : /\ o[2] = s[2] => s[1] = "buy" \/ o[1] = "sell"
                                  /\ o[2] \in Begun(t) => o[2] = s[2]
         /\ missing' = [missing EXCEPT ![t] = @ \ {s}]
         /\ \/ total < MaxPlaced /\ Placed(s) /\ UNCHANGED lost
            \/ Lose(s) /\ UNCHANGED <<fresh, total>>
    /\ UNCHANGED <<aged, shut, shutAged, revived, tick, had, vouched, breaker, overlapped>>

\* Trades and fundings suspend bridges and open them (BridgeCash), so that any of
\* them may be active when the tick reads; a reading that fails finds none.
ReadBridges(t) ==
    /\ tick[t] = "standing" /\ missing[t] = {}
    /\ \E v \in SUBSET Venues :
         /\ missing' = [missing EXCEPT ![t] = At(v) \ had[t]]
         /\ vouched' = [vouched EXCEPT ![t] = {Anywhere} \cup v]
    /\ Go(t, "bridging")
    /\ UNCHANGED <<orders, had, breaker, lost, overlapped>>

-----------------------------------------------------------------------------
(* Phase 2: inventory, behind the breaker.                                  *)

\* _resetCircuitBreakerIfNeeded, then the check.
Gate(t) ==
    /\ tick[t] = "bridging" /\ missing[t] = {}
    /\ IF due
       THEN tripped' = FALSE /\ count' = 0 /\ placed' = 0 /\ due' = FALSE
       ELSE UNCHANGED breaker
    /\ Go(t, IF tripped' THEN "done" ELSE "inventory")
    /\ had' = [had EXCEPT ![t] = {}]
    /\ UNCHANGED <<orders, missing, vouched, lost, overlapped>>

\* Aged orders of every kind are listed; a failed reading ends the tick.
ReadInventory(t) ==
    /\ tick[t] = "inventory"
    /\ \/ /\ missing' = [missing EXCEPT ![t] = {s \in Slots : aged[s] > 0}]
          /\ Go(t, "cancel")
       \/ Go(t, "done") /\ UNCHANGED missing
    /\ lost' = [lost EXCEPT ![t] = {}] /\ vouched' = [vouched EXCEPT ![t] = {}]
    /\ UNCHANGED <<orders, had, breaker, overlapped>>

\* The bridge reads counter orders of venues only: no other one opens again.
Shut(s, table) == IF s \in At(Venues) THEN [table EXCEPT ![s] = @ + 1] ELSE table

\* One aged order after the other, in no order; an order filled in the meantime is
\* not cancelled, and a cancellation that fails is logged.
CancelStale(t) ==
    /\ tick[t] = "cancel"
    /\ \E s \in missing[t] :
         \/ /\ aged[s] > 0
            /\ aged' = [aged EXCEPT ![s] = @ - 1] /\ shutAged' = Shut(s, shutAged)
            /\ Lose(s) /\ UNCHANGED missing
         \/ /\ missing' = [missing EXCEPT ![t] = @ \ {s}]
            /\ UNCHANGED <<aged, shutAged, lost>>
    /\ UNCHANGED <<fresh, shut, revived, total, tick, had, vouched, breaker, overlapped>>

\* The balance may be low, high or fine.
Recount(t) ==
    /\ tick[t] = "cancel" /\ missing[t] = {}
    /\ \/ OpenCount < MaxOpen /\ Go(t, "place")
       \/ Go(t, "done")
    /\ UNCHANGED <<orders, had, missing, vouched, breaker, lost, overlapped>>

Trips == count + 1 >= PerMinute

\* The breaker counts first; the order that trips it, and any later one of a tick
\* that had passed the gate, is dropped.
PlaceOrder(t) ==
    /\ tick[t] = "place" /\ total < MaxPlaced
    /\ count' = count + 1
    /\ tripped' = (tripped \/ Trips)
    /\ due' = (due /\ ~Trips)
    /\ \/ ~tripped' /\ placed' = placed + 1 /\ \E side \in Sides : Placed(<<side, Anywhere>>)
       \/ UNCHANGED <<fresh, total, placed>>
    /\ Go(t, "done")
    /\ UNCHANGED <<aged, shut, shutAged, revived, had, missing, vouched, lost, overlapped>>

-----------------------------------------------------------------------------
(* The rest of the market, and time.                                        *)

Fill(s) ==
    /\ \/ /\ fresh[s] > 0 /\ fresh' = [fresh EXCEPT ![s] = @ - 1] /\ shut' = Shut(s, shut)
          /\ UNCHANGED <<aged, shutAged>>
       \/ /\ aged[s] > 0 /\ aged' = [aged EXCEPT ![s] = @ - 1] /\ shutAged' = Shut(s, shutAged)
          /\ UNCHANGED <<fresh, shut>>
    /\ Lose(s)
    /\ UNCHANGED <<revived, total, tick, had, missing, vouched, breaker, overlapped>>

\* The bridge picks an open order, moves cash, and sets the order's status from its
\* copy: one that was filled or cancelled meanwhile is OPEN again.
Revive(s) ==
    /\ revived[s] < MaxRevivals /\ revived' = [revived EXCEPT ![s] = @ + 1]
    /\ \/ /\ shut[s] > 0 /\ shut' = [shut EXCEPT ![s] = @ - 1]
          /\ fresh' = [fresh EXCEPT ![s] = @ + 1] /\ UNCHANGED <<aged, shutAged>>
       \/ /\ shutAged[s] > 0 /\ shutAged' = [shutAged EXCEPT ![s] = @ - 1]
          /\ aged' = [aged EXCEPT ![s] = @ + 1] /\ UNCHANGED <<fresh, shut>>
    /\ UNCHANGED <<total, tick, had, missing, vouched, breaker, lost, overlapped>>

GrowAged ==
    /\ \E s \in Slots : fresh[s] + shut[s] > 0
    /\ aged' = [s \in Slots |-> aged[s] + fresh[s]]
    /\ shutAged' = [s \in Slots |-> shutAged[s] + shut[s]]
    /\ fresh' = Zero /\ shut' = Zero
    /\ UNCHANGED <<revived, total, tick, had, missing, vouched, breaker, lost, overlapped>>

MinutePasses ==
    /\ ~due /\ due' = TRUE
    /\ UNCHANGED <<orders, tick, had, missing, vouched, count, tripped, placed,
                   lost, overlapped>>

Run(t) ==
    \/ Look(t) \/ LookFails(t) \/ PlaceStandingOrder(t) \/ ReadBridges(t)
    \/ Gate(t) \/ ReadInventory(t) \/ CancelStale(t) \/ Recount(t) \/ PlaceOrder(t)

Next ==
    \/ \E t \in Ticks : Run(t)
    \/ \E s \in Slots : Fill(s)
    \/ \E s \in At(Venues) : Revive(s)
    \/ GrowAged
    \/ MinutePasses

Spec == Init /\ [][Next]_aiVars

-----------------------------------------------------------------------------
(* Properties.                                                              *)

Counts == [Slots -> 0..MaxPlaced]

TypeOK ==
    /\ tripped \in BOOLEAN /\ due \in BOOLEAN /\ overlapped \in BOOLEAN
    /\ fresh \in Counts /\ aged \in Counts /\ shut \in Counts /\ shutAged \in Counts
    /\ revived \in [Slots -> 0..MaxRevivals]
    /\ tick \in [Ticks -> {"idle", "standing", "bridging", "inventory", "cancel", "place", "done"}]
    /\ had \in [Ticks -> SUBSET Slots] /\ missing \in [Ticks -> SUBSET Slots]
    /\ lost \in [Ticks -> SUBSET Slots] /\ vouched \in [Ticks -> SUBSET (Venues \cup {Anywhere})]
    /\ count \in Nat /\ placed \in 0..MaxPlaced /\ total \in 0..MaxPlaced

\* Fewer than MAX_ORDERS_PER_MINUTE inventory orders are placed between two
\* resets of the breaker, although ticks that passed the gate go on after it
\* has tripped.
BreakerHolds == placed < PerMinute

\* A venue has at most one standing order on each side, and one more for each that
\* the bridge opened again after it was closed, unless two ticks have overlapped: a
\* standing order is not repeated by the next tick.
OneStandingOrder ==
    ~overlapped => \A s \in At(Venues) : fresh[s] + aged[s] <= 1 + revived[s]

\* When phase 1 ends, every general slot and every slot of a bridge that it read as
\* active has an order, unless the book took it (or refused it) since the tick looked.
\* A tick that could not read the orders answers for nothing, and one that could not
\* read the bridges for the general slots.
StandingOrdersRestored ==
    \A t \in Ticks : tick[t] = "inventory" => At(vouched[t]) \subseteq Open \cup lost[t]
=============================================================================
