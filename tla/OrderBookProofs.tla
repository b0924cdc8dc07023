-------------------------- MODULE OrderBookProofs ---------------------------
(***************************************************************************)
(* Proofs about OrderBook for any number of calls, users and orders.  The  *)
(* first part explains every unit of QP, the bridge included; the second   *)
(* says that the rows of the book agree with the trades.                   *)
(***************************************************************************)
EXTENDS OrderBook, SumLemmas

Requests ==
    {[user |-> AI, side |-> "buy", qty |-> 1, fac |-> NoFac]} \cup UNION {Menu[t] : t \in Slots}

Active(t) == pc[t] \in {"select", "scan", "legs", "commit"}

\* A row exists once its call has committed; an open order has room left.
RowShape ==
    \A c \in Slots :
        /\ status[c] = "none" <=> ~Committed(c)
        /\ ~Committed(c) => filled[c] = 0
        /\ status[c] = "open" => filled[c] < req[c].qty

\* A call never takes more than it asked for, and looks for more only while
\* something is missing.
TakenShape(t) ==
    /\ Taken(t) <= req[t].qty
    /\ pc[t] \in {"select", "scan"} => Taken(t) < req[t].qty
    /\ pc[t] \in {"bridge", "bridging"} => Taken(t) = 0
    /\ pc[t] \in {"unborn", "admitted", "failed"} => \A c \in Slots : fills[t][c] = 0

\* What a running call trades with is a committed order whose row it locks, and
\* that the trade leaves full, unless the trade completes the call's own order.
FillShape(t) ==
    \A c \in Slots : fills[t][c] > 0 =>
        /\ Committed(c)
        /\ Active(t) => lock[c] = t
        /\ pc[t] \in {"select", "scan"} \/ (pc[t] = "legs" /\ Taken(t) # req[t].qty) =>
             filled[c] + fills[t][c] >= req[c].qty

\* The counter order of a trade or bridge in progress is a committed order.
CurShape(t) ==
    /\ pc[t] \in {"legs", "bridging", "mark"} \/ bridged[t] > 0 =>
         cur[t] \in Slots /\ Committed(cur[t])
    /\ bridged[t] > 0 => pc[t] \in {"bridging", "mark", "done"}
    /\ pc[t] = "legs" => fills[t][cur[t]] > 0 /\ leg[t] \in 1..3

\* A fee is due only for a trade.
FeeShape(t) ==
    pc[t] \notin {"mark", "done", "failed"} /\ Taken(t) = 0 => due[t] = 0 /\ paid[t] = 0

\* What a trade of quantity q between taker and maker does to the balance of u.
Signed(side, q, taker, maker, u) ==
    (IF u = taker THEN (IF side = "buy" THEN q ELSE -q) ELSE 0) +
    (IF u = maker THEN (IF side = "buy" THEN -q ELSE q) ELSE 0)

PairEffect(t, c, u) == Signed(req[t].side, fills[t][c], req[t].user, req[c].user, u)
DirectEffect(t, u) == SumFunctionOnSet([c \in Slots |-> PairEffect(t, c, u)], Slots)

\* The legs a call has moved are those of its trades so far.
MovedShape(t) ==
    \A u \in Users :
        /\ pc[t] \in {"unborn", "admitted", "select", "scan", "commit"} =>
             moved[t][u] = DirectEffect(t, u)
        /\ pc[t] = "legs" =>
             moved[t][u] = DirectEffect(t, u) - PairEffect(t, cur[t], u)
                           + (IF leg[t] > 1 /\ u = Buyer(t) THEN fills[t][cur[t]] ELSE 0)
                           - (IF leg[t] > 2 /\ u = Seller(t) THEN fills[t][cur[t]] ELSE 0)
        /\ pc[t] \in {"bridge", "mark"} => moved[t][u] = 0
        /\ pc[t] = "bridging" =>
             moved[t][u] = (IF leg[t] > 1 /\ u = Buyer(t) THEN bridged[t] ELSE 0)
                           - (IF leg[t] = 3 /\ u = AI THEN bridged[t] ELSE 0)
                           - (IF leg[t] > 4 /\ u = Seller(t) THEN bridged[t] ELSE 0)

\* The QP a call has credited and not yet debited.
Ahead(t) ==
    IF pc[t] = "legs" /\ leg[t] = 2 THEN fills[t][cur[t]]
    ELSE IF pc[t] = "bridging" /\ leg[t] \in {2, 4} THEN bridged[t] ELSE 0

Surplus(t) == SumFunctionOnSet(moved[t], Users)

SurplusShape(t) ==
    /\ Surplus(t) >= 0
    /\ pc[t] \notin {"done", "failed"} => Surplus(t) = Ahead(t)

SlotShape(t) ==
    TakenShape(t) /\ FillShape(t) /\ CurShape(t) /\ FeeShape(t) /\ MovedShape(t) /\ SurplusShape(t)

\* All that is put down to call t in the balance of u.
Total(t, u) == TradeEffect(t, u) + FeeEffect(t, u) + moved[t][u]

BalancesExplained ==
    \A u \in Users :
        bal[u] = Genesis[u] + SumFunctionOnSet([t \in Slots |-> Total(t, u)], Slots)

IInv ==
    /\ TypeOK
    /\ req \in [Slots -> Requests]
    /\ RowShape
    /\ \A t \in Slots : SlotShape(t)
    /\ BalancesExplained

-----------------------------------------------------------------------------
\* There are finitely many calls.
LEMMA SlotsFinite == IsFiniteSet(Slots)
BY FS_Interval, OrderBookAssumption DEF Slots

\* Every request of the menu, and the one an idle slot holds, is an order of a user.
LEMMA RequestTypes ==
    \A r \in Requests : r.user \in Users /\ r.side \in Sides /\ r.qty \in Nat \ {0}
BY OrderBookAssumption DEF Requests, Sides

\* The same of the requests the slots hold.
LEMMA RequestsTyped ==
    ASSUME req \in [Slots -> Requests]
    PROVE  \A t \in Slots : /\ req[t].user \in Users
                            /\ req[t].side \in Sides
                            /\ req[t].qty \in Nat \ {0}
BY RequestTypes

\* What a call has taken is a natural number.
LEMMA TakenNat ==
    ASSUME fills \in [Slots -> [Slots -> Nat]], NEW t \in Slots
    PROVE  Taken(t) \in Nat
BY SlotsFinite, SumNat DEF Taken

\* Effects on a balance are integers.
LEMMA PairEffectInt ==
    ASSUME fills \in [Slots -> [Slots -> Nat]], NEW t \in Slots, NEW c \in Slots, NEW u
    PROVE  PairEffect(t, c, u) \in Int
BY DEF PairEffect, Signed

\* So are their sums over the book.
LEMMA DirectEffectInt ==
    ASSUME fills \in [Slots -> [Slots -> Nat]], NEW t \in Slots, NEW u
    PROVE  DirectEffect(t, u) \in Int
BY SlotsFinite, PairEffectInt, SumInt DEF DirectEffect

\* The trades of a call, those in the book and the one over the bridge.
LEMMA TradeEffectIs ==
    ASSUME NEW t, NEW u
    PROVE  TradeEffect(t, u)
             = (IF Committed(t) THEN DirectEffect(t, u) ELSE 0)
               + (IF BridgeCommitted(t)
                  THEN Signed(req[t].side, bridged[t], req[t].user, req[cur[t]].user, u)
                  ELSE 0)
BY DEF TradeEffect, DirectEffect, PairEffect, Signed

\* The same of the next state.
LEMMA TradeEffectNext ==
    ASSUME NEW CONSTANT t, NEW CONSTANT u
    PROVE  TradeEffect(t, u)'
             = (IF Committed(t)' THEN DirectEffect(t, u)' ELSE 0)
               + (IF BridgeCommitted(t)'
                  THEN Signed(req'[t].side, bridged'[t], req'[t].user, req'[cur'[t]].user, u)
                  ELSE 0)
BY DEF TradeEffect, DirectEffect, PairEffect, Signed

\* The inductive invariant explains every unit: each finished call has moved
\* exactly its trades and its fee, and a rolled back one what it moved before.
LEMMA Explained == IInv => EveryUnitExplained
<1> SUFFICES ASSUME IInv PROVE EveryUnitExplained
    OBVIOUS
<1>1. \A t \in Slots : SumFunctionOnSet(moved[t], Users) >= 0
    BY DEF IInv, SlotShape, SurplusShape, Surplus
<1>2. ASSUME NEW u \in Users
      PROVE bal[u] = Genesis[u] + SumFunctionOnSet(
                     [t \in Slots |-> TradeEffect(t, u) + FeeEffect(t, u) + moved[t][u]],
                     Slots)
    BY DEF IInv, BalancesExplained, Total
<1> QED
    BY <1>1, <1>2 DEF EveryUnitExplained
-----------------------------------------------------------------------------
(* A step of one call and the other calls.                                  *)

\* What a step of call t may not touch.
Frame(t) ==
    /\ \A o \in Slots \ {t} :
         /\ pc'[o] = pc[o] /\ req'[o] = req[o] /\ fills'[o] = fills[o]
         /\ cur'[o] = cur[o] /\ leg'[o] = leg[o] /\ bridged'[o] = bridged[o]
         /\ due'[o] = due[o] /\ paid'[o] = paid[o] /\ moved'[o] = moved[o]
    /\ Committed(t) => Committed(t)' /\ req'[t] = req[t]
    /\ \A c \in Slots : Committed(c) /\ lock[c] \notin {0, t} =>
         lock'[c] = lock[c] /\ filled'[c] = filled[c]

\* A committed order stays committed and keeps what it asked for.
LEMMA CommittedKept ==
    ASSUME NEW t \in Slots, Frame(t)
    PROVE  \A c \in Slots : Committed(c) => Committed(c)' /\ req'[c] = req[c]
BY DEF Frame, Committed

\* What a call has taken changes with its fills only.
LEMMA TakenKept ==
    ASSUME NEW o \in Slots, fills'[o] = fills[o]
    PROVE  Taken(o)' = Taken(o)
BY DEF Taken

\* A step of one call leaves the effects of another alone.
LEMMA PairEffectKept ==
    ASSUME IInv, NEW t \in Slots, Frame(t), NEW o \in Slots \ {t}, NEW u
    PROVE  \A c \in Slots : PairEffect(o, c, u)' = PairEffect(o, c, u)
<1> SUFFICES ASSUME NEW c \in Slots
             PROVE  PairEffect(o, c, u)' = PairEffect(o, c, u)
    OBVIOUS
<1>1. fills'[o] = fills[o] /\ req'[o] = req[o]
    BY DEF Frame
<1>2. CASE fills[o][c] > 0
  <2>1. req'[c] = req[c]
      BY <1>2, CommittedKept DEF IInv, SlotShape, FillShape
  <2> QED
      BY <1>1, <2>1 DEF PairEffect
<1>3. CASE fills[o][c] = 0
    BY <1>1, <1>3 DEF PairEffect, Signed
<1> QED
    BY <1>2, <1>3 DEF IInv, TypeOK

\* So it does their sums.
LEMMA DirectEffectKept ==
    ASSUME IInv, NEW t \in Slots, Frame(t), NEW o \in Slots \ {t}, NEW u
    PROVE  DirectEffect(o, u)' = DirectEffect(o, u)
<1>1. \A c \in Slots : [x \in Slots |-> PairEffect(o, x, u)'][c] = [x \in Slots |-> PairEffect(o, x, u)][c]
    BY PairEffectKept
<1>2. SumFunctionOnSet([x \in Slots |-> PairEffect(o, x, u)'], Slots)
        = SumFunctionOnSet([x \in Slots |-> PairEffect(o, x, u)], Slots)
    BY <1>1, SlotsFinite, SumEqual
<1> QED
    BY <1>2 DEF DirectEffect

\* A step of one call preserves what the invariant says of another.
LEMMA OthersShape ==
    ASSUME IInv, TypeOK', NEW t \in Slots, Frame(t), NEW o \in Slots \ {t}
    PROVE  SlotShape(o)'
<1>1. /\ pc'[o] = pc[o] /\ req'[o] = req[o] /\ fills'[o] = fills[o]
      /\ cur'[o] = cur[o] /\ leg'[o] = leg[o] /\ bridged'[o] = bridged[o]
      /\ due'[o] = due[o] /\ paid'[o] = paid[o] /\ moved'[o] = moved[o]
    BY DEF Frame
<1>2. SlotShape(o)
    BY DEF IInv
<1>3. Taken(o)' = Taken(o)
    BY <1>1, TakenKept
<1>4. TakenShape(o)'
    BY <1>1, <1>2, <1>3 DEF SlotShape, TakenShape
<1>5. FillShape(o)'
  <2> SUFFICES ASSUME NEW c \in Slots, fills[o][c] > 0
               PROVE  /\ Committed(c)'
                      /\ Active(o)' => lock'[c] = o
                      /\ pc'[o] \in {"select", "scan"} \/ (pc'[o] = "legs" /\ Taken(o)' # req'[o].qty) =>
                           filled'[c] + fills'[o][c] >= req'[c].qty
      BY <1>1 DEF FillShape
  <2>1. Committed(c)' /\ req'[c] = req[c]
      BY <1>2, CommittedKept DEF SlotShape, FillShape
  <2>2. Active(o) => lock'[c] = o /\ filled'[c] = filled[c]
    <3>1. Committed(c) /\ (Active(o) => lock[c] = o)
        BY <1>2 DEF SlotShape, FillShape
    <3>2. o \notin {0, t}
        BY DEF Slots
    <3> QED
        BY <3>1, <3>2 DEF Frame
  <2> QED
      BY <1>1, <1>2, <1>3, <2>1, <2>2 DEF SlotShape, FillShape, Active
<1>6. CurShape(o)'
    BY <1>1, <1>2, CommittedKept DEF SlotShape, CurShape
<1>7. FeeShape(o)'
    BY <1>1, <1>2, <1>3 DEF SlotShape, FeeShape
<1>8. MovedShape(o)'
  <2> SUFFICES ASSUME NEW u \in Users
               PROVE
        /\ pc'[o] \in {"unborn", "admitted", "select", "scan", "commit"} =>
             moved'[o][u] = DirectEffect(o, u)'
        /\ pc'[o] = "legs" =>
             moved'[o][u] = DirectEffect(o, u)' - PairEffect(o, cur[o], u)'
                           + (IF leg'[o] > 1 /\ u = Buyer(o)' THEN fills'[o][cur'[o]] ELSE 0)
                           - (IF leg'[o] > 2 /\ u = Seller(o)' THEN fills'[o][cur'[o]] ELSE 0)
        /\ pc'[o] \in {"bridge", "mark"} => moved'[o][u] = 0
        /\ pc'[o] = "bridging" =>
             moved'[o][u] = (IF leg'[o] > 1 /\ u = Buyer(o)' THEN bridged'[o] ELSE 0)
                           - (IF leg'[o] = 3 /\ u = AI THEN bridged'[o] ELSE 0)
                           - (IF leg'[o] > 4 /\ u = Seller(o)' THEN bridged'[o] ELSE 0)
      BY <1>1 DEF MovedShape
  <2>1. DirectEffect(o, u)' = DirectEffect(o, u)
      BY DirectEffectKept
  <2>2. pc[o] \in {"legs", "bridging"} =>
          cur[o] \in Slots /\ Buyer(o)' = Buyer(o) /\ Seller(o)' = Seller(o)
      BY <1>1, <1>2, CommittedKept DEF SlotShape, CurShape, Buyer, Seller
  <2>3. pc[o] = "legs" => PairEffect(o, cur[o], u)' = PairEffect(o, cur[o], u)
      BY <1>1, <2>2, PairEffectKept
  <2> QED
      BY <1>1, <1>2, <2>1, <2>2, <2>3 DEF SlotShape, MovedShape
<1>9. SurplusShape(o)'
    BY <1>1, <1>2 DEF SlotShape, SurplusShape, Surplus, Ahead
<1> QED
    BY <1>4, <1>5, <1>6, <1>7, <1>8, <1>9 DEF SlotShape

\* A step of one call puts nothing down to another.
LEMMA OthersTotal ==
    ASSUME IInv, NEW t \in Slots, Frame(t), NEW o \in Slots \ {t}, NEW u
    PROVE  Total(o, u)' = Total(o, u)
<1>1. /\ pc'[o] = pc[o] /\ req'[o] = req[o] /\ fills'[o] = fills[o]
      /\ cur'[o] = cur[o] /\ leg'[o] = leg[o] /\ bridged'[o] = bridged[o]
      /\ due'[o] = due[o] /\ paid'[o] = paid[o] /\ moved'[o] = moved[o]
    BY DEF Frame
<1>2. DirectEffect(o, u)' = DirectEffect(o, u)
    BY DirectEffectKept
<1>3. bridged[o] > 0 => req'[cur[o]] = req[cur[o]]
    BY CommittedKept DEF IInv, SlotShape, CurShape
<1>4. TradeEffect(o, u)' = TradeEffect(o, u)
    BY <1>1, <1>2, <1>3, TradeEffectIs, TradeEffectNext DEF Committed, BridgeCommitted
<1>5. FeeEffect(o, u)' = FeeEffect(o, u)
    BY <1>1, <1>3 DEF FeeEffect, FeePayer, Buyer
<1> QED
    BY <1>1, <1>4, <1>5 DEF Total

\* What is put down to a call is an integer.
LEMMA TotalInt == TypeOK => \A t \in Slots, u \in Users : Total(t, u) \in Int
<1> SUFFICES ASSUME TypeOK, NEW t \in Slots, NEW u \in Users
             PROVE  Total(t, u) \in Int
    OBVIOUS
<1>1. DirectEffect(t, u) \in Int
    BY DirectEffectInt DEF TypeOK
<1>2. bridged[t] \in Nat /\ moved[t][u] \in Int
    BY DEF TypeOK
<1>3. TradeEffect(t, u) \in Int
    BY <1>1, <1>2, TradeEffectIs DEF Signed
<1>4. Fee * paid[t] \in Int /\ -Fee * paid[t] \in Int
    BY OrderBookAssumption DEF TypeOK
<1>5. FeeEffect(t, u) \in Int
    BY <1>4 DEF FeeEffect
<1> QED
    BY <1>2, <1>3, <1>5 DEF Total

\* The same of the next state.
LEMMA TotalIntNext == TypeOK' => \A t \in Slots, u \in Users : Total(t, u)' \in Int
<1>1. (TypeOK => \A t \in Slots, u \in Users : Total(t, u) \in Int)'
    BY TotalInt, PTL
<1> QED
    BY <1>1

\* The balances stay explained when a step moves what it puts down to its call.
LEMMA BalanceStep ==
    ASSUME IInv, TypeOK', NEW t \in Slots, Frame(t),
           \A u \in Users : bal'[u] - bal[u] = Total(t, u)' - Total(t, u)
    PROVE  BalancesExplained'
<1> SUFFICES ASSUME NEW u \in Users
             PROVE  bal'[u] = Genesis[u] + SumFunctionOnSet([o \in Slots |-> Total(o, u)'], Slots)
    BY DEF BalancesExplained
<1> DEFINE old == [o \in Slots |-> Total(o, u)]
           new == [o \in Slots |-> Total(o, u)']
<1>1. \A o \in Slots : old[o] \in Int
    BY TotalInt DEF IInv
<1>2. \A o \in Slots : new[o] \in Int
    BY TotalIntNext
<1>3. \A o \in Slots \ {t} : new[o] = old[o]
    BY OthersTotal
<1>4. new[t] - old[t] = bal'[u] - bal[u]
    OBVIOUS
<1>5. bal[u] = Genesis[u] + SumFunctionOnSet(old, Slots)
    BY DEF IInv, BalancesExplained
<1> HIDE DEF old, new
<1>6. SumFunctionOnSet(new, Slots) = SumFunctionOnSet(old, Slots) - old[t] + new[t]
    BY <1>1, <1>2, <1>3, SlotsFinite, SumUpdate
<1>7. SumFunctionOnSet(old, Slots) \in Int
    BY <1>1, SlotsFinite, SumInt
<1>8. bal[u] \in Int /\ bal'[u] \in Int /\ Genesis[u] \in Int /\ old[t] \in Int /\ new[t] \in Int
    BY <1>1, <1>2, OrderBookAssumption DEF IInv, TypeOK
<1>9. bal'[u] = Genesis[u] + SumFunctionOnSet(new, Slots)
    BY <1>4, <1>5, <1>6, <1>7, <1>8
<1> QED
    BY <1>9 DEF new

\* So a step of a call preserves the invariant if it does so for its own call.
LEMMA StepIInv ==
    ASSUME IInv, TypeOK', req' \in [Slots -> Requests], RowShape',
           NEW t \in Slots, Frame(t), SlotShape(t)',
           \A u \in Users : bal'[u] - bal[u] = Total(t, u)' - Total(t, u)
    PROVE  IInv'
<1>1. \A o \in Slots : SlotShape(o)'
    BY OthersShape
<1>2. BalancesExplained'
    BY BalanceStep
<1> QED
    BY <1>1, <1>2 DEF IInv
-----------------------------------------------------------------------------
(* The steps.                                                               *)

\* Effects change with the fills and the requests only.
LEMMA EffectsSame ==
    ASSUME NEW t \in Slots, fills'[t] = fills[t], req' = req
    PROVE  \A u : /\ DirectEffect(t, u)' = DirectEffect(t, u)
                  /\ \A c : PairEffect(t, c, u)' = PairEffect(t, c, u)
<1> SUFFICES ASSUME NEW u
             PROVE  /\ DirectEffect(t, u)' = DirectEffect(t, u)
                    /\ \A c : PairEffect(t, c, u)' = PairEffect(t, c, u)
    OBVIOUS
<1>1. \A c : PairEffect(t, c, u)' = PairEffect(t, c, u)
    BY DEF PairEffect
<1>2. \A c \in Slots : [x \in Slots |-> PairEffect(t, x, u)'][c] = [x \in Slots |-> PairEffect(t, x, u)][c]
    BY <1>1
<1>3. SumFunctionOnSet([x \in Slots |-> PairEffect(t, x, u)'], Slots)
        = SumFunctionOnSet([x \in Slots |-> PairEffect(t, x, u)], Slots)
    BY <1>2, SlotsFinite, SumEqual
<1> QED
    BY <1>1, <1>3 DEF DirectEffect

\* Before the commit the tables and the fees stay as they are, and only the
\* legs count.
LEMMA RunningIInv ==
    ASSUME IInv, TypeOK', NEW t \in Slots, Frame(t), ~Committed(t), ~Committed(t)',
           req' = req, status' = status, filled' = filled, paid' = paid,
           bridged'[t] = bridged[t], SlotShape(t)',
           \A u \in Users : bal'[u] - bal[u] = moved'[t][u] - moved[t][u]
    PROVE  IInv'
<1>1. bridged[t] = 0
    BY DEF IInv, TypeOK, SlotShape, CurShape, Committed
<1>2. RowShape'
  <2> SUFFICES ASSUME NEW c \in Slots
               PROVE  /\ status[c] = "none" <=> ~Committed(c)'
                      /\ ~Committed(c)' => filled[c] = 0
                      /\ status[c] = "open" => filled[c] < req[c].qty
      BY DEF RowShape
  <2>1. Committed(c)' = Committed(c)
      BY DEF Frame, Committed
  <2> QED
      BY <2>1 DEF IInv, RowShape
<1>3. ASSUME NEW u \in Users
      PROVE  bal'[u] - bal[u] = Total(t, u)' - Total(t, u)
  <2>1. TradeEffect(t, u) = 0
      BY <1>1, TradeEffectIs DEF BridgeCommitted
  <2>2. TradeEffect(t, u)' = 0
      BY <1>1, TradeEffectNext DEF BridgeCommitted
  <2>3. FeeEffect(t, u)' = FeeEffect(t, u)
      BY <1>1 DEF FeeEffect, FeePayer
  <2>4. moved[t][u] \in Int /\ moved'[t][u] \in Int
      BY DEF IInv, TypeOK
  <2>5. Total(t, u) \in Int
      BY TotalInt DEF IInv
  <2>6. FeeEffect(t, u) \in Int
      BY OrderBookAssumption DEF IInv, TypeOK, FeeEffect
  <2> QED
      BY <2>1, <2>2, <2>3, <2>4, <2>6 DEF Total
<1>4. req' \in [Slots -> Requests]
    BY DEF IInv
<1> QED
    BY <1>2, <1>3, <1>4, StepIInv

-----------------------------------------------------------------------------
(* The steps of a call before its commit.                                   *)

\* Admission moves nothing: the slot gets its order and its gateway.
LEMMA AdmitIInv ==
    ASSUME IInv, NEW t \in Slots, Admit(t)
    PROVE  IInv'
<1> USE DEF rows, money, flags
<1>0. PICK m \in Menu[t] :
        /\ req' = [req EXCEPT ![t] = m]
        /\ Goto(t, IF suspended \/ m.user \in barred THEN "failed" ELSE "admitted")
    BY DEF Admit
<1>1. /\ pc[t] = "unborn" /\ pc'[t] \in {"failed", "admitted"}
      /\ req'[t] = m
      /\ \A o \in Slots \ {t} : pc'[o] = pc[o] /\ req'[o] = req[o]
      /\ UNCHANGED <<rows, todo, fills, cur, leg, snap, bridged, offered, money,
                   flags, faults, cancels>>
    BY <1>0 DEF Admit, Goto, IInv, TypeOK
<1>2. TypeOK'
    BY <1>0, <1>1 DEF IInv, TypeOK, Steps, Goto
<1>3. m \in Requests /\ req' \in [Slots -> Requests]
    BY <1>0 DEF IInv, Requests
<1>4. Frame(t)
    BY <1>1 DEF Frame, Committed
<1>5. ~Committed(t) /\ ~Committed(t)' /\ bridged[t] = 0
  <2>1. CurShape(t) /\ bridged[t] \in Nat
      BY DEF IInv, TypeOK, SlotShape
  <2>2. bridged[t] = 0
      BY <1>1, <2>1 DEF CurShape
  <2> QED
      BY <1>1, <2>2 DEF Committed
<1>6. RowShape'
  <2> SUFFICES ASSUME NEW c \in Slots
               PROVE  /\ status[c] = "none" <=> ~Committed(c)'
                      /\ ~Committed(c)' => filled[c] = 0
                      /\ status[c] = "open" => filled[c] < req'[c].qty
      BY <1>1 DEF RowShape
  <2>1. Committed(c)' = Committed(c)
      BY <1>1, <1>5 DEF Committed
  <2> QED
      BY <1>1, <1>5, <2>1 DEF IInv, RowShape
<1>7. \A c \in Slots : fills[t][c] = 0
    BY <1>1 DEF IInv, SlotShape, TakenShape
<1>8. Taken(t) = 0 /\ Taken(t)' = 0
    BY <1>1, <1>7, SlotsFinite, SumZero DEF Taken
<1>9. due[t] = 0 /\ paid[t] = 0
    BY <1>1, <1>8 DEF IInv, SlotShape, FeeShape
<1>10. ASSUME NEW u PROVE DirectEffect(t, u) = 0 /\ DirectEffect(t, u)' = 0
  <2>1. \A c \in Slots : PairEffect(t, c, u) = 0
      BY <1>7 DEF PairEffect, Signed
  <2>2. \A c \in Slots : PairEffect(t, c, u)' = 0
      BY <1>1, <1>7 DEF PairEffect, Signed
  <2>3. SumFunctionOnSet([x \in Slots |-> PairEffect(t, x, u)], Slots) = 0
      BY <2>1, SlotsFinite, SumZero
  <2>4. SumFunctionOnSet([x \in Slots |-> PairEffect(t, x, u)'], Slots) = 0
      BY <2>2, SlotsFinite, SumZero
  <2> QED
      BY <2>3, <2>4 DEF DirectEffect
<1>11. SlotShape(t)'
  <2>1. TakenShape(t)'
      BY <1>1, <1>3, <1>7, <1>8, RequestTypes DEF TakenShape
  <2>2. FillShape(t)'
      BY <1>1, <1>7 DEF FillShape
  <2>3. CurShape(t)'
      BY <1>1, <1>5 DEF CurShape
  <2>4. FeeShape(t)'
      BY <1>1, <1>9 DEF FeeShape
  <2>5. MovedShape(t)'
      BY <1>1, <1>10 DEF MovedShape, IInv, SlotShape
  <2>6. SurplusShape(t)'
      BY <1>1 DEF SurplusShape, Surplus, Ahead, IInv, SlotShape
  <2> QED
      BY <2>1, <2>2, <2>3, <2>4, <2>5, <2>6 DEF SlotShape
<1>12. ASSUME NEW u \in Users
       PROVE  bal'[u] - bal[u] = Total(t, u)' - Total(t, u)
  <2>1. TradeEffect(t, u) = 0
      BY <1>5, TradeEffectIs DEF BridgeCommitted
  <2>2. TradeEffect(t, u)' = 0
      BY <1>1, <1>5, TradeEffectNext DEF BridgeCommitted
  <2>3. FeeEffect(t, u)' = 0 /\ FeeEffect(t, u) = 0
      BY <1>1, <1>9, OrderBookAssumption DEF FeeEffect
  <2>4. moved[t][u] \in Int /\ moved'[t][u] = moved[t][u] /\ bal[u] \in Int /\ bal'[u] = bal[u]
      BY <1>1 DEF IInv, TypeOK
  <2> QED
      BY <2>1, <2>2, <2>3, <2>4 DEF Total
<1> QED
    BY <1>2, <1>3, <1>4, <1>6, <1>11, <1>12, StepIInv

\* Steps that move a call on and change nothing but row locks and lists of rows.
LEMMA QuietIInv ==
    ASSUME IInv, TypeOK', NEW t \in Slots,
           \A o \in Slots \ {t} : pc'[o] = pc[o],
           \A c \in Slots : lock[c] # 0 => lock'[c] = lock[c],
           UNCHANGED <<status, filled, req, fills, cur, leg, bridged, money>>,
           \/ pc[t] = "admitted" /\ pc'[t] \in {"failed", "select"}
           \/ pc[t] = "select" /\ pc'[t] = "scan"
           \/ pc[t] = "scan" /\ pc'[t] \in {"scan", "commit"}
    PROVE  IInv'
<1> USE DEF money
<1>1. Frame(t)
    BY DEF Frame, Committed
<1>2. ~Committed(t) /\ ~Committed(t)'
    BY DEF Committed
<1>3. SlotShape(t)
    BY DEF IInv
<1>4. Taken(t)' = Taken(t)
    BY TakenKept
<1>5. TakenShape(t)'
  <2>1. pc[t] = "admitted" => Taken(t) = 0
      BY <1>3, SlotsFinite, SumZero DEF Taken, SlotShape, TakenShape
  <2>2. req[t].qty \in Nat \ {0}
      BY RequestsTyped DEF IInv
  <2> QED
      BY <1>3, <1>4, <2>1, <2>2 DEF SlotShape, TakenShape
<1>6. FillShape(t)'
  <2> SUFFICES ASSUME NEW c \in Slots, fills[t][c] > 0
               PROVE  /\ Committed(c)'
                      /\ Active(t)' => lock'[c] = t
                      /\ pc'[t] \in {"select", "scan"} \/ (pc'[t] = "legs" /\ Taken(t)' # req'[t].qty) =>
                           filled'[c] + fills'[t][c] >= req'[c].qty
      BY DEF FillShape
  <2>1. pc[t] # "admitted"
      BY <1>3 DEF SlotShape, TakenShape
  <2>2. t # 0
      BY DEF Slots
  <2>3. Committed(c) /\ lock[c] = t
      BY <1>3, <2>1 DEF SlotShape, FillShape, Active
  <2> QED
      BY <1>1, <1>3, <2>1, <2>2, <2>3, CommittedKept DEF SlotShape, FillShape
<1>7. CurShape(t)'
    BY <1>3 DEF SlotShape, CurShape
<1>8. FeeShape(t)'
    BY <1>3, <1>4 DEF SlotShape, FeeShape
<1>9. MovedShape(t)'
    BY <1>3, EffectsSame DEF SlotShape, MovedShape
<1>10. SurplusShape(t)'
    BY <1>3 DEF SlotShape, SurplusShape, Surplus, Ahead
<1>11. SlotShape(t)'
    BY <1>5, <1>6, <1>7, <1>8, <1>9, <1>10 DEF SlotShape
<1>12. \A u \in Users : bal'[u] - bal[u] = moved'[t][u] - moved[t][u]
    BY DEF IInv, TypeOK
<1> QED
    BY <1>1, <1>2, <1>11, <1>12, RunningIInv

\* Opening the transaction, or refusing an uncovered sell, moves nothing.
LEMMA OpenIInv ==
    ASSUME IInv, NEW t \in Slots, Open(t)
    PROVE  IInv'
<1> USE DEF rows, call, money, flags
<1>1. /\ pc[t] = "admitted" /\ pc'[t] \in {"failed", "select"}
      /\ \A o \in Slots \ {t} : pc'[o] = pc[o]
      /\ UNCHANGED <<rows, todo, call, money, flags, faults, cancels>>
    BY DEF Open, Goto, IInv, TypeOK
<1>2. TypeOK'
    BY <1>1 DEF Open, Goto, IInv, TypeOK, Steps
<1> QED
    BY <1>1, <1>2, QuietIInv

\* The unlocked read of the counter orders moves nothing.
LEMMA SelectIInv ==
    ASSUME IInv, NEW t \in Slots, Select(t)
    PROVE  IInv'
<1> USE DEF rows, call, money, flags
<1>1. /\ pc[t] = "select" /\ pc'[t] = "scan"
      /\ \A o \in Slots \ {t} : pc'[o] = pc[o]
      /\ UNCHANGED <<rows, req, fills, cur, leg, snap, bridged, money, flags, faults, cancels>>
    BY DEF Select, Goto, IInv, TypeOK
<1>2. Candidates(t) \in SUBSET Slots
    BY DEF Candidates
<1>3. TypeOK'
    BY <1>1, <1>2 DEF Select, Goto, IInv, TypeOK, Steps
<1> QED
    BY <1>1, <1>3, QuietIInv

\* Waiting for the row of the next counter order and reading it again moves nothing.
LEMMA LockNextIInv ==
    ASSUME IInv, NEW t \in Slots, LockNext(t)
    PROVE  IInv'
<1> USE DEF rows, call, money, flags
<1> DEFINE c == Min(todo[t])
<1>1. c \in Slots
  <2>1. todo[t] \subseteq Slots /\ todo[t] # {}
      BY DEF LockNext, IInv, TypeOK
  <2>2. todo[t] \subseteq Nat
      BY <2>1 DEF Slots
  <2> QED
      BY <2>1, <2>2, MinInNat
<1> HIDE DEF c
<1>2. /\ pc[t] = "scan" /\ pc' = pc
      /\ lock[c] \in {0, t}
      /\ lock' = IF c \in Candidates(t) THEN [lock EXCEPT ![c] = t] ELSE lock
      /\ todo' = [todo EXCEPT ![t] = @ \ {c}]
      /\ UNCHANGED <<status, filled, call, money, flags, faults, cancels>>
    BY DEF LockNext, c
<1>3. \A d \in Slots : lock[d] # 0 => lock'[d] = lock[d]
    BY <1>1, <1>2 DEF IInv, TypeOK
<1>4. lock' \in [Slots -> 0..N]
    BY <1>1, <1>2 DEF IInv, TypeOK, Slots
<1>5. TypeOK'
    BY <1>2, <1>4 DEF IInv, TypeOK
<1> QED
    BY <1>2, <1>3, <1>5, QuietIInv

\* The counter order that is matched is a candidate whose row the call locks.
LEMMA BestIs ==
    ASSUME NEW t \in Slots, \E c \in Candidates(t) : lock[c] = t
    PROVE  Best(t) \in Candidates(t) /\ lock[Best(t)] = t
<1> DEFINE S == {c \in Candidates(t) : lock[c] = t}
<1>1. S \subseteq Slots /\ S # {}
    BY DEF Candidates
<1>2. S \subseteq Nat
    BY <1>1 DEF Slots
<1>3. Min(S) \in S
    BY <1>1, <1>2, MinInNat
<1> QED
    BY <1>3 DEF Best

\* The least of two numbers.
LEMMA MinOfTwo ==
    ASSUME NEW a \in Nat, NEW b \in Nat
    PROVE  /\ Min({a, b}) \in {a, b}
           /\ Min({a, b}) <= a /\ Min({a, b}) <= b
BY MinInNat

\* The effect of a call's trades when the quantity of one of them changes.
LEMMA DirectEffectUpdate ==
    ASSUME TypeOK, fills' \in [Slots -> [Slots -> Nat]], req' = req, NEW t \in Slots, NEW c \in Slots,
           \A d \in Slots \ {c} : fills'[t][d] = fills[t][d], NEW u
    PROVE  DirectEffect(t, u)' = DirectEffect(t, u) - PairEffect(t, c, u) + PairEffect(t, c, u)'
<1> DEFINE old == [x \in Slots |-> PairEffect(t, x, u)]
           new == [x \in Slots |-> PairEffect(t, x, u)']
<1>1. \A x \in Slots : old[x] \in Int
    BY PairEffectInt DEF TypeOK
<1>2. \A x \in Slots : new[x] \in Int
    BY DEF PairEffect, Signed
<1>3. \A x \in Slots \ {c} : new[x] = old[x]
    BY DEF PairEffect
<1>4. new[c] = PairEffect(t, c, u)' /\ old[c] = PairEffect(t, c, u)
    OBVIOUS
<1>5. DirectEffect(t, u)' = SumFunctionOnSet(new, Slots)
    BY DEF DirectEffect
<1>6. DirectEffect(t, u) = SumFunctionOnSet(old, Slots)
    BY DEF DirectEffect
<1> HIDE DEF old, new
<1>7. SumFunctionOnSet(new, Slots) = SumFunctionOnSet(old, Slots) - old[c] + new[c]
    BY <1>1, <1>2, <1>3, SlotsFinite, SumUpdate
<1> QED
    BY <1>4, <1>5, <1>6, <1>7

\* A call that fills one more order has taken that much more.
LEMMA TakenUpdate ==
    ASSUME TypeOK, fills' \in [Slots -> [Slots -> Nat]], NEW t \in Slots, NEW c \in Slots,
           \A d \in Slots \ {c} : fills'[t][d] = fills[t][d]
    PROVE  Taken(t)' = Taken(t) - fills[t][c] + fills'[t][c]
<1>1. \A x \in Slots : fills[t][x] \in Int /\ fills'[t][x] \in Int
    BY DEF TypeOK
<1> QED
    BY <1>1, SlotsFinite, SumUpdate DEF Taken

\* A trade is written.
LEMMA MatchIInv ==
    ASSUME IInv, NEW t \in Slots, Match(t)
    PROVE  IInv'
<1> USE DEF rows, call, money, flags
<1>1. CASE Goto(t, "commit") /\ UNCHANGED <<fills, cur, leg>>
  <2>1. /\ pc[t] = "scan" /\ pc'[t] = "commit"
        /\ \A o \in Slots \ {t} : pc'[o] = pc[o]
        /\ UNCHANGED <<rows, todo, call, money, flags, faults, cancels>>
      BY <1>1 DEF Match, Goto, IInv, TypeOK
  <2>2. TypeOK'
      BY <1>1, <2>1 DEF Goto, IInv, TypeOK, Steps
  <2> QED
      BY <2>1, <2>2, QuietIInv
<1>2. CASE ~(Goto(t, "commit") /\ UNCHANGED <<fills, cur, leg>>)
  <2>1. /\ pc[t] = "scan"
        /\ \E d \in Candidates(t) : lock[d] = t
        /\ fills' = [fills EXCEPT ![t][Best(t)] =
                       Min({req[t].qty - Taken(t), req[Best(t)].qty - FilledFor(t, Best(t))})]
        /\ cur' = [cur EXCEPT ![t] = Best(t)]
        /\ leg' = [leg EXCEPT ![t] = 1]
        /\ Goto(t, "legs")
        /\ UNCHANGED <<rows, todo, req, snap, bridged, offered, money, flags, faults, cancels>>
      BY <1>2 DEF Match
  <2>2. PICK c \in Candidates(t) : c = Best(t) /\ lock[c] = t
      BY <2>1, BestIs
  <2>3. c \in Slots /\ status[c] = "open" /\ FilledFor(t, c) < req[c].qty
      BY <2>2 DEF Candidates
  <2>4. Committed(c)
      BY <2>3 DEF IInv, RowShape
  <2>5. /\ Taken(t) \in Nat /\ fills[t][c] \in Nat /\ filled[c] \in Nat
        /\ req[t].qty \in Nat /\ req[c].qty \in Nat /\ TypeOK
    <3>1. TypeOK
        BY DEF IInv
    <3>2. Taken(t) \in Nat
        BY <3>1, TakenNat DEF TypeOK
    <3> QED
        BY <2>3, <3>1, <3>2, RequestsTyped DEF IInv, TypeOK
  <2>6. SlotShape(t)
      BY DEF IInv
  <2>7. fills[t][c] = 0
      BY <2>1, <2>3, <2>5, <2>6 DEF SlotShape, FillShape, FilledFor
  <2>8. Taken(t) < req[t].qty
      BY <2>1, <2>6 DEF SlotShape, TakenShape
  <2>9. PICK q \in Nat :
           /\ fills' = [fills EXCEPT ![t][c] = q]
           /\ q > 0
           /\ q \in {req[t].qty - Taken(t), req[c].qty - filled[c]}
           /\ q <= req[t].qty - Taken(t) /\ q <= req[c].qty - filled[c]
    <3>1. FilledFor(t, c) = filled[c]
        BY <2>5, <2>7 DEF FilledFor
    <3> DEFINE a == req[t].qty - Taken(t)
               b == req[c].qty - filled[c]
    <3>2. a \in Nat \ {0} /\ b \in Nat \ {0}
        BY <2>3, <2>5, <2>8, <3>1
    <3>3. fills' = [fills EXCEPT ![t][c] = Min({a, b})]
        BY <2>1, <2>2, <3>1
    <3> HIDE DEF a, b
    <3>4. Min({a, b}) \in {a, b} /\ Min({a, b}) <= a /\ Min({a, b}) <= b
        BY <3>2, MinOfTwo
    <3>5. Min({a, b}) \in Nat /\ Min({a, b}) > 0
        BY <3>2, <3>4
    <3> USE <3>5
    <3> WITNESS Min({a, b}) \in Nat
    <3> QED
        BY <3>3, <3>4, <3>5 DEF a, b
  <2>10. /\ pc'[t] = "legs" /\ cur'[t] = c /\ leg'[t] = 1 /\ fills'[t][c] = q
         /\ \A d \in Slots \ {c} : fills'[t][d] = fills[t][d]
         /\ \A o \in Slots \ {t} :
               pc'[o] = pc[o] /\ fills'[o] = fills[o] /\ cur'[o] = cur[o] /\ leg'[o] = leg[o]
      BY <2>1, <2>2, <2>3, <2>5, <2>9 DEF Goto, TypeOK
  <2>11. fills' \in [Slots -> [Slots -> Nat]]
      BY <2>3, <2>5, <2>9 DEF TypeOK
  <2>12. TypeOK'
    <3>1. cur' \in [Slots -> 0..N]
        BY <2>1, <2>2, <2>3, <2>5 DEF TypeOK, Slots
    <3> QED
        BY <2>1, <2>5, <2>11, <3>1 DEF TypeOK, Goto, Steps
  <2>13. Frame(t)
      BY <2>1, <2>10 DEF Frame, Committed
  <2>14. ~Committed(t) /\ ~Committed(t)' /\ Committed(c)'
    <3>1. Committed(c)'
        BY <2>3, <2>4, <2>13, CommittedKept
    <3> QED
        BY <2>1, <2>10, <3>1 DEF Committed
  <2>15. Taken(t)' = Taken(t) + q
      BY <2>3, <2>5, <2>7, <2>9, <2>10, <2>11, TakenUpdate
  <2>16. TakenShape(t)'
      BY <2>1, <2>5, <2>9, <2>10, <2>15 DEF TakenShape
  <2>17. FillShape(t)'
    <3> SUFFICES ASSUME NEW d \in Slots, fills'[t][d] > 0
                 PROVE  /\ Committed(d)' /\ lock[d] = t
                        /\ Taken(t)' # req[t].qty => filled[d] + fills'[t][d] >= req[d].qty
        BY <2>1, <2>10 DEF FillShape, Active
    <3>1. CASE d = c
        BY <2>2, <2>5, <2>9, <2>10, <2>14, <2>15, <3>1
    <3>2. CASE d # c
        BY <2>1, <2>6, <2>10, <2>13, <3>2, CommittedKept DEF SlotShape, FillShape, Active
    <3> QED
        BY <3>1, <3>2
  <2>18. bridged[t] = 0
      BY <2>1, <2>5, <2>6 DEF SlotShape, CurShape, TypeOK
  <2>19. CurShape(t)'
      BY <2>1, <2>3, <2>9, <2>10, <2>14, <2>18 DEF CurShape
  <2>20. FeeShape(t)'
      BY <2>5, <2>9, <2>15 DEF FeeShape
  <2>21. MovedShape(t)'
    <3> SUFFICES ASSUME NEW u \in Users
                 PROVE  moved[t][u] = DirectEffect(t, u)' - PairEffect(t, c, u)'
        BY <2>1, <2>10, <2>12 DEF MovedShape, TypeOK
    <3>1. PairEffect(t, c, u) = 0
        BY <2>7 DEF PairEffect, Signed
    <3>2. DirectEffect(t, u)' = DirectEffect(t, u) - PairEffect(t, c, u) + PairEffect(t, c, u)'
      <4>1. TypeOK /\ req' = req /\ \A d \in Slots \ {c} : fills'[t][d] = fills[t][d]
          BY <2>1, <2>5, <2>10
      <4> QED
          BY <2>3, <2>11, <4>1, DirectEffectUpdate
    <3>3. DirectEffect(t, u) \in Int
        BY <2>5, DirectEffectInt DEF TypeOK
    <3>4. PairEffect(t, c, u)' \in Int
        BY <2>3, <2>11 DEF PairEffect, Signed
    <3>5. moved[t][u] = DirectEffect(t, u)
        BY <2>1, <2>6 DEF SlotShape, MovedShape
    <3> QED
        BY <3>1, <3>2, <3>3, <3>4, <3>5
  <2>22. SurplusShape(t)'
      BY <2>1, <2>6, <2>10 DEF SlotShape, SurplusShape, Surplus, Ahead
  <2>23. SlotShape(t)'
      BY <2>16, <2>17, <2>19, <2>20, <2>21, <2>22 DEF SlotShape
  <2>24. \A u \in Users : bal'[u] - bal[u] = moved'[t][u] - moved[t][u]
      BY <2>1, <2>5 DEF TypeOK
  <2> QED
      BY <2>1, <2>12, <2>13, <2>14, <2>23, <2>24, RunningIInv
<1> QED
    BY <1>1, <1>2
-----------------------------------------------------------------------------
(* The balance legs.                                                        *)

\* One leg: u gets d, and the call is charged with it.
Leg(t, u, d) ==
    /\ bal[u] + d >= 0
    /\ bal' = [bal EXCEPT ![u] = @ + d]
    /\ moved' = [moved EXCEPT ![t][u] = @ + d]
    /\ leg' = [leg EXCEPT ![t] = @ + 1]

\* What a leg changes.
LEMMA LegIs ==
    ASSUME TypeOK, NEW t \in Slots, NEW u \in Users, NEW d \in Int, Leg(t, u, d), leg[t] \in 1..4
    PROVE  /\ bal' \in [Users -> Nat] /\ moved' \in [Slots -> [Users -> Int]]
           /\ leg' \in [Slots -> 1..5] /\ leg'[t] = leg[t] + 1
           /\ \A o \in Slots \ {t} : moved'[o] = moved[o] /\ leg'[o] = leg[o]
           /\ \A v \in Users : moved'[t][v] = moved[t][v] + (IF v = u THEN d ELSE 0)
           /\ \A v \in Users : bal'[v] = bal[v] + (IF v = u THEN d ELSE 0)
           /\ Surplus(t)' = Surplus(t) + d
<1>1. /\ bal' \in [Users -> Nat] /\ moved' \in [Slots -> [Users -> Int]]
      /\ leg' \in [Slots -> 1..5] /\ leg'[t] = leg[t] + 1
      /\ \A o \in Slots \ {t} : moved'[o] = moved[o] /\ leg'[o] = leg[o]
  <2>1. bal' \in [Users -> Nat]
      BY DEF TypeOK, Leg
  <2>2. moved' \in [Slots -> [Users -> Int]]
      BY DEF TypeOK, Leg
  <2>3. leg' \in [Slots -> 1..5] /\ leg'[t] = leg[t] + 1
      BY DEF TypeOK, Leg
  <2> QED
      BY <2>1, <2>2, <2>3 DEF TypeOK, Leg
<1>2. \A v \in Users : /\ moved'[t][v] = moved[t][v] + (IF v = u THEN d ELSE 0)
                       /\ bal'[v] = bal[v] + (IF v = u THEN d ELSE 0)
    BY DEF TypeOK, Leg
<1>3. Surplus(t)' = Surplus(t) + d
  <2>1. \A v \in Users : moved[t][v] \in Int /\ moved'[t][v] \in Int
      BY <1>1 DEF TypeOK
  <2>2. \A v \in Users \ {u} : moved'[t][v] = moved[t][v]
      BY <1>2, <2>1
  <2>3. IsFiniteSet(Users)
      BY OrderBookAssumption
  <2>4. SumFunctionOnSet(moved'[t], Users) = SumFunctionOnSet(moved[t], Users) - moved[t][u] + moved'[t][u]
      BY <2>1, <2>2, <2>3, SumUpdate
  <2>5. SumFunctionOnSet(moved[t], Users) \in Int
      BY <2>1, <2>3, SumInt
  <2> QED
      BY <1>2, <2>1, <2>4, <2>5 DEF Surplus
<1> QED
    BY <1>1, <1>2, <1>3

\* A trade in the book has two legs: the buyer is credited, then the seller debited.
LEMMA TradeLegIs ==
    ASSUME TypeOK, NEW t \in Slots, TradeLeg(t)
    PROVE  \/ leg[t] = 1 /\ Leg(t, Buyer(t), fills[t][cur[t]])
           \/ leg[t] = 2 /\ Leg(t, Seller(t), -fills[t][cur[t]])
<1>1. pc[t] = "legs" /\ leg[t] \in {1, 2}
  <2>1. leg[t] \in 1..5
      BY DEF TypeOK
  <2> QED
      BY <2>1 DEF TradeLeg
<1>2. CASE leg[t] = 1
    BY <1>1, <1>2 DEF TradeLeg, Move, Legs, Leg
<1>3. CASE leg[t] = 2
    BY <1>1, <1>3 DEF TradeLeg, Move, Legs, Leg
<1> QED
    BY <1>1, <1>2, <1>3

\* A trade over the bridge has four legs, by way of the AI participant.
LEMMA BridgeLegIs ==
    ASSUME TypeOK, NEW t \in Slots, BridgeLeg(t)
    PROVE  \/ leg[t] = 1 /\ Leg(t, Buyer(t), bridged[t])
           \/ leg[t] = 2 /\ Leg(t, AI, -bridged[t])
           \/ leg[t] = 3 /\ Leg(t, AI, bridged[t])
           \/ leg[t] = 4 /\ Leg(t, Seller(t), -bridged[t])
<1>1. pc[t] = "bridging" /\ leg[t] \in {1, 2, 3, 4}
  <2>1. leg[t] \in 1..5
      BY DEF TypeOK
  <2> QED
      BY <2>1 DEF BridgeLeg
<1>2. CASE leg[t] = 1
    BY <1>1, <1>2 DEF BridgeLeg, Move, Legs, Leg
<1>3. CASE leg[t] = 2
    BY <1>1, <1>3 DEF BridgeLeg, Move, Legs, Leg
<1>4. CASE leg[t] = 3
    BY <1>1, <1>4 DEF BridgeLeg, Move, Legs, Leg
<1>5. CASE leg[t] = 4
    BY <1>1, <1>5 DEF BridgeLeg, Move, Legs, Leg
<1> QED
    BY <1>1, <1>2, <1>3, <1>4, <1>5

\* Both partners of a trade are users.
LEMMA PartnersAreUsers ==
    ASSUME IInv, NEW t \in Slots, cur[t] \in Slots
    PROVE  Buyer(t) \in Users /\ Seller(t) \in Users
BY RequestsTyped DEF IInv, Buyer, Seller

\* A leg of a trade is put down to its call before the trade is committed.
LEMMA TradeLegIInv ==
    ASSUME IInv, NEW t \in Slots, TradeLeg(t)
    PROVE  IInv'
<1> USE DEF rows
<1>1. /\ TypeOK /\ SlotShape(t)
      /\ pc[t] = "legs"
      /\ UNCHANGED <<rows, pc, todo, req, fills, cur, snap, bridged, offered,
                   settled, due, paid, flags, faults, cancels>>
    BY DEF IInv, TradeLeg
<1>2. cur[t] \in Slots /\ fills[t][cur[t]] \in Nat /\ fills[t][cur[t]] > 0
    BY <1>1 DEF SlotShape, CurShape, TypeOK
<1>3. Buyer(t) \in Users /\ Seller(t) \in Users
    BY <1>2, PartnersAreUsers
<1>4. PICK u \in Users, d \in Int :
          /\ Leg(t, u, d)
          /\ \/ leg[t] = 1 /\ u = Buyer(t) /\ d = fills[t][cur[t]]
             \/ leg[t] = 2 /\ u = Seller(t) /\ d = -fills[t][cur[t]]
    BY <1>1, <1>2, <1>3, TradeLegIs
<1>5. leg[t] \in {1, 2}
    BY <1>4
<1>6. /\ bal' \in [Users -> Nat] /\ moved' \in [Slots -> [Users -> Int]]
      /\ leg' \in [Slots -> 1..5] /\ leg'[t] = leg[t] + 1
      /\ \A o \in Slots \ {t} : moved'[o] = moved[o] /\ leg'[o] = leg[o]
      /\ \A v \in Users : moved'[t][v] = moved[t][v] + (IF v = u THEN d ELSE 0)
      /\ \A v \in Users : bal'[v] = bal[v] + (IF v = u THEN d ELSE 0)
      /\ Surplus(t)' = Surplus(t) + d
    BY <1>1, <1>4, <1>5, LegIs
<1>7. TypeOK'
    BY <1>1, <1>6 DEF TypeOK, flags
<1>8. Frame(t) /\ ~Committed(t) /\ ~Committed(t)'
    BY <1>1, <1>6 DEF Frame, Committed
<1>9. Taken(t)' = Taken(t)
    BY <1>1, TakenKept
<1>10. TakenShape(t)'
    BY <1>1, <1>9 DEF SlotShape, TakenShape
<1>11. FillShape(t)'
    BY <1>1, <1>8, <1>9, CommittedKept DEF SlotShape, FillShape, Active
<1>12. CurShape(t)'
    BY <1>1, <1>2, <1>5, <1>6, <1>8, CommittedKept DEF SlotShape, CurShape
<1>13. FeeShape(t)'
    BY <1>1, <1>9 DEF SlotShape, FeeShape
<1>14. MovedShape(t)'
  <2> SUFFICES ASSUME NEW v \in Users
               PROVE  moved'[t][v] = DirectEffect(t, v)' - PairEffect(t, cur[t], v)'
                           + (IF leg'[t] > 1 /\ v = Buyer(t)' THEN fills'[t][cur'[t]] ELSE 0)
                           - (IF leg'[t] > 2 /\ v = Seller(t)' THEN fills'[t][cur'[t]] ELSE 0)
      BY <1>1 DEF MovedShape
  <2>1. DirectEffect(t, v)' = DirectEffect(t, v) /\ PairEffect(t, cur[t], v)' = PairEffect(t, cur[t], v)
      BY <1>1, EffectsSame
  <2>2. Buyer(t)' = Buyer(t) /\ Seller(t)' = Seller(t)
      BY <1>1 DEF Buyer, Seller
  <2>3. DirectEffect(t, v) \in Int /\ PairEffect(t, cur[t], v) \in Int
      BY <1>1, <1>2, DirectEffectInt, PairEffectInt DEF TypeOK
  <2>4. moved[t][v] = DirectEffect(t, v) - PairEffect(t, cur[t], v)
                           + (IF leg[t] > 1 /\ v = Buyer(t) THEN fills[t][cur[t]] ELSE 0)
                           - (IF leg[t] > 2 /\ v = Seller(t) THEN fills[t][cur[t]] ELSE 0)
      BY <1>1 DEF SlotShape, MovedShape
  <2>5. moved'[t][v] = moved[t][v] + (IF v = u THEN d ELSE 0)
      BY <1>6
  <2>6. CASE leg[t] = 1
      BY <1>1, <1>2, <1>4, <1>6, <2>1, <2>2, <2>3, <2>4, <2>5, <2>6
  <2>7. CASE leg[t] = 2
      BY <1>1, <1>2, <1>4, <1>6, <2>1, <2>2, <2>3, <2>4, <2>5, <2>7
  <2> QED
      BY <1>5, <2>6, <2>7
<1>15. SurplusShape(t)'
  <2>1. Surplus(t) = Ahead(t)
      BY <1>1 DEF SlotShape, SurplusShape
  <2> QED
      BY <1>1, <1>2, <1>4, <1>5, <1>6, <2>1 DEF SurplusShape, Ahead
<1>16. SlotShape(t)'
    BY <1>10, <1>11, <1>12, <1>13, <1>14, <1>15 DEF SlotShape
<1>17. \A v \in Users : bal'[v] - bal[v] = moved'[t][v] - moved[t][v]
  <2> TAKE v \in Users
  <2>1. bal[v] \in Int /\ moved[t][v] \in Int
      BY <1>1 DEF TypeOK
  <2> QED
      BY <1>6, <2>1
<1> QED
    BY <1>1, <1>7, <1>8, <1>16, <1>17, RunningIInv

\* The transaction is rolled back, by a refused leg, a fault or a deadlock.
LEMMA RollbackIInv ==
    ASSUME IInv, NEW t \in Slots, Active(t), Rollback(t), faults' \in 0..MaxFaults
    PROVE  IInv'
<1>1. /\ pc'[t] = "failed" /\ \A o \in Slots \ {t} : pc'[o] = pc[o]
      /\ \A c \in Slots : fills'[t][c] = 0
      /\ \A o \in Slots \ {t} : fills'[o] = fills[o]
      /\ \A c \in Slots : lock[c] \notin {0, t} => lock'[c] = lock[c]
      /\ UNCHANGED <<status, filled, req, cur, leg, snap, bridged, offered, money,
                   flags, cancels>>
    BY DEF Rollback, Goto, IInv, TypeOK
<1>2. TypeOK'
  <2>1. lock' \in [Slots -> 0..N] /\ pc' \in [Slots -> Steps]
    <3>1. 0 \in 0..N
        BY OrderBookAssumption
    <3>2. lock' \in [Slots -> 0..N]
        BY <3>1 DEF Rollback, IInv, TypeOK
    <3>3. pc' \in [Slots -> Steps]
        BY DEF Rollback, Goto, IInv, TypeOK, Steps
    <3> QED
        BY <3>2, <3>3
  <2>2. fills' \in [Slots -> [Slots -> Nat]] /\ todo' \in [Slots -> SUBSET Slots]
      BY DEF Rollback, IInv, TypeOK
  <2> QED
      BY <1>1, <2>1, <2>2 DEF IInv, TypeOK, money, flags
<1>3. Frame(t) /\ ~Committed(t) /\ ~Committed(t)'
    BY <1>1 DEF Frame, Committed, Active, money
<1>4. SlotShape(t)
    BY DEF IInv
<1>5. Taken(t)' = 0
    BY <1>1, SlotsFinite, SumZero DEF Taken
<1>6. bridged[t] = 0
  <2>1. bridged[t] \in Nat
      BY DEF IInv, TypeOK
  <2> QED
      BY <1>4, <2>1 DEF SlotShape, CurShape, Active
<1>7. TakenShape(t)'
    BY <1>1, <1>5, RequestsTyped DEF IInv, TakenShape
<1>8. FillShape(t)'
    BY <1>1 DEF FillShape
<1>9. CurShape(t)'
    BY <1>1, <1>6 DEF CurShape
<1>10. FeeShape(t)'
    BY <1>1 DEF FeeShape
<1>11. MovedShape(t)'
    BY <1>1 DEF MovedShape
<1>12. SurplusShape(t)'
    BY <1>1, <1>4 DEF SlotShape, SurplusShape, Surplus, money
<1>13. SlotShape(t)'
    BY <1>7, <1>8, <1>9, <1>10, <1>11, <1>12 DEF SlotShape
<1>14. \A u \in Users : bal'[u] - bal[u] = moved'[t][u] - moved[t][u]
    BY <1>1 DEF IInv, TypeOK, money
<1> QED
    BY <1>1, <1>2, <1>3, <1>13, <1>14, RunningIInv DEF money

\* The settlement of a trade is written and its fee falls due; no balance moves.
LEMMA SettleIInv ==
    ASSUME IInv, NEW t \in Slots, Settle(t)
    PROVE  IInv'
<1> USE DEF rows, call, flags
<1>1. /\ TypeOK /\ SlotShape(t)
      /\ pc[t] = "legs" /\ leg[t] = 3
      /\ UNCHANGED <<rows, todo, call, bal, moved, paid, flags, faults, cancels>>
      /\ due' = [due EXCEPT ![t] = @ + 1]
      /\ settled' = settled \cup {<<t, cur[t]>>}
      /\ Goto(t, IF Taken(t) = req[t].qty THEN "commit" ELSE "select")
    BY DEF IInv, Settle
<1>2. /\ \A o \in Slots \ {t} : pc'[o] = pc[o] /\ due'[o] = due[o]
      /\ pc'[t] \in {"commit", "select"}
      /\ Taken(t) # req[t].qty <=> pc'[t] = "select"
    BY <1>1 DEF TypeOK, Goto
<1>3. cur[t] \in Slots /\ fills[t][cur[t]] \in Nat /\ fills[t][cur[t]] > 0
    BY <1>1 DEF SlotShape, CurShape, TypeOK
<1>4. TypeOK'
  <2>1. pc' \in [Slots -> Steps] /\ due' \in [Slots -> Nat]
      BY <1>1 DEF TypeOK, Goto, Steps
  <2>2. settled' \subseteq Slots \X Slots
      BY <1>1, <1>3 DEF TypeOK
  <2> QED
      BY <1>1, <2>1, <2>2 DEF TypeOK
<1>5. Frame(t) /\ ~Committed(t) /\ ~Committed(t)'
    BY <1>1, <1>2 DEF Frame, Committed
<1>6. Taken(t)' = Taken(t) /\ Taken(t) \in Nat /\ fills[t][cur[t]] <= Taken(t)
  <2>1. \A c \in Slots : fills[t][c] \in Nat
      BY <1>1 DEF TypeOK
  <2>2. fills[t][cur[t]] <= Taken(t)
      BY <1>3, <2>1, SlotsFinite, SumAtLeast DEF Taken
  <2>3. Taken(t) \in Nat
      BY <1>1, TakenNat DEF TypeOK
  <2> QED
      BY <1>1, <2>2, <2>3, TakenKept
<1>7. TakenShape(t)'
  <2>1. req[t].qty \in Nat
      BY RequestsTyped DEF IInv
  <2> QED
      BY <1>1, <1>2, <1>6, <2>1 DEF SlotShape, TakenShape
<1>8. FillShape(t)'
    BY <1>1, <1>2, <1>5, <1>6, CommittedKept DEF SlotShape, FillShape, Active
<1>9. CurShape(t)'
    BY <1>1, <1>2, <1>5, CommittedKept DEF SlotShape, CurShape
<1>10. FeeShape(t)'
    BY <1>3, <1>6 DEF FeeShape
<1>11. MovedShape(t)'
  <2> SUFFICES ASSUME NEW u \in Users
               PROVE  moved[t][u] = DirectEffect(t, u)'
      BY <1>1, <1>2 DEF MovedShape
  <2>1. DirectEffect(t, u)' = DirectEffect(t, u) /\ DirectEffect(t, u) \in Int
      BY <1>1, EffectsSame, DirectEffectInt DEF TypeOK
  <2>2. PairEffect(t, cur[t], u)
          = (IF u = Buyer(t) THEN fills[t][cur[t]] ELSE 0) - (IF u = Seller(t) THEN fills[t][cur[t]] ELSE 0)
      BY <1>3 DEF PairEffect, Signed, Buyer, Seller
  <2>3. moved[t][u] = DirectEffect(t, u) - PairEffect(t, cur[t], u)
                           + (IF u = Buyer(t) THEN fills[t][cur[t]] ELSE 0)
                           - (IF u = Seller(t) THEN fills[t][cur[t]] ELSE 0)
      BY <1>1 DEF SlotShape, MovedShape
  <2> QED
      BY <1>3, <2>1, <2>2, <2>3
<1>12. SurplusShape(t)'
    BY <1>1, <1>2 DEF SlotShape, SurplusShape, Surplus, Ahead
<1>13. SlotShape(t)'
    BY <1>7, <1>8, <1>9, <1>10, <1>11, <1>12 DEF SlotShape
<1>14. \A u \in Users : bal'[u] - bal[u] = moved'[t][u] - moved[t][u]
    BY <1>1 DEF TypeOK
<1> QED
    BY <1>1, <1>4, <1>5, <1>13, <1>14, RunningIInv

-----------------------------------------------------------------------------
(* The commit.                                                              *)

\* Nothing moved, for anybody.
LEMMA ZeroIs == Zero \in [Users -> Int] /\ \A u \in Users : Zero[u] = 0
BY DEF Zero

\* Who has moved nothing has credited nothing in excess.
LEMMA SurplusOfZero ==
    ASSUME NEW t \in Slots, \A u \in Users : moved'[t][u] = 0
    PROVE  Surplus(t)' = 0
BY OrderBookAssumption, SumZero DEF Surplus

\* A commit turns the moved legs into trades and writes the rows.
LEMMA CommitIInv ==
    ASSUME IInv, NEW t \in Slots, Commit(t)
    PROVE  IInv'
<1> USE DEF call, flags
<1>1. /\ TypeOK /\ SlotShape(t) /\ RowShape
      /\ pc[t] = "commit"
      /\ filled' = [c \in Slots |-> IF c = t THEN Taken(t) ELSE FilledFor(t, c)]
      /\ status' = [c \in Slots |->
                    IF (c = t \/ fills[t][c] > 0)
                    THEN IF filled'[c] >= req[c].qty THEN "filled" ELSE "open"
                    ELSE status[c]]
      /\ lock' = [c \in Slots |-> IF lock[c] = t THEN 0 ELSE lock[c]]
      /\ moved' = [moved EXCEPT ![t] = Zero]
      /\ Goto(t, IF Taken(t) = 0 /\ req[t].fac # NoFac THEN "bridge" ELSE "done")
      /\ UNCHANGED <<todo, call, bal, settled, due, paid, flags, faults, cancels>>
    BY DEF IInv, Commit
<1>2. /\ pc'[t] \in {"bridge", "done"}
      /\ pc'[t] = "bridge" => Taken(t) = 0
      /\ \A o \in Slots \ {t} : pc'[o] = pc[o] /\ moved'[o] = moved[o]
      /\ \A u \in Users : moved'[t][u] = 0
    BY <1>1, ZeroIs DEF TypeOK, Goto
<1>3. Taken(t) \in Nat /\ Taken(t)' = Taken(t)
    BY <1>1, TakenNat, TakenKept DEF TypeOK
<1>4. \A c \in Slots : FilledFor(t, c) \in Nat
    BY <1>1 DEF FilledFor, TypeOK
<1>5. TypeOK'
  <2>1. filled' \in [Slots -> Nat]
      BY <1>1, <1>3, <1>4
  <2>2. status' \in [Slots -> {"none", "open", "filled", "cancelled"}]
      BY <1>1 DEF TypeOK
  <2>3. 0 \in 0..N
      BY OrderBookAssumption
  <2>4. lock' \in [Slots -> 0..N]
      BY <1>1, <2>3 DEF TypeOK
  <2>5. moved' \in [Slots -> [Users -> Int]]
      BY <1>1, ZeroIs DEF TypeOK
  <2>6. pc' \in [Slots -> Steps]
      BY <1>1 DEF TypeOK, Goto, Steps
  <2> QED
      BY <1>1, <2>1, <2>2, <2>4, <2>5, <2>6 DEF TypeOK
<1>6. ~Committed(t) /\ Committed(t)'
    BY <1>1, <1>2 DEF Committed
<1>7. Frame(t)
  <2> SUFFICES ASSUME NEW c \in Slots, Committed(c), lock[c] \notin {0, t}
               PROVE  lock'[c] = lock[c] /\ filled'[c] = filled[c]
      BY <1>1, <1>2, <1>6 DEF Frame
  <2>1. fills[t][c] = 0
      BY <1>1 DEF SlotShape, FillShape, Active, TypeOK
  <2>2. c # t
      BY <1>6
  <2> QED
      BY <1>1, <2>1, <2>2 DEF FilledFor, TypeOK
<1>8. RowShape'
  <2> SUFFICES ASSUME NEW c \in Slots
               PROVE  /\ status'[c] = "none" <=> ~Committed(c)'
                      /\ ~Committed(c)' => filled'[c] = 0
                      /\ status'[c] = "open" => filled'[c] < req[c].qty
      BY <1>1 DEF RowShape
  <2>1. filled'[c] \in Nat /\ req[c].qty \in Nat
      BY <1>5, RequestsTyped DEF IInv, TypeOK
  <2>2. CASE c = t
      BY <1>1, <1>6, <2>1, <2>2
  <2>3. CASE c # t /\ fills[t][c] > 0
    <3>1. Committed(c)'
        BY <1>1, <1>7, <2>3, CommittedKept DEF SlotShape, FillShape
    <3> QED
        BY <1>1, <2>1, <2>3, <3>1
  <2>4. CASE c # t /\ fills[t][c] = 0
    <3>1. Committed(c)' = Committed(c)
        BY <1>2, <2>4 DEF Committed
    <3>2. status'[c] = status[c] /\ filled'[c] = filled[c]
        BY <1>1, <2>4 DEF FilledFor, TypeOK
    <3> QED
        BY <1>1, <3>1, <3>2 DEF RowShape
  <2> QED
      BY <1>1, <2>2, <2>3, <2>4 DEF TypeOK
<1>9. bridged[t] = 0
  <2>1. bridged[t] \in Nat
      BY <1>1 DEF TypeOK
  <2> QED
      BY <1>1, <2>1 DEF SlotShape, CurShape
<1>10. TakenShape(t)'
    BY <1>1, <1>2, <1>3 DEF SlotShape, TakenShape
<1>11. FillShape(t)'
    BY <1>1, <1>2, <1>7, CommittedKept DEF SlotShape, FillShape, Active
<1>12. CurShape(t)'
    BY <1>1, <1>2, <1>9 DEF CurShape
<1>13. FeeShape(t)'
    BY <1>1, <1>2, <1>3 DEF SlotShape, FeeShape
<1>14. MovedShape(t)'
    BY <1>2 DEF MovedShape
<1>15. SurplusShape(t)'
    BY <1>2, SurplusOfZero DEF SurplusShape, Ahead
<1>16. SlotShape(t)'
    BY <1>10, <1>11, <1>12, <1>13, <1>14, <1>15 DEF SlotShape
<1>17. ASSUME NEW u \in Users
       PROVE  bal'[u] - bal[u] = Total(t, u)' - Total(t, u)
  <2>1. TradeEffect(t, u) = 0
      BY <1>6, <1>9, TradeEffectIs DEF BridgeCommitted
  <2>2. TradeEffect(t, u)' = DirectEffect(t, u)
    <3>1. DirectEffect(t, u)' = DirectEffect(t, u) /\ DirectEffect(t, u) \in Int
        BY <1>1, EffectsSame, DirectEffectInt DEF TypeOK
    <3> QED
        BY <1>1, <1>6, <1>9, <3>1, TradeEffectNext DEF BridgeCommitted
  <2>3. FeeEffect(t, u)' = FeeEffect(t, u)
      BY <1>1, <1>9 DEF FeeEffect, FeePayer
  <2>4. FeeEffect(t, u) \in Int
      BY <1>1, OrderBookAssumption DEF TypeOK, FeeEffect
  <2>5. moved[t][u] = DirectEffect(t, u) /\ moved[t][u] \in Int
      BY <1>1 DEF SlotShape, MovedShape, TypeOK
  <2>6. bal'[u] = bal[u] /\ bal[u] \in Int
      BY <1>1 DEF TypeOK
  <2> QED
      BY <1>2, <2>1, <2>2, <2>3, <2>4, <2>5, <2>6 DEF Total
<1>18. req' \in [Slots -> Requests]
    BY <1>1 DEF IInv
<1> QED
    BY <1>5, <1>7, <1>8, <1>16, <1>17, <1>18, StepIInv
-----------------------------------------------------------------------------
(* The bridge.                                                              *)

\* After the commit the call's own trades stay as they are.
LEMMA CommittedTotal ==
    ASSUME IInv, TypeOK', NEW t \in Slots, Committed(t), Committed(t)',
           fills' = fills, req' = req, paid' = paid,
           BridgeCommitted(t)' <=> BridgeCommitted(t),
           BridgeCommitted(t) => bridged'[t] = bridged[t] /\ cur'[t] = cur[t],
           paid[t] > 0 => FeePayer(t)' = FeePayer(t),
           NEW u \in Users, bal'[u] - bal[u] = moved'[t][u] - moved[t][u]
    PROVE  bal'[u] - bal[u] = Total(t, u)' - Total(t, u)
<1>1. DirectEffect(t, u)' = DirectEffect(t, u)
    BY EffectsSame
<1>2. TradeEffect(t, u)' = TradeEffect(t, u)
  <2>1. TradeEffect(t, u)
           = DirectEffect(t, u)
             + (IF BridgeCommitted(t)
                THEN Signed(req[t].side, bridged[t], req[t].user, req[cur[t]].user, u)
                ELSE 0)
      BY TradeEffectIs
  <2>2. TradeEffect(t, u)'
           = DirectEffect(t, u)
             + (IF BridgeCommitted(t)
                THEN Signed(req[t].side, bridged'[t], req[t].user, req[cur'[t]].user, u)
                ELSE 0)
      BY <1>1, TradeEffectNext
  <2> QED
      BY <2>1, <2>2
<1>3. FeeEffect(t, u)' = FeeEffect(t, u)
  <2>1. paid[t] \in Nat /\ Fee \in Nat
      BY OrderBookAssumption DEF IInv, TypeOK
  <2>2. CASE paid[t] = 0
      BY <2>1, <2>2 DEF FeeEffect
  <2>3. CASE paid[t] > 0
      BY <2>3 DEF FeeEffect
  <2> QED
      BY <2>1, <2>2, <2>3
<1>4. moved[t][u] \in Int /\ moved'[t][u] \in Int
    BY DEF IInv, TypeOK
<1>5. TradeEffect(t, u) \in Int /\ FeeEffect(t, u) \in Int
  <2>1. DirectEffect(t, u) \in Int /\ bridged[t] \in Nat
      BY DirectEffectInt DEF IInv, TypeOK
  <2>2. TradeEffect(t, u) \in Int
      BY <2>1, TradeEffectIs DEF Signed
  <2>3. FeeEffect(t, u) \in Int
      BY OrderBookAssumption DEF IInv, TypeOK, FeeEffect
  <2> QED
      BY <2>2, <2>3
<1> QED
    BY <1>2, <1>3, <1>4, <1>5 DEF Total

\* A step of a committed call that moves no more than its own legs.
LEMMA CommittedIInv ==
    ASSUME IInv, TypeOK', NEW t \in Slots, Frame(t), Committed(t), Committed(t)',
           fills' = fills, req' = req, status' = status, filled' = filled, paid' = paid,
           BridgeCommitted(t)' <=> BridgeCommitted(t),
           BridgeCommitted(t) => bridged'[t] = bridged[t] /\ cur'[t] = cur[t],
           paid[t] > 0 => FeePayer(t)' = FeePayer(t),
           SlotShape(t)',
           \A u \in Users : bal'[u] - bal[u] = moved'[t][u] - moved[t][u]
    PROVE  IInv'
<1>1. RowShape'
  <2> SUFFICES ASSUME NEW c \in Slots
               PROVE  /\ status[c] = "none" <=> ~Committed(c)'
                      /\ ~Committed(c)' => filled[c] = 0
                      /\ status[c] = "open" => filled[c] < req[c].qty
      BY DEF RowShape
  <2>1. Committed(c)' = Committed(c)
      BY DEF Frame, Committed
  <2> QED
      BY <2>1 DEF IInv, RowShape
<1>2. \A u \in Users : bal'[u] - bal[u] = Total(t, u)' - Total(t, u)
    BY CommittedTotal
<1>3. req' \in [Slots -> Requests]
    BY DEF IInv
<1> QED
    BY <1>1, <1>2, <1>3, StepIInv

\* Before its bridge the call owes no fee, if it turns to the bridge at all.
LEMMA NoFeeBeforeBridge ==
    ASSUME IInv, NEW t \in Slots, pc[t] \in {"bridge", "bridging"}
    PROVE  due[t] = 0 /\ paid[t] = 0
BY DEF IInv, SlotShape, TakenShape, FeeShape

\* The unlocked read of the bridge moves nothing.
LEMMA BridgeReadIInv ==
    ASSUME IInv, NEW t \in Slots, BridgeRead(t)
    PROVE  IInv'
<1> USE DEF rows, money, flags
<1> DEFINE C == {c \in Slots :
                    /\ status[c] = "open"
                    /\ req[c].side = Opposite(req[t].side)
                    /\ req[c].user # req[t].user
                    /\ ForBridge(t, c)}
<1>1. /\ TypeOK /\ SlotShape(t) /\ RowShape
      /\ pc[t] = "bridge"
      /\ UNCHANGED <<rows, todo, req, fills, offered, money, flags, faults, cancels>>
    BY DEF IInv, BridgeRead
<1>2. /\ Taken(t)' = Taken(t) /\ Taken(t) = 0
      /\ due[t] = 0 /\ paid[t] = 0 /\ bridged[t] = 0
  <2>1. bridged[t] \in Nat
      BY <1>1 DEF TypeOK
  <2>2. bridged[t] = 0
      BY <1>1, <2>1 DEF SlotShape, CurShape
  <2>3. Taken(t) = 0
      BY <1>1 DEF SlotShape, TakenShape
  <2> QED
      BY <1>1, <2>2, <2>3, TakenKept, NoFeeBeforeBridge
<1>3. CASE Goto(t, "done") /\ UNCHANGED <<cur, snap, bridged, leg>>
  <2>1. /\ pc'[t] = "done"
        /\ \A o \in Slots \ {t} : pc'[o] = pc[o]
      BY <1>1, <1>3 DEF Goto, TypeOK
  <2>2. TypeOK'
      BY <1>1, <1>3 DEF TypeOK, Goto, Steps
  <2>3. Frame(t) /\ Committed(t) /\ Committed(t)'
      BY <1>1, <1>3, <2>1 DEF Frame, Committed
  <2>4. TakenShape(t)'
      BY <1>1, <1>2, <2>1 DEF SlotShape, TakenShape
  <2>5. FillShape(t)'
      BY <1>1, <2>1, <2>3, CommittedKept DEF SlotShape, FillShape, Active
  <2>6. CurShape(t)'
      BY <1>2, <1>3, <2>1 DEF CurShape
  <2>7. FeeShape(t)' /\ MovedShape(t)'
      BY <2>1 DEF FeeShape, MovedShape
  <2>8. SurplusShape(t)'
      BY <1>1, <2>1 DEF SlotShape, SurplusShape, Surplus
  <2>9. SlotShape(t)'
      BY <2>4, <2>5, <2>6, <2>7, <2>8 DEF SlotShape
  <2>10. ~BridgeCommitted(t) /\ ~BridgeCommitted(t)'
      BY <1>2, <1>3 DEF BridgeCommitted
  <2>11. \A u \in Users : bal'[u] - bal[u] = moved'[t][u] - moved[t][u]
      BY <1>1 DEF TypeOK
  <2> QED
      BY <1>1, <1>2, <1>3, <2>2, <2>3, <2>9, <2>10, <2>11, CommittedIInv
<1>4. CASE ~(Goto(t, "done") /\ UNCHANGED <<cur, snap, bridged, leg>>)
  <2>1. /\ C # {}
        /\ cur' = [cur EXCEPT ![t] = Min(C)]
        /\ snap' = [snap EXCEPT ![t] = filled[Min(C)]]
        /\ bridged' = [bridged EXCEPT ![t] = Min({req[t].qty, req[Min(C)].qty - filled[Min(C)]})]
        /\ leg' = [leg EXCEPT ![t] = 1]
        /\ Goto(t, "bridging")
      BY <1>4 DEF BridgeRead
  <2>2. Min(C) \in C
    <3>1. C \subseteq Nat
        BY DEF Slots
    <3> HIDE DEF C
    <3> QED
        BY <2>1, <3>1, MinInNat
  <2>3. PICK c \in Slots : c = Min(C) /\ status[c] = "open"
      BY <2>2
  <2> HIDE DEF C
  <2>4. Committed(c) /\ filled[c] < req[c].qty
      BY <1>1, <2>3 DEF RowShape
  <2>5. /\ req[t].qty \in Nat /\ req[c].qty - filled[c] \in Nat /\ filled[c] \in Nat
      BY <1>1, <2>4, RequestsTyped DEF IInv, TypeOK
  <2>6. PICK q \in Nat : bridged' = [bridged EXCEPT ![t] = q]
    <3> DEFINE a == req[t].qty
               b == req[c].qty - filled[c]
    <3>1. a \in Nat /\ b \in Nat
        BY <2>5
    <3>2. bridged' = [bridged EXCEPT ![t] = Min({a, b})]
        BY <2>1, <2>3
    <3> HIDE DEF a, b
    <3>3. Min({a, b}) \in Nat
        BY <3>1, MinOfTwo
    <3> QED
        BY <3>2, <3>3
  <2>7. /\ pc'[t] = "bridging" /\ cur'[t] = c /\ leg'[t] = 1 /\ bridged'[t] = q
        /\ \A o \in Slots \ {t} : /\ pc'[o] = pc[o] /\ cur'[o] = cur[o]
                                  /\ leg'[o] = leg[o] /\ bridged'[o] = bridged[o]
      BY <1>1, <2>1, <2>3, <2>6 DEF Goto, TypeOK
  <2>8. TypeOK'
    <3>1. cur' \in [Slots -> 0..N]
        BY <1>1, <2>1, <2>3 DEF TypeOK, Slots
    <3>2. snap' \in [Slots -> Nat] /\ bridged' \in [Slots -> Nat] /\ leg' \in [Slots -> 1..5]
        BY <1>1, <2>1, <2>3, <2>5, <2>6 DEF TypeOK
    <3>3. pc' \in [Slots -> Steps]
        BY <1>1, <2>1 DEF TypeOK, Goto, Steps
    <3> QED
        BY <1>1, <3>1, <3>2, <3>3 DEF TypeOK
  <2>9. Frame(t) /\ Committed(t) /\ Committed(t)'
      BY <1>1, <2>7 DEF Frame, Committed
  <2>10. TakenShape(t)'
      BY <1>1, <1>2, <2>7 DEF SlotShape, TakenShape
  <2>11. FillShape(t)'
      BY <1>1, <2>7, <2>9, CommittedKept DEF SlotShape, FillShape, Active
  <2>12. CurShape(t)'
      BY <2>4, <2>7, <2>9, CommittedKept DEF CurShape
  <2>13. FeeShape(t)'
      BY <1>1, <1>2 DEF FeeShape
  <2>14. \A u \in Users : moved[t][u] = 0
      BY <1>1 DEF SlotShape, MovedShape
  <2>15. MovedShape(t)'
      BY <1>1, <2>7, <2>14 DEF MovedShape
  <2>16. SurplusShape(t)'
      BY <1>1, <2>7 DEF SlotShape, SurplusShape, Surplus, Ahead
  <2>17. SlotShape(t)'
      BY <2>10, <2>11, <2>12, <2>13, <2>15, <2>16 DEF SlotShape
  <2>18. ~BridgeCommitted(t) /\ ~BridgeCommitted(t)'
      BY <1>1, <2>7 DEF BridgeCommitted
  <2>19. \A u \in Users : bal'[u] - bal[u] = moved'[t][u] - moved[t][u]
      BY <1>1 DEF TypeOK
  <2> QED
      BY <1>1, <1>2, <2>8, <2>9, <2>17, <2>18, <2>19, CommittedIInv
<1> QED
    BY <1>3, <1>4

\* A leg over the bridge is put down to its call before the trade is recorded.
LEMMA BridgeLegIInv ==
    ASSUME IInv, NEW t \in Slots, BridgeLeg(t)
    PROVE  IInv'
<1> USE DEF rows
<1>1. /\ TypeOK /\ SlotShape(t)
      /\ pc[t] = "bridging"
      /\ UNCHANGED <<rows, pc, todo, req, fills, cur, snap, bridged, offered,
                   settled, due, paid, flags, faults, cancels>>
    BY DEF IInv, BridgeLeg
<1>2. cur[t] \in Slots /\ bridged[t] \in Nat
    BY <1>1 DEF SlotShape, CurShape, TypeOK
<1>3. Buyer(t) \in Users /\ Seller(t) \in Users /\ AI \in Users
    BY <1>2, PartnersAreUsers, OrderBookAssumption
<1>4. PICK u \in Users, d \in Int :
          /\ Leg(t, u, d)
          /\ \/ leg[t] = 1 /\ u = Buyer(t) /\ d = bridged[t]
             \/ leg[t] = 2 /\ u = AI /\ d = -bridged[t]
             \/ leg[t] = 3 /\ u = AI /\ d = bridged[t]
             \/ leg[t] = 4 /\ u = Seller(t) /\ d = -bridged[t]
    BY <1>1, <1>2, <1>3, BridgeLegIs
<1>5. leg[t] \in {1, 2, 3, 4}
    BY <1>4
<1>6. /\ bal' \in [Users -> Nat] /\ moved' \in [Slots -> [Users -> Int]]
      /\ leg' \in [Slots -> 1..5] /\ leg'[t] = leg[t] + 1
      /\ \A o \in Slots \ {t} : moved'[o] = moved[o] /\ leg'[o] = leg[o]
      /\ \A v \in Users : moved'[t][v] = moved[t][v] + (IF v = u THEN d ELSE 0)
      /\ \A v \in Users : bal'[v] = bal[v] + (IF v = u THEN d ELSE 0)
      /\ Surplus(t)' = Surplus(t) + d
    BY <1>1, <1>4, <1>5, LegIs
<1>7. TypeOK'
    BY <1>1, <1>6 DEF TypeOK, flags
<1>8. Frame(t) /\ Committed(t) /\ Committed(t)'
    BY <1>1, <1>6 DEF Frame, Committed
<1>9. Taken(t)' = Taken(t)
    BY <1>1, TakenKept
<1>10. TakenShape(t)'
    BY <1>1, <1>9 DEF SlotShape, TakenShape
<1>11. FillShape(t)'
    BY <1>1, <1>8, <1>9, CommittedKept DEF SlotShape, FillShape, Active
<1>12. CurShape(t)'
    BY <1>1, <1>2, <1>8, CommittedKept DEF SlotShape, CurShape
<1>13. FeeShape(t)'
    BY <1>1, <1>9 DEF SlotShape, FeeShape
<1>14. MovedShape(t)'
  <2> SUFFICES ASSUME NEW v \in Users
               PROVE  moved'[t][v] = (IF leg'[t] > 1 /\ v = Buyer(t) THEN bridged[t] ELSE 0)
                           - (IF leg'[t] = 3 /\ v = AI THEN bridged[t] ELSE 0)
                           - (IF leg'[t] > 4 /\ v = Seller(t) THEN bridged[t] ELSE 0)
    <3>1. Buyer(t)' = Buyer(t) /\ Seller(t)' = Seller(t)
        BY <1>1 DEF Buyer, Seller
    <3> QED
        BY <1>1, <3>1 DEF MovedShape
  <2>1. moved[t][v] = (IF leg[t] > 1 /\ v = Buyer(t) THEN bridged[t] ELSE 0)
                           - (IF leg[t] = 3 /\ v = AI THEN bridged[t] ELSE 0)
                           - (IF leg[t] > 4 /\ v = Seller(t) THEN bridged[t] ELSE 0)
      BY <1>1 DEF SlotShape, MovedShape
  <2>2. moved'[t][v] = moved[t][v] + (IF v = u THEN d ELSE 0)
      BY <1>6
  <2>3. CASE leg[t] = 1
      BY <1>2, <1>4, <1>6, <2>1, <2>2, <2>3
  <2>4. CASE leg[t] = 2
      BY <1>2, <1>4, <1>6, <2>1, <2>2, <2>4
  <2>5. CASE leg[t] = 3
      BY <1>2, <1>4, <1>6, <2>1, <2>2, <2>5
  <2>6. CASE leg[t] = 4
      BY <1>2, <1>4, <1>6, <2>1, <2>2, <2>6
  <2> QED
      BY <1>5, <2>3, <2>4, <2>5, <2>6
<1>15. SurplusShape(t)'
  <2>1. Surplus(t) = Ahead(t)
      BY <1>1 DEF SlotShape, SurplusShape
  <2> QED
      BY <1>1, <1>2, <1>4, <1>5, <1>6, <2>1 DEF SurplusShape, Ahead
<1>16. SlotShape(t)'
    BY <1>10, <1>11, <1>12, <1>13, <1>14, <1>15 DEF SlotShape
<1>17. \A v \in Users : bal'[v] - bal[v] = moved'[t][v] - moved[t][v]
  <2> TAKE v \in Users
  <2>1. bal[v] \in Int /\ moved[t][v] \in Int
      BY <1>1 DEF TypeOK
  <2> QED
      BY <1>6, <2>1
<1>18. ~BridgeCommitted(t) /\ ~BridgeCommitted(t)'
    BY <1>1 DEF BridgeCommitted
<1>19. paid[t] = 0
    BY <1>1, NoFeeBeforeBridge
<1> QED
    BY <1>1, <1>7, <1>8, <1>16, <1>17, <1>18, <1>19, CommittedIInv

\* The bridge ends without its trades.
LEMMA BridgeFailsIInv ==
    ASSUME IInv, NEW t \in Slots, pc[t] = "bridging", BridgeFails(t), faults' \in 0..MaxFaults
    PROVE  IInv'
<1> USE DEF rows, money, flags
<1>1. /\ TypeOK /\ SlotShape(t)
      /\ bridged' = [bridged EXCEPT ![t] = 0]
      /\ Goto(t, "done")
      /\ UNCHANGED <<rows, todo, req, fills, cur, leg, snap, offered, money, flags, cancels>>
    BY DEF IInv, BridgeFails
<1>2. /\ pc'[t] = "done" /\ bridged'[t] = 0
      /\ \A o \in Slots \ {t} : pc'[o] = pc[o] /\ bridged'[o] = bridged[o]
    BY <1>1 DEF Goto, TypeOK
<1>3. TypeOK'
    BY <1>1 DEF TypeOK, Goto, Steps
<1>4. Frame(t) /\ Committed(t) /\ Committed(t)'
    BY <1>1, <1>2 DEF Frame, Committed
<1>5. TakenShape(t)'
    BY <1>1, <1>2, TakenKept DEF SlotShape, TakenShape
<1>6. FillShape(t)'
    BY <1>1, <1>2, <1>4, CommittedKept DEF SlotShape, FillShape, Active
<1>7. CurShape(t)'
    BY <1>2 DEF CurShape
<1>8. FeeShape(t)' /\ MovedShape(t)'
    BY <1>2 DEF FeeShape, MovedShape
<1>9. SurplusShape(t)'
    BY <1>1, <1>2 DEF SlotShape, SurplusShape, Surplus
<1>10. SlotShape(t)'
    BY <1>5, <1>6, <1>7, <1>8, <1>9 DEF SlotShape
<1>11. ~BridgeCommitted(t) /\ ~BridgeCommitted(t)'
    BY <1>2 DEF BridgeCommitted
<1>12. paid[t] = 0
    BY NoFeeBeforeBridge
<1>13. \A u \in Users : bal'[u] - bal[u] = moved'[t][u] - moved[t][u]
    BY <1>1 DEF TypeOK
<1> QED
    BY <1>1, <1>3, <1>4, <1>10, <1>11, <1>12, <1>13, CommittedIInv

\* Recording the trade over the bridge turns its four legs into a trade.
LEMMA BridgeCommitIInv ==
    ASSUME IInv, NEW t \in Slots, BridgeCommit(t)
    PROVE  IInv'
<1> USE DEF rows, call, flags
<1>1. /\ TypeOK /\ SlotShape(t)
      /\ pc[t] = "bridging" /\ leg[t] = 5
      /\ moved' = [moved EXCEPT ![t] = Zero]
      /\ settled' \in {settled, settled \cup {<<t, cur[t]>>}}
      /\ due' = [due EXCEPT ![t] = @ + 1]
      /\ Goto(t, "mark")
      /\ UNCHANGED <<rows, todo, call, bal, paid, flags, faults, cancels>>
    BY DEF IInv, BridgeCommit
<1>2. cur[t] \in Slots /\ bridged[t] \in Nat
    BY <1>1 DEF SlotShape, CurShape, TypeOK
<1>3. /\ pc'[t] = "mark" /\ \A u \in Users : moved'[t][u] = 0
      /\ \A o \in Slots \ {t} : pc'[o] = pc[o] /\ moved'[o] = moved[o] /\ due'[o] = due[o]
    BY <1>1, ZeroIs DEF Goto, TypeOK
<1>4. TypeOK'
  <2>1. moved' \in [Slots -> [Users -> Int]] /\ due' \in [Slots -> Nat]
      BY <1>1, ZeroIs DEF TypeOK
  <2>2. settled' \subseteq Slots \X Slots
      BY <1>1, <1>2 DEF TypeOK
  <2>3. pc' \in [Slots -> Steps]
      BY <1>1 DEF TypeOK, Goto, Steps
  <2> QED
      BY <1>1, <2>1, <2>2, <2>3 DEF TypeOK
<1>5. Frame(t) /\ Committed(t) /\ Committed(t)'
    BY <1>1, <1>3 DEF Frame, Committed
<1>6. TakenShape(t)'
    BY <1>1, <1>3, TakenKept DEF SlotShape, TakenShape
<1>7. FillShape(t)'
    BY <1>1, <1>3, <1>5, CommittedKept DEF SlotShape, FillShape, Active
<1>8. CurShape(t)'
    BY <1>1, <1>3, <1>5, CommittedKept DEF SlotShape, CurShape
<1>9. FeeShape(t)' /\ MovedShape(t)'
    BY <1>3 DEF FeeShape, MovedShape
<1>10. SurplusShape(t)'
    BY <1>3, SurplusOfZero DEF SurplusShape, Ahead
<1>11. SlotShape(t)'
    BY <1>6, <1>7, <1>8, <1>9, <1>10 DEF SlotShape
<1>12. RowShape'
  <2>1. \A c \in Slots : Committed(c)' <=> Committed(c)
      BY <1>1, <1>3 DEF Committed
  <2> QED
      BY <1>1, <2>1 DEF IInv, RowShape
<1>13. ASSUME NEW u \in Users
       PROVE  bal'[u] - bal[u] = Total(t, u)' - Total(t, u)
  <2> DEFINE b == Signed(req[t].side, bridged[t], req[t].user, req[cur[t]].user, u)
  <2>1. DirectEffect(t, u)' = DirectEffect(t, u) /\ DirectEffect(t, u) \in Int
      BY <1>1, EffectsSame, DirectEffectInt DEF TypeOK
  <2>2. TradeEffect(t, u) = DirectEffect(t, u)
      BY <1>1, <1>5, <2>1, TradeEffectIs DEF BridgeCommitted
  <2>3. b = (IF u = Buyer(t) THEN bridged[t] ELSE 0) - (IF u = Seller(t) THEN bridged[t] ELSE 0)
      BY <1>2 DEF Signed, Buyer, Seller
  <2>4. b = moved[t][u]
      BY <1>1, <1>2, <2>3 DEF SlotShape, MovedShape
  <2>5. b \in Int
      BY <1>2 DEF Signed
  <2> HIDE DEF b
  <2>6. TradeEffect(t, u)' = DirectEffect(t, u) + b
    <3>1. CASE bridged[t] = 0
      <4>1. b = 0
          BY <3>1 DEF b, Signed
      <4>2. TradeEffect(t, u)' = DirectEffect(t, u) + 0
          BY <1>1, <1>5, <2>1, <3>1, TradeEffectNext DEF BridgeCommitted
      <4> QED
          BY <4>1, <4>2
    <3>2. CASE bridged[t] > 0
        BY <1>1, <1>3, <1>5, <2>1, <3>2, TradeEffectNext DEF BridgeCommitted, b
    <3> QED
        BY <1>2, <3>1, <3>2
  <2>7. FeeEffect(t, u)' = FeeEffect(t, u)
      BY <1>1 DEF FeeEffect, FeePayer, Buyer
  <2>8. FeeEffect(t, u) \in Int
      BY <1>1, OrderBookAssumption DEF TypeOK, FeeEffect
  <2>9. bal'[u] = bal[u] /\ bal[u] \in Int
      BY <1>1 DEF TypeOK
  <2> QED
      BY <1>3, <2>1, <2>2, <2>4, <2>5, <2>6, <2>7, <2>8, <2>9 DEF Total
<1>14. req' \in [Slots -> Requests]
    BY <1>1 DEF IInv
<1> QED
    BY <1>4, <1>5, <1>11, <1>12, <1>13, <1>14, StepIInv

\* Writing the rows of a trade over the bridge moves no unit.
LEMMA BridgeMarkIInv ==
    ASSUME IInv, NEW t \in Slots, BridgeMark(t)
    PROVE  IInv'
<1> USE DEF call, money, flags
<1> DEFINE f == snap[t] + bridged[t]
<1>1. /\ TypeOK /\ SlotShape(t) /\ RowShape
      /\ pc[t] = "mark"
      /\ lock[t] = 0 /\ lock[cur[t]] = 0
      /\ filled' = [filled EXCEPT ![t] = bridged[t], ![cur[t]] = f]
      /\ status' = [status EXCEPT ![t] = "filled",
                          ![cur[t]] = IF f >= req[cur[t]].qty THEN "filled" ELSE "open"]
      /\ Goto(t, "done")
      /\ UNCHANGED <<lock, todo, call, money, flags, faults, cancels>>
    BY DEF IInv, BridgeMark
<1>2. PICK c \in Slots : c = cur[t] /\ Committed(c)
    BY <1>1 DEF SlotShape, CurShape
<1>3. f \in Nat /\ bridged[t] \in Nat /\ req[c].qty \in Nat
    BY <1>1, <1>2, RequestsTyped DEF IInv, TypeOK
<1>4. /\ pc'[t] = "done" /\ \A o \in Slots \ {t} : pc'[o] = pc[o]
      /\ \A d \in Slots : Committed(d)' <=> Committed(d)
      /\ Committed(t) /\ Committed(t)'
    BY <1>1 DEF Goto, TypeOK, Committed
<1>5. TypeOK'
  <2>1. filled' \in [Slots -> Nat]
      BY <1>1, <1>3 DEF TypeOK
  <2>2. status' \in [Slots -> {"none", "open", "filled", "cancelled"}]
      BY <1>1 DEF TypeOK
  <2>3. pc' \in [Slots -> Steps]
      BY <1>1 DEF TypeOK, Goto, Steps
  <2> QED
      BY <1>1, <2>1, <2>2, <2>3 DEF TypeOK
<1>6. /\ \A d \in Slots \ {t, c} : filled'[d] = filled[d] /\ status'[d] = status[d]
      /\ filled'[c] = f /\ status'[c] = (IF f >= req[c].qty THEN "filled" ELSE "open")
      /\ t # c => status'[t] = "filled"
    BY <1>1, <1>2 DEF TypeOK
<1> HIDE DEF f
<1>7. Frame(t)
    BY <1>1, <1>2, <1>4, <1>6 DEF Frame
<1>8. RowShape'
  <2> SUFFICES ASSUME NEW d \in Slots
               PROVE  /\ status'[d] = "none" <=> ~Committed(d)
                      /\ ~Committed(d) => filled'[d] = 0
                      /\ status'[d] = "open" => filled'[d] < req[d].qty
      BY <1>1, <1>4 DEF RowShape
  <2>1. CASE d \notin {t, c}
      BY <1>1, <1>6, <2>1 DEF RowShape
  <2>2. CASE d = c
      BY <1>2, <1>3, <1>6, <2>2
  <2>3. CASE d = t /\ t # c
      BY <1>4, <1>6, <2>3
  <2> QED
      BY <2>1, <2>2, <2>3
<1>9. TakenShape(t)'
    BY <1>1, <1>4, TakenKept DEF SlotShape, TakenShape
<1>10. FillShape(t)'
    BY <1>1, <1>4 DEF SlotShape, FillShape, Active
<1>11. CurShape(t)'
    BY <1>1, <1>4 DEF SlotShape, CurShape
<1>12. FeeShape(t)' /\ MovedShape(t)'
    BY <1>4 DEF FeeShape, MovedShape
<1>13. SurplusShape(t)'
    BY <1>1, <1>4 DEF SlotShape, SurplusShape, Surplus
<1>14. SlotShape(t)'
    BY <1>9, <1>10, <1>11, <1>12, <1>13 DEF SlotShape
<1>15. BridgeCommitted(t)' <=> BridgeCommitted(t)
    BY <1>1, <1>4 DEF BridgeCommitted
<1>16. FeePayer(t)' = FeePayer(t)
    BY <1>1 DEF FeePayer, Buyer
<1>17. \A u \in Users : bal'[u] - bal[u] = moved'[t][u] - moved[t][u]
    BY <1>1 DEF TypeOK
<1>18. \A u \in Users : bal'[u] - bal[u] = Total(t, u)' - Total(t, u)
    BY <1>1, <1>4, <1>5, <1>15, <1>16, <1>17, CommittedTotal
<1>19. req' \in [Slots -> Requests]
    BY <1>1 DEF IInv
<1> QED
    BY <1>5, <1>7, <1>8, <1>14, <1>18, <1>19, StepIInv

\* A fault before or after the bridge's own transaction.
LEMMA GiveUpIInv ==
    ASSUME IInv, NEW t \in Slots, pc[t] \in {"bridge", "mark"}, Goto(t, "done"),
           UNCHANGED <<rows, todo, call, money, flags, cancels>>, faults' \in 0..MaxFaults
    PROVE  IInv'
<1> USE DEF rows, call, money, flags
<1>1. TypeOK /\ SlotShape(t)
    BY DEF IInv
<1>2. /\ pc'[t] = "done" /\ \A o \in Slots \ {t} : pc'[o] = pc[o]
    BY <1>1 DEF Goto, TypeOK
<1>3. TypeOK'
    BY <1>1 DEF TypeOK, Goto, Steps
<1>4. Frame(t) /\ Committed(t) /\ Committed(t)'
    BY <1>2 DEF Frame, Committed
<1>5. TakenShape(t)'
    BY <1>1, <1>2, TakenKept DEF SlotShape, TakenShape
<1>6. FillShape(t)'
    BY <1>1, <1>2, <1>4, CommittedKept DEF SlotShape, FillShape, Active
<1>7. CurShape(t)'
    BY <1>1, <1>2, <1>4, CommittedKept DEF SlotShape, CurShape
<1>8. FeeShape(t)' /\ MovedShape(t)'
    BY <1>2 DEF FeeShape, MovedShape
<1>9. SurplusShape(t)'
    BY <1>1, <1>2 DEF SlotShape, SurplusShape, Surplus
<1>10. SlotShape(t)'
    BY <1>5, <1>6, <1>7, <1>8, <1>9 DEF SlotShape
<1>11. BridgeCommitted(t)' <=> BridgeCommitted(t)
  <2>1. bridged[t] \in Nat
      BY <1>1 DEF TypeOK
  <2> QED
      BY <1>1, <1>2, <2>1 DEF BridgeCommitted, SlotShape, CurShape
<1>12. FeePayer(t)' = FeePayer(t)
    BY DEF FeePayer, Buyer
<1>13. \A u \in Users : bal'[u] - bal[u] = moved'[t][u] - moved[t][u]
    BY <1>1 DEF TypeOK
<1> QED
    BY <1>1, <1>3, <1>4, <1>10, <1>11, <1>12, <1>13, CommittedIInv
-----------------------------------------------------------------------------
(* The fee, cancelOrder, the flags, and all steps together.                 *)

\* The fee is paid by the taker to the AI participant, or not at all.
LEMMA ChargeFeeIInv ==
    ASSUME IInv, NEW t \in Slots, ChargeFee(t)
    PROVE  IInv'
<1> USE DEF rows, call, flags
<1>1. /\ TypeOK /\ SlotShape(t)
      /\ due[t] > 0
      /\ due' = [due EXCEPT ![t] = @ - 1]
      /\ UNCHANGED <<rows, pc, todo, call, moved, settled, flags, faults, cancels>>
    BY DEF IInv, ChargeFee
<1>2. due[t] \in Nat /\ paid[t] \in Nat /\ Fee \in Nat /\ AI \in Users
    BY <1>1, OrderBookAssumption DEF TypeOK
<1>3. PICK p \in Users : p = FeePayer(t)
  <2>1. bridged[t] > 0 => cur[t] \in Slots
      BY <1>1 DEF SlotShape, CurShape
  <2> QED
      BY <2>1, PartnersAreUsers, RequestsTyped DEF IInv, FeePayer
<1>4. /\ paid' \in [Slots -> Nat] /\ bal' \in [Users -> Nat]
      /\ \A o \in Slots \ {t} : paid'[o] = paid[o]
      /\ \/ paid'[t] = paid[t] /\ bal' = bal
         \/ /\ paid'[t] = paid[t] + 1
            /\ \A u \in Users : bal'[u] = bal[u] - (IF u = p THEN Fee ELSE 0) + (IF u = AI THEN Fee ELSE 0)
  <2>1. CASE bal[p] >= Fee
    <3>1. /\ bal' = [bal EXCEPT ![p] = @ - Fee, ![AI] = @ + Fee]
          /\ paid' = [paid EXCEPT ![t] = @ + 1]
        BY <1>3, <2>1 DEF ChargeFee
    <3>2. paid' \in [Slots -> Nat] /\ paid'[t] = paid[t] + 1 /\ \A o \in Slots \ {t} : paid'[o] = paid[o]
        BY <1>1, <3>1 DEF TypeOK
    <3>3. bal \in [Users -> Nat]
        BY <1>1 DEF TypeOK
    <3>4. \A u \in Users : bal'[u] = bal[u] - (IF u = p THEN Fee ELSE 0) + (IF u = AI THEN Fee ELSE 0)
        BY <1>2, <1>3, <3>1, <3>3
    <3>5. bal' \in [Users -> Nat]
      <4>1. \A u \in Users : bal'[u] \in Nat
          BY <1>2, <2>1, <3>3, <3>4
      <4>2. DOMAIN bal' = Users /\ bal' = [u \in Users |-> bal'[u]]
          BY <3>1, <3>3
      <4> QED
          BY <4>1, <4>2
    <3> QED
        BY <3>2, <3>4, <3>5
  <2>2. CASE ~(bal[p] >= Fee)
      BY <1>1, <1>3, <2>2 DEF ChargeFee, TypeOK
  <2> QED
      BY <2>1, <2>2
<1>5. due' \in [Slots -> Nat] /\ \A o \in Slots \ {t} : due'[o] = due[o]
    BY <1>1, <1>2 DEF TypeOK
<1>6. TypeOK'
    BY <1>1, <1>4, <1>5 DEF TypeOK
<1>7. Frame(t)
    BY <1>1, <1>4, <1>5 DEF Frame, Committed
<1>8. RowShape'
    BY <1>1 DEF IInv, RowShape, Committed
<1>9. Taken(t)' = Taken(t)
    BY <1>1, TakenKept
<1>10. TakenShape(t)'
    BY <1>1, <1>9 DEF SlotShape, TakenShape
<1>11. FillShape(t)'
    BY <1>1, <1>9, <1>7, CommittedKept DEF SlotShape, FillShape, Active
<1>12. CurShape(t)'
    BY <1>1, <1>7, CommittedKept DEF SlotShape, CurShape
<1>13. FeeShape(t)'
    BY <1>1, <1>9 DEF SlotShape, FeeShape
<1>14. MovedShape(t)'
  <2> SUFFICES ASSUME NEW u \in Users
               PROVE
        /\ pc[t] \in {"unborn", "admitted", "select", "scan", "commit"} =>
             moved[t][u] = DirectEffect(t, u)'
        /\ pc[t] = "legs" =>
             moved[t][u] = DirectEffect(t, u)' - PairEffect(t, cur[t], u)'
                           + (IF leg[t] > 1 /\ u = Buyer(t)' THEN fills[t][cur[t]] ELSE 0)
                           - (IF leg[t] > 2 /\ u = Seller(t)' THEN fills[t][cur[t]] ELSE 0)
        /\ pc[t] \in {"bridge", "mark"} => moved[t][u] = 0
        /\ pc[t] = "bridging" =>
             moved[t][u] = (IF leg[t] > 1 /\ u = Buyer(t)' THEN bridged[t] ELSE 0)
                           - (IF leg[t] = 3 /\ u = AI THEN bridged[t] ELSE 0)
                           - (IF leg[t] > 4 /\ u = Seller(t)' THEN bridged[t] ELSE 0)
      BY <1>1 DEF MovedShape
  <2>1. DirectEffect(t, u)' = DirectEffect(t, u) /\ PairEffect(t, cur[t], u)' = PairEffect(t, cur[t], u)
      BY <1>1, EffectsSame
  <2>2. Buyer(t)' = Buyer(t) /\ Seller(t)' = Seller(t)
      BY <1>1 DEF Buyer, Seller
  <2> QED
      BY <1>1, <2>1, <2>2 DEF SlotShape, MovedShape
<1>15. SurplusShape(t)'
    BY <1>1 DEF SlotShape, SurplusShape, Surplus, Ahead
<1>16. SlotShape(t)'
    BY <1>10, <1>11, <1>12, <1>13, <1>14, <1>15 DEF SlotShape
<1>17. ASSUME NEW u \in Users
       PROVE  bal'[u] - bal[u] = Total(t, u)' - Total(t, u)
  <2>1. TradeEffect(t, u)' = TradeEffect(t, u)
    <3>1. DirectEffect(t, u)' = DirectEffect(t, u)
        BY <1>1, EffectsSame
    <3> QED
        BY <1>1, <3>1, TradeEffectIs, TradeEffectNext DEF Committed, BridgeCommitted
  <2>2. TradeEffect(t, u) \in Int
    <3>1. DirectEffect(t, u) \in Int /\ bridged[t] \in Nat
        BY <1>1, DirectEffectInt DEF TypeOK
    <3> QED
        BY <3>1, TradeEffectIs DEF Signed
  <2>3. FeePayer(t)' = p
      BY <1>1, <1>3 DEF FeePayer, Buyer
  <2> DEFINE x == Fee * paid[t]
  <2>4. x \in Int /\ -Fee * paid[t] = -x /\ Fee * (paid[t] + 1) = x + Fee /\ -Fee * (paid[t] + 1) = -x - Fee
      BY <1>2
  <2>5. FeeEffect(t, u) = (IF u = p THEN -x ELSE 0) + (IF u = AI THEN x ELSE 0)
      BY <1>3, <2>4 DEF FeeEffect
  <2>6. CASE paid'[t] = paid[t] /\ bal' = bal
    <3>1. FeeEffect(t, u)' = FeeEffect(t, u)
        BY <1>3, <2>3, <2>6 DEF FeeEffect
    <3>2. Total(t, u)' = Total(t, u)
        BY <1>1, <2>1, <3>1 DEF Total
    <3>3. Total(t, u) \in Int /\ bal[u] \in Int
        BY <1>1, TotalInt DEF TypeOK
    <3> QED
        BY <2>6, <3>2, <3>3
  <2>7. CASE paid'[t] = paid[t] + 1 /\ bal'[u] = bal[u] - (IF u = p THEN Fee ELSE 0) + (IF u = AI THEN Fee ELSE 0)
    <3>1. FeeEffect(t, u)' = (IF u = p THEN -x - Fee ELSE 0) + (IF u = AI THEN x + Fee ELSE 0)
        BY <2>3, <2>4, <2>7 DEF FeeEffect
    <3>2. bal[u] \in Int /\ moved[t][u] \in Int /\ moved'[t][u] = moved[t][u]
        BY <1>1 DEF TypeOK
    <3> HIDE DEF x
    <3> QED
        BY <1>2, <2>1, <2>2, <2>4, <2>5, <2>7, <3>1, <3>2 DEF Total
  <2> QED
      BY <1>4, <2>6, <2>7
<1>18. req' \in [Slots -> Requests]
    BY <1>1 DEF IInv
<1> QED
    BY <1>6, <1>7, <1>8, <1>16, <1>17, <1>18, StepIInv

\* Nothing the invariant speaks of changes, except flags and counters, and
\* order rows that are cancelled.
LEMMA AsideIInv ==
    ASSUME IInv, TypeOK', RowShape', UNCHANGED <<filled, lock, pc, call, money>>
    PROVE  IInv'
<1> USE DEF call, money
<1>1. ASSUME NEW t \in Slots
      PROVE  SlotShape(t)' /\ \A u \in Users : Total(t, u)' = Total(t, u)
  <2>1. SlotShape(t)
      BY DEF IInv
  <2>2. Taken(t)' = Taken(t)
      BY TakenKept
  <2>3. \A u : DirectEffect(t, u)' = DirectEffect(t, u) /\ \A c : PairEffect(t, c, u)' = PairEffect(t, c, u)
      BY EffectsSame
  <2>4. Buyer(t)' = Buyer(t) /\ Seller(t)' = Seller(t)
      BY DEF Buyer, Seller
  <2>5. TakenShape(t)' /\ CurShape(t)' /\ FeeShape(t)'
      BY <2>1, <2>2 DEF SlotShape, TakenShape, CurShape, FeeShape, Committed
  <2>6. FillShape(t)'
      BY <2>1, <2>2 DEF SlotShape, FillShape, Committed, Active
  <2>8. MovedShape(t)'
    <3> SUFFICES ASSUME NEW u \in Users
                 PROVE
        /\ pc[t] \in {"unborn", "admitted", "select", "scan", "commit"} =>
             moved[t][u] = DirectEffect(t, u)'
        /\ pc[t] = "legs" =>
             moved[t][u] = DirectEffect(t, u)' - PairEffect(t, cur[t], u)'
                           + (IF leg[t] > 1 /\ u = Buyer(t)' THEN fills[t][cur[t]] ELSE 0)
                           - (IF leg[t] > 2 /\ u = Seller(t)' THEN fills[t][cur[t]] ELSE 0)
        /\ pc[t] \in {"bridge", "mark"} => moved[t][u] = 0
        /\ pc[t] = "bridging" =>
             moved[t][u] = (IF leg[t] > 1 /\ u = Buyer(t)' THEN bridged[t] ELSE 0)
                           - (IF leg[t] = 3 /\ u = AI THEN bridged[t] ELSE 0)
                           - (IF leg[t] > 4 /\ u = Seller(t)' THEN bridged[t] ELSE 0)
        BY DEF MovedShape
    <3>1. DirectEffect(t, u)' = DirectEffect(t, u) /\ PairEffect(t, cur[t], u)' = PairEffect(t, cur[t], u)
        BY EffectsSame
    <3> QED
        BY <2>1, <2>4, <3>1 DEF SlotShape, MovedShape
  <2>9. SurplusShape(t)'
      BY <2>1 DEF SlotShape, SurplusShape, Surplus, Ahead
  <2>10. \A u \in Users : Total(t, u)' = Total(t, u)
    <3> TAKE u \in Users
    <3>1. TradeEffect(t, u)' = TradeEffect(t, u)
        BY <2>3, TradeEffectIs, TradeEffectNext DEF Committed, BridgeCommitted
    <3>2. FeeEffect(t, u)' = FeeEffect(t, u)
        BY DEF FeeEffect, FeePayer, Buyer
    <3> QED
        BY <3>1, <3>2 DEF Total
  <2> QED
      BY <2>5, <2>6, <2>8, <2>9, <2>10 DEF SlotShape
<1>2. BalancesExplained'
  <2> SUFFICES ASSUME NEW u \in Users
               PROVE  bal[u] = Genesis[u] + SumFunctionOnSet([t \in Slots |-> Total(t, u)'], Slots)
      BY DEF BalancesExplained
  <2>1. \A o \in Slots : [t \in Slots |-> Total(t, u)'][o] = [t \in Slots |-> Total(t, u)][o]
      BY <1>1
  <2>2. SumFunctionOnSet([t \in Slots |-> Total(t, u)'], Slots)
          = SumFunctionOnSet([t \in Slots |-> Total(t, u)], Slots)
      BY <2>1, SlotsFinite, SumEqual
  <2> QED
      BY <2>2 DEF IInv, BalancesExplained
<1> QED
    BY <1>1, <1>2 DEF IInv

\* Cancelling an order moves nothing.
LEMMA CancelIInv ==
    ASSUME IInv, NEW t \in Slots, Cancel(t)
    PROVE  IInv'
<1>1. /\ cancels' \in 0..MaxCancels
      /\ status[t] = "open" /\ status' = [status EXCEPT ![t] = "cancelled"]
      /\ UNCHANGED <<filled, lock, pc, todo, call, money, flags, faults>>
    BY OrderBookAssumption DEF Cancel, IInv, TypeOK
<1>2. TypeOK'
    BY <1>1 DEF IInv, TypeOK, call, money, flags
<1>3. RowShape'
    BY <1>1 DEF IInv, TypeOK, RowShape, Committed, call
<1> QED
    BY <1>1, <1>2, <1>3, AsideIInv

\* A fault ends a call; the legs it had moved outside its transaction stay.
LEMMA FaultIInv ==
    ASSUME IInv, NEW t \in Slots, Fault(t)
    PROVE  IInv'
<1>1. faults' \in 0..MaxFaults
    BY OrderBookAssumption DEF Fault, IInv, TypeOK
<1>2. CASE pc[t] \in {"select", "scan", "legs", "commit"} /\ Rollback(t)
    BY <1>1, <1>2, RollbackIInv DEF Active
<1>3. CASE pc[t] = "bridging" /\ BridgeFails(t)
    BY <1>1, <1>3, BridgeFailsIInv
<1>4. CASE /\ pc[t] \in {"bridge", "mark"}
           /\ Goto(t, "done")
           /\ UNCHANGED <<rows, todo, call, money, flags, cancels>>
    BY <1>1, <1>4, GiveUpIInv
<1> QED
    BY <1>2, <1>3, <1>4 DEF Fault

\* A call waits for a row only while its SELECT runs.
LEMMA VictimWaits ==
    ASSUME NEW t \in Slots, Deadlocked(t)
    PROVE  pc[t] = "scan"
<1>1. PICK D \in SUBSET Slots : t \in D /\ {WaitsFor(s) : s \in D} = D
    BY DEF Deadlocked
<1>2. WaitsFor(t) \in Slots
    BY <1>1
<1>3. WaitsFor(t) # 0
    BY <1>2 DEF Slots
<1> QED
    BY <1>3 DEF WaitsFor

\* Every step of a call preserves the invariant.
LEMMA StepOfCallIInv ==
    ASSUME IInv, NEW t \in Slots, Step(t)
    PROVE  IInv'
<1>1. faults \in 0..MaxFaults
    BY DEF IInv, TypeOK
<1>2. CASE TradeLegRefused(t)
  <2>1. Active(t) /\ Rollback(t) /\ faults' = faults
      BY <1>2 DEF TradeLegRefused, Active
  <2> QED
      BY <1>1, <2>1, RollbackIInv
<1>3. CASE BridgeLegRefused(t)
  <2>1. pc[t] = "bridging" /\ BridgeFails(t) /\ faults' = faults
      BY <1>3 DEF BridgeLegRefused
  <2> QED
      BY <1>1, <2>1, BridgeFailsIInv
<1>4. CASE DeadlockVictim(t)
  <2>1. Active(t) /\ Rollback(t) /\ faults' = faults
      BY <1>4, VictimWaits DEF DeadlockVictim, Active
  <2> QED
      BY <1>1, <2>1, RollbackIInv
<1> QED
    BY <1>2, <1>3, <1>4, OpenIInv, SelectIInv, LockNextIInv, MatchIInv, TradeLegIInv,
       SettleIInv, CommitIInv, BridgeReadIInv, BridgeLegIInv, BridgeCommitIInv,
       BridgeMarkIInv DEF Step

\* The inductive invariant is preserved by every step.
LEMMA NextIInv == IInv /\ [Next]_vars => IInv'
<1> SUFFICES ASSUME IInv, [Next]_vars
             PROVE  IInv'
    OBVIOUS
<1>1. ASSUME NEW t \in Slots, Admit(t) \/ Step(t) \/ ChargeFee(t) \/ Cancel(t) \/ Fault(t)
      PROVE  IInv'
    BY <1>1, AdmitIInv, StepOfCallIInv, ChargeFeeIInv, CancelIInv, FaultIInv
<1>2. ASSUME FlipSuspension \/ (\E u \in Users : FlipBar(u)) \/ UNCHANGED vars
      PROVE  IInv'
  <2>1. UNCHANGED <<rows, pc, todo, call, money, faults, cancels>>
      BY <1>2 DEF FlipSuspension, FlipBar, vars, flags
  <2>2. suspended' \in BOOLEAN /\ barred' \subseteq Users /\ flips' \in 0..MaxFlips
    <3>1. MaxFlips \in Nat
        BY OrderBookAssumption
    <3>2. suspended \in BOOLEAN /\ barred \subseteq Users /\ flips \in 0..MaxFlips
        BY DEF IInv, TypeOK
    <3>3. CASE FlipSuspension
        BY <3>1, <3>2, <3>3 DEF FlipSuspension
    <3>4. CASE \E u \in Users : FlipBar(u)
        BY <3>1, <3>2, <3>4 DEF FlipBar
    <3>5. CASE UNCHANGED vars
        BY <3>2, <3>5 DEF vars, flags
    <3> QED
        BY <1>2, <3>3, <3>4, <3>5
  <2>3. TypeOK'
      BY <2>1, <2>2 DEF IInv, TypeOK, rows, call, money
  <2>4. RowShape'
      BY <2>1 DEF IInv, RowShape, Committed, rows, call
  <2> QED
      BY <2>1, <2>3, <2>4, AsideIInv DEF rows
<1> QED
    BY <1>1, <1>2 DEF Next

\* The first state satisfies the inductive invariant.
LEMMA InitIInv == Init => IInv
<1> SUFFICES ASSUME Init PROVE IInv
    OBVIOUS
<1>1. TypeOK
  <2>1. 0 \in 0..N /\ 1 \in 1..5 /\ Zero \in [Users -> Int] /\ Genesis \in [Users -> Nat]
      BY OrderBookAssumption, ZeroIs
  <2>2. 0 \in 0..MaxFaults /\ 0 \in 0..MaxFlips /\ 0 \in 0..MaxCancels
      BY OrderBookAssumption
  <2> QED
      BY <2>1, <2>2 DEF Init, TypeOK, Steps
<1>2. req \in [Slots -> Requests]
    BY DEF Init, Requests
<1>3. RowShape
    BY DEF Init, RowShape, Committed
<1>4. ASSUME NEW t \in Slots
      PROVE  /\ Taken(t) = 0 /\ Surplus(t) = 0
             /\ \A u \in Users : DirectEffect(t, u) = 0 /\ moved[t][u] = 0 /\ Total(t, u) = 0
  <2>1. \A c \in Slots : fills[t][c] = 0
      BY DEF Init
  <2>2. \A u \in Users : moved[t][u] = 0
      BY ZeroIs DEF Init
  <2>3. Taken(t) = 0
      BY <2>1, SlotsFinite, SumZero DEF Taken
  <2>4. Surplus(t) = 0
      BY <2>2, OrderBookAssumption, SumZero DEF Surplus
  <2>5. ASSUME NEW u \in Users PROVE DirectEffect(t, u) = 0 /\ Total(t, u) = 0
    <3>1. \A c \in Slots : [x \in Slots |-> PairEffect(t, x, u)][c] = 0
        BY <2>1 DEF PairEffect, Signed
    <3>2. DirectEffect(t, u) = 0
        BY <3>1, SlotsFinite, SumZero DEF DirectEffect
    <3>3. TradeEffect(t, u) = 0
        BY TradeEffectIs DEF Init, Committed, BridgeCommitted
    <3>4. FeeEffect(t, u) = 0
        BY OrderBookAssumption DEF Init, FeeEffect
    <3> QED
        BY <2>2, <3>2, <3>3, <3>4 DEF Total
  <2> QED
      BY <2>2, <2>3, <2>4, <2>5
<1>5. ASSUME NEW t \in Slots PROVE SlotShape(t)
  <2>1. pc[t] = "unborn" /\ due[t] = 0 /\ paid[t] = 0 /\ bridged[t] = 0 /\ \A c \in Slots : fills[t][c] = 0
      BY DEF Init
  <2>2. req[t].qty \in Nat
      BY <1>2, RequestsTyped
  <2> QED
      BY <1>4, <2>1, <2>2
         DEF SlotShape, TakenShape, FillShape, CurShape, FeeShape, MovedShape, SurplusShape, Ahead
<1>6. BalancesExplained
  <2> SUFFICES ASSUME NEW u \in Users
               PROVE  bal[u] = Genesis[u] + SumFunctionOnSet([t \in Slots |-> Total(t, u)], Slots)
      BY DEF BalancesExplained
  <2>1. \A o \in Slots : [t \in Slots |-> Total(t, u)][o] = 0
      BY <1>4
  <2>2. SumFunctionOnSet([t \in Slots |-> Total(t, u)], Slots) = 0
      BY <2>1, SlotsFinite, SumZero
  <2> QED
      BY <2>2, OrderBookAssumption DEF Init
<1> QED
    BY <1>1, <1>2, <1>3, <1>5, <1>6 DEF IInv

\* The inductive invariant holds throughout every behaviour.
THEOREM Invariance == Spec => []IInv
BY InitIInv, NextIInv, PTL DEF Spec

\* No interleaving of matching, bridging, fees and faults drives a balance below
\* zero or a quantity out of its range.
THEOREM TypeCorrect == Spec => []TypeOK
<1>1. IInv => TypeOK
    BY DEF IInv
<1> QED
    BY <1>1, Invariance, PTL

\* Every unit of QP on a balance is put down to a committed trade, a collected
\* fee, or a leg of a call that is running or has failed, and a call cut short
\* leaves QP too many and never too few: for any number of calls and users and
\* any requests, with faults, cancellations and the bridge.
THEOREM UnitsCorrect == Spec => []EveryUnitExplained
BY Explained, Invariance, PTL

-----------------------------------------------------------------------------
(* The rows of the book.                                                    *)

\* The bridge writes order rows by id from an unlocked copy, so the rows agree
\* with the trades where no order is dispatched to it: what follows is about a
\* book whose calls find the bridge unavailable.
NoBridge == BridgeStates \subseteq {FALSE}

\* What a call has taken and been offered, and the rows it took it from.
SlotBook(t) ==
    /\ bridged[t] = 0 /\ pc[t] \notin {"bridging", "mark"}
    /\ \A c \in Slots : fills[t][c] > 0 =>
         /\ Active(t) => filled[c] + fills[t][c] <= req[c].qty
         /\ pc[t] # "legs" \/ c # cur[t] => <<t, c>> \in settled
    /\ \A c \in offered[t] : Committed(c)
    /\ pc[t] = "scan" =>
         /\ todo[t] \subseteq offered[t]
         /\ \A c \in offered[t] :
              /\ fills[t][c] = 0
              /\ req[c].side = Opposite(req[t].side) /\ req[c].user # req[t].user
              /\ c \in todo[t] \/ lock[c] = t \/ status[c] # "open"
    /\ pc[t] = "commit" /\ Taken(t) # req[t].qty => \A c \in offered[t] : status[c] # "open"
    /\ status[t] = "open" => \A c \in offered[t] : status[c] # "open"

\* A locked row is open and locked by a running call; a row holds what the
\* committed trades made of it.
RowBook(c) ==
    /\ lock[c] # 0 => Active(lock[c]) /\ status[c] = "open"
    /\ filled[c] = Traded(c)
    /\ filled[c] <= req[c].qty
    /\ status[c] = "filled" => filled[c] = req[c].qty

BookInv == \A t \in Slots : SlotBook(t) /\ RowBook(t)

\* What committed call t traded for the order of slot c.
Made(t, c) ==
    IF Committed(t) THEN IF t = c THEN Taken(t) ELSE fills[t][c] ELSE 0

\* Without the bridge, what was traded for an order is what the committed calls
\* made of it.
LEMMA TradedIs ==
    TypeOK /\ (\A t \in Slots : bridged[t] = 0) =>
        \A c \in Slots :
            Traded(c) = SumFunctionOnSet([t \in Slots |-> Made(t, c)], Slots)
<1> SUFFICES ASSUME TypeOK, \A t \in Slots : bridged[t] = 0, NEW c \in Slots
             PROVE  Traded(c) = SumFunctionOnSet([t \in Slots |-> Made(t, c)], Slots)
    OBVIOUS
<1> DEFINE B(t) == IF BridgeCommitted(t) /\ c \in {t, cur[t]} THEN bridged[t] ELSE 0
           f == [t \in Slots |-> Made(t, c) + B(t)]
           g == [t \in Slots |-> Made(t, c)]
<1>1. Traded(c) = SumFunctionOnSet(f, Slots)
    BY DEF Traded, Made
<1>2. \A t \in Slots : Made(t, c) \in Int
    BY TakenNat DEF TypeOK, Made
<1>3. \A t \in Slots : B(t) = 0
    OBVIOUS
<1>4. \A t \in Slots : f[t] = g[t]
  <2> HIDE DEF B
  <2> QED
      BY <1>2, <1>3
<1>5. SumFunctionOnSet(f, Slots) = SumFunctionOnSet(g, Slots)
  <2> HIDE DEF f, g
  <2> QED
      BY <1>4, SlotsFinite, SumEqual
<1> QED
    BY <1>1, <1>5

\* The same of the next state.
LEMMA TradedIsNext ==
    TypeOK' /\ (\A t \in Slots : bridged'[t] = 0) =>
        \A c \in Slots :
            Traded(c)' = SumFunctionOnSet([t \in Slots |-> Made(t, c)'], Slots)
<1>1. (TypeOK /\ (\A t \in Slots : bridged[t] = 0) =>
        \A c \in Slots :
            Traded(c) = SumFunctionOnSet([t \in Slots |-> Made(t, c)], Slots))'
    BY TradedIs, PTL
<1> QED
    BY <1>1

\* What a step of call t may not touch in the book.
BookFrame(t) ==
    /\ Frame(t)
    /\ \A o \in Slots \ {t} : todo'[o] = todo[o] /\ offered'[o] = offered[o]
    /\ settled \subseteq settled'
    /\ \A c \in Slots : status[c] # "open" /\ (c # t \/ Committed(t)) =>
         status'[c] = status[c] /\ filled'[c] = filled[c]

\* cancelled for good.
StaysCancelled ==
    \A c \in Slots : status[c] = "cancelled" =>
        status'[c] = "cancelled" /\ filled'[c] = filled[c]

\* A step that leaves the status of committed orders alone cancels for good.
LEMMA FrameKeepsCancelled ==
    ASSUME IInv, NEW t \in Slots, BookFrame(t)
    PROVE  StaysCancelled
BY DEF IInv, RowShape, BookFrame, StaysCancelled

\* A step of one call preserves what the invariant says of another.
LEMMA OthersBook ==
    ASSUME IInv, BookInv, IInv', NEW t \in Slots, BookFrame(t), NEW o \in Slots \ {t}
    PROVE  SlotBook(o)'
<1>1. /\ pc'[o] = pc[o] /\ req'[o] = req[o] /\ fills'[o] = fills[o]
      /\ cur'[o] = cur[o] /\ bridged'[o] = bridged[o]
      /\ todo'[o] = todo[o] /\ offered'[o] = offered[o] /\ Taken(o)' = Taken(o)
    BY TakenKept DEF BookFrame, Frame
<1>2. SlotBook(o) /\ SlotShape(o)
    BY DEF BookInv, IInv
<1>3. \A c \in Slots : Committed(c) => Committed(c)' /\ req'[c] = req[c]
    BY CommittedKept DEF BookFrame
<1>4. \A c \in Slots : Committed(c) /\ lock[c] = o => lock'[c] = o /\ filled'[c] = filled[c]
  <2>1. o \notin {0, t}
      BY DEF Slots
  <2> QED
      BY <2>1 DEF BookFrame, Frame
<1>5. \A c \in Slots : Committed(c) /\ status[c] # "open" => status'[c] # "open"
    BY DEF BookFrame
<1>6. offered[o] \subseteq Slots
    BY DEF IInv, TypeOK
<1>7. bridged'[o] = 0 /\ pc'[o] \notin {"bridging", "mark"}
    BY <1>1, <1>2 DEF SlotBook
<1>8. ASSUME NEW c \in Slots, fills'[o][c] > 0
      PROVE  /\ Active(o)' => filled'[c] + fills'[o][c] <= req'[c].qty
             /\ pc'[o] # "legs" \/ c # cur'[o] => <<o, c>> \in settled'
  <2>1. Committed(c) /\ (Active(o) => lock[c] = o)
      BY <1>1, <1>2, <1>8 DEF SlotShape, FillShape
  <2>2. /\ Active(o) => filled[c] + fills[o][c] <= req[c].qty
        /\ pc[o] # "legs" \/ c # cur[o] => <<o, c>> \in settled
      BY <1>1, <1>2, <1>8 DEF SlotBook
  <2>3. Active(o)' <=> Active(o)
      BY <1>1 DEF Active
  <2>4. settled \subseteq settled'
      BY DEF BookFrame
  <2> QED
      BY <1>1, <1>3, <1>4, <2>1, <2>2, <2>3, <2>4
<1>9. \A c \in offered'[o] : Committed(c)'
    BY <1>1, <1>2, <1>3, <1>6 DEF SlotBook
<1>10. ASSUME pc'[o] = "scan"
       PROVE  /\ todo'[o] \subseteq offered'[o]
              /\ \A c \in offered'[o] :
                   /\ fills'[o][c] = 0
                   /\ req'[c].side = Opposite(req'[o].side) /\ req'[c].user # req'[o].user
                   /\ c \in todo'[o] \/ lock'[c] = o \/ status'[c] # "open"
  <2>1. todo'[o] \subseteq offered'[o]
      BY <1>1, <1>2, <1>10 DEF SlotBook
  <2>2. ASSUME NEW c \in offered[o]
        PROVE  /\ fills'[o][c] = 0
               /\ req'[c].side = Opposite(req'[o].side) /\ req'[c].user # req'[o].user
               /\ c \in todo'[o] \/ lock'[c] = o \/ status'[c] # "open"
    <3>1. c \in Slots /\ Committed(c)
        BY <1>2, <1>6 DEF SlotBook
    <3>2. /\ fills[o][c] = 0
          /\ req[c].side = Opposite(req[o].side) /\ req[c].user # req[o].user
          /\ c \in todo[o] \/ lock[c] = o \/ status[c] # "open"
        BY <1>1, <1>2, <1>10 DEF SlotBook
    <3> QED
        BY <1>1, <1>3, <1>4, <1>5, <3>1, <3>2
  <2> QED
      BY <1>1, <2>1, <2>2
<1>11. pc'[o] = "commit" /\ Taken(o)' # req'[o].qty => \A c \in offered'[o] : status'[c] # "open"
    BY <1>1, <1>2, <1>5, <1>6 DEF SlotBook
<1>12. ASSUME status'[o] = "open"
       PROVE  \A c \in offered'[o] : status'[c] # "open"
  <2>1. status[o] = "open"
      BY <1>12 DEF BookFrame
  <2> QED
      BY <1>1, <1>2, <1>5, <1>6, <2>1 DEF SlotBook
<1> QED
    BY <1>7, <1>8, <1>9, <1>10, <1>11, <1>12 DEF SlotBook

\* The rows after a step that commits no trade.
LEMMA RowsBook ==
    ASSUME IInv, BookInv, IInv', NEW t \in Slots, BookFrame(t), filled' = filled,
           Committed(t)' <=> Committed(t), bridged'[t] = 0,
           fills'[t] = fills[t] \/ ~Committed(t),
           \A c \in Slots :
              \/ lock'[c] = 0
              \/ lock'[c] = lock[c] /\ status'[c] = status[c] /\ (lock[c] = t => Active(t)')
              \/ lock'[c] = t /\ Active(t)' /\ status'[c] = "open",
           \A c \in Slots : status'[c] = "filled" => status[c] = "filled"
    PROVE  \A c \in Slots : RowBook(c)'
<1>1. \A o \in Slots : bridged[o] = 0 /\ bridged'[o] = 0
    BY DEF BookInv, SlotBook, BookFrame, Frame
<1>2. \A o \in Slots : Committed(o) <=> Committed(o)'
    BY DEF BookFrame, Frame, Committed
<1>3. \A o \in Slots : Committed(o) => fills'[o] = fills[o] /\ Taken(o)' = Taken(o)
    BY TakenKept DEF BookFrame, Frame
<1>4. \A o, c \in Slots : Made(o, c)' = Made(o, c)
    BY <1>2, <1>3 DEF Made
<1> SUFFICES ASSUME NEW c \in Slots
             PROVE  RowBook(c)'
    OBVIOUS
<1>5. Traded(c)' = Traded(c)
  <2> DEFINE f == [o \in Slots |-> Made(o, c)]
             g == [o \in Slots |-> Made(o, c)']
  <2>1. \A o \in Slots : f[o] = g[o]
      BY <1>4
  <2>2. Traded(c) = SumFunctionOnSet(f, Slots)
      BY <1>1, TradedIs DEF IInv
  <2>3. Traded(c)' = SumFunctionOnSet(g, Slots)
      BY <1>1, TradedIsNext DEF IInv
  <2> HIDE DEF f, g
  <2> QED
      BY <2>1, <2>2, <2>3, SlotsFinite, SumEqual
<1>6. RowBook(c)
    BY DEF BookInv
<1>7. filled'[c] = Traded(c)'
    BY <1>5, <1>6 DEF RowBook
<1>8. filled'[c] <= req'[c].qty /\ (status'[c] = "filled" => filled'[c] = req'[c].qty)
  <2>1. CASE Committed(c)
    <3>1. req'[c] = req[c]
        BY <2>1, CommittedKept DEF BookFrame
    <3> QED
        BY <1>6, <3>1 DEF RowBook
  <2>2. CASE ~Committed(c)
    <3>1. filled'[c] = 0 /\ status'[c] = "none"
        BY <1>2, <2>2 DEF IInv, RowShape
    <3>2. req'[c].qty \in Nat
        BY RequestTypes DEF IInv
    <3> QED
        BY <3>1, <3>2
  <2> QED
      BY <2>1, <2>2
<1>9. lock'[c] # 0 =>
        pc'[lock'[c]] \in {"select", "scan", "legs", "commit"} /\ status'[c] = "open"
  <2>1. CASE lock'[c] = 0
      BY <2>1
  <2>2. CASE /\ lock'[c] = lock[c] /\ lock[c] # 0 /\ status'[c] = status[c]
             /\ lock[c] = t => Active(t)'
    <3>1. Active(lock[c]) /\ status[c] = "open"
        BY <1>6, <2>2 DEF RowBook
    <3>2. lock[c] \in Slots
      <4>1. lock[c] \in 0..N
          BY DEF IInv, TypeOK
      <4> QED
          BY <4>1, <2>2, OrderBookAssumption DEF Slots
    <3>3. lock[c] # t => pc'[lock[c]] = pc[lock[c]]
        BY <3>2 DEF BookFrame, Frame
    <3> QED
        BY <2>2, <3>1, <3>3 DEF Active
  <2>3. CASE lock'[c] = t /\ Active(t)' /\ status'[c] = "open"
      BY <2>3 DEF Active
  <2> QED
      BY <2>1, <2>2, <2>3
<1> QED
    BY <1>7, <1>8, <1>9 DEF RowBook, Active

\* A step that commits no trade.
LEMMA BookStep ==
    ASSUME IInv, BookInv, IInv', NEW t \in Slots, BookFrame(t), filled' = filled,
           Committed(t)' <=> Committed(t), bridged'[t] = 0,
           fills'[t] = fills[t] \/ ~Committed(t),
           \A c \in Slots :
              \/ lock'[c] = 0
              \/ lock'[c] = lock[c] /\ status'[c] = status[c] /\ (lock[c] = t => Active(t)')
              \/ lock'[c] = t /\ Active(t)' /\ status'[c] = "open",
           \A c \in Slots : status'[c] = "filled" => status[c] = "filled",
           SlotBook(t)'
    PROVE  BookInv' /\ StaysCancelled
<1>1. \A o \in Slots : SlotBook(o)'
    BY OthersBook
<1>2. \A c \in Slots : RowBook(c)'
    BY RowsBook
<1> QED
    BY <1>1, <1>2, FrameKeepsCancelled DEF BookInv

\* A step that leaves the book and the calls alone.
LEMMA AsideBook ==
    ASSUME IInv, BookInv, IInv', UNCHANGED <<rows, pc, todo, call, settled>>
    PROVE  BookInv' /\ StaysCancelled
<1> USE DEF rows, call
<1>1. \A t \in Slots : Taken(t)' = Taken(t)
    BY TakenKept
<1>2. ASSUME NEW t \in Slots PROVE SlotBook(t)'
  <2>1. SlotBook(t)
      BY DEF BookInv
  <2> QED
      BY <1>1, <2>1 DEF SlotBook, Committed, Active
<1>3. ASSUME NEW c \in Slots PROVE RowBook(c)'
  <2>1. RowBook(c)
      BY DEF BookInv
  <2>2. Traded(c)' = Traded(c)
    <3>1. \A o \in Slots : bridged[o] = 0 /\ bridged'[o] = 0
        BY DEF BookInv, SlotBook
    <3>2. \A o \in Slots : Made(o, c)' = Made(o, c)
        BY <1>1 DEF Made, Committed
    <3> DEFINE f == [o \in Slots |-> Made(o, c)]
               g == [o \in Slots |-> Made(o, c)']
    <3>3. \A o \in Slots : f[o] = g[o]
        BY <3>2
    <3>4. Traded(c) = SumFunctionOnSet(f, Slots)
        BY <3>1, TradedIs DEF IInv
    <3>5. Traded(c)' = SumFunctionOnSet(g, Slots)
        BY <3>1, TradedIsNext DEF IInv
    <3> HIDE DEF f, g
    <3> QED
        BY <3>3, <3>4, <3>5, SlotsFinite, SumEqual
  <2> QED
      BY <2>1, <2>2 DEF RowBook, Active
<1> QED
    BY <1>2, <1>3 DEF BookInv, StaysCancelled

\* A new call has taken nothing.
LEMMA AdmitBook ==
    ASSUME IInv, BookInv, IInv', NEW t \in Slots, Admit(t)
    PROVE  BookInv' /\ StaysCancelled
<1> USE DEF rows, money, flags
<1>0. PICK m \in Menu[t] :
        /\ req' = [req EXCEPT ![t] = m]
        /\ Goto(t, IF suspended \/ m.user \in barred THEN "failed" ELSE "admitted")
    BY DEF Admit
<1>1. /\ pc[t] = "unborn" /\ pc'[t] \in {"failed", "admitted"}
      /\ \A o \in Slots \ {t} : pc'[o] = pc[o] /\ req'[o] = req[o]
      /\ UNCHANGED <<rows, todo, fills, cur, leg, snap, bridged, offered, money>>
    BY <1>0 DEF Admit, Goto, IInv, TypeOK
<1>2. BookFrame(t)
    BY <1>1 DEF BookFrame, Frame, Committed
<1>3. ~Committed(t) /\ ~Committed(t)'
    BY <1>1 DEF Committed
<1>4. SlotBook(t) /\ SlotShape(t)
    BY DEF BookInv, IInv
<1>5. SlotBook(t)'
  <2>1. \A c \in Slots : fills[t][c] = 0
      BY <1>1, <1>4 DEF SlotShape, TakenShape
  <2>2. status[t] = "none"
      BY <1>3 DEF IInv, RowShape
  <2>3. offered[t] \subseteq Slots
      BY DEF IInv, TypeOK
  <2>4. \A c \in offered[t] : Committed(c)'
      BY <1>1, <1>4, <2>3, CommittedKept, <1>2 DEF SlotBook, BookFrame
  <2> QED
      BY <1>1, <1>4, <2>1, <2>2, <2>4 DEF SlotBook
<1>6. \A c \in Slots : lock[c] # t
    BY <1>1 DEF BookInv, RowBook, Active, Slots
<1> QED
    BY <1>1, <1>2, <1>3, <1>4, <1>5, <1>6, BookStep DEF SlotBook

\* The steps of a running call that write no trade: they may only take and
\* release row locks.
LEMMA QuietBook ==
    ASSUME IInv, BookInv, IInv', NEW t \in Slots, ~Committed(t), ~Committed(t)',
           \A o \in Slots \ {t} : /\ pc'[o] = pc[o] /\ fills'[o] = fills[o]
                                  /\ cur'[o] = cur[o] /\ leg'[o] = leg[o]
                                  /\ todo'[o] = todo[o] /\ offered'[o] = offered[o]
                                  /\ due'[o] = due[o] /\ paid'[o] = paid[o]
                                  /\ moved'[o] = moved[o],
           UNCHANGED <<status, filled, req, bridged>>, settled \subseteq settled',
           \A c \in Slots :
              \/ lock'[c] = lock[c] /\ (lock[c] = t => Active(t)')
              \/ lock[c] = t /\ lock'[c] = 0
              \/ lock[c] = 0 /\ lock'[c] = t /\ Active(t)' /\ status[c] = "open",
           SlotBook(t)'
    PROVE  BookInv' /\ StaysCancelled
<1>1. BookFrame(t)
    BY DEF BookFrame, Frame
<1>2. bridged'[t] = 0
    BY DEF BookInv, SlotBook
<1>3. \A c \in Slots :
        \/ lock'[c] = 0
        \/ lock'[c] = lock[c] /\ status'[c] = status[c] /\ (lock[c] = t => Active(t)')
        \/ lock'[c] = t /\ Active(t)' /\ status'[c] = "open"
    OBVIOUS
<1> QED
    BY <1>1, <1>2, <1>3, BookStep

\* A transaction begins with no offer.
LEMMA OpenBook ==
    ASSUME IInv, BookInv, IInv', NEW t \in Slots, Open(t)
    PROVE  BookInv' /\ StaysCancelled
<1> USE DEF rows, call, money, flags
<1>1. /\ pc[t] = "admitted" /\ pc'[t] \in {"failed", "select"}
      /\ \A o \in Slots \ {t} : pc'[o] = pc[o]
      /\ UNCHANGED <<rows, todo, call, money>>
    BY DEF Open, Goto, IInv, TypeOK
<1>2. ~Committed(t) /\ ~Committed(t)'
    BY <1>1 DEF Committed
<1>3. SlotBook(t)'
  <2>1. SlotBook(t) /\ SlotShape(t)
      BY DEF BookInv, IInv
  <2>2. \A c \in Slots : fills[t][c] = 0
      BY <1>1, <2>1 DEF SlotShape, TakenShape
  <2>3. status[t] = "none"
      BY <1>2 DEF IInv, RowShape
  <2>4. offered[t] \subseteq Slots
      BY DEF IInv, TypeOK
  <2>5. \A c \in offered[t] : Committed(c)'
      BY <1>1, <1>2, <2>1, <2>4 DEF SlotBook, Committed
  <2> QED
      BY <1>1, <2>1, <2>2, <2>3, <2>5 DEF SlotBook
<1>4. \A c \in Slots : lock[c] # t
    BY <1>1 DEF BookInv, RowBook, Active, Slots
<1> QED
    BY <1>1, <1>2, <1>3, <1>4, QuietBook

\* What is offered is read from committed rows, of the other side and other users.
LEMMA SelectBook ==
    ASSUME IInv, BookInv, IInv', NEW t \in Slots, Select(t)
    PROVE  BookInv' /\ StaysCancelled
<1> USE DEF rows, call, money, flags
<1>1. /\ pc[t] = "select" /\ pc'[t] = "scan"
      /\ \A o \in Slots \ {t} : pc'[o] = pc[o] /\ todo'[o] = todo[o] /\ offered'[o] = offered[o]
      /\ todo'[t] = Candidates(t) /\ offered'[t] = Candidates(t)
      /\ UNCHANGED <<rows, req, fills, cur, leg, snap, bridged, money>>
    BY DEF Select, Goto, IInv, TypeOK
<1>2. ~Committed(t) /\ ~Committed(t)' /\ Active(t)'
    BY <1>1 DEF Committed, Active
<1>3. SlotBook(t) /\ SlotShape(t)
    BY DEF BookInv, IInv
<1>4. ASSUME NEW c \in Candidates(t)
      PROVE  c \in Slots /\ Committed(c)' /\ fills[t][c] = 0
  <2>1. c \in Slots /\ status[c] = "open" /\ filled[c] + fills[t][c] < req[c].qty
      BY <1>4 DEF Candidates, FilledFor
  <2>2. Committed(c)
      BY <2>1 DEF IInv, RowShape
  <2>3. Committed(c)'
      BY <1>1, <1>2, <2>1, <2>2 DEF Committed
  <2>4. filled[c] \in Nat /\ fills[t][c] \in Nat /\ req[c].qty \in Nat
      BY <2>1, RequestsTyped DEF IInv, TypeOK
  <2> QED
      BY <1>1, <1>3, <2>1, <2>3, <2>4 DEF SlotShape, FillShape
<1>5. SlotBook(t)'
  <2>1. status[t] = "none"
      BY <1>2 DEF IInv, RowShape
  <2>2. \A c \in Candidates(t) : req[c].side = Opposite(req[t].side) /\ req[c].user # req[t].user
      BY DEF Candidates
  <2>3. \A c \in Slots : fills'[t][c] > 0 =>
         /\ Active(t)' => filled'[c] + fills'[t][c] <= req'[c].qty
         /\ pc'[t] # "legs" \/ c # cur'[t] => <<t, c>> \in settled'
      BY <1>1, <1>3 DEF SlotBook, Active
  <2>4. bridged'[t] = 0
      BY <1>1, <1>3 DEF SlotBook
  <2> QED
      BY <1>1, <1>4, <2>1, <2>2, <2>3, <2>4 DEF SlotBook
<1> QED
    BY <1>1, <1>2, <1>5, QuietBook

\* An offer that is not locked was closed while the call waited for its row.
LEMMA LockNextBook ==
    ASSUME IInv, BookInv, IInv', NEW t \in Slots, LockNext(t)
    PROVE  BookInv' /\ StaysCancelled
<1> USE DEF rows, call, money, flags
<1>0. todo[t] \subseteq Slots /\ todo[t] # {}
    BY DEF LockNext, IInv, TypeOK
<1>1. PICK c \in todo[t] : c = Min(todo[t])
  <2>1. todo[t] \subseteq Nat
      BY <1>0 DEF Slots
  <2> QED
      BY <1>0, <2>1, MinInNat
<1>2. /\ pc[t] = "scan" /\ c \in Slots /\ lock[c] \in {0, t}
      /\ lock' = IF c \in Candidates(t) THEN [lock EXCEPT ![c] = t] ELSE lock
      /\ todo' = [todo EXCEPT ![t] = @ \ {c}]
      /\ UNCHANGED <<status, filled, pc, call, money>>
    BY <1>0, <1>1 DEF LockNext
<1>3. /\ todo'[t] = todo[t] \ {c}
      /\ \A o \in Slots \ {t} : todo'[o] = todo[o]
      /\ \A d \in Slots \ {c} : lock'[d] = lock[d]
      /\ lock'[c] = (IF c \in Candidates(t) THEN t ELSE lock[c])
    BY <1>2 DEF IInv, TypeOK
<1>4. ~Committed(t) /\ ~Committed(t)' /\ Active(t)'
    BY <1>2 DEF Committed, Active
<1>5. SlotBook(t)
    BY DEF BookInv
<1>6. \A d \in Slots :
        \/ lock'[d] = lock[d] /\ (lock[d] = t => Active(t)')
        \/ lock[d] = t /\ lock'[d] = 0
        \/ lock[d] = 0 /\ lock'[d] = t /\ Active(t)' /\ status[d] = "open"
    BY <1>2, <1>3, <1>4 DEF Candidates
<1>7. \A d \in offered[t] : d \in todo'[t] \/ lock'[d] = t \/ status[d] # "open"
  <2> SUFFICES ASSUME NEW d \in offered[t]
               PROVE  d \in todo'[t] \/ lock'[d] = t \/ status[d] # "open"
      OBVIOUS
  <2>0. d \in Slots
      BY DEF IInv, TypeOK
  <2>1. /\ fills[t][d] = 0
        /\ req[d].side = Opposite(req[t].side) /\ req[d].user # req[t].user
        /\ d \in todo[t] \/ lock[d] = t \/ status[d] # "open"
      BY <1>2, <1>5 DEF SlotBook
  <2>2. CASE d # c
      BY <1>3, <2>0, <2>1, <2>2
  <2>3. CASE d = c /\ c \in Candidates(t)
      BY <1>3, <2>3
  <2>4. CASE d = c /\ c \notin Candidates(t)
    <3>1. status[c] = "open" => FilledFor(t, c) < req[c].qty
      <4>1. filled[c] \in Nat
          BY <1>2 DEF IInv, TypeOK
      <4> QED
          BY <1>2, <2>1, <2>4, <4>1 DEF IInv, RowShape, FilledFor
    <3> QED
        BY <2>1, <2>4, <3>1, <1>2 DEF Candidates
  <2> QED
      BY <2>2, <2>3, <2>4
<1>8. SlotBook(t)'
  <2>1. status[t] = "none"
      BY <1>4 DEF IInv, RowShape
  <2>2. todo'[t] \subseteq offered'[t]
      BY <1>2, <1>3, <1>5 DEF SlotBook
  <2>3. \A d \in offered'[t] : Committed(d)'
      BY <1>2, <1>5 DEF SlotBook, Committed
  <2>4. \A d \in Slots : fills'[t][d] > 0 =>
         /\ Active(t)' => filled'[d] + fills'[t][d] <= req'[d].qty
         /\ pc'[t] # "legs" \/ d # cur'[t] => <<t, d>> \in settled'
      BY <1>2, <1>5 DEF SlotBook, Active
  <2>5. \A d \in offered'[t] :
          /\ fills'[t][d] = 0
          /\ req'[d].side = Opposite(req'[t].side) /\ req'[d].user # req'[t].user
      BY <1>2, <1>5 DEF SlotBook
  <2> QED
      BY <1>2, <1>5, <1>7, <2>1, <2>2, <2>3, <2>4, <2>5 DEF SlotBook
<1> QED
    BY <1>2, <1>3, <1>4, <1>6, <1>8, QuietBook

\* The loop takes no more than an order has left.
LEMMA MatchBook ==
    ASSUME NoBridge, IInv, BookInv, IInv', NEW t \in Slots, Match(t)
    PROVE  BookInv' /\ StaysCancelled
<1> USE DEF rows, call, money, flags
<1>0. /\ pc[t] = "scan" /\ todo[t] = {}
      /\ UNCHANGED <<rows, todo, req, snap, bridged, offered, money>>
    BY DEF Match
<1>a. SlotBook(t) /\ SlotShape(t)
    BY DEF BookInv, IInv
<1>b. status[t] = "none"
    BY <1>0 DEF IInv, RowShape, Committed
<1>c. offered[t] \subseteq Slots
    BY DEF IInv, TypeOK
<1>1. CASE /\ \A c \in Candidates(t) : lock[c] # t
           /\ Goto(t, "commit")
           /\ UNCHANGED <<fills, cur, leg>>
  <2>1. pc'[t] = "commit" /\ \A o \in Slots \ {t} : pc'[o] = pc[o]
      BY <1>1 DEF Goto, IInv, TypeOK
  <2>2. ~Committed(t) /\ ~Committed(t)' /\ Active(t) /\ Active(t)'
      BY <1>0, <2>1 DEF Committed, Active
  <2>3. \A c \in offered[t] : status[c] # "open"
    <3> SUFFICES ASSUME NEW c \in offered[t], status[c] = "open" PROVE FALSE
        OBVIOUS
    <3>1. /\ c \in Slots /\ fills[t][c] = 0 /\ lock[c] = t
          /\ req[c].side = Opposite(req[t].side) /\ req[c].user # req[t].user
        BY <1>0, <1>a, <1>c DEF SlotBook
    <3>2. filled[c] < req[c].qty /\ filled[c] \in Nat
        BY <3>1 DEF IInv, RowShape, TypeOK
    <3>3. c \in Candidates(t)
        BY <3>1, <3>2 DEF Candidates, FilledFor
    <3> QED
        BY <1>1, <3>1, <3>3
  <2>4. SlotBook(t)'
    <3>1. \A c \in offered[t] : Committed(c)'
        BY <1>a, <1>c, <2>1, <2>2 DEF SlotBook, Committed
    <3>2. \A d \in Slots : fills'[t][d] > 0 =>
           /\ Active(t)' => filled'[d] + fills'[t][d] <= req'[d].qty
           /\ pc'[t] # "legs" \/ d # cur'[t] => <<t, d>> \in settled'
        BY <1>0, <1>1, <1>a, <2>2 DEF SlotBook
    <3> QED
        BY <1>0, <1>a, <1>b, <2>1, <2>3, <3>1, <3>2 DEF SlotBook
  <2> QED
      BY <1>0, <1>1, <2>1, <2>2, <2>4, QuietBook
<1>2. CASE /\ \E c \in Candidates(t) : lock[c] = t
           /\ LET c == Best(t)
                  q == Min({req[t].qty - Taken(t), req[c].qty - FilledFor(t, c)})
              IN /\ fills' = [fills EXCEPT ![t][c] = q]
                 /\ cur' = [cur EXCEPT ![t] = c]
           /\ leg' = [leg EXCEPT ![t] = 1]
           /\ Goto(t, "legs")
  <2>1. PICK c \in Candidates(t) : c = Best(t) /\ lock[c] = t
      BY <1>2, BestIs
  <2>2. c \in Slots /\ FilledFor(t, c) < req[c].qty
      BY <2>1 DEF Candidates
  <2>3. PICK q \in Nat : /\ q <= req[c].qty - FilledFor(t, c)
                         /\ fills' = [fills EXCEPT ![t][c] = q]
                         /\ cur' = [cur EXCEPT ![t] = c]
    <3>1. /\ req[t].qty \in Nat /\ Taken(t) \in Nat /\ req[c].qty \in Nat
          /\ filled[c] \in Nat /\ fills[t][c] \in Nat
        BY <2>2, RequestsTyped, TakenNat DEF IInv, TypeOK
    <3>2. req[t].qty - Taken(t) \in Nat /\ req[c].qty - FilledFor(t, c) \in Nat
        BY <1>0, <1>a, <2>2, <3>1 DEF SlotShape, TakenShape, FilledFor
    <3>3. /\ Min({req[t].qty - Taken(t), req[c].qty - FilledFor(t, c)}) \in Nat
          /\ Min({req[t].qty - Taken(t), req[c].qty - FilledFor(t, c)})
               <= req[c].qty - FilledFor(t, c)
        BY <3>2, MinOfTwo
    <3> QED
        BY <1>2, <2>1, <3>3
  <2>4. /\ pc'[t] = "legs" /\ cur'[t] = c
        /\ fills'[t][c] = q /\ \A d \in Slots \ {c} : fills'[t][d] = fills[t][d]
        /\ \A o \in Slots \ {t} : /\ pc'[o] = pc[o] /\ fills'[o] = fills[o]
                                  /\ cur'[o] = cur[o] /\ leg'[o] = leg[o]
      BY <1>2, <2>2, <2>3 DEF Goto, IInv, TypeOK
  <2>5. ~Committed(t) /\ ~Committed(t)' /\ Active(t) /\ Active(t)'
      BY <1>0, <2>4 DEF Committed, Active
  <2>6. filled[c] + q <= req[c].qty
    <3>1. req[c].qty \in Nat /\ filled[c] \in Nat /\ fills[t][c] \in Nat
        BY <2>2, RequestsTyped DEF IInv, TypeOK
    <3> QED
        BY <2>3, <3>1 DEF FilledFor
  <2>7. SlotBook(t)'
    <3>1. \A d \in offered[t] : Committed(d)'
        BY <1>a, <1>c, <2>4, <2>5 DEF SlotBook, Committed
    <3>2. ASSUME NEW d \in Slots, fills'[t][d] > 0
          PROVE  /\ filled'[d] + fills'[t][d] <= req'[d].qty
                 /\ d # cur'[t] => <<t, d>> \in settled'
      <4>1. CASE d = c
          BY <1>0, <2>4, <2>6, <4>1
      <4>2. CASE d # c
          BY <1>0, <1>a, <2>4, <2>5, <3>2, <4>2 DEF SlotBook
      <4> QED
          BY <4>1, <4>2
    <3>3. bridged'[t] = 0
        BY <1>0, <1>a DEF SlotBook
    <3> QED
        BY <1>0, <1>b, <2>4, <3>1, <3>2, <3>3 DEF SlotBook
  <2> QED
      BY <1>0, <2>4, <2>5, <2>7, QuietBook
<1> QED
    BY <1>1, <1>2 DEF Match, NoBridge

\* Moving a leg touches no row.
LEMMA TradeLegBook ==
    ASSUME IInv, BookInv, IInv', NEW t \in Slots, TradeLeg(t)
    PROVE  BookInv' /\ StaysCancelled
<1> USE DEF rows, call, money, flags
<1>1. /\ pc[t] = "legs"
      /\ \A o \in Slots \ {t} : moved'[o] = moved[o] /\ leg'[o] = leg[o]
      /\ UNCHANGED <<rows, pc, todo, req, fills, cur, snap, bridged, offered, settled, due, paid>>
  <2>1. leg' = [leg EXCEPT ![t] = @ + 1]
      BY DEF TradeLeg, Move
  <2>2. \A o \in Slots \ {t} : moved'[o] = moved[o]
      BY DEF TradeLeg, Move, IInv, TypeOK
  <2> QED
      BY <2>1, <2>2 DEF TradeLeg, IInv, TypeOK
<1>2. ~Committed(t) /\ ~Committed(t)' /\ Active(t)'
    BY <1>1 DEF Committed, Active
<1>3. SlotBook(t)'
  <2>1. SlotBook(t)
      BY DEF BookInv
  <2>2. Taken(t)' = Taken(t)
      BY <1>1, TakenKept
  <2> QED
      BY <1>1, <2>1, <2>2 DEF SlotBook, Committed, Active
<1> QED
    BY <1>1, <1>2, <1>3, QuietBook

\* A rolled back call leaves the rows as they were.
LEMMA RollbackBook ==
    ASSUME IInv, BookInv, IInv', NEW t \in Slots, Active(t), Rollback(t)
    PROVE  BookInv' /\ StaysCancelled
<1> USE DEF rows, call, money, flags
<1>1. /\ pc'[t] = "failed" /\ \A o \in Slots \ {t} : pc'[o] = pc[o]
      /\ \A c \in Slots : fills'[t][c] = 0
      /\ \A o \in Slots \ {t} : fills'[o] = fills[o] /\ todo'[o] = todo[o]
      /\ \A c \in Slots : lock'[c] = IF lock[c] = t THEN 0 ELSE lock[c]
      /\ UNCHANGED <<status, filled, req, cur, leg, snap, bridged, offered, money>>
    BY DEF Rollback, Goto, IInv, TypeOK
<1>2. ~Committed(t) /\ ~Committed(t)'
    BY <1>1 DEF Committed, Active
<1>3. SlotBook(t)'
  <2>1. SlotBook(t)
      BY DEF BookInv
  <2>2. status[t] = "none"
      BY <1>2 DEF IInv, RowShape
  <2>3. offered[t] \subseteq Slots
      BY DEF IInv, TypeOK
  <2>4. \A c \in offered[t] : Committed(c)'
      BY <1>1, <1>2, <2>1, <2>3 DEF SlotBook, Committed
  <2> QED
      BY <1>1, <2>1, <2>2, <2>4 DEF SlotBook
<1>4. \A c \in Slots :
        \/ lock'[c] = lock[c] /\ (lock[c] = t => Active(t)')
        \/ lock[c] = t /\ lock'[c] = 0
    BY <1>1
<1> QED
    BY <1>1, <1>2, <1>3, <1>4, QuietBook

\* A settled trade has its record before it is committed.
LEMMA SettleBook ==
    ASSUME IInv, BookInv, IInv', NEW t \in Slots, Settle(t)
    PROVE  BookInv' /\ StaysCancelled
<1> USE DEF rows, call, money, flags
<1>1. /\ pc[t] = "legs" /\ pc'[t] = (IF Taken(t) = req[t].qty THEN "commit" ELSE "select")
      /\ \A o \in Slots \ {t} : pc'[o] = pc[o] /\ due'[o] = due[o]
      /\ settled' = settled \cup {<<t, cur[t]>>}
      /\ UNCHANGED <<rows, todo, call, bal, moved, paid>>
    BY DEF Settle, Goto, IInv, TypeOK
<1>2. ~Committed(t) /\ ~Committed(t)' /\ Active(t) /\ Active(t)'
    BY <1>1 DEF Committed, Active
<1>3. SlotBook(t)'
  <2>1. SlotBook(t)
      BY DEF BookInv
  <2>2. Taken(t)' = Taken(t)
      BY <1>1, TakenKept
  <2>3. status[t] = "none"
      BY <1>2 DEF IInv, RowShape
  <2>4. offered[t] \subseteq Slots
      BY DEF IInv, TypeOK
  <2>5. \A c \in offered[t] : Committed(c)'
      BY <1>1, <1>2, <2>1, <2>4 DEF SlotBook, Committed
  <2>6. \A c \in Slots : fills'[t][c] > 0 =>
         /\ filled'[c] + fills'[t][c] <= req'[c].qty
         /\ <<t, c>> \in settled'
      BY <1>1, <1>2, <2>1 DEF SlotBook
  <2> QED
      BY <1>1, <2>1, <2>2, <2>3, <2>5, <2>6 DEF SlotBook
<1>4. settled \subseteq settled'
    BY <1>1
<1> QED
    BY <1>1, <1>2, <1>3, <1>4, QuietBook

\* The step that makes the trades of call t visible.
LEMMA CommitBook ==
    ASSUME IInv, BookInv, IInv', NEW t \in Slots, Commit(t)
    PROVE  BookInv' /\ StaysCancelled
<1> USE DEF rows, call, money, flags
<1>a. SlotBook(t) /\ SlotShape(t)
    BY DEF BookInv, IInv
<1>b. fills \in [Slots -> [Slots -> Nat]] /\ filled \in [Slots -> Nat]
    BY DEF IInv, TypeOK
<1>1. /\ pc[t] = "commit" /\ pc'[t] \in {"bridge", "done"}
      /\ \A o \in Slots \ {t} : pc'[o] = pc[o] /\ moved'[o] = moved[o]
      /\ \A c \in Slots : filled'[c] = IF c = t THEN Taken(t) ELSE filled[c] + fills[t][c]
      /\ \A c \in Slots : lock'[c] = IF lock[c] = t THEN 0 ELSE lock[c]
      /\ UNCHANGED <<todo, call, bal, settled, due, paid>>
    BY DEF Commit, Goto, FilledFor, IInv, TypeOK
<1>2. \A c \in Slots : status'[c] = IF c = t \/ fills[t][c] > 0
                                    THEN IF filled'[c] >= req[c].qty THEN "filled" ELSE "open"
                                    ELSE status[c]
    BY DEF Commit
<1>3. ~Committed(t) /\ Committed(t)' /\ Active(t) /\ ~Active(t)'
    BY <1>1 DEF Committed, Active
<1>4. \A c \in Slots : fills[t][c] > 0 =>
        /\ c # t /\ lock[c] = t /\ status[c] = "open"
        /\ filled[c] + fills[t][c] <= req[c].qty /\ <<t, c>> \in settled
  <2> SUFFICES ASSUME NEW c \in Slots, fills[t][c] > 0
               PROVE  /\ c # t /\ lock[c] = t /\ status[c] = "open"
                      /\ filled[c] + fills[t][c] <= req[c].qty /\ <<t, c>> \in settled
      OBVIOUS
  <2>1. Committed(c) /\ lock[c] = t
      BY <1>3, <1>a DEF SlotShape, FillShape
  <2>2. status[c] = "open"
      BY <2>1 DEF BookInv, RowBook, Slots
  <2> QED
      BY <1>1, <1>3, <1>a, <2>1, <2>2 DEF SlotBook
<1>5. BookFrame(t)
  <2>1. \A c \in Slots : c # t /\ fills[t][c] = 0 => filled'[c] = filled[c] /\ status'[c] = status[c]
      BY <1>1, <1>2, <1>b
  <2>2. \A c \in Slots : Committed(c) /\ lock[c] \notin {0, t} => lock'[c] = lock[c] /\ filled'[c] = filled[c]
    <3> SUFFICES ASSUME NEW c \in Slots, Committed(c), lock[c] \notin {0, t}
                 PROVE  lock'[c] = lock[c] /\ filled'[c] = filled[c]
        OBVIOUS
    <3>1. c # t /\ fills[t][c] \in Nat /\ ~(fills[t][c] > 0)
        BY <1>3, <1>4, <1>b
    <3> QED
        BY <1>1, <2>1, <3>1
  <2>3. \A c \in Slots : status[c] # "open" /\ (c # t \/ Committed(t)) =>
          status'[c] = status[c] /\ filled'[c] = filled[c]
    <3> SUFFICES ASSUME NEW c \in Slots, status[c] # "open", c # t
                 PROVE  status'[c] = status[c] /\ filled'[c] = filled[c]
        BY <1>3
    <3>1. fills[t][c] \in Nat /\ ~(fills[t][c] > 0)
        BY <1>4, <1>b
    <3> QED
        BY <2>1, <3>1
  <2> QED
      BY <1>1, <1>3, <2>2, <2>3 DEF BookFrame, Frame
<1>6. \A o \in Slots \ {t} : SlotBook(o)'
    BY <1>5, OthersBook
<1>7. SlotBook(t)'
  <2>1. Taken(t)' = Taken(t)
      BY <1>1, TakenKept
  <2>2. offered[t] \subseteq Slots
      BY DEF IInv, TypeOK
  <2>3. \A c \in offered[t] : Committed(c)'
      BY <1>a, <1>5, <2>2, CommittedKept DEF SlotBook, BookFrame
  <2>4. \A c \in Slots : fills'[t][c] > 0 => <<t, c>> \in settled'
      BY <1>1, <1>4
  <2>5. ASSUME status'[t] = "open"
        PROVE  \A c \in offered'[t] : status'[c] # "open"
    <3>1. Taken(t) # req[t].qty
      <4>1. Taken(t) \in Nat /\ req[t].qty \in Nat
          BY TakenNat, RequestsTyped DEF IInv, TypeOK
      <4> QED
          BY <1>1, <1>2, <2>5, <4>1
    <3>2. \A c \in offered[t] : status[c] # "open" /\ c # t
        BY <1>1, <1>3, <1>a, <3>1 DEF SlotBook
    <3> QED
        BY <1>1, <1>5, <2>2, <3>2 DEF BookFrame
  <2> QED
      BY <1>1, <1>3, <1>a, <2>1, <2>3, <2>4, <2>5 DEF SlotBook
<1>8. ASSUME NEW c \in Slots PROVE RowBook(c)'
  <2>1. RowBook(c)
      BY DEF BookInv
  <2>2. lock'[c] # 0 => pc'[lock'[c]] \in {"select", "scan", "legs", "commit"} /\ status'[c] = "open"
    <3> SUFFICES ASSUME lock'[c] # 0
                 PROVE  pc'[lock'[c]] \in {"select", "scan", "legs", "commit"} /\ status'[c] = "open"
        OBVIOUS
    <3>1. lock'[c] = lock[c] /\ lock[c] \notin {0, t}
        BY <1>1
    <3>2. Active(lock[c]) /\ status[c] = "open"
        BY <2>1, <3>1 DEF RowBook
    <3>3. lock[c] \in Slots
      <4>1. lock[c] \in 0..N
          BY DEF IInv, TypeOK
      <4> QED
          BY <4>1, <3>1, OrderBookAssumption DEF Slots
    <3>4. c # t
        BY <1>3, <3>2 DEF IInv, RowShape
    <3>5. ~(fills[t][c] > 0)
        BY <1>4, <3>1
    <3> QED
        BY <1>1, <1>2, <3>1, <3>2, <3>3, <3>4, <3>5 DEF Active
  <2>3. filled'[c] = Traded(c)'
    <3>1. \A o \in Slots : bridged[o] = 0 /\ bridged'[o] = 0
        BY <1>1 DEF BookInv, SlotBook
    <3> DEFINE f == [o \in Slots |-> Made(o, c)]
               g == [o \in Slots |-> Made(o, c)']
               made == IF c = t THEN Taken(t) ELSE fills[t][c]
    <3>2. \A o \in Slots \ {t} : g[o] = f[o]
      <4>1. \A o \in Slots \ {t} : fills'[o] = fills[o] /\ Taken(o)' = Taken(o)
          BY <1>1, TakenKept
      <4> QED
          BY <1>1, <4>1 DEF Made, Committed
    <3>3. f[t] = 0 /\ g[t] = made
      <4>1. Taken(t)' = Taken(t)
          BY <1>1, TakenKept
      <4> QED
          BY <1>1, <1>3, <4>1 DEF Made
    <3>4. \A o \in Slots : f[o] \in Int
        BY <1>b, TakenNat DEF Made
    <3>5. made \in Int
        BY <1>b, TakenNat
    <3>6. \A o \in Slots : g[o] \in Int
        BY <3>2, <3>3, <3>4, <3>5
    <3>7. Traded(c) = SumFunctionOnSet(f, Slots)
        BY <3>1, TradedIs DEF IInv
    <3>8. Traded(c)' = SumFunctionOnSet(g, Slots)
        BY <3>1, TradedIsNext DEF IInv
    <3>9. filled[c] = Traded(c) /\ filled'[c] = filled[c] + made
      <4>1. filled[t] = 0
          BY <1>3 DEF IInv, RowShape
      <4> QED
          BY <1>1, <2>1, <3>5, <4>1 DEF RowBook
    <3> HIDE DEF f, g, made
    <3>10. SumFunctionOnSet(g, Slots) = SumFunctionOnSet(f, Slots) - f[t] + g[t]
        BY <3>2, <3>4, <3>6, SlotsFinite, SumUpdate
    <3>11. Traded(c)' = filled[c] - 0 + made
        BY <3>3, <3>7, <3>8, <3>9, <3>10
    <3> QED
        BY <3>5, <3>9, <3>11, <1>b
  <2>4. filled'[c] <= req'[c].qty /\ (status'[c] = "filled" => filled'[c] = req'[c].qty)
    <3>0. req'[c].qty = req[c].qty /\ req[c].qty \in Nat /\ filled'[c] \in Nat
        BY <1>1, RequestsTyped DEF IInv, TypeOK
    <3>1. CASE c = t
        BY <1>1, <1>2, <1>a, <3>0, <3>1 DEF SlotShape, TakenShape
    <3>2. CASE c # t /\ fills[t][c] > 0
      <4>1. filled'[c] <= req[c].qty
          BY <1>1, <1>4, <3>2
      <4> QED
          BY <3>0, <3>2, <4>1, <1>2
    <3>3. CASE c # t /\ ~(fills[t][c] > 0)
      <4>1. filled'[c] = filled[c] /\ status'[c] = status[c]
          BY <1>1, <1>2, <1>b, <3>3
      <4> QED
          BY <2>1, <3>0, <4>1 DEF RowBook
    <3> QED
        BY <3>1, <3>2, <3>3
  <2> QED
      BY <2>2, <2>3, <2>4 DEF RowBook, Active
<1> QED
    BY <1>5, <1>6, <1>7, <1>8, FrameKeepsCancelled DEF BookInv

\* A call that has committed and not been dispatched to the bridge ends.
LEMMA EndsBook ==
    ASSUME IInv, BookInv, IInv', NEW t \in Slots, pc[t] = "bridge", Goto(t, "done"),
           UNCHANGED <<rows, todo, call, money>>
    PROVE  BookInv' /\ StaysCancelled
<1> USE DEF rows, call, money
<1>1. pc'[t] = "done" /\ \A o \in Slots \ {t} : pc'[o] = pc[o]
    BY DEF Goto, IInv, TypeOK
<1>2. Committed(t) /\ Committed(t)' /\ ~Active(t)
    BY <1>1 DEF Committed, Active
<1>3. BookFrame(t)
    BY <1>1, <1>2 DEF BookFrame, Frame
<1>4. SlotBook(t)
    BY DEF BookInv
<1>5. SlotBook(t)'
  <2>1. offered[t] \subseteq Slots
      BY DEF IInv, TypeOK
  <2>2. \A c \in offered[t] : Committed(c)'
      BY <1>3, <1>4, <2>1, CommittedKept DEF SlotBook, BookFrame
  <2> QED
      BY <1>1, <1>4, <2>2 DEF SlotBook, Active
<1>6. \A c \in Slots : lock[c] # t
    BY <1>2 DEF BookInv, RowBook, Slots
<1>7. bridged'[t] = 0
    BY <1>4 DEF SlotBook
<1> QED
    BY <1>2, <1>3, <1>5, <1>6, <1>7, BookStep

\* A resting order is cancelled.
LEMMA CancelBook ==
    ASSUME IInv, BookInv, IInv', NEW t \in Slots, Cancel(t)
    PROVE  BookInv' /\ StaysCancelled
<1> USE DEF rows, call, money, flags
<1>1. /\ lock[t] = 0 /\ status[t] = "open" /\ status'[t] = "cancelled"
      /\ \A c \in Slots \ {t} : status'[c] = status[c]
      /\ UNCHANGED <<filled, lock, pc, todo, call, money>>
    BY DEF Cancel, IInv, TypeOK
<1>2. Committed(t) /\ Committed(t)'
    BY <1>1 DEF IInv, RowShape, Committed
<1>3. BookFrame(t)
    BY <1>1, <1>2 DEF BookFrame, Frame
<1>4. SlotBook(t)
    BY DEF BookInv
<1>5. SlotBook(t)'
  <2>1. Taken(t)' = Taken(t)
      BY <1>1, TakenKept
  <2>2. offered[t] \subseteq Slots
      BY DEF IInv, TypeOK
  <2>3. \A c \in Slots : status[c] # "open" => status'[c] # "open"
      BY <1>1
  <2>4. \A c \in offered[t] : Committed(c)'
      BY <1>1, <1>4, <2>2 DEF SlotBook, Committed
  <2>5. pc[t] # "scan" /\ pc[t] # "commit" /\ ~Active(t)'
      BY <1>1, <1>2 DEF Committed, Active
  <2> QED
      BY <1>1, <1>4, <2>1, <2>2, <2>3, <2>4, <2>5 DEF SlotBook
<1>6. \A c \in Slots : lock[c] # t
    BY <1>2 DEF BookInv, RowBook, Active, Committed, Slots
<1>7. bridged'[t] = 0
    BY <1>1, <1>4 DEF SlotBook
<1>8. \A c \in Slots :
        \/ lock'[c] = 0
        \/ lock'[c] = lock[c] /\ status'[c] = status[c] /\ (lock[c] = t => Active(t)')
    BY <1>1, <1>6
<1>9. \A c \in Slots : status'[c] = "filled" => status[c] = "filled"
    BY <1>1
<1> QED
    BY <1>1, <1>2, <1>3, <1>5, <1>7, <1>8, <1>9, BookStep

\* The rows agree with the trades after every step, and a cancelled order stays so.
LEMMA NextBook ==
    NoBridge /\ IInv /\ BookInv /\ [Next]_vars => BookInv' /\ StaysCancelled
<1> SUFFICES ASSUME NoBridge, IInv, BookInv, [Next]_vars
             PROVE  BookInv' /\ StaysCancelled
    OBVIOUS
<1>0. IInv'
    BY NextIInv
<1>1. ASSUME NEW t \in Slots, Step(t)
      PROVE  BookInv' /\ StaysCancelled
  <2>1. pc[t] \notin {"bridging", "mark"}
      BY DEF BookInv, SlotBook
  <2>2. CASE TradeLegRefused(t)
      BY <1>0, <2>2, RollbackBook DEF TradeLegRefused, Active
  <2>3. CASE DeadlockVictim(t)
      BY <1>0, <2>3, VictimWaits, RollbackBook DEF DeadlockVictim, Active
  <2>4. CASE BridgeRead(t)
    <3>1. /\ pc[t] = "bridge" /\ Goto(t, "done")
          /\ UNCHANGED <<rows, todo, req, fills, offered, money>>
          /\ UNCHANGED <<cur, snap, bridged, leg>>
        BY <2>4 DEF BridgeRead, NoBridge
    <3> QED
        BY <1>0, <3>1, EndsBook DEF call
  <2> QED
      BY <1>0, <1>1, <2>1, <2>2, <2>3, <2>4, OpenBook, SelectBook, LockNextBook, MatchBook,
         TradeLegBook, SettleBook, CommitBook
         DEF Step, BridgeLeg, BridgeLegRefused, BridgeCommit, BridgeMark
<1>2. ASSUME NEW t \in Slots, Fault(t)
      PROVE  BookInv' /\ StaysCancelled
  <2>1. pc[t] \notin {"bridging", "mark"}
      BY DEF BookInv, SlotBook
  <2>2. CASE pc[t] \in {"select", "scan", "legs", "commit"} /\ Rollback(t)
      BY <1>0, <2>2, RollbackBook DEF Active
  <2>3. CASE /\ pc[t] = "bridge"
             /\ Goto(t, "done")
             /\ UNCHANGED <<rows, todo, call, money>>
      BY <1>0, <2>3, EndsBook
  <2> QED
      BY <1>2, <2>1, <2>2, <2>3 DEF Fault
<1>3. ASSUME NEW t \in Slots, ChargeFee(t)
      PROVE  BookInv' /\ StaysCancelled
    BY <1>0, <1>3, AsideBook DEF ChargeFee
<1>4. ASSUME FlipSuspension \/ (\E u \in Users : FlipBar(u)) \/ UNCHANGED vars
      PROVE  BookInv' /\ StaysCancelled
  <2>1. UNCHANGED <<rows, pc, todo, call, settled>>
      BY <1>4 DEF FlipSuspension, FlipBar, vars, money
  <2> QED
      BY <1>0, <2>1, AsideBook
<1> QED
    BY <1>0, <1>1, <1>2, <1>3, <1>4, AdmitBook, CancelBook DEF Next

\* The empty book agrees with its trades.
LEMMA InitBook == Init => BookInv
<1> SUFFICES ASSUME Init PROVE BookInv
    OBVIOUS
<1>0. IInv
    BY InitIInv
<1>1. ASSUME NEW t \in Slots PROVE SlotBook(t)
    BY DEF Init, SlotBook
<1>2. ASSUME NEW c \in Slots PROVE RowBook(c)
  <2>1. \A o \in Slots : bridged[o] = 0
      BY DEF Init
  <2>2. \A o \in Slots : [x \in Slots |-> Made(x, c)][o] = 0
      BY DEF Init, Made, Committed
  <2>3. SumFunctionOnSet([x \in Slots |-> Made(x, c)], Slots) = 0
      BY <2>2, SlotsFinite, SumZero
  <2>4. Traded(c) = 0
      BY <1>0, <2>1, <2>3, TradedIs DEF IInv
  <2>5. req[c].qty \in Nat
      BY <1>0, RequestsTyped DEF IInv
  <2> QED
      BY <2>4, <2>5 DEF Init, RowBook
<1> QED
    BY <1>1, <1>2 DEF BookInv

\* Where nothing is dispatched to the bridge the whole invariant holds throughout.
LEMMA BookInvariance ==
    ASSUME NoBridge
    PROVE  Spec => [](IInv /\ BookInv)
BY InitIInv, InitBook, NextIInv, NextBook, PTL DEF Spec

\* filled_quantity is what the committed trades took and never more than was
\* asked for, status follows it and every trade has its settlements, for any
\* number of calls, cancellations and faults.
THEOREM BookCorrect ==
    ASSUME NoBridge
    PROVE  Spec => []BookAgreesWithTrades
<1>1. IInv /\ BookInv => BookAgreesWithTrades
  <2> SUFFICES ASSUME IInv, BookInv PROVE BookAgreesWithTrades
      OBVIOUS
  <2>1. \A c \in Slots :
          /\ filled[c] = Traded(c)
          /\ status[c] = "open" => filled[c] < req[c].qty
          /\ status[c] = "filled" => filled[c] = req[c].qty
      BY DEF BookInv, RowBook, IInv, RowShape
  <2>2. NoDoubleFill
      BY DEF BookInv, RowBook, NoDoubleFill
  <2>3. TradesHaveSettlements
      BY DEF BookInv, SlotBook, TradesHaveSettlements, Committed
  <2> QED
      BY <2>1, <2>2, <2>3 DEF BookAgreesWithTrades
<1> QED
    BY <1>1, BookInvariance, PTL

\* An order rests only when all that its last SELECT offered it is gone, for any
\* number of calls that wait for each other, roll back or are cancelled.
THEOREM NothingIsLeft ==
    ASSUME NoBridge
    PROVE  Spec => []NothingOfferedIsLeft
<1>1. BookInv => NothingOfferedIsLeft
    BY DEF BookInv, SlotBook, NothingOfferedIsLeft
<1> QED
    BY <1>1, BookInvariance, PTL

\* A cancelled order is not brought back or traded by a call that had selected it,
\* for any number of calls and cancellations.
THEOREM CancelCorrect ==
    ASSUME NoBridge
    PROVE  Spec => CancelIsFinal
<1>1. IInv /\ BookInv /\ [Next]_vars =>
        [\A c \in Slots : status[c] = "cancelled" =>
            status'[c] = "cancelled" /\ Traded(c)' = Traded(c)]_vars
  <2> SUFFICES ASSUME IInv, BookInv, [Next]_vars,
                      NEW c \in Slots, status[c] = "cancelled"
               PROVE  status'[c] = "cancelled" /\ Traded(c)' = Traded(c)
      OBVIOUS
  <2>1. BookInv' /\ StaysCancelled
      BY NextBook
  <2> QED
      BY <2>1 DEF BookInv, RowBook, StaysCancelled
<1> QED
    BY <1>1, BookInvariance, PTL DEF Spec, CancelIsFinal
=============================================================================
