------------------------------ MODULE OrderBook ------------------------------
(***************************************************************************)
(* OrderBookService: createOrder, its matching loop, the dispatch to the   *)
(* cross-facilitator bridge, cancelOrder and the trading flags.            *)
(*                                                                         *)
(* Every call of createOrder is a process, named by its slot.  Slots are   *)
(* numbered in the order the calls' transactions begin, which is the order *)
(* of created_at, so the smallest slot is the oldest order.  The price is  *)
(* fixed (FIXED_QP_PRICE), so time alone decides between counter orders.   *)
(*                                                                         *)
(* The order rows change in the call's own transaction, but adjustBalance  *)
(* and createSettlement run in transactions of their own, on other         *)
(* connections: they are durable at once and a rollback of the call does   *)
(* not undo them.  adjustBalance is atomic here; MarketBalance shows why.  *)
(***************************************************************************)
EXTENDS Integers, FiniteSets, FiniteSetsExt, Functions

CONSTANTS Users, AI,
          N,            \* number of createOrder calls
          Menu,         \* the requests slot t may make
          NoFac,        \* an order without facilitatorId
          Genesis,      \* market balances at the start
          Fee,          \* the trade fee
          BridgeStates, \* what isCrossFacilitatorTrade and the capacity
                        \* check may answer
          MaxFaults,    \* bound: statements that fail for outside reasons
          MaxFlips,     \* bound: changes of the trading flags
          MaxCancels    \* bound: calls of cancelOrder

Slots == 1..N
Sides == {"buy", "sell"}
Opposite(s) == IF s = "buy" THEN "sell" ELSE "buy"

ASSUME OrderBookAssumption ==
    /\ AI \in Users /\ IsFiniteSet(Users)
    /\ N \in Nat
    /\ \A t \in Slots : \A m \in Menu[t] :
         m.user \in Users /\ m.side \in Sides /\ m.qty \in Nat \ {0}
    /\ Genesis \in [Users -> Nat]
    /\ Fee \in Nat
    /\ BridgeStates \subseteq BOOLEAN
    /\ MaxFaults \in Nat /\ MaxFlips \in Nat /\ MaxCancels \in Nat

VARIABLES
    req,         \* the request of each call
    pc,          \* where each call is
    status,      \* committed status of each order row, "none" before commit
    filled,      \* committed filledQuantity of each order row
    lock,        \* the call holding the row lock of each order, 0 for nobody
    todo,        \* rows the running SELECT ... FOR UPDATE has still to visit
    fills,       \* fills[t][c]: quantity call t trades with resting order c
    cur,         \* the counter order of the trade or bridge in progress
    leg,         \* the next balance movement of that trade or bridge
    snap,        \* the bridge's unlocked copy of the counter's filledQuantity
    bridged,     \* quantity call t exchanged over the bridge
    bal,         \* market balances
    moved,       \* moved[t][u]: QP call t moved for u without a committed trade
    settled,     \* pairs <<t, c>> with a pending settlement
    due, paid,   \* trade fees fired and collected, per call
    offered,     \* the rows call t's last SELECT found (history)
    suspended,   \* the Redis flag of Section 6.2
    barred,      \* users terminated (12.2) or fiat-suspended (4.3)
    faults, flips, cancels

rows    == <<status, filled, lock>>
call    == <<req, fills, cur, leg, snap, bridged, offered>>
money   == <<bal, moved, settled, due, paid>>
flags   == <<suspended, barred, flips>>
vars    == <<rows, pc, todo, call, money, flags, faults, cancels>>

Zero == [u \in Users |-> 0]

Init ==
    /\ req \in [Slots -> {[user |-> AI, side |-> "buy", qty |-> 1, fac |-> NoFac]}]
    /\ pc = [t \in Slots |-> "unborn"]
    /\ status = [t \in Slots |-> "none"]
    /\ filled = [t \in Slots |-> 0]
    /\ lock = [t \in Slots |-> 0]
    /\ todo = [t \in Slots |-> {}]
    /\ fills = [t \in Slots |-> [c \in Slots |-> 0]]
    /\ cur = [t \in Slots |-> 0]
    /\ leg = [t \in Slots |-> 1]
    /\ snap = [t \in Slots |-> 0]
    /\ bridged = [t \in Slots |-> 0]
    /\ bal = Genesis
    /\ moved = [t \in Slots |-> Zero]
    /\ settled = {}
    /\ due = [t \in Slots |-> 0]
    /\ paid = [t \in Slots |-> 0]
    /\ offered = [t \in Slots |-> {}]
    /\ suspended = FALSE
    /\ barred = {}
    /\ faults = 0 /\ flips = 0 /\ cancels = 0

Goto(t, step) == pc' = [pc EXCEPT ![t] = step]

-----------------------------------------------------------------------------
(* The open book as a transaction sees it.                                  *)

\* What t has filled of its own order, in its transaction.
Taken(t) == SumFunctionOnSet(fills[t], Slots)

\* filledQuantity of a counter order as call t sees it.
FilledFor(t, c) == filled[c] + fills[t][c]

\* The rows _matchOrders selects: open orders of the other side and of other
\* users.  No LIMIT is sent, so every one of them is locked.
Candidates(t) ==
    {c \in Slots :
        /\ status[c] = "open"
        /\ FilledFor(t, c) < req[c].qty
        /\ req[c].side = Opposite(req[t].side)
        /\ req[c].user # req[t].user}

-----------------------------------------------------------------------------
(* createOrder up to the first match.                                       *)

\* The flags are read before the transaction starts.
Admit(t) ==
    /\ pc[t] = "unborn"
    /\ \E m \in Menu[t] :
         /\ req' = [req EXCEPT ![t] = m]
         /\ Goto(t, IF suspended \/ m.user \in barred THEN "failed" ELSE "admitted")
    /\ UNCHANGED <<rows, todo, fills, cur, leg, snap, bridged, offered, money,
                   flags, faults, cancels>>

\* The transaction begins: now() is fixed, so slots open in order.  A sell
\* needs its quantity in the balance at this moment; nothing is reserved.
Open(t) ==
    /\ pc[t] = "admitted"
    /\ \A s \in 1..(t - 1) : pc[s] \notin {"unborn", "admitted"}
    /\ Goto(t, IF req[t].side = "sell" /\ bal[req[t].user] < req[t].qty
               THEN "failed" ELSE "select")
    /\ UNCHANGED <<rows, todo, call, money, flags, faults, cancels>>

-----------------------------------------------------------------------------
(* _matchOrders.                                                            *)

\* The statement's snapshot: the open counter orders committed by now, those of
\* younger calls that were faster included.
Select(t) ==
    /\ pc[t] = "select"
    /\ todo' = [todo EXCEPT ![t] = Candidates(t)]
    /\ offered' = [offered EXCEPT ![t] = Candidates(t)]
    /\ Goto(t, "scan")
    /\ UNCHANGED <<rows, req, fills, cur, leg, snap, bridged, money, flags,
                   faults, cancels>>

\* Mutant: a plain SELECT, which waits for nobody and locks nothing it cannot.
LockNextPlainSelect(t) ==
    /\ pc[t] = "scan"
    /\ todo[t] # {}
    /\ LET c == Min(todo[t])
       IN /\ lock' = IF c \in Candidates(t) THEN [lock EXCEPT ![c] = t] ELSE lock
          /\ todo' = [todo EXCEPT ![t] = @ \ {c}]
    /\ UNCHANGED <<status, filled, pc, call, money, flags, faults, cancels>>

\* Mutant: FOR UPDATE SKIP LOCKED.
LockNextSkipLocked(t) ==
    /\ pc[t] = "scan"
    /\ todo[t] # {}
    /\ LET c == Min(todo[t])
       IN /\ lock' = IF c \in Candidates(t) /\ lock[c] = 0
                     THEN [lock EXCEPT ![c] = t] ELSE lock
          /\ todo' = [todo EXCEPT ![t] = @ \ {c}]
    /\ UNCHANGED <<status, filled, pc, call, money, flags, faults, cancels>>

\* FOR UPDATE visits the rows oldest first, waits for a locked one, and keeps
\* it only if it is still open once the lock is granted.
LockNext(t) ==
    /\ pc[t] = "scan"
    /\ todo[t] # {}
    /\ LET c == Min(todo[t])
       IN /\ lock[c] \in {0, t}
          /\ lock' = IF c \in Candidates(t) THEN [lock EXCEPT ![c] = t] ELSE lock
          /\ todo' = [todo EXCEPT ![t] = @ \ {c}]
    /\ UNCHANGED <<status, filled, pc, call, money, flags, faults, cancels>>

Best(t) == Min({c \in Candidates(t) : lock[c] = t})

ForBridge(t, c) ==
    /\ req[t].fac # NoFac
    /\ req[c].fac # NoFac
    /\ req[t].fac # req[c].fac

\* The statement is complete.  Nothing to match, or a counter order to leave
\* to the bridge, ends the loop; otherwise a trade is written.
Match(t) ==
    /\ pc[t] = "scan"
    /\ todo[t] = {}
    /\ \/ /\ \A c \in Candidates(t) : lock[c] # t
          /\ Goto(t, "commit")
          /\ UNCHANGED <<fills, cur, leg>>
       \/ /\ \E c \in Candidates(t) : lock[c] = t
          /\ ForBridge(t, Best(t)) /\ TRUE \in BridgeStates
          /\ Goto(t, "commit")
          /\ UNCHANGED <<fills, cur, leg>>
       \/ /\ \E c \in Candidates(t) : lock[c] = t
          /\ ForBridge(t, Best(t)) => FALSE \in BridgeStates
          /\ LET c == Best(t)
                 q == Min({req[t].qty - Taken(t), req[c].qty - FilledFor(t, c)})
             IN /\ fills' = [fills EXCEPT ![t][c] = q]
                /\ cur' = [cur EXCEPT ![t] = c]
          /\ leg' = [leg EXCEPT ![t] = 1]
          /\ Goto(t, "legs")
    /\ UNCHANGED <<rows, todo, req, snap, bridged, offered, money, flags, faults,
                   cancels>>

Buyer(t)  == IF req[t].side = "buy" THEN req[t].user ELSE req[cur[t]].user
Seller(t) == IF req[t].side = "buy" THEN req[cur[t]].user ELSE req[t].user

\* Mutant: the legs move what was ordered, not what was filled.
LegsOfWholeOrder(t) ==
    IF pc[t] = "legs"
    THEN << <<Buyer(t), req[t].qty>>, <<Seller(t), -req[t].qty>> >>
    ELSE << <<Buyer(t), req[t].qty>>, <<AI, -req[t].qty>>,
            <<AI, req[t].qty>>, <<Seller(t), -req[t].qty>> >>

\* Mutant: the seller is debited before the buyer is credited.
LegsDebitFirst(t) ==
    IF pc[t] = "legs"
    THEN LET q == fills[t][cur[t]]
         IN << <<Seller(t), -q>>, <<Buyer(t), q>> >>
    ELSE LET q == bridged[t]
         IN << <<Seller(t), -q>>, <<AI, q>>, <<AI, -q>>, <<Buyer(t), q>> >>

\* The adjustBalance calls of a direct trade, and of executeBridge.
Legs(t) ==
    IF pc[t] = "legs"
    THEN LET q == fills[t][cur[t]]
         IN << <<Buyer(t), q>>, <<Seller(t), -q>> >>
    ELSE LET q == bridged[t]
         IN << <<Buyer(t), q>>, <<AI, -q>>, <<AI, q>>, <<Seller(t), -q>> >>

\* Mutant: the connection goes back to the pool without ROLLBACK.
RollbackLeaksLocks(t) ==
    /\ fills' = [fills EXCEPT ![t] = [c \in Slots |-> 0]]
    /\ todo' = [todo EXCEPT ![t] = {}]
    /\ Goto(t, "failed")
    /\ UNCHANGED <<rows, req, cur, leg, snap, bridged, offered, money, flags, cancels>>

\* The transaction of the call ends without a commit.
Rollback(t) ==
    /\ lock' = [c \in Slots |-> IF lock[c] = t THEN 0 ELSE lock[c]]
    /\ fills' = [fills EXCEPT ![t] = [c \in Slots |-> 0]]
    /\ todo' = [todo EXCEPT ![t] = {}]
    /\ Goto(t, "failed")
    /\ UNCHANGED <<status, filled, req, cur, leg, snap, bridged, offered, money,
                   flags, cancels>>

\* executeBridge throws: its transaction rolls back, createOrder only logs it.
BridgeFails(t) ==
    /\ bridged' = [bridged EXCEPT ![t] = 0]
    /\ Goto(t, "done")
    /\ UNCHANGED <<rows, todo, req, fills, cur, leg, snap, offered, money, flags,
                   cancels>>

\* Mutant: the check for a negative balance is missing.
MoveUnchecked(t) ==
    LET u == Legs(t)[leg[t]][1]
        d == Legs(t)[leg[t]][2]
    IN /\ bal' = [bal EXCEPT ![u] = @ + d]
       /\ moved' = [moved EXCEPT ![t][u] = @ + d]
       /\ leg' = [leg EXCEPT ![t] = @ + 1]

\* One adjustBalance: durable at once, or an exception when not covered.
Move(t) ==
    LET u == Legs(t)[leg[t]][1]
        d == Legs(t)[leg[t]][2]
    IN /\ bal[u] + d >= 0
       /\ bal' = [bal EXCEPT ![u] = @ + d]
       /\ moved' = [moved EXCEPT ![t][u] = @ + d]
       /\ leg' = [leg EXCEPT ![t] = @ + 1]

TradeLeg(t) ==
    /\ pc[t] = "legs"
    /\ leg[t] <= 2
    /\ Move(t)
    /\ UNCHANGED <<rows, pc, todo, req, fills, cur, snap, bridged, offered,
                   settled, due, paid, flags, faults, cancels>>

TradeLegRefused(t) ==
    /\ pc[t] = "legs"
    /\ leg[t] <= 2
    /\ LET l == Legs(t)[leg[t]] IN bal[l[1]] + l[2] < 0
    /\ Rollback(t)
    /\ UNCHANGED faults

\* createSettlement writes its records on another connection, so they are
\* durable before the trade is.  The fee is fired and the loop goes on.  When it
\* throws (no notification gateway, or the foreign key on trade_id, which cannot
\* see the uncommitted trade) the call rolls back: that is Fault.
Settle(t) ==
    /\ pc[t] = "legs"
    /\ leg[t] = 3
    /\ settled' = settled \cup {<<t, cur[t]>>}
    /\ due' = [due EXCEPT ![t] = @ + 1]
    /\ Goto(t, IF Taken(t) = req[t].qty THEN "commit" ELSE "select")
    /\ UNCHANGED <<rows, todo, call, bal, moved, paid, flags, faults, cancels>>

\* The order and its counter orders become visible, the row locks go.  A call
\* that has a facilitator and traded nothing turns to the bridge.
Commit(t) ==
    /\ pc[t] = "commit"
    /\ filled' = [c \in Slots |-> IF c = t THEN Taken(t) ELSE FilledFor(t, c)]
    /\ status' = [c \in Slots |->
                    IF (c = t \/ fills[t][c] > 0)
                    THEN IF filled'[c] >= req[c].qty THEN "filled" ELSE "open"
                    ELSE status[c]]
    /\ lock' = [c \in Slots |-> IF lock[c] = t THEN 0 ELSE lock[c]]
    /\ moved' = [moved EXCEPT ![t] = Zero]
    /\ Goto(t, IF Taken(t) = 0 /\ req[t].fac # NoFac THEN "bridge" ELSE "done")
    /\ UNCHANGED <<todo, call, bal, settled, due, paid, flags, faults, cancels>>

-----------------------------------------------------------------------------
(* _attemptCrossFacilitatorBridge, after the commit.                        *)

\* The counter order is read without a lock; the quantity is computed from
\* that copy and from the call's own order object.
BridgeRead(t) ==
    /\ pc[t] = "bridge"
    /\ LET C == {c \in Slots :
                    /\ status[c] = "open"
                    /\ req[c].side = Opposite(req[t].side)
                    /\ req[c].user # req[t].user
                    /\ ForBridge(t, c)}
       IN \/ /\ C = {} \/ FALSE \in BridgeStates
             /\ Goto(t, "done")
             /\ UNCHANGED <<cur, snap, bridged, leg>>
          \/ /\ C # {} /\ TRUE \in BridgeStates
             /\ LET c == Min(C)
                IN /\ cur' = [cur EXCEPT ![t] = c]
                   /\ snap' = [snap EXCEPT ![t] = filled[c]]
                   /\ bridged' = [bridged EXCEPT ![t] =
                                    Min({req[t].qty, req[c].qty - filled[c]})]
             /\ leg' = [leg EXCEPT ![t] = 1]
             /\ Goto(t, "bridging")
    /\ UNCHANGED <<rows, todo, req, fills, offered, money, flags, faults, cancels>>

BridgeLeg(t) ==
    /\ pc[t] = "bridging"
    /\ leg[t] <= 4
    /\ Move(t)
    /\ UNCHANGED <<rows, pc, todo, req, fills, cur, snap, bridged, offered,
                   settled, due, paid, flags, faults, cancels>>

BridgeLegRefused(t) ==
    /\ pc[t] = "bridging"
    /\ leg[t] <= 4
    /\ LET l == Legs(t)[leg[t]] IN bal[l[1]] + l[2] < 0
    /\ BridgeFails(t)
    /\ UNCHANGED faults

\* The trades of both legs commit.  Settlement and fee are fired and forgotten,
\* so the settlement records may never be written.
BridgeCommit(t) ==
    /\ pc[t] = "bridging"
    /\ leg[t] = 5
    /\ moved' = [moved EXCEPT ![t] = Zero]
    /\ settled' \in {settled, settled \cup {<<t, cur[t]>>}}
    /\ due' = [due EXCEPT ![t] = @ + 1]
    /\ Goto(t, "mark")
    /\ UNCHANGED <<rows, todo, call, bal, paid, flags, faults, cancels>>

\* A second transaction writes both order rows by id, whatever they hold now:
\* the own order is FILLED, the counter's quantity is absolute.  It waits for
\* both row locks at once here; a deadlock on them ends like a fault at "mark".
BridgeMark(t) ==
    /\ pc[t] = "mark"
    /\ LET c == cur[t]
           f == snap[t] + bridged[t]
       IN /\ lock[t] = 0 /\ lock[c] = 0
          /\ filled' = [filled EXCEPT ![t] = bridged[t], ![c] = f]
          /\ status' = [status EXCEPT ![t] = "filled",
                          ![c] = IF f >= req[c].qty THEN "filled" ELSE "open"]
    /\ Goto(t, "done")
    /\ UNCHANGED <<lock, todo, call, money, flags, faults, cancels>>

-----------------------------------------------------------------------------
(* Everything else that happens.                                            *)

FeePayer(t) == IF bridged[t] > 0 THEN Buyer(t) ELSE req[t].user

\* chargeTradeFee, fired and forgotten: it runs at any time after the trade,
\* even after a rollback, and skips a payer who cannot pay.
ChargeFee(t) ==
    /\ due[t] > 0
    /\ due' = [due EXCEPT ![t] = @ - 1]
    /\ IF bal[FeePayer(t)] >= Fee
       THEN /\ bal' = [bal EXCEPT ![FeePayer(t)] = @ - Fee, ![AI] = @ + Fee]
            /\ paid' = [paid EXCEPT ![t] = @ + 1]
       ELSE UNCHANGED <<bal, paid>>
    /\ UNCHANGED <<rows, pc, todo, call, moved, settled, flags, faults, cancels>>

\* Mutant: cancelOrder reads the order without FOR UPDATE.
CancelUnlocked(t) ==
    /\ cancels < MaxCancels
    /\ cancels' = cancels + 1
    /\ status[t] = "open"
    /\ status' = [status EXCEPT ![t] = "cancelled"]
    /\ UNCHANGED <<filled, lock, pc, todo, call, money, flags, faults>>

\* cancelOrder by the owner: waits for the row lock, then only an open order.
Cancel(t) ==
    /\ cancels < MaxCancels
    /\ cancels' = cancels + 1
    /\ lock[t] = 0
    /\ status[t] = "open"
    /\ status' = [status EXCEPT ![t] = "cancelled"]
    /\ UNCHANGED <<filled, lock, pc, todo, call, money, flags, faults>>

\* suspendTrading and resumeTrading.
FlipSuspension ==
    /\ flips < MaxFlips
    /\ flips' = flips + 1
    /\ suspended' = ~suspended
    /\ UNCHANGED <<rows, pc, todo, call, money, barred, faults, cancels>>

\* terminateUser, suspendUserForFiatFailure, reinstateUser, liftFiatSuspension.
FlipBar(u) ==
    /\ flips < MaxFlips
    /\ flips' = flips + 1
    /\ barred' = IF u \in barred THEN barred \ {u} ELSE barred \cup {u}
    /\ UNCHANGED <<rows, pc, todo, call, money, suspended, faults, cancels>>

\* The row a call waits for, or 0.
WaitsFor(t) ==
    IF pc[t] = "scan" /\ todo[t] # {} /\ lock[Min(todo[t])] \notin {0, t}
    THEN lock[Min(todo[t])] ELSE 0

\* t is on a cycle of calls waiting for each other's rows.
Deadlocked(t) ==
    \E D \in SUBSET Slots : t \in D /\ {WaitsFor(s) : s \in D} = D

\* PostgreSQL rolls back one transaction of such a cycle.
DeadlockVictim(t) ==
    /\ Deadlocked(t)
    /\ Rollback(t)
    /\ UNCHANGED faults

\* A statement fails, a credit meets the supply cap, the pool has no connection
\* left or the process dies.
Fault(t) ==
    /\ faults < MaxFaults
    /\ faults' = faults + 1
    /\ \/ pc[t] \in {"select", "scan", "legs", "commit"} /\ Rollback(t)
       \/ pc[t] = "bridging" /\ BridgeFails(t)
       \/ /\ pc[t] \in {"bridge", "mark"}
          /\ Goto(t, "done")
          /\ UNCHANGED <<rows, todo, call, money, flags, cancels>>

Step(t) ==
    \/ Open(t) \/ Select(t) \/ LockNext(t) \/ Match(t) \/ TradeLeg(t) \/ TradeLegRefused(t)
    \/ Settle(t) \/ Commit(t) \/ BridgeRead(t) \/ BridgeLeg(t)
    \/ BridgeLegRefused(t) \/ BridgeCommit(t) \/ BridgeMark(t)
    \/ DeadlockVictim(t)

Next ==
    \/ \E t \in Slots : Admit(t) \/ Step(t) \/ ChargeFee(t) \/ Cancel(t) \/ Fault(t)
    \/ FlipSuspension
    \/ \E u \in Users : FlipBar(u)

Spec == Init /\ [][Next]_vars

\* The event loop and PostgreSQL serve every call; a row lock is granted to
\* the waiters in arrival order.
FairSpec == Spec /\ \A t \in Slots : SF_vars(Step(t))

-----------------------------------------------------------------------------
(* Properties.                                                              *)

Steps == {"unborn", "admitted", "select", "scan", "legs", "commit", "bridge",
          "bridging", "mark", "done", "failed"}

TypeOK ==
    /\ pc \in [Slots -> Steps]
    /\ status \in [Slots -> {"none", "open", "filled", "cancelled"}]
    /\ filled \in [Slots -> Nat]
    /\ lock \in [Slots -> 0..N]
    /\ todo \in [Slots -> SUBSET Slots]
    /\ fills \in [Slots -> [Slots -> Nat]]
    /\ cur \in [Slots -> 0..N]
    /\ leg \in [Slots -> 1..5]
    /\ snap \in [Slots -> Nat]
    /\ bridged \in [Slots -> Nat]
    /\ bal \in [Users -> Nat]
    /\ moved \in [Slots -> [Users -> Int]]
    /\ settled \subseteq Slots \X Slots
    /\ due \in [Slots -> Nat] /\ paid \in [Slots -> Nat]
    /\ offered \in [Slots -> SUBSET Slots]
    /\ suspended \in BOOLEAN /\ barred \subseteq Users
    /\ faults \in 0..MaxFaults /\ flips \in 0..MaxFlips /\ cancels \in 0..MaxCancels

\* The transaction of call t has committed its trades.
Committed(t) == pc[t] \in {"bridge", "bridging", "mark", "done"}
BridgeCommitted(t) == pc[t] \in {"mark", "done"} /\ bridged[t] > 0

\* Quantity of the committed trades made for the order of slot c, as the order
\* that was just placed or as the resting one, directly or over the bridge.
Traded(c) ==
    LET Made(t) ==
          IF Committed(t)
          THEN IF t = c THEN Taken(t) ELSE fills[t][c]
          ELSE 0
        Bridged(t) == IF BridgeCommitted(t) /\ c \in {t, cur[t]} THEN bridged[t] ELSE 0
    IN SumFunctionOnSet([t \in Slots |-> Made(t) + Bridged(t)], Slots)

\* No order trades more than it asked for: "row-level locks prevent
\* double-fills" (order-book.service.ts:78).  It holds for the matching loop
\* and fails with the bridge, whose counter order is read without a lock.
NoDoubleFill == \A c \in Slots : Traded(c) <= req[c].qty

\* "await settlement so a failure rolls back the trade transaction": a trade is
\* in the table only with its settlement records (direct trades).
TradesHaveSettlements ==
    \A t, c \in Slots : Committed(t) /\ fills[t][c] > 0 => <<t, c>> \in settled

\* Without the bridge the tables agree after every interleaving of matching,
\* rollback and cancellation: filled_quantity is what was traded and never more
\* than was asked for, an order is open exactly while something is left of it,
\* and every trade has its settlements.
BookAgreesWithTrades ==
    /\ \A c \in Slots :
          /\ filled[c] = Traded(c)
          /\ status[c] = "open" => filled[c] < req[c].qty
          /\ status[c] = "filled" => filled[c] = req[c].qty
    /\ NoDoubleFill
    /\ TradesHaveSettlements

\* What the committed trades of call t did to the balance of u.
TradeEffect(t, u) ==
    LET Signed(side, q, taker, maker) ==
          (IF u = taker THEN (IF side = "buy" THEN q ELSE -q) ELSE 0) +
          (IF u = maker THEN (IF side = "buy" THEN -q ELSE q) ELSE 0)
        OfPair(c) == Signed(req[t].side, fills[t][c], req[t].user, req[c].user)
    IN (IF Committed(t)
        THEN SumFunctionOnSet([c \in Slots |-> OfPair(c)], Slots) ELSE 0) +
       (IF BridgeCommitted(t)
        THEN Signed(req[t].side, bridged[t], req[t].user, req[cur[t]].user) ELSE 0)

FeeEffect(t, u) ==
    (IF u = FeePayer(t) THEN -Fee * paid[t] ELSE 0) + (IF u = AI THEN Fee * paid[t] ELSE 0)

\* Every balance is explained: by the committed trades and collected fees, and
\* otherwise only by balance legs whose call is still running or has failed.
\* The legs of a trade survive the rollback of the trade; because the buyer is
\* credited first, a call cut short may leave QP too many, never too few.
EveryUnitExplained ==
    /\ \A u \in Users :
          bal[u] = Genesis[u] + SumFunctionOnSet(
                     [t \in Slots |-> TradeEffect(t, u) + FeeEffect(t, u) + moved[t][u]],
                     Slots)
    /\ \A t \in Slots : SumFunctionOnSet(moved[t], Users) >= 0

\* An order is left resting only if nothing it was offered by its last SELECT
\* is open any more, in spite of waits, rollbacks and cancellations meanwhile.
NothingOfferedIsLeft ==
    \A t \in Slots :
        status[t] = "open" => \A c \in offered[t] : status[c] # "open"

\* cancelOrder is final: no call that had selected the order before brings it
\* back or trades it afterwards.
CancelIsFinal ==
    [][\A c \in Slots : status[c] = "cancelled" =>
          status'[c] = "cancelled" /\ Traded(c)' = Traded(c)]_vars

\* Every call that has begun its transaction comes to an end, although calls
\* wait for each other's row locks and may even deadlock.
CallsEnd ==
    \A t \in Slots :
        pc[t] \notin {"unborn", "admitted", "done", "failed"} ~> pc[t] \in {"done", "failed"}

\* "ISSUE-04: await settlement so a failure rolls back the trade transaction"
\* (order-book.service.ts:548).  The rollback takes back the orders and the
\* trade but not the balance legs, which run in transactions of their own.
RollbackIsComplete == \A t \in Slots : pc[t] = "failed" => moved[t] = Zero
=============================================================================
