---------------------------- MODULE OrderLifecycle ----------------------------
(***************************************************************************)
(* Shop orders, their fulfilment sessions, deliveries and returns          *)
(* (orders.service.ts).  Every operation reads one row, checks its status  *)
(* or nothing at all, and writes one or two rows in statements of their    *)
(* own, without a transaction.                                             *)
(*                                                                         *)
(* A session, delivery or return is named by the call that creates it.     *)
(***************************************************************************)
EXTENDS Integers, FiniteSets

CONSTANTS Orders, Clerks, Nobody,
          Jobs,        \* the requests clerk c may make
          Begun,       \* statuses an order may have at the start, "none" for no order yet
          Items,       \* items in an order
          MaxBreaks    \* bound: calls cut off by a fault or crash

Statuses == {"PENDING", "CONFIRMED", "PROCESSING", "READY_FOR_PICKUP", "OUT_FOR_DELIVERY",
             "DELIVERED", "CANCELLED", "REFUNDED"}

\* Statuses of sessions, deliveries and returns.
RowStatuses ==
    {"NOT_STARTED", "IN_PROGRESS", "PAUSED", "COMPLETED"}
    \cup {"PENDING", "ASSIGNED", "PICKED_UP", "IN_TRANSIT", "DELIVERED", "FAILED"}
    \cup {"REQUESTED", "APPROVED", "REJECTED", "RECEIVED", "REFUNDED"}

\* Calls on an order, and on the row call `of` created.
OnOrder == {"create", "status", "start", "deliver", "return"}
OnRow   == {"complete", "deliveryStatus", "returnStatus"}
Subject(kind) == CASE kind = "complete"       -> "start"
                   [] kind = "deliveryStatus" -> "deliver"
                   [] kind = "returnStatus"   -> "return"

\* A request names its order and, when it is about a session, delivery or return, the call
\* that created that; an order is created by one call.  No order starts where only a
\* session or a delivery can have brought it.
OrderAssumption ==
    /\ Nobody \notin Clerks /\ IsFiniteSet(Clerks) /\ Orders # {}
    /\ Begun \subseteq (Statuses \ {"PROCESSING", "OUT_FOR_DELIVERY"}) \cup {"none"}
    /\ Items \in Nat \ {0} /\ MaxBreaks \in Nat
    /\ \A c \in Clerks : \A j \in Jobs[c] :
          /\ j \in [kind : OnOrder \cup OnRow, order : Orders, of : Clerks \cup {Nobody},
                   to : Statuses \cup RowStatuses \cup {"none"}]
          /\ j.of = Nobody <=> j.kind \in OnOrder
          /\ j.kind = "status" => j.to \in Statuses
          /\ j.kind \in {"deliveryStatus", "returnStatus"} => j.to \in RowStatuses
          /\ \A d \in Clerks \ {c} : \A i \in Jobs[d] :
                j.kind = "create" /\ i.kind = "create" => i.order # j.order

VARIABLES
    ord,       \* status of each order
    items,     \* its saved items
    row,       \* status of the session, delivery or return each call has created
    refund,    \* the returns that have a refund amount
    agreed,    \* the returns that were approved with one (history)
    paid,      \* the calls that have paid each return
    desk,      \* where each call is
    form,      \* its request
    amount,    \* the refund amount it read with the return
    readied,   \* how often each order became ready for pickup (history)
    delivered, \* orders that have been DELIVERED (history)
    forced,    \* orders whose status was set directly (history)
    crowded,   \* orders two running calls have worked on (history)
    broken     \* calls that were cut off (history)

extras    == <<items, refund, agreed, paid, amount>>
orderHist == <<readied, delivered, forced, crowded, broken>>
orderVars == <<ord, row, desk, form, extras, orderHist>>

NoForm == [kind |-> "create", order |-> CHOOSE o \in Orders : TRUE, of |-> Nobody, to |-> "none"]

Init ==
    /\ ord \in [Orders -> Begun]
    /\ items = [o \in Orders |-> IF ord[o] = "none" THEN 0 ELSE Items]
    /\ row = [c \in Clerks |-> "none"]
    /\ refund = {} /\ agreed = {} /\ paid = {}
    /\ desk = [c \in Clerks |-> "idle"]
    /\ form = [c \in Clerks |-> NoForm]
    /\ amount = [c \in Clerks |-> FALSE]
    /\ readied = [o \in Orders |-> IF ord[o] = "READY_FOR_PICKUP" THEN 1 ELSE 0]
    /\ delivered = {o \in Orders : ord[o] = "DELIVERED"}
    /\ forced = {} /\ crowded = {} /\ broken = {}

Over    == {"idle", "done", "failed", "broken"}
Active  == {c \in Clerks : desk[c] \notin Over}
Order(c) == form[c].order
To(c, s) == desk' = [desk EXCEPT ![c] = s]
Does(c, s, k) == desk[c] = s /\ form[c].kind = k

\* An order takes a status; what it was before is not looked at again.
SetOrder(o, s) ==
    /\ ord' = [ord EXCEPT ![o] = s]
    /\ readied' = IF s = "READY_FOR_PICKUP" THEN [readied EXCEPT ![o] = @ + 1] ELSE readied
    /\ delivered' = IF s = "DELIVERED" THEN delivered \cup {o} ELSE delivered

Begin(c) ==
    /\ desk[c] = "idle"
    /\ \E j \in Jobs[c] :
         /\ IF j.kind = "create" THEN ord[j.order] = "none" ELSE ord[j.order] # "none"
         /\ j.of # Nobody =>
              row[j.of] # "none" /\ form[j.of].kind = Subject(j.kind) /\ Order(j.of) = j.order
         /\ form' = [form EXCEPT ![c] = j]
         /\ crowded' = IF \E d \in Active : Order(d) = j.order
                       THEN crowded \cup {j.order} ELSE crowded
    /\ To(c, "read")
    /\ UNCHANGED <<ord, row, extras, readied, delivered, forced, broken>>

-----------------------------------------------------------------------------
(* Creation and direct changes of status.                                   *)

\* The fraud check may refuse; a timeout or error of it lets the order through.
CreateOrder(c) ==
    /\ Does(c, "read", "create")
    /\ \/ To(c, "failed") /\ UNCHANGED ord
       \/ ord' = [ord EXCEPT ![Order(c)] = "PENDING"] /\ To(c, "items")
    /\ UNCHANGED <<row, form, extras, readied, delivered, forced, crowded, broken>>

SaveItem(c) ==
    /\ desk[c] = "items"
    /\ items' = [items EXCEPT ![Order(c)] = @ + 1]
    /\ To(c, IF items[Order(c)] + 1 = Items THEN "done" ELSE "items")
    /\ UNCHANGED <<ord, row, form, refund, agreed, paid, amount, orderHist>>

\* updateOrderStatus and bulkUpdateOrderStatus: any status after any other.
UpdateOrderStatus(c) ==
    /\ Does(c, "read", "status")
    /\ SetOrder(Order(c), form[c].to)
    /\ forced' = forced \cup {Order(c)}
    /\ To(c, "done")
    /\ UNCHANGED <<row, form, extras, crowded, broken>>

-----------------------------------------------------------------------------
(* Fulfilment and delivery: the order first, then the row of the call.      *)

Needs(kind) == CASE kind = "start"   -> "CONFIRMED"
                 [] kind = "deliver" -> "READY_FOR_PICKUP"
                 [] kind = "return"  -> "DELIVERED"

\* Mutant: an order already out may be given to another driver.
NeedsLess(c) ==
    /\ desk[c] = "read" /\ form[c].kind \in {"start", "deliver", "return"}
    /\ To(c, IF /\ ord[Order(c)] # Needs(form[c].kind)
                /\ ~(form[c].kind = "deliver" /\ ord[Order(c)] = "OUT_FOR_DELIVERY")
             THEN "failed"
             ELSE IF form[c].kind = "return" THEN "save" ELSE "order")
    /\ UNCHANGED <<ord, row, form, extras, orderHist>>

ReadOrder(c) ==
    /\ desk[c] = "read" /\ form[c].kind \in {"start", "deliver", "return"}
    /\ To(c, IF ord[Order(c)] # Needs(form[c].kind) THEN "failed"
             ELSE IF form[c].kind = "return" THEN "save" ELSE "order")
    /\ UNCHANGED <<ord, row, form, extras, orderHist>>

\* A session or a delivery is read; its status is not looked at.
ReadRow(c) ==
    /\ desk[c] = "read" /\ form[c].kind \in {"complete", "deliveryStatus"}
    /\ To(c, IF form[c].kind = "complete" \/ form[c].to = "DELIVERED" THEN "order" ELSE "save")
    /\ UNCHANGED <<ord, row, form, extras, orderHist>>

OrderBecomes(c) ==
    CASE form[c].kind = "start"          -> "PROCESSING"
      [] form[c].kind = "deliver"        -> "OUT_FOR_DELIVERY"
      [] form[c].kind = "complete"       -> "READY_FOR_PICKUP"
      [] form[c].kind = "deliveryStatus" -> "DELIVERED"
      [] form[c].kind = "returnStatus"   -> "REFUNDED"

UpdateOrder(c) ==
    /\ desk[c] = "order"
    /\ SetOrder(Order(c), OrderBecomes(c))
    /\ To(c, "save")
    /\ UNCHANGED <<row, form, extras, forced, crowded, broken>>

\* A return is saved whole: an approval stores the amount it brings, if any, any other
\* call stores again the one it has read.
SaveAmount(c) ==
    \E given \in (IF form[c].to = "APPROVED" THEN BOOLEAN ELSE {amount[c]}) :
        IF form[c].kind # "returnStatus" THEN UNCHANGED <<refund, agreed>>
        ELSE IF given THEN /\ refund' = refund \cup {form[c].of}
                           /\ agreed' = IF form[c].to = "APPROVED" THEN agreed \cup {form[c].of} ELSE agreed
        ELSE refund' = refund \ {form[c].of} /\ UNCHANGED agreed

\* The row of the call, or the one it was given.
SaveRow(c) ==
    /\ desk[c] = "save"
    /\ row' = CASE form[c].kind = "start"    -> [row EXCEPT ![c] = "IN_PROGRESS"]
                [] form[c].kind = "deliver"  -> [row EXCEPT ![c] = "ASSIGNED"]
                [] form[c].kind = "return"   -> [row EXCEPT ![c] = "REQUESTED"]
                [] form[c].kind = "complete" -> [row EXCEPT ![form[c].of] = "COMPLETED"]
                [] OTHER                     -> [row EXCEPT ![form[c].of] = form[c].to]
    /\ SaveAmount(c)
    /\ To(c, "done")
    /\ UNCHANGED <<ord, items, form, paid, amount, orderHist>>

-----------------------------------------------------------------------------
(* Returns.                                                                 *)

\* Any status may follow any other: a return that is REFUNDED is paid again.
ReadReturn(c) ==
    /\ Does(c, "read", "returnStatus")
    /\ amount' = [amount EXCEPT ![c] = form[c].of \in refund]
    /\ To(c, IF form[c].to = "REFUNDED" /\ form[c].of \in refund THEN "pay" ELSE "save")
    /\ UNCHANGED <<ord, items, row, form, refund, agreed, paid, orderHist>>

\* The deposit (QPAccounts) pays, or throws; a buyer without an account gets nothing.
PayRefund(c) ==
    /\ desk[c] = "pay"
    /\ \/ paid' = paid \cup {c} /\ To(c, "order")
       \/ To(c, "order") /\ UNCHANGED paid
       \/ To(c, "failed") /\ UNCHANGED paid
    /\ UNCHANGED <<ord, items, row, form, refund, agreed, amount, orderHist>>

-----------------------------------------------------------------------------

\* The process dies, or a statement fails; nothing is undone.
Break(c) ==
    /\ c \in Active /\ Cardinality(broken) < MaxBreaks
    /\ broken' = broken \cup {c}
    /\ To(c, "broken")
    /\ UNCHANGED <<ord, row, form, extras, readied, delivered, forced, crowded>>

Next == \E c \in Clerks :
    \/ Begin(c) \/ CreateOrder(c) \/ SaveItem(c) \/ UpdateOrderStatus(c)
    \/ ReadOrder(c) \/ ReadRow(c) \/ UpdateOrder(c) \/ SaveRow(c)
    \/ ReadReturn(c) \/ PayRefund(c) \/ Break(c)

Spec == Init /\ [][Next]_orderVars

-----------------------------------------------------------------------------
(* Properties.                                                              *)

TypeOK ==
    /\ ord \in [Orders -> Statuses \cup {"none"}]
    /\ items \in [Orders -> 0..Items]
    /\ row \in [Clerks -> RowStatuses \cup {"none"}]
    /\ refund \subseteq agreed /\ agreed \subseteq Clerks /\ paid \subseteq Clerks
    /\ desk \in [Clerks -> Over \cup {"read", "items", "order", "save", "pay"}]
    /\ amount \in [Clerks -> BOOLEAN]
    /\ readied \in [Orders -> Nat]
    /\ delivered \subseteq Orders /\ forced \subseteq Orders /\ crowded \subseteq Orders
    /\ broken \subseteq Clerks

Deliveries(o) == {c \in Clerks : form[c].kind = "deliver" /\ Order(c) = o /\ row[c] # "none"}

\* An order is given to a driver at most once for each time it became ready,
\* unless calls on it overlapped.
OneDeliveryPerPickup ==
    \A o \in Orders \ crowded : Cardinality(Deliveries(o)) <= readied[o]

\* A refund is paid only for an order that has been delivered and a return
\* somebody approved with an amount, in whatever order the calls come.
RefundsFollowApproval ==
    \A c \in paid : form[c].of \in agreed /\ Order(c) \in delivered

\* An order that is PROCESSING or OUT_FOR_DELIVERY has the session or delivery
\* that goes with it once its calls have ended, unless one of them was cut off or
\* somebody set its status directly.
StatusHasRecord ==
    \A o \in Orders : \A k \in {"start", "deliver"} :
        (/\ ord[o] = (IF k = "start" THEN "PROCESSING" ELSE "OUT_FOR_DELIVERY")
         /\ o \notin forced
         /\ \A c \in Clerks : form[c].order = o => c \notin Active \cup broken) =>
              \E c \in Clerks : form[c].kind = k /\ Order(c) = o /\ row[c] # "none"
=============================================================================
