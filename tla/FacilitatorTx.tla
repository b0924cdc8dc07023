---------------------------- MODULE FacilitatorTx ----------------------------
(***************************************************************************)
(* FacilitatorTransactionService: deposits and withdrawals through an      *)
(* external payment provider, and the webhooks that report how they ended. *)
(*                                                                         *)
(* A transaction is created by one call of createDeposit/createWithdrawal: *)
(* check of the daily limit, PENDING row, request to the provider, second  *)
(* save with the provider's id.  A webhook delivery is a process: look up  *)
(* the event id, find the row by the provider's id, save the new status,   *)
(* move QP, record the event id.  Each of these is a database call of its  *)
(* own; nothing is locked and nothing is one transaction.  The provider    *)
(* delivers an event again when the answer is lost.  One user, and every   *)
(* transaction is of one unit.                                             *)
(***************************************************************************)
EXTENDS Integers, FiniteSets

CONSTANTS Txs,
          Withdrawals,   \* the other transactions are deposits
          Deliveries,    \* webhook requests in progress at once
          NoEvent,       \* the event of an idle delivery
          Limit,         \* DAILY_DEPOSIT_LIMIT and DAILY_WITHDRAW_LIMIT
          Genesis,       \* the user's market balance at the start
          Overlap,       \* may deliveries for one transaction overlap?
          MaxDeliveries, \* bound: webhook requests
          MaxCrashes     \* bound: crashes of a call or a delivery

ASSUME FacilitatorAssumption ==
    /\ IsFiniteSet(Txs) /\ Withdrawals \subseteq Txs
    /\ Limit \in Nat /\ Genesis \in Nat
    /\ Overlap \in BOOLEAN
    /\ MaxDeliveries \in Nat /\ MaxCrashes \in Nat

VARIABLES
    st,        \* status of the row of each transaction, "none" before it exists
    known,     \* transactions whose row holds the provider's id
    call,      \* where the call that creates each transaction is
    opened,    \* transactions the provider knows
    early,     \* transactions reported on before their call was over (history)
    loose,     \* transactions the daily limit does not see in time (history)
    short,     \* payouts whose debit was refused (history)
    reported,  \* the events the provider has sent: <<transaction, kind>>
    pc,        \* where each delivery is
    ev,        \* the event it carries
    recorded,  \* event ids in webhook_events
    bal,       \* the user's market balance
    applied,   \* how often each transaction has moved the balance
    sent, crashes

vars == <<st, known, call, opened, early, reported, pc, ev, recorded, bal, applied,
          sent, crashes, loose, short>>

Kinds == {"success", "failure"}

Init ==
    /\ st = [t \in Txs |-> "none"]
    /\ known = {}
    /\ call = [t \in Txs |-> "new"]
    /\ opened = {}
    /\ early = {}
    /\ loose = {}
    /\ short = {}
    /\ reported = {}
    /\ pc = [d \in Deliveries |-> "idle"]
    /\ ev = [d \in Deliveries |-> NoEvent]
    /\ recorded = {}
    /\ bal = Genesis
    /\ applied = [t \in Txs |-> 0]
    /\ sent = 0
    /\ crashes = 0

-----------------------------------------------------------------------------
(* createDeposit and createWithdrawal.                                      *)

provider == <<opened, early, reported>>
webhook  == <<pc, ev, recorded, bal, applied, sent>>

\* Mutant: only what is confirmed counts.
TodayConfirmed(t) ==
    {s \in Txs : (s \in Withdrawals <=> t \in Withdrawals) /\ st[s] = "completed"}

\* The transactions of the same type that count against the daily limit.
Today(t) ==
    {s \in Txs : /\ s \in Withdrawals <=> t \in Withdrawals
                 /\ st[s] \in {"pending", "processing", "completed"}}

\* Calls of the same type that have passed the check and not yet saved a row.
Between(t) == {s \in Txs : (s \in Withdrawals <=> t \in Withdrawals) /\ call[s] = "checked"}

CheckLimit(t) ==
    /\ call[t] = "new"
    /\ loose' = IF Between(t) = {} THEN loose ELSE loose \cup {t}
    /\ call' = [call EXCEPT ![t] =
                  IF Cardinality(Today(t)) + 1 > Limit THEN "over" ELSE "checked"]
    /\ UNCHANGED <<st, known, provider, webhook, crashes, short>>

SavePending(t) ==
    /\ call[t] = "checked"
    /\ st' = [st EXCEPT ![t] = "pending"]
    /\ call' = [call EXCEPT ![t] = "asking"]
    /\ UNCHANGED <<known, provider, webhook, crashes, loose, short>>

\* The request to the provider.  An error may reach the call although the
\* provider has opened the payment (a timeout).
AskProvider(t) ==
    /\ call[t] = "asking"
    /\ \/ /\ call' = [call EXCEPT ![t] = "answered"]
          /\ opened' = opened \cup {t}
       \/ /\ call' = [call EXCEPT ![t] = "refused"]
          /\ opened' \in {opened, opened \cup {t}}
    /\ UNCHANGED <<st, known, early, reported, webhook, crashes, loose, short>>

\* The provider's id is stored together with the status PROCESSING.
SaveProcessing(t) ==
    /\ call[t] = "answered"
    /\ st' = [st EXCEPT ![t] = "processing"]
    /\ known' = known \cup {t}
    /\ call' = [call EXCEPT ![t] = "over"]
    /\ UNCHANGED <<provider, webhook, crashes, loose, short>>

SaveFailed(t) ==
    /\ call[t] = "refused"
    /\ st' = [st EXCEPT ![t] = "failed"]
    /\ call' = [call EXCEPT ![t] = "over"]
    /\ UNCHANGED <<known, provider, webhook, crashes, loose, short>>

-----------------------------------------------------------------------------
(* The provider.                                                            *)

\* A payment may fail and succeed later with another card; a payout may be
\* reported paid and be reversed later.  A report may overtake the answer.
Report(t, kind) ==
    /\ t \in opened
    /\ kind = "success" => t \notin Withdrawals \/ <<t, "failure">> \notin reported
    /\ kind = "failure" => t \in Withdrawals \/ <<t, "success">> \notin reported
    /\ reported' = reported \cup {<<t, kind>>}
    /\ early' = IF call[t] = "over" THEN early ELSE early \cup {t}
    /\ UNCHANGED <<st, known, call, opened, webhook, crashes, loose, short>>

\* Any reported event may be delivered, also again and out of order.
Deliver(d, e) ==
    /\ pc[d] = "idle"
    /\ sent < MaxDeliveries
    /\ Overlap \/ {o \in Deliveries : pc[o] # "idle" /\ ev[o][1] = e[1]} = {}
    /\ sent' = sent + 1
    /\ pc' = [pc EXCEPT ![d] = "check"]
    /\ ev' = [ev EXCEPT ![d] = e]
    /\ UNCHANGED <<st, known, call, provider, recorded, bal, applied, crashes, loose, short>>

-----------------------------------------------------------------------------
(* A webhook delivery.                                                      *)

Tx(d) == ev[d][1]
Kind(d) == ev[d][2]

Go(d, step) == pc' = [pc EXCEPT ![d] = step]

\* _isProcessed.
Check(d) ==
    /\ pc[d] = "check"
    /\ Go(d, IF ev[d] \in recorded THEN "idle" ELSE "find")
    /\ UNCHANGED <<st, known, call, provider, ev, recorded, bal, applied, sent, crashes, loose, short>>

\* Mutant: the status of the row is not looked at.
FindAnyStatus(d) ==
    /\ pc[d] = "find"
    /\ Go(d, IF Tx(d) \notin known THEN "record" ELSE "save")
    /\ UNCHANGED <<st, known, call, provider, ev, recorded, bal, applied, sent, crashes, loose, short>>

\* Mutant: every row that is not processing counts as decided.
FindOnlyProcessing(d) ==
    /\ pc[d] = "find"
    /\ Go(d, IF Tx(d) \notin known \/ st[Tx(d)] # "processing"
             THEN "record" ELSE "save")
    /\ UNCHANGED <<st, known, call, provider, ev, recorded, bal, applied, sent, crashes, loose, short>>

\* findOne by the provider's id: no row, or a completed one, is left alone.
Find(d) ==
    /\ pc[d] = "find"
    /\ Go(d, IF Tx(d) \notin known \/ st[Tx(d)] = "completed"
             THEN "record" ELSE "save")
    /\ UNCHANGED <<st, known, call, provider, ev, recorded, bal, applied, sent, crashes, loose, short>>

\* The status is written, whatever the row holds by now.
Save(d) ==
    /\ pc[d] = "save"
    /\ st' = [st EXCEPT ![Tx(d)] = IF Kind(d) = "success" THEN "completed" ELSE "failed"]
    /\ Go(d, IF Kind(d) = "success" THEN "adjust" ELSE "record")
    /\ loose' = IF Kind(d) = "success" /\ st[Tx(d)] = "failed" THEN loose \cup {Tx(d)} ELSE loose
    /\ UNCHANGED <<known, call, provider, ev, recorded, bal, applied, sent, crashes, short>>

\* Mutant: the negative balance check is missing.
AdjustUnchecked(d) ==
    /\ pc[d] = "adjust"
    /\ bal' = IF Tx(d) \in Withdrawals THEN bal - 1 ELSE bal + 1
    /\ applied' = [applied EXCEPT ![Tx(d)] = @ + 1]
    /\ Go(d, "record")
    /\ UNCHANGED <<st, known, call, provider, ev, recorded, sent, crashes, loose, short>>

\* Mutant: a withdrawal is credited.
AdjustCreditsAll(d) ==
    /\ pc[d] = "adjust"
    /\ bal' = bal + 1
    /\ applied' = [applied EXCEPT ![Tx(d)] = @ + 1]
    /\ Go(d, "record")
    /\ UNCHANGED <<st, known, call, provider, ev, recorded, sent, crashes, loose, short>>

\* adjustBalance; an uncovered debit throws, the handler logs the error and
\* answers 2xx without recording the event.
Adjust(d) ==
    /\ pc[d] = "adjust"
    /\ IF Tx(d) \in Withdrawals /\ bal = 0
       THEN /\ Go(d, "idle")
            /\ short' = short \cup {Tx(d)}
            /\ UNCHANGED <<bal, applied>>
       ELSE /\ bal' = IF Tx(d) \in Withdrawals THEN bal - 1 ELSE bal + 1
            /\ applied' = [applied EXCEPT ![Tx(d)] = @ + 1]
            /\ Go(d, "record")
            /\ UNCHANGED short
    /\ UNCHANGED <<st, known, call, provider, ev, recorded, sent, crashes, loose>>

\* _recordProcessed; a duplicate key is ignored.
Record(d) ==
    /\ pc[d] = "record"
    /\ recorded' = recorded \cup {ev[d]}
    /\ Go(d, "idle")
    /\ UNCHANGED <<st, known, call, provider, ev, bal, applied, sent, crashes, loose, short>>

-----------------------------------------------------------------------------
\* The process dies in the middle of a call or a delivery.
Crash ==
    /\ crashes < MaxCrashes
    /\ crashes' = crashes + 1
    /\ \/ \E t \in Txs : /\ call[t] # "over"
                         /\ call' = [call EXCEPT ![t] = "over"]
                         /\ UNCHANGED pc
       \/ \E d \in Deliveries : /\ pc[d] # "idle"
                                /\ Go(d, "idle")
                                /\ UNCHANGED call
    /\ UNCHANGED <<st, known, provider, ev, recorded, bal, applied, sent, loose, short>>

CallStep(t) ==
    \/ CheckLimit(t) \/ SavePending(t) \/ AskProvider(t) \/ SaveProcessing(t)
    \/ SaveFailed(t)

Handle(d) == Check(d) \/ Find(d) \/ Save(d) \/ Adjust(d) \/ Record(d)

Next ==
    \/ \E t \in Txs : CallStep(t) \/ \E k \in Kinds : Report(t, k)
    \/ \E d \in Deliveries : Handle(d) \/ \E e \in reported : Deliver(d, e)
    \/ Crash

Spec == Init /\ [][Next]_vars

-----------------------------------------------------------------------------
(* Properties.                                                              *)

TypeOK ==
    /\ st \in [Txs -> {"none", "pending", "processing", "completed", "failed"}]
    /\ known \subseteq Txs /\ opened \subseteq Txs
    /\ early \subseteq Txs /\ loose \subseteq Txs /\ short \subseteq Withdrawals
    /\ call \in [Txs -> {"new", "checked", "asking", "answered", "refused", "over"}]
    /\ reported \subseteq Txs \X Kinds
    /\ pc \in [Deliveries -> {"idle", "check", "find", "save", "adjust", "record"}]
    /\ ev \in [Deliveries -> (Txs \X Kinds) \cup {NoEvent}]
    /\ recorded \subseteq Txs \X Kinds
    /\ bal \in Nat
    /\ applied \in [Txs -> Nat]
    /\ sent \in 0..MaxDeliveries /\ crashes \in 0..MaxCrashes

\* A deposit is credited, a withdrawal debited, at most once, however often and
\* in whatever order its events are delivered and wherever a delivery dies.
\* True while deliveries for one transaction do not overlap, and false else,
\* although "the unique constraint on event_id prevents double-processing even
\* under concurrent webhook delivery" (webhook-event.entity.ts:16).
AppliedAtMostOnce == \A t \in Txs : applied[t] <= 1

\* The whole balance is explained by the transactions applied, and what was
\* applied is on record: the transaction is completed, and the provider has
\* reported its success.
BalanceExplained ==
    LET Applied(S) == {t \in S : applied[t] = 1}
    IN /\ bal = Genesis + Cardinality(Applied(Txs \ Withdrawals))
                        - Cardinality(Applied(Withdrawals))
       /\ \A t \in Applied(Txs) : st[t] = "completed" /\ <<t, "success">> \in reported

\* A deposit whose success has been recorded as processed has been credited, a
\* payout debited, even if an earlier attempt was reported failed and whichever
\* report comes first, as long as nothing crashed, no webhook overtook the
\* answer to the request, the request did not end in a timeout (known), and the
\* balance covered the payout when its success was first handled (short).
RecordedIsApplied ==
    crashes = 0 =>
        \A t \in known \ (early \cup short) : <<t, "success">> \in recorded => applied[t] = 1

\* The deposits of a day stay within their limit, and so do the withdrawals,
\* although the row that counts is inserted after the check.  Two kinds of
\* transaction escape it (loose): one checked while another call stands between
\* its own check and its row, and one that was reported failed, made room for
\* another, and succeeded after all.
WithinDailyLimit ==
    \A t \in Txs : Cardinality(Today(t) \ loose) <= Limit
=============================================================================
