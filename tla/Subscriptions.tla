----------------------------- MODULE Subscriptions -----------------------------
(***************************************************************************)
(* The subscriptions of one target on one paid plan                        *)
(* (subscriptions.service.ts).  Activation and each renewal run in a       *)
(* transaction, but what they decide on is read without a lock, the due    *)
(* subscriptions before the transactions that renew them; cancelling and   *)
(* deleting the plan use none.                                             *)
(*                                                                         *)
(* Time counts months: a subscription lasts one, and each renewal adds one *)
(* to the end it has read.  Whether the account can pay is left open: its  *)
(* balance is the subject of QPAccounts.                                   *)
(***************************************************************************)
EXTENDS Integers, FiniteSets

CONSTANTS Subs,       \* subscriptions that may be created
          Desks,      \* requests served at the same time
          NoSub,
          MaxMonths,  \* bound: months that pass
          MaxUndone,  \* bound: transactions of a subscription rolled back
          MaxStale    \* bound: outdated writes after which no request starts

SubscriptionAssumption ==
    NoSub \notin Subs /\ MaxMonths \in Nat /\ MaxUndone \in Nat /\ MaxStale \in Nat

VARIABLES
    plan,      \* "live" or "deleted"
    sub,       \* row of each subscription, `begun` is FALSE before it is created
    month,     \* months passed
    clerk,     \* where each request is
    about,     \* the subscription it is about
    basis,     \* what it has read: all rows and the plan
    list,      \* the subscriptions a renewal run has still to renew
    since,     \* month each subscription began (history)
    fees,      \* fees charged for it (history)
    revenue,   \* revenue records for it (history)
    undone,    \* its transactions rolled back (history)
    trials,    \* subscriptions that began as a free trial (history)
    cancelled, \* subscriptions cancelled and not renewed since (history)
    afterwards,\* fees that renewed a cancelled one (history)
    outdated   \* writes decided on what had changed since (history)

ledger == <<fees, revenue, undone>>
subHist == <<since, trials, cancelled, afterwards>>
subVars == <<plan, sub, month, clerk, about, basis, list, ledger, subHist, outdated>>

NewSub == [begun |-> FALSE, active |-> FALSE, auto |-> FALSE, until |-> 0, trial |-> FALSE]
NoBasis == [rows |-> [s \in Subs |-> NewSub], plan |-> "live"]

Init ==
    /\ plan = "live"
    /\ sub = [s \in Subs |-> NewSub]
    /\ month = 0
    /\ clerk = [d \in Desks |-> "idle"] /\ about = [d \in Desks |-> NoSub]
    /\ basis = [d \in Desks |-> NoBasis] /\ list = [d \in Desks |-> {}]
    /\ since = [s \in Subs |-> 0] /\ fees = [s \in Subs |-> 0]
    /\ revenue = [s \in Subs |-> 0] /\ undone = [s \in Subs |-> 0]
    /\ trials = {} /\ cancelled = {} /\ afterwards = 0 /\ outdated = 0

Started    == {s \in Subs : sub[s].begun}
ActiveSubs == {s \in Subs : sub[s].active}

\* A request goes on with what it has read, or ends and forgets it.
Proceed(d, where, s) ==
    /\ clerk' = [clerk EXCEPT ![d] = where]
    /\ about' = [about EXCEPT ![d] = s]
    /\ basis' = [basis EXCEPT ![d] = [rows |-> sub, plan |-> plan]]
Finish(d) ==
    /\ clerk' = [clerk EXCEPT ![d] = "idle"]
    /\ about' = [about EXCEPT ![d] = NoSub]
    /\ basis' = [basis EXCEPT ![d] = NoBasis]

Starts(d) == clerk[d] = "idle" /\ outdated < MaxStale

\* A write is outdated when part of what it was decided on has changed.
Outdated(isOld) == outdated' = IF isOld THEN outdated + 1 ELSE outdated

\* A month passes: subscriptions become due.
Month ==
    /\ month < MaxMonths
    /\ month' = month + 1
    /\ UNCHANGED <<plan, sub, clerk, about, basis, list, ledger, subHist, outdated>>

-----------------------------------------------------------------------------
(* Activation.                                                              *)

\* The plan must be there and no subscription of the target be active.
ReadForActivation(d) ==
    /\ Starts(d) /\ plan = "live" /\ ActiveSubs = {}
    /\ \E s \in Subs \ Started :
         /\ \A e \in Desks : about[e] # s
         /\ Proceed(d, "activate", s)
    /\ UNCHANGED <<plan, sub, month, list, ledger, subHist, outdated>>

Recorded(trial) == IF trial THEN {0} ELSE {0, 1}

\* The first subscription of a target is a free trial, the others are paid; the
\* revenue is recorded, or not, by a call nobody waits for before the commit.
Activate(d) ==
    /\ clerk[d] = "activate"
    /\ LET s == about[d]
           trial == \A t \in Subs : ~basis[d].rows[t].begun IN
       \E commits \in BOOLEAN : \E recorded \in Recorded(trial) :
         /\ revenue' = [revenue EXCEPT ![s] = @ + recorded]
         /\ IF commits
            THEN /\ sub' = [sub EXCEPT ![s] = [begun |-> TRUE, active |-> TRUE, auto |-> TRUE,
                                               until |-> month + 1, trial |-> trial]]
                 /\ since' = [since EXCEPT ![s] = month]
                 /\ trials' = IF trial THEN trials \cup {s} ELSE trials
                 /\ fees' = [fees EXCEPT ![s] = @ + IF trial THEN 0 ELSE 1]
                 /\ Outdated(basis[d] # [rows |-> sub, plan |-> plan])
                 /\ UNCHANGED undone
            ELSE /\ undone[s] < MaxUndone
                 /\ undone' = [undone EXCEPT ![s] = @ + 1]
                 /\ UNCHANGED <<sub, since, trials, fees, outdated>>
    /\ Finish(d)
    /\ UNCHANGED <<plan, month, list, cancelled, afterwards>>

-----------------------------------------------------------------------------
(* Cancellation and deletion of the plan.                                   *)

ReadForCancel(d) ==
    /\ Starts(d)
    /\ \E s \in Started : Proceed(d, "cancel", s)
    /\ UNCHANGED <<plan, sub, month, list, ledger, subHist, outdated>>

\* The copy is saved whole: an end date a renewal has moved meanwhile moves back.
Cancel(d) ==
    /\ clerk[d] = "cancel"
    /\ LET s == about[d] IN
         /\ sub' = [sub EXCEPT ![s] = [basis[d].rows[s] EXCEPT !.active = FALSE, !.auto = FALSE]]
         /\ cancelled' = cancelled \cup {s}
         /\ Outdated(basis[d].rows[s] # sub[s])
    /\ Finish(d)
    /\ UNCHANGED <<plan, month, list, ledger, since, trials, afterwards>>

CountActive(d) ==
    /\ Starts(d) /\ plan = "live" /\ ActiveSubs = {}
    /\ Proceed(d, "delete", NoSub)
    /\ UNCHANGED <<plan, sub, month, list, ledger, subHist, outdated>>

DeletePlan(d) ==
    /\ clerk[d] = "delete"
    /\ plan' = "deleted"
    /\ Outdated(ActiveSubs # {s \in Subs : basis[d].rows[s].active})
    /\ Finish(d)
    /\ UNCHANGED <<sub, month, list, ledger, subHist>>

-----------------------------------------------------------------------------
(* Renewal.                                                                 *)

Due == {s \in Started : sub[s].active /\ sub[s].auto /\ sub[s].until <= month}

FindDue(d) ==
    /\ Starts(d) /\ Due # {}
    /\ list' = [list EXCEPT ![d] = Due]
    /\ Proceed(d, "renew", NoSub)
    /\ UNCHANGED <<plan, sub, month, ledger, subHist, outdated>>

\* Mutant: every missed month is added to the end for one fee.
RenewFromNow(copy) == [copy EXCEPT !.until = month + 1, !.trial = FALSE]

RenewMonth(copy) == [copy EXCEPT !.until = @ + 1, !.trial = FALSE]

\* The copy of the list is renewed and saved whole: it is charged and active again
\* whatever happened to the row since.  Without funds it is deactivated; with its
\* plan deleted the renewal throws; a rollback may leave the revenue record behind.
Renew(d) ==
    /\ clerk[d] = "renew"
    /\ \E s \in list[d] :
         LET copy == basis[d].rows[s] IN
         /\ list' = [list EXCEPT ![d] = @ \ {s}]
         /\ \/ /\ basis[d].plan = "live"
               /\ sub' = [sub EXCEPT ![s] = RenewMonth(copy)]
               /\ fees' = [fees EXCEPT ![s] = @ + 1]
               /\ afterwards' = afterwards + IF s \in cancelled THEN 1 ELSE 0
               /\ \E recorded \in {0, 1} : revenue' = [revenue EXCEPT ![s] = @ + recorded]
               /\ cancelled' = cancelled \ {s}
               /\ Outdated(sub[s] # copy)
               /\ UNCHANGED undone
            \/ /\ basis[d].plan = "live"
               /\ sub' = [sub EXCEPT ![s] = [copy EXCEPT !.active = FALSE, !.auto = FALSE,
                                                         !.trial = FALSE]]
               /\ cancelled' = cancelled \cup {s}
               /\ Outdated(sub[s] # copy)
               /\ UNCHANGED <<ledger, afterwards>>
            \/ /\ basis[d].plan = "live" /\ undone[s] < MaxUndone
               /\ undone' = [undone EXCEPT ![s] = @ + 1]
               /\ \E recorded \in {0, 1} : revenue' = [revenue EXCEPT ![s] = @ + recorded]
               /\ UNCHANGED <<sub, fees, cancelled, afterwards, outdated>>
            \/ /\ basis[d].plan = "deleted"
               /\ UNCHANGED <<sub, ledger, cancelled, afterwards, outdated>>
         /\ IF list[d] = {s} THEN Finish(d) ELSE UNCHANGED <<clerk, about, basis>>
    /\ UNCHANGED <<plan, month, since, trials>>

-----------------------------------------------------------------------------

Next ==
    \/ Month
    \/ \E d \in Desks : \/ ReadForActivation(d) \/ Activate(d)
                        \/ ReadForCancel(d) \/ Cancel(d)
                        \/ CountActive(d) \/ DeletePlan(d)
                        \/ FindDue(d) \/ Renew(d)

Spec == Init /\ [][Next]_subVars

-----------------------------------------------------------------------------
(* Properties.                                                              *)

TypeOK ==
    /\ plan \in {"live", "deleted"}
    /\ \A s \in Subs : /\ sub[s].begun \in BOOLEAN /\ sub[s].active \in BOOLEAN
                       /\ sub[s].auto \in BOOLEAN /\ sub[s].trial \in BOOLEAN
                       /\ sub[s].until \in Nat /\ (sub[s].active => sub[s].begun)
    /\ month \in 0..MaxMonths
    /\ clerk \in [Desks -> {"idle", "activate", "cancel", "delete", "renew"}]
    /\ about \in [Desks -> Subs \cup {NoSub}]
    /\ \A d \in Desks : list[d] \subseteq Subs /\ (list[d] # {} => clerk[d] = "renew")
    /\ since \in [Subs -> Nat] /\ fees \in [Subs -> Nat]
    /\ revenue \in [Subs -> Nat] /\ undone \in [Subs -> Nat]
    /\ trials \subseteq Subs /\ cancelled \subseteq Subs /\ afterwards \in Nat /\ outdated \in Nat

\* A target has one active subscription, and one more at most for each write that
\* was decided on rows that had changed since; the same holds of free trials.
OneSubscription ==
    Cardinality(ActiveSubs) <= 1 + outdated /\ Cardinality(trials) <= 1 + outdated

\* Every month a subscription has run, or will, is paid for or the free trial,
\* whatever overlaps: a renewal extends the end it read by the month it charges.
MonthsArePaid ==
    \A s \in Started : sub[s].until - since[s] <= fees[s] + IF s \in trials THEN 1 ELSE 0

\* A deleted plan has no active subscription, unless something changed between the
\* check and the write of some request.
DeletedPlanUnused == plan = "deleted" => (ActiveSubs = {} \/ outdated > 0)

\* A cancelled subscription is charged again only by a renewal that had read it
\* before.
CancelledIsNotCharged == afterwards <= outdated

\* Every revenue record has its fee, but for those of transactions rolled back
\* after they had sent it off.
RevenueHasFee == \A s \in Subs : revenue[s] <= fees[s] + undone[s]
=============================================================================
