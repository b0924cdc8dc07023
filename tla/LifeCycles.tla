------------------------------- MODULE LifeCycles -------------------------------
(***************************************************************************)
(* The life cycles of the platform's other records: orders, rides,         *)
(* subscriptions, workflows, memberships, the tokens and codes of a login, *)
(* the small tables, the accepted terms of service, and the plugins and    *)
(* signed models of the AI module.                                         *)
(*                                                                         *)
(* No two of them write the same table, so a behaviour of the whole is a   *)
(* behaviour of each: `part` says which one this behaviour follows, and    *)
(* the others rest, which keeps the instance a sum and not a product.      *)
(***************************************************************************)
EXTENDS Integers, TLC

\* The parts' modules explain them.  Calls and MaxFaults are those of the small tables
\* and the plugins; no row, record or entry of these and of the terms of service goes
\* by NoEntry.
CONSTANTS
    Orders, Clerks, Nobody, Jobs, Begun, Items, MaxBreaks,
    Slots, Drivers, NoDriver, Menus, MaxTries, MaxPins, MaxStale, MaxRewards,
    Subs, Desks, NoSub, MaxMonths, MaxUndone,
    Pairs, NoPair, Visits, Tries, MaxCodes, MaxAttempts, MaxWrong,
    Runs, Cancels, Steps, MaxCrashes,
    Users, Members, MaxStops,
    Ids, Calls, NoEntry,
    PluginAsks, MaxFaults,
    Models, Versions, Shards, Hashes, MaxSigned,
    Sessions, Releases, MaxDeploys

VARIABLES
    part,
    ord, items, row, refund, agreed, paid, desk, form, amount, readied, delivered, forced, crowded, broken,
    ride, wait, referral, offered, slot, wish, seen, stale, wrong, assigned, completions, rewards,
    plan, sub, month, clerk, about, basis, list, since, fees, revenue, undone, trials, cancelled,
    afterwards, outdated,
    age, listed, visit, shown, exchanged, together, late, out,
    codes, try, code, attempt, resets, proved, uses, wrongTries, lost, shared, changed,
    flow, agent, mine, wrote, ran, runsCompleted, overwrites, crashed,
    seat, gone, count, place, asks, repeats, bannedOnce, stopped,
    table, entry, request, ended, overtaken, blind, rejoined, added,
    plugin, registry, user, decided, tally, removed, reverted, ranOther, crossed, dropped,
    signed, current, displaced, client, replaced, requests,
    terms, acceptances, screen, session, deploys, display, edited, published, told, acted

-----------------------------------------------------------------------------
Or == INSTANCE OrderLifecycle

\* Wrong PINs have a bound of their own.
Ri == INSTANCE Rides WITH MaxWrong <- MaxPins

Su == INSTANCE Subscriptions

Au == INSTANCE Authentication

Fl == INSTANCE Workflows WITH completions <- runsCompleted

Cm == INSTANCE Community

Rc == INSTANCE Records WITH NoRow <- NoEntry, row <- entry, call <- request

Pl == INSTANCE Plugins WITH Asks <- PluginAsks, NoRow <- NoEntry

Si == INSTANCE Provenance WITH NoRecord <- NoEntry

Tos == INSTANCE TermsOfService WITH
    Calls <- Sessions, Texts <- Hashes, Versions <- Releases, NoTerms <- NoEntry,
    rows <- acceptances, call <- session, shown <- display

ASSUME LifeCyclesAssumption ==
    /\ Or!OrderAssumption /\ Ri!RideAssumption /\ Su!SubscriptionAssumption
    /\ Au!AuthAssumption /\ Fl!WorkflowAssumption
    /\ Cm!CommunityAssumption /\ Rc!RecordAssumption
    /\ Pl!PluginAssumption /\ Si!ProvenanceAssumption /\ Tos!TermsAssumption

-----------------------------------------------------------------------------
orders == <<ord, items, row, refund, agreed, paid, desk, form, amount, readied, delivered, forced,
            crowded, broken>>
rides == <<ride, wait, referral, offered, slot, wish, seen, stale, wrong, assigned, completions,
           rewards>>
subscriptions == <<plan, sub, month, clerk, about, basis, list, since, fees, revenue, undone,
                   trials, cancelled, afterwards, outdated>>
tokens == <<age, listed, visit, shown, exchanged, together, late, out>>
onetime == <<codes, try, code, attempt, resets, proved, uses, wrongTries, lost, shared, changed>>
workflows == <<flow, agent, mine, wrote, ran, runsCompleted, overwrites, crashed>>
communities == <<seat, gone, count, place, asks, repeats, bannedOnce, stopped>>
records == <<table, entry, request, ended, overtaken, blind, rejoined, added>>
plugins == <<plugin, registry, user, decided, tally, removed, reverted, ranOther, crossed,
             dropped>>
models == <<signed, current, displaced, client, replaced, requests>>
service == <<terms, acceptances, screen, session, deploys, display, edited, published, told, acted>>
login == <<tokens, onetime>>
extensions == <<plugins, models>>
commons == <<communities, service>>
vars == <<part, orders, rides, subscriptions, login, workflows, commons, records, extensions>>

Parts == {"orders", "rides", "subscriptions", "tokens", "codes", "workflows", "communities",
          "records", "plugins", "models", "terms"}

\* A part that rests does so in one of its initial states.
Init ==
    /\ part \in Parts
    /\ Or!Init /\ Ri!Init /\ Su!Init /\ Au!TokenInit /\ Au!CodeInit /\ Fl!Init /\ Cm!Init
    /\ Rc!Init /\ Pl!Init /\ Si!Init /\ Tos!Init
    /\ part # "orders" => \A o \in Orders : ord[o] = "none"
    /\ part # "rides" => offered = CHOOSE m \in Menus : TRUE
    /\ part # "terms" => terms = CHOOSE t \in Releases \X Hashes : TRUE
    /\ part # "records" => table = Rc!FavoriteDrivers

Next ==
    \/ /\ part = "orders" /\ Or!Next
       /\ UNCHANGED <<part, rides, subscriptions, login, workflows, commons, records, extensions>>
    \/ /\ part = "rides" /\ Ri!Next
       /\ UNCHANGED <<part, orders, subscriptions, login, workflows, commons, records, extensions>>
    \/ /\ part = "subscriptions" /\ Su!Next
       /\ UNCHANGED <<part, orders, rides, login, workflows, commons, records, extensions>>
    \/ /\ part = "tokens" /\ Au!TokenNext
       /\ UNCHANGED <<part, orders, rides, subscriptions, onetime, workflows, commons, records, extensions>>
    \/ /\ part = "codes" /\ Au!CodeNext
       /\ UNCHANGED <<part, orders, rides, subscriptions, tokens, workflows, commons, records, extensions>>
    \/ /\ part = "workflows" /\ Fl!Next
       /\ UNCHANGED <<part, orders, rides, subscriptions, login, commons, records, extensions>>
    \/ /\ part = "communities" /\ Cm!Next
       /\ UNCHANGED <<part, orders, rides, subscriptions, login, workflows, records, service, extensions>>
    \/ /\ part = "records" /\ Rc!Next
       /\ UNCHANGED <<part, orders, rides, subscriptions, login, workflows, commons, extensions>>
    \/ /\ part = "plugins" /\ Pl!Next
       /\ UNCHANGED <<part, orders, rides, subscriptions, login, workflows, commons, records, models>>
    \/ /\ part = "models" /\ Si!Next
       /\ UNCHANGED <<part, orders, rides, subscriptions, login, workflows, commons, records, plugins>>
    \/ /\ part = "terms" /\ Tos!Next
       /\ UNCHANGED <<part, orders, rides, subscriptions, login, workflows, communities, records, extensions>>

Spec == Init /\ [][Next]_vars

-----------------------------------------------------------------------------
(* The parts' properties; their modules explain them.                       *)

\* Types of the part that runs; a part that rests stays as it began.
TypeOK ==
    CASE part = "orders" -> Or!TypeOK
      [] part = "rides" -> Ri!TypeOK
      [] part = "subscriptions" -> Su!TypeOK
      [] part = "tokens" -> Au!TokenTypes
      [] part = "codes" -> Au!CodeTypes
      [] part = "workflows" -> Fl!TypeOK
      [] part = "communities" -> Cm!TypeOK
      [] part = "records" -> Rc!TypeOK
      [] part = "plugins" -> Pl!TypeOK
      [] part = "models" -> Si!TypeOK
      [] part = "terms" -> Tos!TypeOK

\* A status has the history it claims: an order the record that brought it
\* there, a refund an approved return, a delivery one pickup, a completed
\* workflow all its steps, once, and a running one a process that runs it; what
\* was removed or brought to its last status stays there, as a plugin does; and
\* who uses the market has accepted the terms, as they were shown.
RecordsFollow ==
    /\ part = "orders" => Or!StatusHasRecord /\ Or!RefundsFollowApproval /\ Or!OneDeliveryPerPickup
    /\ part = "workflows" =>
         Fl!CompletedRanEverything /\ Fl!CompletedOnce /\ Fl!NotLeftRunning
    /\ part = "records" => Rc!EndedStaysEnded
    /\ part = "plugins" => Pl!StatusIsDecided /\ Pl!RunsItsCode
    /\ part = "models" => Si!RefusedWasReplaced
    /\ part = "terms" => Tos!ActsHaveConsent /\ Tos!ConsentIsInformed

\* One at a time: a ride has one driver, a user one active subscription, a
\* deleted plan none, a banned member does not come back, a natural key
\* belongs to one row, a user accepts a version of the terms once, and a shard is
\* offered one version of a model.
OneHolder ==
    /\ part = "rides" => Ri!OneDriver
    /\ part = "subscriptions" => Su!OneSubscription /\ Su!DeletedPlanUnused
    /\ part = "communities" => Cm!BannedStaysOut
    /\ part = "records" => Rc!OneLiveRow
    /\ part = "models" => Si!OfferedIsCurrent
    /\ part = "terms" => Tos!AcceptedOnce

\* Counters count what happened: wrong PINs, wrong codes, members,
\* and the counters of plugins and other rows.
CountersExplained ==
    /\ part = "rides" => Ri!WrongPinsBounded
    /\ part = "codes" => Au!WrongTriesBounded
    /\ part = "communities" => Cm!CountExplained
    /\ part = "records" => Rc!TallyExplained
    /\ part = "plugins" => Pl!RunsAreCounted

\* Money moves for a reason: months that were due are paid, a cancelled
\* subscription is not charged, revenue has its fee, a reward its completion.
ChargesHaveReason ==
    /\ part = "subscriptions" => Su!MonthsArePaid /\ Su!CancelledIsNotCharged /\ Su!RevenueHasFee
    /\ part = "rides" => Ri!RewardsFollowCompletion

\* A token or code admits once and not after it was withdrawn: a refresh token
\* is exchanged once, a pair that logged out is refused while the list holds it,
\* a code is used once, and a password changes only with a code.
SecretsAdmitOnce ==
    /\ part = "tokens" => Au!ExchangedOnce /\ Au!LoggedOutIsRefused
    /\ part = "codes" => Au!CodeUsedOnce /\ Au!PasswordHasCode

-----------------------------------------------------------------------------
(* The instance that TLC checks.                                            *)

CONSTANTS o1, c1, c2, c3, c4, d1, d2

Job(k)        == [kind |-> k, order |-> o1, of |-> Nobody, to |-> "none"]
SetOrder(s)   == [Job("status") EXCEPT !.to = s]
OnRow(k, c, s) == [kind |-> k, order |-> o1, of |-> c, to |-> s]
OrderJobs ==
    c1 :> {Job("create"), Job("start"), Job("deliver"), Job("return"), SetOrder("DELIVERED")} @@
    c2 :> {Job("deliver"), Job("return"), SetOrder("CONFIRMED"),
           OnRow("complete", c1, "none"), OnRow("deliveryStatus", c1, "DELIVERED"),
           OnRow("returnStatus", c1, "APPROVED")} @@
    c3 :> {Job("deliver"), Job("start"), Job("return"), OnRow("complete", c1, "none"),
           OnRow("deliveryStatus", c2, "DELIVERED"), OnRow("deliveryStatus", c1, "PICKED_UP"),
           OnRow("returnStatus", c1, "REFUNDED"), OnRow("returnStatus", c2, "REFUNDED")} @@
    c4 :> {Job("deliver"), SetOrder("READY_FOR_PICKUP"),
           OnRow("returnStatus", c1, "REFUNDED"), OnRow("returnStatus", c3, "APPROVED")}

SetRide(s) == [op |-> "status", to |-> s]
Pin(s, r)  == [op |-> "pin", side |-> s, right |-> r]
Assign(d)  == [op |-> "assign", driver |-> d]
Wait(odd)  == [op |-> "wait", odd |-> odd]
RideMenus ==
    { {Assign(d1), Assign(d2), SetRide("DRIVER_ARRIVED"), SetRide("CANCELLED"), Wait(FALSE),
       Pin("rider", FALSE)},
      {Pin("rider", FALSE), Pin("rider", TRUE), Pin("driver", FALSE), SetRide("CANCELLED")},
      {Assign(d1), SetRide("DRIVER_ARRIVED"), SetRide("RIDE_STARTED"), SetRide("RIDE_COMPLETED"),
       Wait(TRUE)},
      {[op |-> "refer"]} }

PluginMenu ==
    c1 :> {<<"register">>} @@
    c2 :> {<<"run">>} @@
    c3 :> {<<"run">>, <<"delete">>, <<"status", "inactive">>} @@
    c4 :> {<<"register">>, <<"run">>, <<"status", "active">>, <<"status", "error">>}

Builds == {<<1, 0>>, <<1, 1>>, <<2, 0>>}

\* Requests, subscriptions, pairs, tries and runs go by the same two names here, and are
\* alike.
Alike == Permutations(Slots)
=============================================================================
