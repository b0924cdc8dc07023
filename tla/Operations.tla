------------------------------- MODULE Operations -------------------------------
(***************************************************************************)
(* What runs around the order book: the platform's cash at the             *)
(* facilitators with bridge and netting, the settlement records of trades, *)
(* the AI participant, and the cached facilitator balances; and the        *)
(* services that advise and inform: pricing, ranking, insights, the stored *)
(* features they draw on, the search index, the chat gateway and the       *)
(* inferences.                                                             *)
(*                                                                         *)
(* No two of them write the same table, so a behaviour of the whole is a   *)
(* behaviour of each: `part` says which one this behaviour follows, and    *)
(* the others rest.  (Of the bridge and the order book, the AI             *)
(* participant's module has what they do to its venues and its orders.)    *)
(***************************************************************************)
EXTENDS Integers, Sequences, TLC

\* The parts' modules explain them.  Calls and MaxFaults are those of the bridge and of
\* the stored features; the webhooks of settlements and of the balance cache go by the
\* same names, and so do the words of ranking and search.
CONSTANTS
    Facs, Calls, Nobody, Menu, Initial, NoRow, Reserve, Deviation, Spread, MaxFaults,
    Trades, Cross, Hooks,
    Ticks, Venues, Anywhere, PerMinute, MaxOpen, MaxPlaced, MaxRevivals,
    Readers, Empty, NoAnswer, Changes,
    Words, NoHint, Goods, Others, NoTags, Nothing,
    Entities, NoText, MaxDocs, MaxSaves,
    Sockets, Users, Owner, Members, Letters, MaxEvents, MaxSends,
    Jobs, Admins, Steps, NoCopy, Edits, MaxBreaks,
    FeatureAsks, Pipelines

VARIABLES
    part,
    cash, active, outflow, held, step, ask, seen, task, todo, prior, booked, messy, drained,
    spent,
    matched, record, old, hook, ref, toUpdate, known,
    fresh, aged, shut, shutAged, revived, tick, had, missing, vouched, count, tripped,
    due, placed, total, lost, overlapped,
    real, cached, reader, holds, shown, asOf, hooked, announced, raced,
    priced, wanted, books,
    stored, corpus, meta, answer, emptied, saves,
    socket, token, connections, room, joining, window, reading, letter, waiting, sent, told,
    served, calls, slipped,
    model, row, output, job, admin, copy, flow, runner, asked, counted, stale, edited, breaks,
    stopped,
    features, made, featureCache, pipeline, caller, loaded, crossing, behind, failures

-----------------------------------------------------------------------------
Br == INSTANCE BridgeCash

St == INSTANCE Settlements

Ai == INSTANCE AiParticipant

Ca == INSTANCE BalanceCache

\* The values around each threshold of the rules.
Pr == INSTANCE AiPricing WITH
    ask <- priced, Hints <- {NoHint, 0, 40, 50, 70, 100},
    Demands <- 0..7, Supplies <- 0..3, Hours <- {0, 4, 8, 12, 20, 23}, Kms <- {1, 2, 5},
    DaysIdle <- {0, 30, 31, 35, 60, 90}, Views <- {50, 51}, Conversions <- {1, 2},
    Stocks <- {200, 201}, Months <- {2, 3}, LoginDays <- {14, 15}, Usages <- {29, 30},
    Counts <- {0, 9, 10, 14, 20}, Amounts <- {500, 650, 1000, 1050, 5000},
    Averages <- {0, 100, 200}

Ra == INSTANCE AiRanking WITH
    Hints <- {NoHint, 0, 100}, Neighbours <- 1, Tops <- {1, 2}, Patterns <- <<4, 2, 3>>

\* Three months and two categories; five days, of which the planner reads four.
In == INSTANCE AiInsights WITH
    Periods <- 1..3, Categories <- 1..2, Incomes <- {Nothing, 6, 10},
    Expenses <- {Nothing, 3, 8}, Revenues <- {0, 1, 4}, MaxDays <- 5, Recent <- 4

Se == INSTANCE SearchIndex

Ch == INSTANCE Chat

Nf == INSTANCE Inferences

Fe == INSTANCE FeatureStore WITH Asks <- FeatureAsks, cached <- featureCache

ASSUME OperationsAssumption ==
    /\ Br!BridgeAssumption /\ St!SettlementAssumption /\ Ai!AiAssumption /\ Ca!CacheAssumption
    /\ Pr!PricingAssumption /\ Ra!RankingAssumption /\ In!InsightsAssumption
    /\ Se!IndexAssumption /\ Ch!ChatAssumption /\ Nf!InferenceAssumption
    /\ Fe!FeatureStoreAssumption

-----------------------------------------------------------------------------
bridge == <<cash, active, outflow, held, step, ask, seen, task, todo, prior, booked, messy,
            drained, spent>>
settlement == <<matched, record, old, hook, ref, toUpdate, known>>
participant == <<fresh, aged, shut, shutAged, revived, tick, had, missing, vouched,
                 count, tripped, due, placed, total, lost, overlapped>>
cache == <<real, cached, reader, holds, shown, asOf, hooked, announced, raced>>
answers == <<priced, wanted, books>>
search == <<stored, corpus, meta, answer, emptied, saves>>
chat == <<socket, token, connections, room, joining, window, reading, letter, waiting, sent,
          told, served, calls, slipped>>
inferences == <<model, row, output, job, admin, copy, flow, runner, asked, counted, stale,
                edited, breaks, stopped>>
store == <<features, made, featureCache, pipeline, caller, loaded, crossing, behind, failures>>
market == <<bridge, settlement, participant, cache>>
services == <<answers, search, chat, inferences, store>>
vars == <<part, market, services>>

Init ==
    /\ part \in {"bridge", "settlement", "participant", "cache",
                 "answers", "search", "chat", "inferences", "features"}
    /\ Br!Init /\ St!Init /\ Ca!Init /\ Ai!Init
    /\ Pr!Init /\ Ra!Init /\ In!Init /\ Se!Init /\ Ch!Init /\ Nf!Init
    /\ Fe!Init

\* One request is answered, and nothing is kept.
Answer ==
    /\ priced = Pr!NoAsk /\ wanted = Ra!NoAsk /\ books = In!NoBooks
    /\ \/ Pr!Next /\ UNCHANGED <<wanted, books>>
       \/ Ra!Next /\ UNCHANGED <<priced, books>>
       \/ In!Next /\ UNCHANGED <<priced, wanted>>

Next ==
    \/ part = "bridge"      /\ Br!Next /\ UNCHANGED <<part, settlement, participant, cache, services>>
    \/ part = "settlement"  /\ St!Next /\ UNCHANGED <<part, bridge, participant, cache, services>>
    \/ part = "participant" /\ Ai!Next /\ UNCHANGED <<part, bridge, settlement, cache, services>>
    \/ part = "cache"       /\ Ca!Next /\ UNCHANGED <<part, bridge, settlement, participant, services>>
    \/ part = "answers"     /\ Answer  /\ UNCHANGED <<part, market, search, chat, inferences, store>>
    \/ part = "search"      /\ Se!Next /\ UNCHANGED <<part, market, answers, chat, inferences, store>>
    \/ part = "chat"        /\ Ch!Next /\ UNCHANGED <<part, market, answers, search, inferences, store>>
    \/ part = "inferences"  /\ Nf!Next /\ UNCHANGED <<part, market, answers, search, chat, store>>
    \/ part = "features"    /\ Fe!Next /\ UNCHANGED <<part, market, answers, search, chat, inferences>>

\* Each part's own fairness, for the behaviours that follow it.
Fairness ==
    /\ WF_bridge(part = "bridge" /\ \E c \in Calls : Br!Step(c))
    /\ \A t \in Trades : WF_settlement(part = "settlement" /\ St!GrowOld(t))
    /\ WF_settlement(part = "settlement" /\ St!ExpireStaleSettlements)
    /\ WF_cache(part = "cache" /\ Ca!Expire)
    /\ WF_inferences(part = "inferences" /\ \E j \in Jobs : Nf!Process(j))

Spec == Init /\ [][Next]_vars /\ Fairness

-----------------------------------------------------------------------------
(* The parts' properties; their modules explain them.                       *)

\* Types of the part that runs; a part that rests stays as it began.
TypeOK ==
    CASE part = "bridge" -> Br!TypeOK
      [] part = "settlement" -> St!TypeOK
      [] part = "participant" -> Ai!TypeOK
      [] part = "cache" -> Ca!TypeOK
      [] part = "answers" -> Pr!TypeOK /\ Ra!TypeOK /\ In!TypeOK
      [] part = "search" -> Se!TypeOK
      [] part = "chat" -> Ch!TypeOK
      [] part = "inferences" -> Nf!TypeOK
      [] part = "features" -> Fe!TypeOK

\* The platform's cash at a facilitator is what its transactions booked, both
\* sides or none, and an open bridge holds its reserve unless a rebalancing took
\* from it.
CashKept == part = "bridge" => Br!CashExplained /\ Br!BridgeKeepsReserve

\* Automatic work is done once: no second netting task for a target that has
\* one, no transfer for a closed task, one standing order per slot and no slot
\* without one, no orders beyond the breaker and no events beyond the chat's rate,
\* but for overlapping runs and orders that the bridge opens again; an inference is counted once, and a row or a workflow
\* that claims to be complete has what it claims, but for failures and crashes; a
\* pipeline that says running has one run, one that reports records has saved them,
\* and a feature has one row.
DoneOnce ==
    /\ part = "bridge" => Br!NoDuplicateTasks /\ Br!NoLateTransfer
    /\ part = "participant" =>
         Ai!OneStandingOrder /\ Ai!StandingOrdersRestored /\ Ai!BreakerHolds
    /\ part = "chat" => Ch!RateHolds
    /\ part = "inferences" => Nf!CountExplained /\ Nf!RowsExplained /\ Nf!FlowClaims
    /\ part = "features" => Fe!RunningIsRun /\ Fe!ReportedIsLoaded /\ Fe!OneRowPerFeature

\* An answer given is true: a webhook answered with success has completed every
\* record of its reference, a balance shown is as new as the last announcement but
\* for races with a fetch, as a cached feature is the stored one, what a search finds
\* was asked for and is indexed, and is all there is or as many as it may give; who
\* counts as present is connected, and a stored message leaves a sender who is still
\* connected with an error.
AnswersTrue ==
    /\ part = "settlement" => St!SuccessMeansCompleted
    /\ part = "cache" => Ca!ShownIsAnnounced
    /\ part = "search" => Se!FoundIsAsked /\ Se!IndexExplained
    /\ part = "chat" => Ch!PresenceIsTrue /\ Ch!ErrorsSayNothing
    /\ part = "features" => Fe!CacheTellsStore

\* Prices, discounts, offers, verdicts, rankings, warnings and forecasts move the way
\* their reasons do, through every band, clamp, rounding and blend.
AdviceFits == part = "answers" => Pr!PricesFit /\ Ra!RanksFit /\ In!InsightsFit

\* Every bridge call ends, deadlocks of opposite trades included.  A confirmed
\* settlement stays confirmed and none is pending for ever; a stale cached balance
\* goes away; a message deleted and an entity emptied out of the index stay so; an
\* inference moves on and ends, but for failures and crashes.  (A part that rests
\* meets its share of the liveness, so one formula states the liveness of each.)
RecordsSettle ==
    /\ St!CompletedIsFinal /\ Ch!LettersKept /\ Se!EmptiedStaysOut /\ Nf!RowsMoveOn
    /\ []<>(Br!NoneRuns /\ St!NonePending /\ Ca!NoneStale /\ Nf!NoneLeft)

-----------------------------------------------------------------------------
(* The instance that TLC checks.                                            *)

CONSTANTS fx, fy, fz, c1, c2, c3, c4, a1, a2, b1, u1, u2

Cash == fx :> 12 @@ fy :> 7 @@ fz :> NoRow

Trade(p, q, n)    == [kind |-> "trade", a |-> p, b |-> q, amt |-> n, run |-> Nobody]
At(k, f, n)       == [kind |-> k, a |-> f, b |-> f, amt |-> n, run |-> Nobody]
OnTask(k, run, f) == [kind |-> k, a |-> f, b |-> f, amt |-> 0, run |-> run]
BridgeMenu ==
    c1 :> {Trade(fx, fy, 3)} @@
    c2 :> {Trade(fy, fx, 3), At("net", fx, 0), At("fund", fz, 2)} @@
    c3 :> {At("net", fx, 0), OnTask("cancel", c2, fy), OnTask("complete", c2, fy)} @@
    c4 :> {OnTask("complete", c2, fy), At("fund", fz, 6)}

Want(k, f) == [kind |-> k, of |-> f]
Activity == "user_activity"
FeatureMenu ==
    c1 :> {Want("set", "last_active_at"), Want("run", Activity)} @@
    c2 :> {Want("get", "last_active_at"), Want("set", "last_active_at"), Want("run", Activity)} @@
    c3 :> {Want("get", "last_active_at"), Want("set", "daily_action_count"),
           Want("delete", "last_active_at"), Want("forget", "entity"), Want("run", "unknown")} @@
    c4 :> {}

\* Two sockets of u1, who takes part in the conversation, and one of u2, who does not.
SocketOwners == a1 :> u1 @@ a2 :> u1 @@ b1 :> u2
=============================================================================
