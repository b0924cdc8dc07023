---------------------------- MODULE FeatureStore ----------------------------
(***************************************************************************)
(* The feature store (feature-store.service.ts) and the pipelines that     *)
(* fill it (etl.service.ts), for the features of one entity.               *)
(*                                                                         *)
(* A feature is a row of ai_features; nothing makes (entity, name) unique, *)
(* so a setter first looks for the row and then saves it.  Reads go        *)
(* through a cache in the process: a miss reads the newest row and caches  *)
(* it, a save or a delete drops the entry once it has committed.  Every    *)
(* await is a place where other calls run, so each handler is one action   *)
(* per stretch between two awaits.                                         *)
(*                                                                         *)
(* A pipeline extracts with one query, whose failure counts as no rows,    *)
(* and saves its features one by one.  Its status lives in the process and *)
(* lets one run at a time in.                                              *)
(***************************************************************************)
EXTENDS Integers, Sequences, FiniteSets, Functions

CONSTANTS
    Calls,      \* requests and queue jobs; a call's name is also the value it writes
    Asks,       \* [Calls -> SUBSET of what a call may ask]
    Pipelines,  \* names a run may be asked for
    Nothing,    \* no row, no cached value, nothing left to save
    MaxFaults   \* queries and saves that fail, and restarts, together

\* What a pipeline saves for each row it extracts; unknown names extract nothing.
Loads(p) ==
    CASE p = "user_activity"        -> <<"daily_action_count", "last_active_at">>
      [] p = "transaction_features" -> <<"weekly_txn_count", "weekly_avg_txn_amount",
                                         "weekly_max_txn_amount">>
      [] p = "product_features"     -> <<"monthly_view_count", "monthly_purchase_count">>
      [] OTHER                      -> <<>>

Features == UNION {Range(Loads(p)) : p \in Pipelines}
AllAsks == [kind : {"get", "set", "delete"}, of : Features] \cup
           [kind : {"forget"}, of : {"entity"}] \cup [kind : {"run"}, of : Pipelines]

FeatureStoreAssumption ==
    /\ MaxFaults \in Nat
    /\ IsFiniteSet(Calls)
    /\ Nothing \notin Calls \cup Nat \cup AllAsks
    /\ Asks \in [Calls -> SUBSET AllAsks]

VARIABLES
    features,  \* the rows: records [name, id, value]; ids grow with createdAt
    made,      \* rows created so far
    cached,    \* [Features -> value or Nothing]
    pipeline,  \* [Pipelines -> [status, records]], in the process
    caller,    \* [Calls -> [at, ask, found, left]]
    loaded,    \* history: the features the pipeline's last run saved
    crossing,  \* history: features with two writers, where one did not see the other's row
    behind,    \* history: features written while a reader held the older value
    failures   \* faults so far

vars == <<features, made, cached, pipeline, caller, loaded, crossing, behind, failures>>

Rows(f) == {r \in features : r.name = f}
Newest(f) == CHOOSE r \in Rows(f) : \A o \in Rows(f) : o.id <= r.id
Doing(c, s) == caller[c].at = s
Goto(c, s) == caller' = [caller EXCEPT ![c].at = s]
\* The feature a call is reading or saving now.
Of(c) == IF caller[c].ask.kind = "run" THEN Head(caller[c].left) ELSE caller[c].ask.of
Rivals(c, s, f) == {d \in Calls \ {c} : Doing(d, s) /\ Of(d) = f}

Init ==
    /\ features = {} /\ made = 0
    /\ cached = [f \in Features |-> Nothing]
    /\ pipeline = [p \in Pipelines |-> [status |-> "idle", records |-> 0]]
    /\ caller = [c \in Calls |-> [at |-> "idle", ask |-> Nothing, found |-> Nothing, left |-> <<>>]]
    /\ loaded = [p \in Pipelines |-> {}]
    /\ crossing = {} /\ behind = {} /\ failures = 0

-----------------------------------------------------------------------------
(* Reading *)

\* getFeature: a cached value answers at once, a missing row is a 404, and
\* otherwise the newest row has been read and the answer is on its way.
GetFeature(c, a) ==
    /\ Doing(c, "idle") /\ a.kind = "get"
    /\ caller' =
         IF cached[a.of] # Nothing \/ Rows(a.of) = {}
         THEN [caller EXCEPT ![c].at = "done", ![c].ask = a]
         ELSE [caller EXCEPT ![c].at = "read", ![c].ask = a, ![c].found = Newest(a.of).value]
    /\ UNCHANGED <<features, made, cached, pipeline, loaded, crossing, behind, failures>>

\* The awaited row arrives and is cached for five minutes.
SetCache(c) ==
    /\ Doing(c, "read") /\ Goto(c, "done")
    /\ cached' = [cached EXCEPT ![Of(c)] = caller[c].found]
    /\ UNCHANGED <<features, made, pipeline, loaded, crossing, behind, failures>>

Expire(f) ==
    /\ cached[f] # Nothing
    /\ cached' = [cached EXCEPT ![f] = Nothing]
    /\ UNCHANGED <<features, made, pipeline, caller, loaded, crossing, behind, failures>>

-----------------------------------------------------------------------------
(* Writing *)

\* A row the setter finds: any of them, for the query has no order.
Found(f) == IF Rows(f) = {} THEN {Nothing} ELSE {r.id : r \in Rows(f)}

\* setFeature, up to the row it will save.
Find(c, id) ==
    /\ id \in Found(Of(c)')
    /\ crossing' = crossing \cup
         {f \in {Of(c)'} : id = Nothing /\ \E d \in Rivals(c, "found", f) : caller[d].found = Nothing}

FindFeature(c, a) ==
    /\ Doing(c, "idle") /\ a.kind = "set"
    /\ \E id \in Found(a.of) :
         /\ caller' = [caller EXCEPT ![c].at = "found", ![c].ask = a, ![c].found = id]
         /\ Find(c, id)
    /\ UNCHANGED <<features, made, cached, pipeline, loaded, behind, failures>>

\* Its row after the save: the row found, inserted again when it has gone since,
\* or a new one.
Saved(c) ==
    LET f == Of(c)
        id == IF caller[c].found = Nothing THEN made + 1 ELSE caller[c].found
    IN  {r \in features : r.name # f \/ r.id # id} \cup {[name |-> f, id |-> id, value |-> c]}

\* Readers that hold what a write replaces.
Overtakes(fs) == behind' = behind \cup {f \in fs : \E d \in Calls : Doing(d, "read") /\ Of(d) = f}

SaveFeature(c) ==
    /\ Doing(c, "found") /\ Goto(c, "saved")
    /\ features' = Saved(c)
    /\ made' = IF caller[c].found = Nothing THEN made + 1 ELSE made
    /\ Overtakes({Of(c)})
    /\ loaded' = [p \in Pipelines |->
                    IF caller[c].ask = [kind |-> "run", of |-> p] THEN loaded[p] \cup {Of(c)}
                    ELSE loaded[p]]
    /\ UNCHANGED <<cached, pipeline, crossing, failures>>

\* deleteFeature and deleteEntityFeatures: the rows go, then the cache entries.
Gone(a) == IF a.kind = "forget" THEN Features ELSE {a.of}
DeleteFeatures(c, a) ==
    /\ Doing(c, "idle") /\ a.kind \in {"delete", "forget"}
    /\ caller' = [caller EXCEPT ![c].at = "saved", ![c].ask = a]
    /\ features' = {r \in features : r.name \notin Gone(a)}
    /\ Overtakes(Gone(a))
    /\ crossing' = crossing \cup
         {f \in Gone(a) : \E d \in Rivals(c, "found", f) : caller[d].found # Nothing}
    /\ UNCHANGED <<made, cached, pipeline, loaded, failures>>

Dropped(c) == IF caller[c].ask.kind = "forget" THEN Features ELSE {Of(c)}

\* The save or delete has answered: the cache entry goes.  A pipeline goes on
\* with its next feature, and reports success after the last.
InvalidateCache(c) ==
    /\ Doing(c, "saved")
    /\ cached' = [f \in Features |-> IF f \in Dropped(c) THEN Nothing ELSE cached[f]]
    /\ IF caller[c].ask.kind = "run"
       THEN LET p == caller[c].ask.of
                last == Len(caller[c].left) = 1
            IN  /\ caller' = [caller EXCEPT ![c].at = IF last THEN "done" ELSE "loading",
                                            ![c].left = Tail(@)]
                /\ pipeline' = IF last
                               THEN [pipeline EXCEPT ![p] = [status |-> "success", records |-> 1]]
                               ELSE pipeline
       ELSE Goto(c, "done") /\ pipeline' = pipeline
    /\ UNCHANGED <<features, made, loaded, crossing, behind, failures>>

-----------------------------------------------------------------------------
(* Pipelines *)

\* runPipeline, from a request or from the queue: skipped while one runs.
RunPipeline(c, a) ==
    /\ Doing(c, "idle") /\ a.kind = "run"
    /\ LET skip == pipeline[a.of].status = "running" IN
         /\ caller' = [caller EXCEPT ![c].at = IF skip THEN "done" ELSE "extracting", ![c].ask = a]
         /\ pipeline' = IF skip THEN pipeline
                        ELSE [pipeline EXCEPT ![a.of] = [status |-> "running", records |-> 0]]
         /\ loaded' = IF skip THEN loaded ELSE [loaded EXCEPT ![a.of] = {}]
    /\ UNCHANGED <<features, made, cached, crossing, behind, failures>>

\* The extract query answers: a row to load, or no rows, or a failure that is
\* taken for no rows; without rows the run has succeeded.
Extract(c) ==
    LET p == caller[c].ask.of IN
    /\ Doing(c, "extracting")
    /\ \/ /\ Loads(p) # <<>>
          /\ caller' = [caller EXCEPT ![c].at = "loading", ![c].left = Loads(p)]
          /\ UNCHANGED pipeline
       \/ /\ Goto(c, "done")
          /\ pipeline' = [pipeline EXCEPT ![p] = [status |-> "success", records |-> 0]]
    /\ UNCHANGED <<features, made, cached, loaded, crossing, behind, failures>>

\* batchSetFeatures: the next feature's row is looked up.
LoadFeature(c) ==
    /\ Doing(c, "loading")
    /\ \E id \in Found(Of(c)) :
         /\ caller' = [caller EXCEPT ![c].at = "found", ![c].found = id]
         /\ Find(c, id)
    /\ UNCHANGED <<features, made, cached, pipeline, loaded, behind, failures>>

\* A lookup or save fails: the request fails, a pipeline reports the error and
\* keeps what it has saved.
Fails(c) ==
    /\ failures < MaxFaults /\ failures' = failures + 1
    /\ caller[c].at \in {"found", "loading"} /\ Goto(c, "done")
    /\ pipeline' = [p \in Pipelines |->
                      IF caller[c].ask = [kind |-> "run", of |-> p]
                      THEN [status |-> "error", records |-> 0] ELSE pipeline[p]]
    /\ UNCHANGED <<features, made, cached, loaded, crossing, behind>>

\* The process restarts: calls, cache and statuses are gone, the rows stay.
Restart ==
    /\ failures < MaxFaults /\ failures' = failures + 1
    /\ caller' = [c \in Calls |-> IF Doing(c, "idle") THEN caller[c]
                                  ELSE [caller[c] EXCEPT !.at = "done"]]
    /\ cached' = [f \in Features |-> Nothing]
    /\ pipeline' = [p \in Pipelines |-> [status |-> "idle", records |-> 0]]
    /\ UNCHANGED <<features, made, loaded, crossing, behind>>

-----------------------------------------------------------------------------
Step(c) ==
    \/ \E a \in Asks[c] :
         GetFeature(c, a) \/ FindFeature(c, a) \/ DeleteFeatures(c, a) \/ RunPipeline(c, a)
    \/ SetCache(c) \/ SaveFeature(c) \/ InvalidateCache(c)
    \/ Extract(c) \/ LoadFeature(c) \/ Fails(c)

Next ==
    \/ \E c \in Calls : Step(c)
    \/ \E f \in Features : Expire(f)
    \/ Restart

Spec == Init /\ [][Next]_vars

-----------------------------------------------------------------------------
Places == {"idle", "read", "found", "saved", "extracting", "loading", "done"}

TypeOK ==
    /\ features \subseteq [name : Features, id : 1..Cardinality(Calls) * 3, value : Calls]
    /\ made \in 0..Cardinality(Calls) * 3
    /\ cached \in [Features -> Calls \cup {Nothing}]
    /\ pipeline \in [Pipelines -> [status : {"idle", "running", "success", "error"},
                                   records : {0, 1}]]
    /\ \A c \in Calls : caller[c].at \in Places /\ caller[c].left \in Seq(Features)
    /\ loaded \in [Pipelines -> SUBSET Features]
    /\ crossing \subseteq Features /\ behind \subseteq Features
    /\ failures \in 0..MaxFaults

\* A feature has one row: two appear only where two setters crossed before
\* either had inserted, or a delete came between a setter's look and its save.
OneRowPerFeature == \A f \in Features \ crossing : Cardinality(Rows(f)) <= 1

\* What the cache answers is the newest row, once no writer is between its
\* commit and dropping the entry: unless a reader that had fetched the older
\* value cached it after that, where it stays for up to five minutes.
CacheTellsStore ==
    \A f \in Features \ behind :
      cached[f] # Nothing /\ (\A c \in Calls : Doing(c, "saved") => f \notin Dropped(c)) =>
        Rows(f) # {} /\ cached[f] = Newest(f).value

\* A pipeline that says running has exactly one call that runs it, so neither
\* an error nor a second trigger leaves it running for good or runs it twice.
RunningIsRun ==
    \A p \in Pipelines :
      LET runs == {c \in Calls : caller[c].ask = [kind |-> "run", of |-> p] /\ ~Doing(c, "done")}
      IN  Cardinality(runs) = IF pipeline[p].status = "running" THEN 1 ELSE 0

\* A run that reports records has saved every feature it computes, and one
\* that stopped half way reports the error.
ReportedIsLoaded ==
    \A p \in Pipelines : pipeline[p].records > 0 =>
      pipeline[p].status = "success" /\ loaded[p] = Range(Loads(p))
=============================================================================
