------------------------------- MODULE Inferences -------------------------------
(***************************************************************************)
(* Inferences of one model (modules/ai/ai.service.ts): a request is stored *)
(* and answered in the background, by the provider or by the local models, *)
(* and counted in the model's row; an administrator changes that row as a  *)
(* whole; and a workflow asks for inferences step by step.                 *)
(*                                                                         *)
(* Every database call is a step of its own and may fail, MaxBreaks times; *)
(* the process may stop, and nothing resumes what ran in it.               *)
(***************************************************************************)
EXTENDS Naturals, FiniteSets

CONSTANTS
    Jobs,       \* inferences, asked for directly or by the workflow
    Admins,     \* calls of updateModelStatus and updateModel
    Steps,      \* the workflow's steps, each an inference
    NoCopy,
    Edits,      \* bound: the counts that updateModel may bring
    MaxBreaks   \* bound: failures of the database or of the provider

InferenceAssumption ==
    IsFiniteSet(Jobs) /\ Steps \in Nat \ {0} /\ MaxBreaks \in Nat /\ Edits \subseteq Nat

VARIABLES
    model,     \* the model's row: its status and its inference count
    row,       \* the status of each inference's row, "none" before it is stored
    output,    \* the inferences with an output in their row
    job,       \* where the background work of each inference is
    admin, copy, \* where each administrator's call is, and the row it read
    flow,      \* the workflow's row: its status and completed steps
    runner,    \* where its execution is
    asked,     \* the inferences the workflow asked for, in no order
    counted,   \* inferences counted (history)
    stale,     \* a row was saved whole after the count had moved (history)
    edited,    \* an administrator has set the count himself (history)
    breaks,    \* failures so far
    stopped    \* the process stopped (history)

inferenceVars == <<model, row, output, job, admin, copy, flow, runner, asked, counted, stale,
                   edited, breaks, stopped>>

\* The model has been made active (createModel leaves it in training).
Init ==
    /\ model = [status |-> "active", count |-> 0]
    /\ row = [j \in Jobs |-> "none"] /\ output = {}
    /\ job = [j \in Jobs |-> "none"]
    /\ admin = [a \in Admins |-> "idle"] /\ copy = [a \in Admins |-> NoCopy]
    /\ flow = [status |-> "pending", done |-> 0] /\ runner = "idle" /\ asked = {}
    /\ counted = {} /\ stale = FALSE /\ edited = FALSE /\ breaks = 0 /\ stopped = FALSE

Break == breaks < MaxBreaks /\ breaks' = breaks + 1
At(j, stage) == job[j] = stage
To(j, stage) == job' = [job EXCEPT ![j] = stage]
Row(j, status) == row' = [row EXCEPT ![j] = status]

flowVars == <<flow, runner, asked>>
adminVars == <<admin, copy, stale, edited>>

-----------------------------------------------------------------------------
(* An inference.                                                            *)

\* createInference: only of a model that is active when it is read.  The workflow calls
\* it as well.
Asked(j, stage) == model.status = "active" /\ At(j, "none") /\ To(j, stage)
Stored(j) == Row(j, "pending") /\ To(j, "queued")

AskInference(j) ==
    /\ Asked(j, "asked")
    /\ UNCHANGED <<model, row, output, adminVars, flowVars, counted, breaks, stopped>>

\* The model may have changed since.
CreateInference(j) ==
    /\ At(j, "asked")
    /\ \/ Stored(j) /\ UNCHANGED breaks
       \/ Break /\ To(j, "none") /\ UNCHANGED row
    /\ UNCHANGED <<model, output, adminVars, flowVars, counted, stopped>>

\* processInference.  When the row cannot be read that is all; what fails from then on
\* ends in SaveFailed.
MarkProcessing(j) ==
    /\ At(j, "queued")
    /\ \/ Row(j, "processing") /\ To(j, "running") /\ UNCHANGED breaks
       \/ Break /\ job' \in {[job EXCEPT ![j] = s] : s \in {"done", "failing"}} /\ UNCHANGED row
    /\ UNCHANGED <<model, output, adminVars, flowVars, counted, stopped>>

\* The provider answers within its time limit or throws.  The local models always
\* answer: where they have nothing to work on, the answer says so.
RunModel(j) ==
    /\ At(j, "running")
    /\ \/ To(j, "answered") /\ UNCHANGED breaks
       \/ Break /\ To(j, "failing")
    /\ UNCHANGED <<model, row, output, adminVars, flowVars, counted, stopped>>

\* The output is in the copy from now on, so a failure later saves it as well.
SaveCompleted(j) ==
    /\ At(j, "answered")
    /\ \/ /\ Row(j, "completed") /\ output' = output \cup {j} /\ To(j, "counting")
          /\ UNCHANGED breaks
       \/ Break /\ To(j, "failingWithOutput") /\ UNCHANGED <<row, output>>
    /\ UNCHANGED <<model, adminVars, flowVars, counted, stopped>>

\* increment, then lastInferenceAt: when either fails, the inference has failed.
CountInference(j) ==
    /\ At(j, "counting")
    /\ \/ /\ model' = [model EXCEPT !.count = @ + 1] /\ counted' = counted \cup {j}
          /\ \/ To(j, "done") /\ UNCHANGED breaks
             \/ Break /\ To(j, "failingWithOutput")
       \/ Break /\ To(j, "failingWithOutput") /\ UNCHANGED <<model, counted>>
    /\ UNCHANGED <<row, output, adminVars, flowVars, stopped>>

\* When this fails too, the row stays as it is.
SaveFailed(j) ==
    /\ job[j] \in {"failing", "failingWithOutput"}
    /\ To(j, "done")
    /\ \/ /\ Row(j, "failed") /\ UNCHANGED breaks
          /\ output' = IF At(j, "failing") THEN output ELSE output \cup {j}
       \/ Break /\ UNCHANGED <<row, output>>
    /\ UNCHANGED <<model, adminVars, flowVars, counted, stopped>>

Process(j) ==
    MarkProcessing(j) \/ RunModel(j) \/ SaveCompleted(j) \/ CountInference(j) \/ SaveFailed(j)

-----------------------------------------------------------------------------
(* The model's row.                                                         *)

ReadModel(a) ==
    /\ admin[a] = "idle"
    /\ admin' = [admin EXCEPT ![a] = "read"] /\ copy' = [copy EXCEPT ![a] = model]
    /\ UNCHANGED <<model, row, output, job, flowVars, counted, stale, edited, breaks, stopped>>

\* updateModelStatus saves all it read: counts made since are gone.
UpdateModelStatus(a, status) ==
    /\ admin[a] = "read"
    /\ admin' = [admin EXCEPT ![a] = "done"] /\ copy' = [copy EXCEPT ![a] = NoCopy]
    /\ model' = [copy[a] EXCEPT !.status = status]
    /\ stale' = (stale \/ copy[a].count # model.count)
    /\ UNCHANGED <<row, output, job, flowVars, counted, edited, breaks, stopped>>

\* updateModel saves whatever the request brings; what matters here is a count.
UpdateModel(a, n) ==
    /\ admin[a] = "read"
    /\ admin' = [admin EXCEPT ![a] = "done"] /\ copy' = [copy EXCEPT ![a] = NoCopy]
    /\ model' = [copy[a] EXCEPT !.count = n]
    /\ edited' = TRUE
    /\ UNCHANGED <<row, output, job, flowVars, counted, stale, breaks, stopped>>

-----------------------------------------------------------------------------
(* The workflow, started as soon as it is stored.                           *)

StartWorkflow ==
    /\ runner = "idle"
    /\ \/ runner' = "running" /\ flow' = [flow EXCEPT !.status = "running"] /\ UNCHANGED breaks
       \/ Break /\ runner' \in {"done", "failing"} /\ UNCHANGED flow
    /\ UNCHANGED <<model, row, output, job, adminVars, asked, counted, stopped>>

\* Without an active model the workflow fails.
RunStep(j) ==
    /\ runner = "running" /\ flow.done < Steps
    /\ \/ Asked(j, "step") /\ runner' = "storing" /\ UNCHANGED breaks
       \/ /\ \/ model.status # "active" /\ UNCHANGED breaks
             \/ Break
          /\ runner' = "failing"
          /\ UNCHANGED job
    /\ UNCHANGED <<model, row, output, adminVars, flow, asked, counted, stopped>>

\* The step counts as done when its inference is stored.
StoreStep(j) ==
    /\ runner = "storing" /\ At(j, "step")
    /\ \/ /\ Stored(j)
          /\ asked' = asked \cup {j}
          /\ flow' = [flow EXCEPT !.done = @ + 1]
          /\ runner' = "running" /\ UNCHANGED breaks
       \/ /\ Break /\ runner' = "failing" /\ To(j, "none")
          /\ UNCHANGED <<flow, row, asked>>
    /\ UNCHANGED <<model, output, adminVars, counted, stopped>>

CompleteWorkflow ==
    /\ runner = "running" /\ flow.done = Steps
    /\ \/ flow' = [flow EXCEPT !.status = "completed"] /\ runner' = "done" /\ UNCHANGED breaks
       \/ Break /\ runner' = "failing" /\ UNCHANGED flow
    /\ UNCHANGED <<model, row, output, job, adminVars, asked, counted, stopped>>

FailWorkflow ==
    /\ runner = "failing" /\ runner' = "done"
    /\ \/ flow' = [flow EXCEPT !.status = "failed"] /\ UNCHANGED breaks
       \/ Break /\ UNCHANGED flow
    /\ UNCHANGED <<model, row, output, job, adminVars, asked, counted, stopped>>

\* The process stops: what it was at is never taken up again.
Crash ==
    /\ ~stopped
    /\ stopped' = TRUE
    /\ job' = [j \in Jobs |-> IF row[j] = "none" THEN "none" ELSE "done"]
    /\ runner' = IF runner = "idle" THEN "idle" ELSE "done"
    /\ admin' = [a \in Admins |-> IF admin[a] = "read" THEN "done" ELSE admin[a]]
    /\ copy' = [a \in Admins |-> NoCopy]
    /\ UNCHANGED <<model, row, output, flow, asked, counted, stale, edited, breaks>>

Next ==
    \/ \E j \in Jobs : AskInference(j) \/ CreateInference(j) \/ Process(j)
    \/ \E j \in Jobs : RunStep(j) \/ StoreStep(j)
    \/ \E a \in Admins :
          \/ ReadModel(a)
          \/ \E s \in {"active", "deprecated"} : UpdateModelStatus(a, s)
          \/ \E n \in Edits : UpdateModel(a, n)
    \/ StartWorkflow \/ CompleteWorkflow \/ FailWorkflow \/ Crash

Spec == Init /\ [][Next]_inferenceVars

\* Background work goes on while the process lives, and the provider's time limit ends
\* every call of it.
Fairness == WF_inferenceVars(\E j \in Jobs : Process(j))
FairSpec == Spec /\ Fairness

-----------------------------------------------------------------------------
(* Properties.                                                              *)

TypeOK ==
    /\ model \in [status : {"training", "active", "deprecated"}, count : Nat]
    /\ row \in [Jobs -> {"none", "pending", "processing", "completed", "failed"}]
    /\ output \subseteq Jobs /\ asked \subseteq Jobs /\ counted \subseteq Jobs
    /\ job \in [Jobs -> {"none", "asked", "step", "queued", "running", "answered", "counting",
                         "failing", "failingWithOutput", "done"}]
    /\ admin \in [Admins -> {"idle", "read", "done"}]
    /\ flow.status \in {"pending", "running", "completed", "failed"} /\ flow.done \in 0..Steps
    /\ runner \in {"idle", "running", "storing", "failing", "done"}
    /\ breaks \in 0..MaxBreaks
    /\ stale \in BOOLEAN /\ edited \in BOOLEAN /\ stopped \in BOOLEAN

\* The model's count is the number of inferences counted, and at most that when the
\* row was saved from a copy read before, unless an administrator has set it himself.
CountExplained ==
    ~edited => /\ model.count <= Cardinality(counted)
               /\ ~stale => model.count = Cardinality(counted)

\* A completed inference has its output; without failures and crashes the counted ones
\* are completed, and those that failed have no output.
RowsExplained ==
    /\ \A j \in Jobs : row[j] = "completed" => j \in output
    /\ counted \subseteq output
    /\ breaks = 0 => \A j \in Jobs : row[j] # "failed"
    /\ \A j \in Jobs : (job[j] = "done" /\ row[j] = "completed" /\ breaks = 0 /\ ~stopped) =>
          j \in counted

\* A workflow reported completed has stored an inference for every step, though these
\* may be pending, failed, or left behind by a crash; and one that is left
\* "running" was stopped with its process, or failed and could not say so.
FlowClaims ==
    /\ flow.status = "completed" =>
          Cardinality(asked) = Steps /\ \A j \in asked : row[j] # "none"
    /\ (runner = "done" /\ flow.status = "running") => stopped \/ breaks > 0

\* Background work never takes a completed inference back but to fail it for its count,
\* and a failed one stays failed.
RowsMoveOn ==
    [][ \A j \in Jobs :
          /\ row[j] = "failed" => row'[j] = "failed"
          /\ row[j] = "completed" => row'[j] \in {"completed", "failed"}
          /\ row'[j] = "completed" /\ row[j] # "completed" => row[j] = "processing"
          /\ j \in output => j \in output' ]_inferenceVars

\* Every inference that is stored ends, unless its process stops: one that is left
\* pending could not be read, one left processing failed and could not be saved.
NoneLeft ==
    \A j \in Jobs :
        /\ row[j] = "pending"    => stopped \/ breaks > 0
        /\ row[j] = "processing" => stopped \/ breaks > 1
InferencesEnd == []<>NoneLeft
=============================================================================
