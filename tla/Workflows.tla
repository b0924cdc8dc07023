------------------------------- MODULE Workflows -------------------------------
(***************************************************************************)
(* One workflow of the orchestrator (workflow-orchestrator.service.ts).    *)
(* A run reads the row, checks its status and then saves its own copy of   *)
(* the row before and after every step; a cancel saves its copy as well.   *)
(* Each save writes the whole copy, status included, over what is there.   *)
(***************************************************************************)
EXTENDS Integers, FiniteSets

CONSTANTS Runs,      \* calls of executeWorkflow
          Cancels,   \* calls of cancelWorkflow
          Steps,     \* steps of the workflow
          MaxCrashes \* bound: calls cut off

WorkflowAssumption == Steps \in Nat /\ MaxCrashes \in Nat /\ Runs \cap Cancels = {}

Agents == Runs \cup Cancels
WorkflowStatus == {"PENDING", "RUNNING", "COMPLETED", "FAILED", "CANCELLED"}

VARIABLES
    flow,        \* the row: status and completed steps
    agent,       \* where each call is
    mine,        \* its copy of the row
    wrote,       \* the row as it last read or wrote it
    ran,         \* steps it has executed
    completions, \* runs that saved COMPLETED (history)
    overwrites,  \* saves over what another call had written (history)
    crashed      \* calls cut off (history)

flowHist == <<completions, overwrites, crashed>>
flowVars == <<flow, agent, mine, wrote, ran, flowHist>>

Fresh == [status |-> "PENDING", steps |-> 0]

Init ==
    /\ flow = Fresh
    /\ agent = [c \in Agents |-> "idle"]
    /\ mine = [c \in Agents |-> Fresh] /\ wrote = [c \in Agents |-> Fresh]
    /\ ran = [r \in Runs |-> 0]
    /\ completions = 0 /\ overwrites = 0 /\ crashed = {}

Ended     == {"idle", "done", "refused", "crashed"}
Go(c, where) == agent' = [agent EXCEPT ![c] = where]

\* A save of the copy of c, now `copy`, over the row.
SaveFlow(c, copy) ==
    /\ flow' = copy
    /\ mine' = [mine EXCEPT ![c] = copy] /\ wrote' = [wrote EXCEPT ![c] = copy]
    /\ overwrites' = IF flow = wrote[c] THEN overwrites ELSE overwrites + 1

MayRun(status) == status \notin {"RUNNING", "COMPLETED"}

MayCancel(status) == status \in {"RUNNING", "PENDING"}

ReadFlow(c) ==
    /\ agent[c] = "idle"
    /\ mine' = [mine EXCEPT ![c] = flow] /\ wrote' = [wrote EXCEPT ![c] = flow]
    /\ IF c \in Runs
       THEN Go(c, IF MayRun(flow.status) /\ Steps > 0 THEN "begin" ELSE "refused")
       ELSE Go(c, IF MayCancel(flow.status) THEN "cancel" ELSE "refused")
    /\ UNCHANGED <<flow, ran, flowHist>>

MarkRunning(r) ==
    /\ agent[r] = "begin"
    /\ SaveFlow(r, [mine[r] EXCEPT !.status = "RUNNING"])
    /\ Go(r, "announce")
    /\ UNCHANGED <<ran, completions, crashed>>

\* The name of the step is saved before it is executed.
SaveCurrentStep(r) ==
    /\ agent[r] = "announce"
    /\ SaveFlow(r, mine[r])
    /\ Go(r, "execute")
    /\ UNCHANGED <<ran, completions, crashed>>

ExecuteStep(r) ==
    /\ agent[r] = "execute"
    /\ \/ ran' = [ran EXCEPT ![r] = @ + 1] /\ Go(r, "count")
       \/ Go(r, "fail") /\ UNCHANGED ran
    /\ UNCHANGED <<flow, mine, wrote, flowHist>>

CountStep(r) ==
    /\ agent[r] = "count"
    /\ SaveFlow(r, [mine[r] EXCEPT !.steps = ran[r]])
    /\ Go(r, IF ran[r] = Steps THEN "complete" ELSE "announce")
    /\ UNCHANGED <<ran, completions, crashed>>

Complete(r) ==
    /\ agent[r] = "complete"
    /\ SaveFlow(r, [mine[r] EXCEPT !.status = "COMPLETED"])
    /\ completions' = completions + 1
    /\ Go(r, "done")
    /\ UNCHANGED <<ran, crashed>>

\* The catch of any error after the workflow was marked as running.
Fail(r) ==
    /\ agent[r] = "fail"
    /\ SaveFlow(r, [mine[r] EXCEPT !.status = "FAILED"])
    /\ Go(r, "done")
    /\ UNCHANGED <<ran, completions, crashed>>

CancelWorkflow(c) ==
    /\ agent[c] = "cancel"
    /\ SaveFlow(c, [mine[c] EXCEPT !.status = "CANCELLED"])
    /\ Go(c, "done")
    /\ UNCHANGED <<ran, completions, crashed>>

\* The process dies, or the database does not answer the last save either.
Crash(c) ==
    /\ agent[c] \notin Ended /\ Cardinality(crashed) < MaxCrashes
    /\ crashed' = crashed \cup {c} /\ Go(c, "crashed")
    /\ UNCHANGED <<flow, mine, wrote, ran, completions, overwrites>>

Step(c) ==
    \/ ReadFlow(c)
    \/ c \in Runs /\ (\/ MarkRunning(c) \/ SaveCurrentStep(c) \/ ExecuteStep(c)
                      \/ CountStep(c) \/ Complete(c) \/ Fail(c))
    \/ c \in Cancels /\ CancelWorkflow(c)

Next == \E c \in Agents : Step(c) \/ Crash(c)

Spec == Init /\ [][Next]_flowVars

-----------------------------------------------------------------------------
(* Properties.                                                              *)

TypeOK ==
    /\ flow \in [status : WorkflowStatus, steps : 0..Steps]
    /\ agent \in [Agents -> Ended \cup {"begin", "announce", "execute", "count",
                                        "complete", "fail", "cancel"}]
    /\ mine \in [Agents -> [status : WorkflowStatus, steps : 0..Steps]]
    /\ wrote \in [Agents -> [status : WorkflowStatus, steps : 0..Steps]]
    /\ ran \in [Runs -> 0..Steps]
    /\ completions \in Nat /\ overwrites \in Nat /\ crashed \subseteq Agents

\* A workflow that is COMPLETED has been executed from the first step to the last by
\* one run, whatever other runs and cancels wrote in between.
CompletedRanEverything ==
    flow.status = "COMPLETED" => flow.steps = Steps /\ \E r \in Runs : ran[r] = Steps

\* It is completed once, and once more at most for each save that overwrote what
\* another call had written.
CompletedOnce == completions <= 1 + overwrites

\* A workflow does not stay RUNNING once its runs have ended, unless one of them was
\* cut off: then nothing but a cancel moves it again.
NotLeftRunning ==
    crashed = {} /\ (\A r \in Runs : agent[r] \in Ended) => flow.status # "RUNNING"
=============================================================================
