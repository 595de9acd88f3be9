------------------------------ MODULE PlanTraces ------------------------------
(***************************************************************************)
(* Workflows, each planned, executed step by step, reviewed, reduced and   *)
(* answered in the thread of its request, and the list of events that all  *)
(* of them share, which keeps the newest.  A trace is what the list still  *)
(* has of one workflow.                                                    *)
(*                                                                         *)
(* The tools that the steps run, the model events and the inputs of the    *)
(* steps are left out.                                                     *)
(***************************************************************************)
EXTENDS FiniteSetsExt, Sequences

CONSTANTS
    Trace,          \* workflows that are asked for
    MaxSteps,       \* a plan has at most this many steps, which are numbers
    MaxEvents,      \* AgentEventStore.max_events
    MaxRestarts     \* a bound on the restarts of the process

VARIABLES
    memory,         \* the list of events
    disk,           \* the list in the catalog
    thread,         \* of each workflow: its node, its plan, the steps completed,
                    \* those that are ready and the one that runs
    past            \* the bound, and what a property has to remember:
                    \* outcome, how each workflow ended
                    \* silent, it ended without an event that says so

vars == <<memory, disk, thread, past>>

Step == 1..MaxSteps
Plan == [steps : {1..n : n \in 0..MaxSteps}, dependsOn : [Step -> SUBSET Step]]
NoPlan == [steps |-> {}, dependsOn |-> [s \in Step |-> {}]]
Free == [node |-> "idle", plan |-> NoPlan, completed |-> {}, notOk |-> {}, ready |-> {},
         running |-> FALSE]

Init ==
    /\ memory = <<>> /\ disk = <<>>
    /\ thread = [t \in Trace |-> Free]
    /\ past = [restarts |-> 0, outcome |-> [t \in Trace |-> "none"], silent |-> {}]

At(t, node) == thread[t].node = node
Goes(t, node) == thread' = [thread EXCEPT ![t].node = node]

\* append keeps the oldest events.
MutantNewest(events) ==
    SubSeq(events, 1, IF Len(events) > MaxEvents THEN MaxEvents ELSE Len(events))

\* append keeps the newest events.
Newest(events) ==
    SubSeq(events, IF Len(events) > MaxEvents THEN Len(events) - MaxEvents + 1 ELSE 1,
           Len(events))

\* record
Records(t, type) ==
    /\ memory' = Newest(Append(memory, [trace |-> t, type |-> type]))
    /\ disk' = memory'
Quietly == UNCHANGED <<memory, disk>>

Outcome(t, outcome) == past' = [past EXCEPT !.outcome[t] = outcome]
Silently(t) == past' = [past EXCEPT !.outcome[t] = "error", !.silent = @ \cup {t}]

WorkflowStarts(t) ==
    /\ At(t, "idle") /\ past.outcome[t] = "none"
    /\ Records(t, "workflow_started")
    /\ Goes(t, "plan")
    /\ UNCHANGED past

\* Planner.build: the steps, in order, and what they depend on, as the
\* workflow says.
Planned(t) ==
    /\ At(t, "plan")
    /\ \E plan \in Plan :
         /\ \A s \in Step \ plan.steps : plan.dependsOn[s] = {}
         /\ thread' = [thread EXCEPT ![t].node = "execute", ![t].plan = plan]
    /\ Records(t, "plan_created")
    /\ UNCHANGED past

\* There is no skill, no tool or no model for a step, or the context is not
\* to be written: the planner raises, and says nothing.
NotPlanned(t) ==
    /\ At(t, "plan")
    /\ Goes(t, "ended") /\ Silently(t)
    /\ Quietly

-----------------------------------------------------------------------------
(* Orchestrator.execute                                                    *)

Pending(t) == thread[t].plan.steps \ thread[t].completed
Ready(t) ==
    {s \in Pending(t) : thread[t].plan.dependsOn[s] \subseteq thread[t].completed}

\* The steps that are ready are taken in the order of the plan.
TakesReady(t) ==
    /\ At(t, "execute") /\ thread[t].ready = {} /\ Ready(t) # {}
    /\ thread' = [thread EXCEPT ![t].ready = Ready(t)]
    /\ Quietly /\ UNCHANGED past

\* A cycle, or a step that is not in the plan: the orchestrator raises.
NoneReady(t) ==
    /\ At(t, "execute") /\ thread[t].ready = {} /\ Ready(t) = {} /\ Pending(t) # {}
    /\ Goes(t, "ended") /\ Silently(t)
    /\ Quietly

StepStarts(t) ==
    /\ At(t, "execute") /\ thread[t].ready # {} /\ ~thread[t].running
    /\ Records(t, "step_started")
    /\ thread' = [thread EXCEPT ![t].running = TRUE]
    /\ UNCHANGED past

\* The tool's output may say that it is not ok.
StepCompletes(t, ok) ==
    LET step == Min(thread[t].ready) IN
    /\ thread[t].running
    /\ Records(t, "step_completed")
    /\ thread' = [thread EXCEPT ![t].running = FALSE, ![t].ready = @ \ {step},
                                ![t].completed = @ \cup {step},
                                ![t].notOk = IF ok THEN @ ELSE @ \cup {step}]
    /\ UNCHANGED past

\* The tool fails, or does not end within its time ...
StepFails(t) ==
    /\ thread[t].running
    /\ Records(t, "step_failed")
    /\ thread' = [thread EXCEPT ![t] = [Free EXCEPT !.node = "fail"]]
    /\ UNCHANGED past

\* ... and so does the workflow.
WorkflowFails(t) ==
    /\ At(t, "fail")
    /\ Records(t, "workflow_failed")
    /\ Goes(t, "ended") /\ Outcome(t, "error")

-----------------------------------------------------------------------------
(* review_node, reduce_node and response_node                              *)

Reviews(t) ==
    /\ At(t, "execute") /\ Pending(t) = {}
    /\ Records(t, "review_completed")
    /\ Goes(t, "reduce")
    /\ UNCHANGED past

Reduces(t) ==
    /\ At(t, "reduce")
    /\ Records(t, "reduce_completed")
    /\ Goes(t, "respond")
    /\ UNCHANGED past

\* The notes of the review that make the workflow an error: no step results,
\* or an output that is not ok.
HasErrorNotes(t) == thread[t].completed = {} \/ thread[t].notOk # {}

Responds(t) ==
    LET status == IF HasErrorNotes(t) THEN "error" ELSE "complete" IN
    /\ At(t, "respond")
    /\ Records(t, IF status = "error" THEN "workflow_failed" ELSE "workflow_completed")
    /\ Outcome(t, status)
    /\ Goes(t, "ended")

\* The threads end with the process; the list is loaded.
Restart ==
    LET cut == {t \in Trace : ~At(t, "idle") /\ past.outcome[t] = "none"} IN
    /\ past.restarts < MaxRestarts
    /\ memory' = disk
    /\ thread' = [t \in Trace |-> IF t \in cut THEN [Free EXCEPT !.node = "ended"] ELSE thread[t]]
    /\ past' = [past EXCEPT
                  !.restarts = @ + 1, !.silent = @ \cup {t \in cut : ~At(t, "fail")},
                  !.outcome = [t \in Trace |-> IF t \in cut THEN "error" ELSE @[t]]]
    /\ UNCHANGED disk

Next ==
    \/ \E t \in Trace :
         \/ WorkflowStarts(t) \/ Planned(t) \/ NotPlanned(t)
         \/ TakesReady(t) \/ NoneReady(t) \/ StepStarts(t) \/ StepFails(t)
         \/ WorkflowFails(t)
         \/ \E ok \in BOOLEAN : StepCompletes(t, ok)
         \/ Reviews(t) \/ Reduces(t) \/ Responds(t)
    \/ Restart

Spec == Init /\ [][Next]_vars

-----------------------------------------------------------------------------
(* AgentEventStore.traces                                                  *)

Types(t) == {memory[i].type : i \in {j \in DOMAIN memory : memory[j].trace = t}}

\* The status of a trace that the list has something of.
TraceStatus(t) ==
    IF "workflow_failed" \in Types(t) THEN "error"
    ELSE IF "workflow_completed" \in Types(t) THEN "complete"
    ELSE IF "step_failed" \in Types(t) THEN "error"
    ELSE "running"

\* Whatever the other workflows push out of the list, a trace that is listed
\* has the outcome of its workflow, and is running until then, or until a step
\* fails; except that a planner or an orchestrator that raises (planner, 89;
\* orchestrator, 205), and a process that ends, leave a trace that runs for
\* ever.
TracesAreHonest ==
    \A t \in Trace : Types(t) # {} =>
        TraceStatus(t) = IF At(t, "fail") THEN "error"
                         ELSE IF past.outcome[t] = "none" \/ t \in past.silent
                         THEN "running" ELSE past.outcome[t]

=============================================================================
