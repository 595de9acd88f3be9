------------------------------- MODULE Schedule -------------------------------
(***************************************************************************)
(* One schedule of ScheduleService: the stored ScheduleDefinition, the     *)
(* coordinator thread (tick) and the API requests of its users.  The       *)
(* repository saves one definition atomically (_SCHEDULE_LOCK); every      *)
(* operation reads the definition, refreshes it from the runs of its last  *)
(* execution, and later saves a changed copy of it.                        *)
(*                                                                         *)
(* nextRunAt is none, later or due; time passes for the copies as it does  *)
(* for the stored definition.  A run is what get_run tells of it: active   *)
(* with or without a thread that will end it (lost after a restart),       *)
(* passed, failed, or not found (gone while its thread lives, deleted).    *)
(* The races of RunLifecycle that change the record of an ended run are    *)
(* left to that module.                                                    *)
(***************************************************************************)
EXTENDS Integers, FiniteSets

CONSTANTS
    Run,            \* run identifiers; when all are used start_run fails
    NumScenarios,   \* scenarios of the schedule
    User,           \* concurrent API requests
    Tick,           \* the coordinator thread
    Ops,            \* operations users request
    MaxRestarts,    \* bound on process restarts
    None

Thread == User \cup {Tick}
Operations == {"list", "update", "execute", "create", "delete", "cancelRun",
               "deleteRun"}

ASSUME TickAssumption == Tick \notin User
ASSUME RunsFinite == IsFiniteSet(Run)
ASSUME ScenariosAssumption == NumScenarios \in Nat \ {0}
ASSUME OpsAssumption == Ops \subseteq Operations
ASSUME RestartsAssumption == MaxRestarts \in Nat

NextRun == {"none", "later", "due"}
ScheduleStatus == {"ACTIVE", "PAUSED", "RUNNING", "COMPLETED", "ERROR"}
\* errors: some start_run of the execution failed.
Execution == [status : {"RUNNING", "COMPLETED", "COMPLETED_WITH_FAILURES", "ERROR"},
              runs : SUBSET Run, errors : BOOLEAN]
Definition == [enabled : BOOLEAN, status : ScheduleStatus, next : NextRun,
               exec : Execution \cup {None}]

ASSUME NoneAssumption == None \notin Definition \cup Execution

VARIABLES
    sched,      \* the stored definition, or None
    run,        \* run[r]: what get_run tells of run r
    pc,         \* pc[t]: where thread t is
    op,         \* op[t]: the operation it performs
    copy,       \* copy[t]: the definition it has read
    started,    \* started[t]: runs it has started and not yet recorded
    missed,     \* missed[t]: scenarios whose start_run failed
    current,    \* the copy tick saves when the execution raises
    restarts    \* process restarts so far

vars == <<sched, run, pc, op, copy, started, missed, current, restarts>>

Pc == {"idle", "createSave", "get", "refresh", "refreshSave", "update", "skip",
       "start", "raised"}
Job == {"none", "list", "update", "execute", "tick"}
RunStatus == {"unused", "active", "lost", "passed", "failed", "gone", "deleted"}

TypeOK ==
    /\ sched \in Definition \cup {None}
    /\ run \in [Run -> RunStatus]
    /\ pc \in [Thread -> Pc]
    /\ op \in [Thread -> Job]
    /\ copy \in [Thread -> Definition \cup {None}]
    /\ started \in [Thread -> SUBSET Run]
    /\ missed \in [Thread -> Nat]
    /\ current \in Definition \cup {None}
    /\ restarts \in Nat

Created(enabled, next) ==
    [enabled |-> enabled, next |-> next, exec |-> None,
     status |-> CASE ~enabled -> "PAUSED"
                  [] enabled /\ next = "none" -> "COMPLETED"
                  [] enabled /\ next # "none" -> "ACTIVE"]

Init ==
    /\ \E enabled \in BOOLEAN : sched \in {None, Created(enabled, "later")}
    /\ run = [r \in Run |-> "unused"]
    /\ pc = [t \in Thread |-> "idle"]
    /\ op = [t \in Thread |-> "none"]
    /\ copy = [t \in Thread |-> None]
    /\ started = [t \in Thread |-> {}]
    /\ missed = [t \in Thread |-> 0]
    /\ current = None
    /\ restarts = 0

Goto(t, p) == pc' = [pc EXCEPT ![t] = p]
Exists == sched # None

\* Thread t has finished its operation and keeps nothing.
Return(t) ==
    /\ Goto(t, "idle")
    /\ op' = [op EXCEPT ![t] = "none"]
    /\ copy' = [copy EXCEPT ![t] = None]
    /\ started' = [started EXCEPT ![t] = {}]
    /\ missed' = [missed EXCEPT ![t] = 0]
    /\ current' = IF t = Tick THEN None ELSE current

-----------------------------------------------------------------------------
(* get: read the definition and refresh it from its runs                   *)

InProgress(item) == item.exec # None /\ item.exec.status = "RUNNING"

Ended(item) == {r \in item.exec.runs : run[r] \in {"passed", "failed"}}

\* Mutant: all scenarios are waited for, also those that could not be started.
MutantAllEnded(item) == Cardinality(Ended(item)) = NumScenarios

AllEnded(item) == Ended(item) = item.exec.runs

\* Mutant: scenarios that could not be started do not count as failed.
MutantFailures(item) == \E r \in item.exec.runs : run[r] = "failed"

Failures(item) == item.exec.errors \/ \E r \in item.exec.runs : run[r] = "failed"

\* Mutant: the status of the schedule is not reset.
MutantFinishedStatus(item) == item.status

FinishedStatus(item) ==
    IF item.enabled /\ item.next # "none" THEN "ACTIVE" ELSE "COMPLETED"

Finished(item) ==
    [item EXCEPT !.status = FinishedStatus(item),
                 !.exec.status = IF Failures(item) THEN "COMPLETED_WITH_FAILURES"
                                                   ELSE "COMPLETED"]

\* The copies the refresh may save: the finished one, or one with a new count
\* of ended runs (progressCompleted, which nothing else reads).
Refreshed(item) ==
    CASE ~InProgress(item) -> {}
      [] InProgress(item) /\ AllEnded(item) -> {Finished(item)}
      [] InProgress(item) /\ ~AllEnded(item) -> IF Ended(item) = {} THEN {} ELSE {item}

NothingNew(item) == InProgress(item) => ~AllEnded(item)

IsDue(item) ==
    item.enabled /\ item.next = "due" /\ item.status # "RUNNING"

\* get has returned: the caller goes on with the refreshed item.
Proceed(t, item) ==
    \/ /\ op[t] = "list" \/ (op[t] = "tick" /\ ~IsDue(item))
       /\ Return(t)
    \/ /\ op[t] = "tick" /\ IsDue(item)
       /\ op' = [op EXCEPT ![t] = "execute"]
       /\ current' = item
       /\ copy' = [copy EXCEPT ![t] = None]
       /\ Goto(t, "get")
       /\ UNCHANGED <<started, missed>>
    \/ /\ op[t] \in {"update", "execute"}
       /\ copy' = [copy EXCEPT ![t] = item]
       /\ Goto(t, CASE op[t] = "update" -> "update"
                    [] op[t] = "execute" /\ InProgress(item) -> "skip"
                    [] op[t] = "execute" /\ ~InProgress(item) -> "start")
       /\ UNCHANGED <<op, started, missed, current>>

Get(t) ==
    /\ pc[t] = "get"
    /\ Exists
    /\ copy' = [copy EXCEPT ![t] = sched]
    /\ Goto(t, "refresh")
    /\ UNCHANGED <<sched, run, op, started, missed, current, restarts>>

Refresh(t) ==
    /\ pc[t] = "refresh"
    /\ \/ NothingNew(copy[t]) /\ Proceed(t, copy[t])
       \/ /\ \E item \in Refreshed(copy[t]) : copy' = [copy EXCEPT ![t] = item]
          /\ Goto(t, "refreshSave")
          /\ UNCHANGED <<op, started, missed, current>>
    /\ UNCHANGED <<sched, run, restarts>>

RefreshSave(t) ==
    /\ pc[t] = "refreshSave"
    /\ sched' = copy[t]
    /\ Proceed(t, copy[t])
    /\ UNCHANGED <<run, restarts>>

-----------------------------------------------------------------------------
(* Operations                                                              *)

\* The coordinator looks at the schedule; users list, update or execute it.
TickBegins ==
    /\ pc[Tick] = "idle"
    /\ Exists
    /\ op' = [op EXCEPT ![Tick] = "tick"]
    /\ copy' = [copy EXCEPT ![Tick] = sched]
    /\ Goto(Tick, "refresh")
    /\ UNCHANGED <<sched, run, started, missed, current, restarts>>

Request(u, job) ==
    /\ job \in Ops \cap Job
    /\ pc[u] = "idle"
    /\ Exists
    /\ op' = [op EXCEPT ![u] = job]
    /\ Goto(u, "get")
    /\ UNCHANGED <<sched, run, copy, started, missed, current, restarts>>

\* LookupError, or a scope that is not valid any more: tick records it.
Raise(t) ==
    /\ \/ pc[t] = "get" /\ ~Exists
       \/ pc[t] \in {"update", "start"} /\ started[t] = {} /\ missed[t] = 0
    /\ IF t = Tick
       THEN Goto(t, "raised") /\ UNCHANGED <<op, copy, started, missed, current>>
       ELSE Return(t)
    /\ UNCHANGED <<sched, run, restarts>>

RaisedSave(t) ==
    /\ pc[t] = "raised"
    /\ \E next \in {"none", "later"} :
         sched' = [current EXCEPT !.status = "ERROR", !.next = next]
    /\ Return(t)
    /\ UNCHANGED <<run, restarts>>

CreateCheck(u) ==
    /\ "create" \in Ops
    /\ pc[u] = "idle"
    /\ ~Exists
    /\ Goto(u, "createSave")
    /\ UNCHANGED <<sched, run, op, copy, started, missed, current, restarts>>

CreateSave(u) ==
    /\ pc[u] = "createSave"
    /\ \E enabled \in BOOLEAN, next \in {"none", "later"} :
         sched' = Created(enabled, next)
    /\ Return(u)
    /\ UNCHANGED <<run, restarts>>

Updated(item, enabled, next) ==
    [item EXCEPT !.enabled = enabled, !.next = next,
                 !.status = Created(enabled, next).status]

UpdateSave(t) ==
    /\ pc[t] = "update"
    /\ \E enabled \in BOOLEAN, next \in {"none", "later"} :
         sched' = Updated(copy[t], enabled, next)
    /\ Return(t)
    /\ UNCHANGED <<run, restarts>>

SkipSave(t) ==
    /\ pc[t] = "skip"
    /\ sched' = copy[t]
    /\ Return(t)
    /\ UNCHANGED <<run, restarts>>

Tries(t) == Cardinality(started[t]) + missed[t]

StartRun(t) ==
    /\ pc[t] = "start"
    /\ Tries(t) < NumScenarios
    /\ \/ \E r \in Run :
            /\ run[r] = "unused"
            /\ run' = [run EXCEPT ![r] = "active"]
            /\ started' = [started EXCEPT ![t] = @ \cup {r}]
            /\ UNCHANGED missed
       \/ /\ missed' = [missed EXCEPT ![t] = @ + 1]
          /\ UNCHANGED <<run, started>>
    /\ UNCHANGED <<sched, pc, op, copy, current, restarts>>

\* Mutant: the schedule is running even if no run could be started.
MutantExecuted(item, runs, errors, next) ==
    [item EXCEPT !.status = "RUNNING", !.next = next,
                 !.exec = [status |-> IF runs # {} THEN "RUNNING" ELSE "ERROR",
                           runs |-> runs, errors |-> errors]]

Executed(item, runs, errors, next) ==
    LET status == IF runs # {} THEN "RUNNING" ELSE "ERROR" IN
      [item EXCEPT !.status = status, !.next = next,
                   !.exec = [status |-> status, runs |-> runs, errors |-> errors]]

ExecuteSave(t) ==
    /\ pc[t] = "start"
    /\ Tries(t) = NumScenarios
    /\ \E next \in {"none", "later"} :
         sched' = Executed(copy[t], started[t], missed[t] > 0, next)
    /\ Return(t)
    /\ UNCHANGED <<run, restarts>>

Delete(u) ==
    /\ "delete" \in Ops
    /\ pc[u] = "idle"
    /\ Exists
    /\ sched' = None
    /\ UNCHANGED <<run, pc, op, copy, started, missed, current, restarts>>

-----------------------------------------------------------------------------
(* Runs, time and the process                                              *)

RunBecomes(r, from, to) ==
    /\ run[r] \in from
    /\ run' = [run EXCEPT ![r] = to]
    /\ UNCHANGED <<sched, pc, op, copy, started, missed, current, restarts>>

\* The thread of a deleted run saves its record again (_persist_result).
RunEnds(r) ==
    \/ RunBecomes(r, {"active", "gone"}, "passed")
    \/ RunBecomes(r, {"active", "gone"}, "failed")

CancelRun(r) == "cancelRun" \in Ops /\ RunBecomes(r, {"active", "lost"}, "failed")

DeleteRun(r) ==
    /\ "deleteRun" \in Ops
    /\ \/ RunBecomes(r, {"active"}, "gone")
       \/ RunBecomes(r, {"lost", "passed", "failed"}, "deleted")

Aged(item) ==
    IF item # None /\ item.next = "later" THEN [item EXCEPT !.next = "due"] ELSE item

TimePasses ==
    /\ Exists /\ sched.next = "later"
    /\ sched' = Aged(sched)
    /\ copy' = [t \in Thread |-> Aged(copy[t])]
    /\ current' = Aged(current)
    /\ UNCHANGED <<run, pc, op, started, missed, restarts>>

Restart ==
    /\ restarts < MaxRestarts
    /\ restarts' = restarts + 1
    /\ run' = [r \in Run |-> CASE run[r] = "active" -> "lost"
                               [] run[r] = "gone" -> "deleted"
                               [] run[r] \notin {"active", "gone"} -> run[r]]
    /\ pc' = [t \in Thread |-> "idle"]
    /\ op' = [t \in Thread |-> "none"]
    /\ copy' = [t \in Thread |-> None]
    /\ started' = [t \in Thread |-> {}]
    /\ missed' = [t \in Thread |-> 0]
    /\ current' = None
    /\ UNCHANGED sched

-----------------------------------------------------------------------------
Continue(t) ==
    \/ Get(t) \/ Refresh(t) \/ RefreshSave(t) \/ Raise(t) \/ RaisedSave(t)
    \/ CreateSave(t) \/ UpdateSave(t) \/ SkipSave(t) \/ StartRun(t)
    \/ ExecuteSave(t)

Receive(u) == CreateCheck(u) \/ Delete(u) \/ \E job \in Job : Request(u, job)

Next ==
    \/ \E t \in Thread : Continue(t)
    \/ TickBegins
    \/ \E u \in User : Receive(u)
    \/ \E r \in Run : RunEnds(r) \/ CancelRun(r) \/ DeleteRun(r)
    \/ TimePasses
    \/ Restart

Spec == Init /\ [][Next]_vars

\* Live threads keep running, the coordinator looks again every 15 seconds and
\* a run with a thread ends.  No user has to act.
Fairness ==
    /\ WF_vars(TickBegins)
    /\ \A t \in Thread : WF_vars(Continue(t))
    /\ \A r \in Run : WF_vars(RunEnds(r))

FairSpec == Spec /\ Fairness

-----------------------------------------------------------------------------
(* Properties                                                              *)

\* A schedule is RUNNING only with an execution in progress, whichever copies
\* of it overtake each other.  tick passes over a RUNNING schedule and only
\* _refresh_execution ends that, so otherwise it would never run again.
RunningBacked == Exists /\ sched.status = "RUNNING" => InProgress(sched)

\* An execution reported as over has no run in progress, and is reported clean
\* only if every scenario could be started and no run failed, whichever stale
\* copy was saved last.  A run may be deleted after it was counted.
OverAndHonest(item) ==
    /\ \A r \in item.exec.runs : run[r] \in {"passed", "failed", "deleted"}
    /\ item.exec.status = "COMPLETED" =>
         ~item.exec.errors /\ \A r \in item.exec.runs : run[r] # "failed"
    /\ item.exec.status = "COMPLETED_WITH_FAILURES" =>
         item.exec.errors \/ \E r \in item.exec.runs : run[r] \in {"failed", "deleted"}

ReportedOver(item) ==
    item.exec # None /\ item.exec.status \in {"COMPLETED", "COMPLETED_WITH_FAILURES"}

HonestReport == Exists /\ ReportedOver(sched) => OverAndHonest(sched)

\* An execution in progress is eventually reported as over (or the schedule is
\* deleted), by the refreshes of the coordinator and of the requests.
Reported == Exists /\ InProgress(sched) ~> ~Exists \/ ~InProgress(sched)

\* A schedule that is due is eventually run, switched off or deleted.
DueServed ==
    Exists /\ sched.enabled /\ sched.next = "due"
      ~> ~Exists \/ ~sched.enabled \/ sched.next # "due"

ActiveRuns == {r \in Run : run[r] = "active"}
Recorded == IF Exists /\ sched.exec # None THEN sched.exec.runs ELSE {}

\* "While the previous execution has not finished the same schedule is skipped"
\* (docs 08, scheduling): all active runs belong to one execution.
OneExecution ==
    \E runs \in {Recorded} \cup {started[t] : t \in Thread} : ActiveRuns \subseteq runs
=============================================================================
