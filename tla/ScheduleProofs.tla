---------------------------- MODULE ScheduleProofs ----------------------------
(***************************************************************************)
(* Schedule keeps its types, a RUNNING schedule keeps its execution and no *)
(* execution is reported dishonestly, for any number of runs, scenarios,   *)
(* requests and restarts, whichever stale copy is saved last.              *)
(***************************************************************************)
EXTENDS Schedule, TLAPS

Over == {"passed", "failed", "deleted"}

\* Honest(item, rs) is OverAndHonest(item) where rs tells of the runs.
Honest(item, rs) ==
    /\ \A r \in item.exec.runs : rs[r] \in Over
    /\ item.exec.status = "COMPLETED" =>
         ~item.exec.errors /\ \A r \in item.exec.runs : rs[r] # "failed"
    /\ item.exec.status = "COMPLETED_WITH_FAILURES" =>
         item.exec.errors \/ \E r \in item.exec.runs : rs[r] \in {"failed", "deleted"}

\* A definition that may be saved at any time.
Sound(item, rs) ==
    /\ item \in Definition
    /\ item.status = "RUNNING" => InProgress(item)
    /\ ReportedOver(item) => Honest(item, rs)

\* What a thread holds when it is about to go on or to write.
Prepared(t) ==
    /\ pc[t] \in {"refresh", "refreshSave", "update", "skip", "start"} => copy[t] # None
    /\ pc[t] = "update" => op[t] = "update"
    /\ pc[t] = "createSave" => t \in User
    /\ pc[t] = "raised" => t = Tick
    /\ t = Tick /\ pc[t] \in {"get", "update", "start", "raised"} => op[t] = "execute"
    /\ t = Tick => op[t] \in {"none", "tick", "execute"}
    /\ t = Tick /\ op[t] = "execute" => current # None

SoundOrNone(item, rs) == item = None \/ Sound(item, rs)

AllSound ==
    /\ SoundOrNone(sched, run)
    /\ \A t \in Thread : SoundOrNone(copy[t], run)
    /\ SoundOrNone(current, run)

IInv == TypeOK /\ AllSound /\ \A t \in Thread : Prepared(t)

USE TickAssumption, ScenariosAssumption, NoneAssumption, OpsAssumption, RestartsAssumption
USE DEF NextRun, ScheduleStatus, Execution, Definition, Over

-----------------------------------------------------------------------------
(* What the operations make of a sound definition                          *)

LEMMA CreatedSound ==
  ASSUME NEW enabled \in BOOLEAN, NEW next \in NextRun, NEW rs
  PROVE  Sound(Created(enabled, next), rs)
  BY DEF Sound, Created, ReportedOver

LEMMA FinishedSound ==
  ASSUME run \in [Run -> RunStatus], NEW item, Sound(item, run),
         InProgress(item), AllEnded(item)
  PROVE  Sound(Finished(item), run)
  <1>1. item.exec \in Execution
    BY DEF Sound, InProgress
  <1>2. Finished(item) \in Definition
    BY <1>1 DEF Sound, Finished, FinishedStatus
  <1>3. /\ Finished(item).status # "RUNNING"
        /\ Finished(item).exec.runs = item.exec.runs
        /\ Finished(item).exec.errors = item.exec.errors
        /\ Finished(item).exec.status = IF Failures(item)
                                        THEN "COMPLETED_WITH_FAILURES" ELSE "COMPLETED"
    BY <1>1 DEF Sound, Finished, FinishedStatus
  <1>4. \A r \in item.exec.runs : run[r] \in {"passed", "failed"}
    BY DEF AllEnded, Ended
  <1> QED
    BY <1>2, <1>3, <1>4 DEF Sound, Honest, Failures

LEMMA UpdatedSound ==
  ASSUME NEW rs, NEW item, Sound(item, rs), NEW enabled \in BOOLEAN, NEW next \in NextRun
  PROVE  Sound(Updated(item, enabled, next), rs)
  BY DEF Sound, Updated, Created, ReportedOver, Honest

LEMMA ExecutedSound ==
  ASSUME NEW rs, NEW item, Sound(item, rs), NEW runs \in SUBSET Run,
         NEW errors \in BOOLEAN, NEW next \in NextRun
  PROVE  Sound(Executed(item, runs, errors, next), rs)
  <1> DEFINE status == IF runs # {} THEN "RUNNING" ELSE "ERROR"
             exec == [status |-> status, runs |-> runs, errors |-> errors]
             new == Executed(item, runs, errors, next)
  <1>1. exec \in Execution /\ exec # None /\ exec.status = status
    OBVIOUS
  <1> HIDE DEF exec
  <1>2. new = [item EXCEPT !.status = status, !.next = next, !.exec = exec]
    BY DEF Executed, exec
  <1>3. new \in Definition /\ new.status = status /\ new.exec = exec
    BY <1>1, <1>2 DEF Sound
  <1> HIDE DEF new
  <1> QED
    BY <1>1, <1>3 DEF Sound, ReportedOver, InProgress, new

LEMMA ErrorSound ==
  ASSUME NEW rs, NEW item, Sound(item, rs), NEW next \in NextRun
  PROVE  Sound([item EXCEPT !.status = "ERROR", !.next = next], rs)
  BY DEF Sound, ReportedOver, Honest

LEMMA AgedSound ==
  ASSUME NEW rs, NEW item, SoundOrNone(item, rs)
  PROVE  /\ SoundOrNone(Aged(item), rs)
         /\ item # None => Aged(item) # None
  BY DEF SoundOrNone, Sound, Aged, ReportedOver, Honest, InProgress

\* Runs that have ended stay so; they can only be deleted.
LEMMA RunsEndSound ==
  ASSUME NEW rs, NEW rsNext, NEW item, SoundOrNone(item, rs),
         \A r \in Run : rs[r] \in Over => rsNext[r] \in {rs[r], "deleted"}
  PROVE  SoundOrNone(item, rsNext)
  <1>1. CASE item = None
    BY <1>1 DEF SoundOrNone
  <1>2. CASE item # None /\ ~ReportedOver(item)
    BY <1>2 DEF SoundOrNone, Sound
  <1>3. CASE item # None /\ ReportedOver(item)
    <2>1. Sound(item, rs) /\ item.exec \in Execution
      BY <1>3 DEF SoundOrNone, Sound, ReportedOver
    <2>2. Honest(item, rs) /\ item.exec.runs \subseteq Run
      BY <1>3, <2>1 DEF Sound
    <2>3. Honest(item, rsNext)
      BY <2>2 DEF Honest
    <2> QED
      BY <2>1, <2>3 DEF SoundOrNone, Sound
  <1> QED
    BY <1>1, <1>2, <1>3

-----------------------------------------------------------------------------
(* Every step keeps the invariant                                          *)

LEMMA InitIInv == Init => IInv
  <1> SUFFICES ASSUME Init PROVE IInv
    OBVIOUS
  <1>1. SoundOrNone(sched, run)
    BY CreatedSound DEF Init, SoundOrNone
  <1>2. TypeOK
    BY <1>1 DEF Init, TypeOK, SoundOrNone, Sound, RunStatus, Pc, Job
  <1> QED
    BY <1>1, <1>2 DEF Init, IInv, AllSound, SoundOrNone, Prepared, Thread

\* Return and Proceed change nothing but the thread they are called for.
LEMMA ReturnKeeps ==
  ASSUME IInv, NEW t \in Thread, Return(t), run' = run, restarts' = restarts,
         SoundOrNone(sched', run)
  PROVE  IInv'
  <1>1. TypeOK'
    BY DEF IInv, TypeOK, Return, Goto, SoundOrNone, Sound, Pc, Job
  <1>2. AllSound'
    BY DEF IInv, TypeOK, AllSound, Return, SoundOrNone
  <1>3. \A s \in Thread : Prepared(s)'
    BY DEF IInv, TypeOK, Return, Goto, Prepared, Thread
  <1> QED
    BY <1>1, <1>2, <1>3 DEF IInv

LEMMA ProceedKeeps ==
  ASSUME IInv, NEW t \in Thread, NEW item, Sound(item, run), Proceed(t, item),
         run' = run, restarts' = restarts, SoundOrNone(sched', run)
  PROVE  IInv'
  <1>1. CASE Return(t)
    BY <1>1, ReturnKeeps
  <1>2. CASE /\ op[t] = "tick"
             /\ op' = [op EXCEPT ![t] = "execute"]
             /\ current' = item
             /\ copy' = [copy EXCEPT ![t] = None]
             /\ Goto(t, "get")
             /\ UNCHANGED <<started, missed>>
    <2>0. item # None
      BY DEF Sound
    <2>1. TypeOK'
      BY <1>2 DEF IInv, TypeOK, Goto, SoundOrNone, Sound, Pc, Job
    <2>2. AllSound'
      BY <1>2 DEF IInv, TypeOK, AllSound, SoundOrNone
    <2>3. \A s \in Thread : Prepared(s)'
      BY <1>2, <2>0 DEF IInv, TypeOK, Goto, Prepared, Thread
    <2> QED
      BY <2>1, <2>2, <2>3 DEF IInv
  <1>3. CASE /\ op[t] \in {"update", "execute"}
             /\ copy' = [copy EXCEPT ![t] = item]
             /\ Goto(t, CASE op[t] = "update" -> "update"
                          [] op[t] = "execute" /\ InProgress(item) -> "skip"
                          [] op[t] = "execute" /\ ~InProgress(item) -> "start")
             /\ UNCHANGED <<op, started, missed, current>>
    <2>0. item # None
      BY DEF Sound
    <2>1. PICK p \in {"update", "skip", "start"} :
            /\ pc' = [pc EXCEPT ![t] = p]
            /\ p = "update" => op[t] = "update"
            /\ t = Tick => op[t] = "execute"
      <3>1. t = Tick => op[t] = "execute"
        BY <1>3 DEF IInv, Prepared
      <3>2. CASE op[t] = "update"
        BY <1>3, <3>1, <3>2 DEF Goto
      <3>3. CASE op[t] = "execute"
        BY <1>3, <3>1, <3>3 DEF Goto
      <3> QED
        BY <1>3, <3>2, <3>3
    <2>2. TypeOK'
      BY <1>3, <2>1 DEF IInv, TypeOK, SoundOrNone, Sound, Pc, Job
    <2>3. AllSound'
      BY <1>3 DEF IInv, TypeOK, AllSound, SoundOrNone
    <2>4. \A s \in Thread : Prepared(s)'
      BY <1>3, <2>0, <2>1 DEF IInv, TypeOK, Prepared, Thread
    <2> QED
      BY <2>2, <2>3, <2>4 DEF IInv
  <1> QED
    BY <1>1, <1>2, <1>3 DEF Proceed

LEMMA ContinueKeeps ==
  ASSUME IInv, NEW t \in Thread, Continue(t)
  PROVE  IInv'
  <1>0. SoundOrNone(sched, run) /\ SoundOrNone(copy[t], run)
    BY DEF IInv, AllSound
  <1>1. CASE Get(t)
    <2>1. TypeOK'
      BY <1>1 DEF IInv, TypeOK, Get, Goto, Pc
    <2>2. AllSound'
      BY <1>1 DEF IInv, TypeOK, AllSound, Get, SoundOrNone
    <2>3. \A s \in Thread : Prepared(s)'
      BY <1>1 DEF IInv, TypeOK, Get, Goto, Prepared, Thread, Exists
    <2> QED
      BY <2>1, <2>2, <2>3 DEF IInv
  <1>2. CASE Refresh(t)
    <2>0. Sound(copy[t], run)
      BY <1>0, <1>2 DEF IInv, Prepared, Refresh, SoundOrNone
    <2>1. CASE NothingNew(copy[t]) /\ Proceed(t, copy[t])
      BY <1>0, <1>2, <2>0, <2>1, ProceedKeeps DEF Refresh
    <2>2. CASE /\ \E item \in Refreshed(copy[t]) : copy' = [copy EXCEPT ![t] = item]
               /\ Goto(t, "refreshSave")
               /\ UNCHANGED <<op, started, missed, current>>
      <3>1. PICK item \in Refreshed(copy[t]) : copy' = [copy EXCEPT ![t] = item]
        BY <2>2
      <3>2. Sound(item, run)
        <4>1. CASE item = copy[t]
          BY <2>0, <4>1
        <4>2. CASE item = Finished(copy[t]) /\ InProgress(copy[t]) /\ AllEnded(copy[t])
          BY <2>0, <4>2, FinishedSound DEF IInv, TypeOK
        <4> QED
          BY <3>1, <4>1, <4>2 DEF Refreshed
      <3>3. item # None
        BY <3>2 DEF Sound
      <3>4. TypeOK'
        BY <1>2, <2>2, <3>1, <3>2 DEF IInv, TypeOK, Refresh, Goto, Sound, Pc
      <3>5. AllSound'
        BY <1>2, <2>2, <3>1, <3>2 DEF IInv, TypeOK, AllSound, Refresh, SoundOrNone
      <3>6. \A s \in Thread : Prepared(s)'
        BY <1>2, <2>2, <3>1, <3>3 DEF IInv, TypeOK, Refresh, Goto, Prepared, Thread
      <3> QED
        BY <3>4, <3>5, <3>6 DEF IInv
    <2> QED
      BY <1>2, <2>1, <2>2 DEF Refresh
  <1>3. CASE RefreshSave(t)
    <2>1. Sound(copy[t], run)
      BY <1>0, <1>3 DEF IInv, Prepared, RefreshSave, SoundOrNone
    <2> QED
      BY <1>0, <1>3, <2>1, ProceedKeeps DEF RefreshSave
  <1>4. CASE Raise(t)
    <2>1. CASE t # Tick
      BY <1>0, <1>4, <2>1, ReturnKeeps DEF Raise
    <2>2. CASE t = Tick
      <3>1. TypeOK'
        BY <1>4, <2>2 DEF IInv, TypeOK, Raise, Goto, Pc
      <3>2. AllSound'
        BY <1>4, <2>2 DEF IInv, AllSound, Raise
      <3>3. op[t] = "execute"
        BY <1>4, <2>2 DEF IInv, Raise, Prepared
      <3>4. \A s \in Thread : Prepared(s)'
        BY <1>4, <2>2, <3>3 DEF IInv, TypeOK, Raise, Goto, Prepared, Thread
      <3> QED
        BY <3>1, <3>2, <3>4 DEF IInv
    <2> QED
      BY <2>1, <2>2
  <1>5. CASE RaisedSave(t)
    <2>1. Sound(current, run)
      <3>1. current # None
        BY <1>5 DEF IInv, RaisedSave, Prepared
      <3> QED
        BY <3>1 DEF IInv, AllSound, SoundOrNone
    <2>2. SoundOrNone(sched', run)
      <3>1. PICK next \in NextRun :
              sched' = [current EXCEPT !.status = "ERROR", !.next = next]
        BY <1>5 DEF RaisedSave
      <3> QED
        BY <2>1, <3>1, ErrorSound DEF SoundOrNone
    <2> QED
      BY <1>5, <2>2, ReturnKeeps DEF RaisedSave
  <1>6. CASE CreateSave(t)
    <2>1. SoundOrNone(sched', run)
      BY <1>6, CreatedSound DEF CreateSave, SoundOrNone
    <2> QED
      BY <1>6, <2>1, ReturnKeeps DEF CreateSave
  <1>7. CASE UpdateSave(t)
    <2>1. Sound(copy[t], run)
      BY <1>0, <1>7 DEF IInv, Prepared, UpdateSave, SoundOrNone
    <2>2. SoundOrNone(sched', run)
      BY <1>7, <2>1, UpdatedSound DEF UpdateSave, SoundOrNone
    <2> QED
      BY <1>7, <2>2, ReturnKeeps DEF UpdateSave
  <1>8. CASE SkipSave(t)
    BY <1>0, <1>8, ReturnKeeps DEF SkipSave
  <1>9. CASE StartRun(t)
    <2>1. \A r \in Run : run[r] \in Over => run'[r] = run[r]
      BY <1>9 DEF IInv, TypeOK, StartRun
    <2>2. TypeOK'
      BY <1>9 DEF IInv, TypeOK, StartRun, RunStatus
    <2>3. AllSound'
      BY <1>9, <2>1, RunsEndSound DEF IInv, AllSound, StartRun
    <2>4. \A s \in Thread : Prepared(s)'
      BY <1>9 DEF IInv, StartRun, Prepared
    <2> QED
      BY <2>2, <2>3, <2>4 DEF IInv
  <1>10. CASE ExecuteSave(t)
    <2>1. Sound(copy[t], run) /\ started[t] \in SUBSET Run
      BY <1>0, <1>10 DEF IInv, TypeOK, Prepared, ExecuteSave, SoundOrNone
    <2>2. SoundOrNone(sched', run)
      <3>1. PICK next \in NextRun :
              sched' = Executed(copy[t], started[t], missed[t] > 0, next)
        BY <1>10 DEF ExecuteSave
      <3>2. (missed[t] > 0) \in BOOLEAN
        OBVIOUS
      <3> QED
        BY <2>1, <3>1, <3>2, ExecutedSound DEF SoundOrNone
    <2> QED
      BY <1>10, <2>2, ReturnKeeps DEF ExecuteSave
  <1> QED
    BY <1>1, <1>2, <1>3, <1>4, <1>5, <1>6, <1>7, <1>8, <1>9, <1>10 DEF Continue

LEMMA TickBeginsKeeps ==
  ASSUME IInv, TickBegins
  PROVE  IInv'
  <1>1. TypeOK'
    BY DEF IInv, TypeOK, TickBegins, Goto, Pc, Job, Thread
  <1>2. AllSound'
    BY DEF IInv, TypeOK, AllSound, TickBegins, SoundOrNone
  <1>3. \A s \in Thread : Prepared(s)'
    BY DEF IInv, TypeOK, TickBegins, Goto, Prepared, Exists, Thread
  <1> QED
    BY <1>1, <1>2, <1>3 DEF IInv

LEMMA ReceiveKeeps ==
  ASSUME IInv, NEW u \in User, Receive(u)
  PROVE  IInv'
  <1>0. u \in Thread /\ u # Tick
    BY DEF Thread
  <1>1. CASE CreateCheck(u)
    <2>1. TypeOK'
      BY <1>0, <1>1 DEF IInv, TypeOK, CreateCheck, Goto, Pc
    <2>2. AllSound'
      BY <1>1 DEF IInv, AllSound, CreateCheck
    <2>3. \A s \in Thread : Prepared(s)'
      BY <1>0, <1>1 DEF IInv, TypeOK, CreateCheck, Goto, Prepared
    <2> QED
      BY <2>1, <2>2, <2>3 DEF IInv
  <1>2. CASE Delete(u)
    <2>1. TypeOK'
      BY <1>2 DEF IInv, TypeOK, Delete
    <2>2. AllSound'
      BY <1>2 DEF IInv, AllSound, Delete, SoundOrNone
    <2>3. \A s \in Thread : Prepared(s)'
      BY <1>2 DEF IInv, Delete, Prepared
    <2> QED
      BY <2>1, <2>2, <2>3 DEF IInv
  <1>3. ASSUME NEW job \in Job, Request(u, job)
        PROVE  IInv'
    <2>1. TypeOK'
      BY <1>0, <1>3 DEF IInv, TypeOK, Request, Goto, Pc
    <2>2. AllSound'
      BY <1>3 DEF IInv, AllSound, Request
    <2>3. \A s \in Thread : Prepared(s)'
      BY <1>0, <1>3 DEF IInv, TypeOK, Request, Goto, Prepared
    <2> QED
      BY <2>1, <2>2, <2>3 DEF IInv
  <1> QED
    BY <1>1, <1>2, <1>3 DEF Receive

LEMMA RunKeeps ==
  ASSUME IInv, NEW r \in Run, RunEnds(r) \/ CancelRun(r) \/ DeleteRun(r)
  PROVE  IInv'
  <1>1. /\ run' \in [Run -> RunStatus]
        /\ \A s \in Run : run[s] \in Over => run'[s] \in {run[s], "deleted"}
        /\ UNCHANGED <<sched, pc, op, copy, started, missed, current, restarts>>
    BY DEF IInv, TypeOK, RunEnds, CancelRun, DeleteRun, RunBecomes, RunStatus
  <1>2. TypeOK'
    BY <1>1 DEF IInv, TypeOK
  <1>3. AllSound'
    BY <1>1, RunsEndSound DEF IInv, AllSound
  <1>4. \A s \in Thread : Prepared(s)'
    BY <1>1 DEF IInv, Prepared
  <1> QED
    BY <1>2, <1>3, <1>4 DEF IInv

LEMMA TimeKeeps ==
  ASSUME IInv, TimePasses
  PROVE  IInv'
  <1>1. AllSound'
    BY AgedSound DEF IInv, AllSound, TimePasses
  <1>2. TypeOK'
    BY <1>1 DEF IInv, TypeOK, TimePasses, AllSound, SoundOrNone, Sound
  <1>3. \A t \in Thread : copy[t] # None => copy'[t] # None
    BY AgedSound DEF IInv, AllSound, TimePasses
  <1>4. current # None => current' # None
    BY AgedSound DEF IInv, AllSound, TimePasses
  <1>5. \A t \in Thread : Prepared(t)'
    BY <1>3, <1>4 DEF IInv, Prepared, TimePasses
  <1> QED
    BY <1>1, <1>2, <1>5 DEF IInv

LEMMA RestartKeeps ==
  ASSUME IInv, Restart
  PROVE  IInv'
  <1>1. /\ run' \in [Run -> RunStatus]
        /\ \A s \in Run : run[s] \in Over => run'[s] = run[s]
    BY DEF IInv, TypeOK, Restart, RunStatus
  <1>2. TypeOK'
    BY <1>1 DEF IInv, TypeOK, Restart, Pc, Job
  <1>3. SoundOrNone(sched, run')
    BY <1>1, RunsEndSound DEF IInv, AllSound
  <1>4. AllSound'
    BY <1>3 DEF AllSound, Restart, SoundOrNone
  <1>5. \A s \in Thread : Prepared(s)'
    BY DEF Prepared, Restart
  <1> QED
    BY <1>2, <1>4, <1>5 DEF IInv

LEMMA NextIInv == IInv /\ [Next]_vars => IInv'
  <1> SUFFICES ASSUME IInv, [Next]_vars PROVE IInv'
    OBVIOUS
  <1>1. CASE UNCHANGED vars
    BY <1>1 DEF vars, IInv, TypeOK, AllSound, Prepared
  <1>2. CASE Next
    BY <1>2, ContinueKeeps, TickBeginsKeeps, ReceiveKeeps, RunKeeps, TimeKeeps,
       RestartKeeps DEF Next
  <1> QED
    BY <1>1, <1>2

\* Every definition the program stores or holds a copy of is sound.
THEOREM Invariant == Spec => []IInv
  BY InitIInv, NextIInv, PTL DEF Spec

\* The variables keep their types.
THEOREM TypeCorrect == Spec => []TypeOK
  <1>1. IInv => TypeOK
    BY DEF IInv
  <1> QED
    BY <1>1, Invariant, PTL

\* A RUNNING schedule has an execution in progress, so a refresh can end it.
THEOREM RunningHasExecution == Spec => []RunningBacked
  <1>1. IInv => RunningBacked
    BY DEF IInv, AllSound, SoundOrNone, Sound, RunningBacked, Exists
  <1> QED
    BY <1>1, Invariant, PTL

\* No execution is reported as over, or as clean, when it is not.
THEOREM ReportsAreHonest == Spec => []HonestReport
  <1>1. IInv => HonestReport
    BY DEF IInv, AllSound, SoundOrNone, Sound, HonestReport, OverAndHonest, Honest, Exists
  <1> QED
    BY <1>1, Invariant, PTL
=============================================================================
