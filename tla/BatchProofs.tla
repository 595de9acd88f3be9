----------------------------- MODULE BatchProofs -----------------------------
(***************************************************************************)
(* Proofs about Batch for any number of cases, keys, pool threads, runs    *)
(* and concurrent users, any retry policy and any number of restarts.      *)
(***************************************************************************)
EXTENDS Batch, TLAPS

(* Copies of a definition that the handlers save are definitions again.    *)
LEMMA StatusChanged ==
    ASSUME NEW b \in BatchDefinition, NEW st \in BatchStatus
    PROVE  [b EXCEPT !.status = st] \in BatchDefinition
  BY DEF BatchDefinition

LEMMA CaseReplaced ==
    ASSUME NEW b \in BatchDefinition, NEW c \in Case, NEW new \in BatchCase
    PROVE  [b EXCEPT !.cases[c] = new] \in BatchDefinition
  BY DEF BatchDefinition

LEMMA CasesCancelled ==
    ASSUME NEW b \in BatchDefinition
    PROVE  [status |-> "CANCELLED",
            cases |-> [c \in Case |-> CancelledCase(b.cases[c])]]
             \in BatchDefinition
  <1>1. ASSUME NEW c \in Case PROVE CancelledCase(b.cases[c]) \in BatchCase
    BY DEF CancelledCase, BatchDefinition, BatchCase, CaseStatus
  <1>2. [c \in Case |-> CancelledCase(b.cases[c])] \in [Case -> BatchCase]
    BY <1>1
  <1>3. QED
    BY <1>2 DEF BatchDefinition, BatchStatus

LEMMA RunsOfType ==
    ASSUME NEW b \in BatchDefinition PROVE RunsOf(b) \in SUBSET Run
  BY DEF RunsOf, BatchDefinition, BatchCase

LEMMA ReplaceReadType ==
    ASSUME TypeOK, NEW c \in Case, NEW new \in BatchCase, ReplaceRead(c, new)
    PROVE  /\ batch' \in BatchDefinition
           /\ mutex' \in [snap : BatchDefinition, case : Case, new : BatchCase]
  BY DEF ReplaceRead, TypeOK

LEMMA ReplaceSaveType ==
    ASSUME TypeOK, ReplaceSave
    PROVE  batch' \in BatchDefinition /\ mutex' = None
  <1>1. mutex \in [snap : BatchDefinition, case : Case, new : BatchCase]
    BY DEF TypeOK, ReplaceSave
  <1>2. QED
    BY <1>1, CaseReplaced DEF ReplaceSave

(* The end of an attempt keeps the worker's variables well typed.          *)
LEMMA EndAttemptType ==
    ASSUME TypeOK, NEW s \in Slot, wcase[s] \in Case,
           NEW kind \in FailureKind, EndAttempt(s, kind)
    PROVE  /\ wpc' \in [Slot -> WorkPc]
           /\ wrun' \in [Slot -> Run \cup {None}]
           /\ wtry' \in [Slot -> Nat]
           /\ wres' \in [Slot -> CaseStatus \cup {None}]
           /\ keylock' \in [Key -> Slot \cup {None}]
  <1>1. CaseOutcome(wcase[s], kind) \subseteq CaseStatus
    BY ReviewAssumption DEF CaseOutcome, FailureKind, CaseStatus
  <1>2. wrun' \in [Slot -> Run \cup {None}] /\ wtry' \in [Slot -> Nat]
    BY DEF EndAttempt, TypeOK
  <1>3. CASE MayRetry(s, kind)
    BY <1>2, <1>3 DEF EndAttempt, Goto, TypeOK, WorkPc
  <1>4. CASE ~MayRetry(s, kind)
    <2>1. PICK st \in CaseOutcome(wcase[s], kind) : Finish(s, st)
      BY <1>4 DEF EndAttempt
    <2>2. st \in CaseStatus
      BY <2>1, <1>1
    <2>3. QED
      BY <2>1, <2>2, <1>2 DEF Finish, Goto, TypeOK, WorkPc
  <1>5. QED
    BY <1>3, <1>4

-----------------------------------------------------------------------------
(* The inductive invariant.  A job of the pool has a case and, once done,  *)
(* a result; from the moment it has entered its critical section until it  *)
(* returns it holds the resource lock of that case: only so does the       *)
(* release of one job's lock leave the locks of the others alone.          *)
Entered == {"mark", "markSave", "check", "start", "publish", "publishSave",
            "await"}

JobsKeyed ==
    \A s \in Slot :
        /\ wpc[s] # "free" => wcase[s] \in Case
        /\ wpc[s] = "done" => wres[s] \in CaseStatus
        /\ wpc[s] \in Entered => keylock[Iso[wcase[s]]] = s

IInv == TypeOK /\ JobsKeyed /\ RunsAttended

LEMMA InitIInv == Init => IInv
  <1> SUFFICES ASSUME Init PROVE IInv
    OBVIOUS
  <1>1. batch \in BatchDefinition
    BY DEF Init, BatchDefinition, BatchStatus, BatchCase, CaseStatus
  <1>2. TypeOK
    BY <1>1 DEF Init, TypeOK, Idle, RequestState, CoordPc, WorkPc
  <1>3. JobsKeyed
    BY DEF Init, JobsKeyed, Entered
  <1>4. RunsAttended
    BY DEF Init, RunsAttended, Active
  <1>5. QED
    BY <1>2, <1>3, <1>4 DEF IInv

(* Steps of the requests and of the coordinator that touch no job.         *)
LEMMA JobsUntouched ==
    ASSUME IInv, UNCHANGED workVars, UNCHANGED runVars
    PROVE  JobsKeyed' /\ RunsAttended'
  BY DEF IInv, workVars, runVars, JobsKeyed, RunsAttended, Active

LEMMA RequestStep ==
    ASSUME IInv, NEW u \in User, Request(u) \/ Continue(u)
    PROVE  IInv'
  <1> USE DEF RequestState, coordVars, workVars, runVars
  <1>1. TypeOK
    BY DEF IInv
  <1>2. CASE StartRead(u)
    <2>1. TypeOK'
      BY <1>1, <1>2 DEF StartRead, TypeOK
    <2>2. QED
      BY <2>1, <1>2, JobsUntouched DEF StartRead, IInv
  <1>3. CASE StartSave(u)
    <2>1. batch' \in BatchDefinition
      BY <1>1, <1>3, StatusChanged DEF StartSave, TypeOK, BatchStatus
    <2>2. TypeOK'
      BY <1>1, <1>3, <2>1 DEF StartSave, TypeOK
    <2>3. QED
      BY <2>2, <1>3, JobsUntouched DEF StartSave, IInv
  <1>4. CASE EnsureCoordinator(u)
    <2>1. TypeOK'
      BY <1>1, <1>4 DEF EnsureCoordinator, TypeOK, Idle, CoordPc
    <2>2. QED
      BY <2>1, <1>4, JobsUntouched DEF EnsureCoordinator, IInv
  <1>5. CASE PauseRead(u)
    <2>1. TypeOK'
      BY <1>1, <1>5 DEF PauseRead, TypeOK
    <2>2. QED
      BY <2>1, <1>5, JobsUntouched DEF PauseRead, IInv
  <1>6. CASE PauseSave(u)
    <2>1. batch' \in BatchDefinition
      BY <1>1, <1>6, StatusChanged DEF PauseSave, TypeOK, BatchStatus
    <2>2. TypeOK'
      BY <1>1, <1>6, <2>1 DEF PauseSave, TypeOK, Idle
    <2>3. QED
      BY <2>2, <1>6, JobsUntouched DEF PauseSave, IInv
  <1>7. CASE CancelRead(u)
    <2>1. RunsOf(batch) \in SUBSET Run
      BY <1>1, RunsOfType DEF TypeOK
    <2>2. TypeOK'
      BY <1>1, <1>7, <2>1 DEF CancelRead, TypeOK
    <2>3. QED
      BY <2>2, <1>7, JobsUntouched DEF CancelRead, IInv
  <1>8. CASE CancelOneRun(u)
    <2>1. TypeOK'
      BY <1>1, <1>8 DEF CancelOneRun, MarkCancelled, TypeOK
    <2>2. \A r \in Run : Active(r)' => Active(r)
      BY <1>1, <1>8 DEF CancelOneRun, MarkCancelled, TypeOK, Active
    <2>3. JobsKeyed' /\ RunsAttended'
      BY <1>8, <2>2 DEF CancelOneRun, IInv, JobsKeyed, RunsAttended
    <2>4. QED
      BY <2>1, <2>3 DEF IInv
  <1>9. CASE CancelSave(u)
    <2>1. req[u].snap \in BatchDefinition
      BY <1>1, <1>9 DEF CancelSave, TypeOK
    <2>2. batch' \in BatchDefinition
      BY <1>9, <2>1, CasesCancelled DEF CancelSave
    <2>3. TypeOK'
      BY <1>1, <1>9, <2>2 DEF CancelSave, TypeOK, Idle
    <2>4. QED
      BY <2>3, <1>9, JobsUntouched DEF CancelSave, IInv
  <1>10. QED
    BY <1>2, <1>3, <1>4, <1>5, <1>6, <1>7, <1>8, <1>9 DEF Request, Continue

(* A case record the workers and the coordinator write.                    *)
LEMMA RunningType ==
    ASSUME TypeOK, NEW s \in Slot PROVE Running(s) \in BatchCase
  BY DEF TypeOK, Running, BatchCase, CaseStatus

LEMMA CoordinatorStep ==
    ASSUME IInv, Coordinator
    PROVE  IInv'
  <1> USE DEF CoordPc, reqVars, workVars, runVars
  <1>1. TypeOK
    BY DEF IInv
  <1>2. CASE CoordLoop
    <2>1. TypeOK'
      BY <1>1, <1>2 DEF CoordLoop, TypeOK
    <2>2. QED
      BY <2>1, <1>2, JobsUntouched DEF CoordLoop, IInv
  <1>3. CASE ScanDone
    <2>1. TypeOK'
      BY <1>1, <1>3 DEF ScanDone, TypeOK
    <2>2. QED
      BY <2>1, <1>3, JobsUntouched DEF ScanDone, IInv
  <1>4. CASE CollectSave
    <2>1. batch' \in BatchDefinition /\ mutex' = None
      BY <1>1, <1>4, ReplaceSaveType DEF CollectSave
    <2>2. TypeOK'
      BY <1>1, <1>4, <2>1 DEF CollectSave, TypeOK
    <2>3. QED
      BY <2>2, <1>4, JobsUntouched DEF CollectSave, IInv
  <1>5. CASE CollectDone
    <2>1. TypeOK'
      BY <1>1, <1>5 DEF CollectDone, TypeOK
    <2>2. QED
      BY <2>1, <1>5, JobsUntouched DEF CollectDone, IInv
  <1>6. CASE CoordJoin
    <2>1. TypeOK'
      BY <1>1, <1>6 DEF CoordJoin, TypeOK, WorkPc
    <2>2. JobsKeyed'
      BY <1>6 DEF CoordJoin, JobsKeyed, Entered
    <2>3. \A r \in Run : ~Active(r)
      BY <1>6 DEF CoordJoin, IInv, RunsAttended
    <2>4. RunsAttended'
      BY <2>3, <1>6 DEF CoordJoin, RunsAttended, Active
    <2>5. QED
      BY <2>1, <2>2, <2>4 DEF IInv
  <1>7. CASE FinalRead
    <2>1. TypeOK'
      BY <1>1, <1>7 DEF FinalRead, TypeOK
    <2>2. QED
      BY <2>1, <1>7, JobsUntouched DEF FinalRead, IInv
  <1>8. CASE FinalSave
    <2>1. batch' \in BatchDefinition
      BY <1>1, <1>8, StatusChanged DEF FinalSave, TypeOK, BatchStatus
    <2>2. TypeOK'
      BY <1>1, <1>8, <2>1 DEF FinalSave, TypeOK
    <2>3. QED
      BY <2>2, <1>8, JobsUntouched DEF FinalSave, IInv
  <1>9. CASE CoordExit
    <2>1. TypeOK'
      BY <1>1, <1>9 DEF CoordExit, TypeOK
    <2>2. QED
      BY <2>1, <1>9, JobsUntouched DEF CoordExit, IInv
  <1>10. ASSUME NEW c \in Case, ClaimRead(c) PROVE IInv'
    <2>1. Claimed(c) \in BatchCase
      BY <1>1 DEF Claimed, TypeOK, BatchDefinition, BatchCase, CaseStatus
    <2>2. TypeOK'
      BY <1>1, <1>10, <2>1 DEF ClaimRead, TypeOK
    <2>3. QED
      BY <2>2, <1>10, JobsUntouched DEF ClaimRead, IInv
  <1>11. ASSUME NEW c \in Case, ClaimRefused(c) PROVE IInv'
    <2>1. TypeOK'
      BY <1>1, <1>11 DEF ClaimRefused, TypeOK
    <2>2. QED
      BY <2>1, <1>11, JobsUntouched DEF ClaimRefused, IInv
  <1>12. ASSUME NEW s \in Slot, ClaimSave(s) PROVE IInv'
    <2>1. batch' \in BatchDefinition /\ mutex' = None
      BY <1>1, <1>12, ReplaceSaveType DEF ClaimSave
    <2>2. mutex.case \in Case /\ mutex.new.run \in Run \cup {None}
      BY <1>1, <1>12 DEF ClaimSave, ReplaceSave, TypeOK, BatchCase
    <2>3. TypeOK'
      BY <1>1, <1>12, <2>1, <2>2 DEF ClaimSave, TypeOK, WorkPc
    <2>4. JobsKeyed'
      BY <1>1, <1>12, <2>2 DEF ClaimSave, IInv, JobsKeyed, TypeOK, Entered
    <2>5. RunsAttended'
      BY <1>1, <1>12 DEF ClaimSave, Free, IInv, RunsAttended, Active, TypeOK
    <2>6. QED
      BY <2>3, <2>4, <2>5 DEF IInv
  <1>13. ASSUME NEW s \in Slot, CollectRead(s) PROVE IInv'
    <2>1. wcase[s] \in Case /\ wres[s] \in CaseStatus \cup {None}
      BY <1>1, <1>13 DEF CollectRead, IInv, JobsKeyed, TypeOK
    <2>2. wres[s] \in CaseStatus
      BY <1>13 DEF CollectRead, IInv, JobsKeyed
    <2>3. [status |-> wres[s], run |-> None] \in BatchCase
      BY <2>2 DEF BatchCase
    <2>4. /\ batch' \in BatchDefinition
          /\ mutex' \in [snap : BatchDefinition, case : Case, new : BatchCase]
                          \cup {None}
      BY <1>1, <1>13, <2>1, <2>3, ReplaceReadType
         DEF CollectRead, ReplaceDropped, TypeOK
    <2>5. TypeOK'
      BY <1>1, <1>13, <2>4 DEF CollectRead, FreedSlot, TypeOK, WorkPc
    <2>6. JobsKeyed'
      BY <1>1, <1>13 DEF CollectRead, FreedSlot, IInv, JobsKeyed, TypeOK, Entered
    <2>7. RunsAttended'
      BY <1>1, <1>13 DEF CollectRead, FreedSlot, IInv, RunsAttended, Active, TypeOK
    <2>8. QED
      BY <2>5, <2>6, <2>7 DEF IInv
  <1>14. QED
    BY <1>2, <1>3, <1>4, <1>5, <1>6, <1>7, <1>8, <1>9, <1>10, <1>11, <1>12,
       <1>13 DEF Coordinator

(* The end of an attempt: the job returns or goes back to its check.  It   *)
(* may leave its own run, never another job's, and never lets go of a lock *)
(* that another job holds.                                                 *)
LEMMA EndAttemptKeeps ==
    ASSUME IInv, NEW s \in Slot, wpc[s] \in Entered,
           NEW kind \in FailureKind, EndAttempt(s, kind), UNCHANGED wcase
    PROVE  /\ JobsKeyed'
           /\ \A t \in Slot, k \in Key :
                 t # s /\ keylock[k] = t
                   => /\ keylock'[k] = t
                      /\ wpc'[t] = wpc[t]
                      /\ wrun'[t] = wrun[t]
  <1>1. TypeOK /\ JobsKeyed /\ wcase[s] \in Case /\ keylock[Iso[wcase[s]]] = s
    BY DEF IInv, JobsKeyed, Entered
  <1>2. Iso[wcase[s]] \in Key
    BY <1>1, IsoAssumption
  <1>3. CASE MayRetry(s, kind)
    BY <1>1, <1>3 DEF EndAttempt, Goto, TypeOK, JobsKeyed, Entered
  <1>4. CASE ~MayRetry(s, kind)
    <2>1. PICK st \in CaseOutcome(wcase[s], kind) : Finish(s, st)
      BY <1>4 DEF EndAttempt
    <2>2. st \in CaseStatus
      BY <2>1, <1>1, ReviewAssumption DEF CaseOutcome, FailureKind, CaseStatus
    <2>3. \A t \in Slot : wpc'[t] \in Entered => t # s /\ wpc[t] \in Entered
      BY <1>1, <2>1 DEF Finish, Goto, TypeOK, Entered
    <2>4. \A k \in Key : keylock[k] # s => keylock'[k] = keylock[k]
      BY <1>1, <1>2, <2>1 DEF Finish, TypeOK
    <2>5. \A t \in Slot : wpc'[t] \in Entered => keylock'[Iso[wcase[t]]] = t
      BY <1>1, <2>3, <2>4, IsoAssumption DEF JobsKeyed, Entered
    <2>6. \A t \in Slot : wpc'[t] = "done" => wres'[t] \in CaseStatus
      BY <1>1, <2>1, <2>2 DEF Finish, Goto, TypeOK, JobsKeyed
    <2>7. \A t \in Slot : wpc'[t] # "free" => wcase[t] \in Case
      BY <1>1, <2>1 DEF Finish, Goto, TypeOK, JobsKeyed
    <2>8. JobsKeyed'
      BY <2>5, <2>6, <2>7 DEF JobsKeyed
    <2>9. QED
      BY <2>8, <2>4, <1>1, <2>1 DEF EndAttempt, Finish, Goto, TypeOK
  <1>5. QED
    BY <1>3, <1>4

LEMMA WorkerStep ==
    ASSUME IInv, NEW s \in Slot, Worker(s)
    PROVE  IInv'
  <1> USE DEF reqVars, coordVars, runVars
  <1>1. TypeOK /\ JobsKeyed /\ RunsAttended
    BY DEF IInv
  <1>2. wpc[s] # "free" /\ wcase[s] \in Case
    BY <1>1 DEF Worker, WorkLock, WorkMark, WorkMarkSave, WorkCheck,
       WorkStartRun, WorkStartFails, WorkPublish, WorkPublishSave, WorkAwait,
       WorkAwaitCancel, JobsKeyed
  <1>3. Iso[wcase[s]] \in Key
    BY <1>2, IsoAssumption
  <1>4. CASE WorkLock(s)
    <2>1. TypeOK'
      BY <1>1, <1>4 DEF WorkLock, Goto, TypeOK, WorkPc
    <2>2. \A k \in Key : keylock[k] # None => keylock'[k] = keylock[k]
      BY <1>1, <1>3, <1>4 DEF WorkLock, TypeOK
    <2>3. JobsKeyed'
      BY <1>1, <1>2, <1>3, <1>4, <2>2, IsoAssumption, NoneAssumption
         DEF WorkLock, Goto, JobsKeyed, TypeOK, Entered
    <2>4. RunsAttended'
      BY <1>1, <1>4, <2>2, IsoAssumption, NoneAssumption
         DEF WorkLock, Goto, RunsAttended, Active, TypeOK
    <2>5. QED
      BY <2>1, <2>3, <2>4 DEF IInv
  <1>5. CASE WorkMark(s)
    <2>1. /\ batch' \in BatchDefinition
          /\ mutex' \in [snap : BatchDefinition, case : Case, new : BatchCase]
                          \cup {None}
      BY <1>1, <1>2, <1>5, RunningType, ReplaceReadType
         DEF WorkMark, ReplaceDropped, TypeOK
    <2>2. TypeOK'
      BY <1>1, <1>5, <2>1 DEF WorkMark, Goto, TypeOK, WorkPc
    <2>3. JobsKeyed' /\ RunsAttended'
      BY <1>1, <1>5 DEF WorkMark, Goto, JobsKeyed, RunsAttended, Active, TypeOK, Entered
    <2>4. QED
      BY <2>2, <2>3 DEF IInv
  <1>6. CASE WorkMarkSave(s)
    <2>1. batch' \in BatchDefinition /\ mutex' = None
      BY <1>1, <1>6, ReplaceSaveType DEF WorkMarkSave
    <2>2. TypeOK'
      BY <1>1, <1>6, <2>1 DEF WorkMarkSave, Goto, TypeOK, WorkPc
    <2>3. JobsKeyed' /\ RunsAttended'
      BY <1>1, <1>6 DEF WorkMarkSave, Goto, JobsKeyed, RunsAttended, Active, TypeOK, Entered
    <2>4. QED
      BY <2>2, <2>3 DEF IInv
  <1>7. CASE WorkCheck(s)
    <2>1. CASE batch.status = "CANCELLED"
      <3>1. Finish(s, "CANCELLED")
        BY <1>7, <2>1 DEF WorkCheck
      <3>2. TypeOK'
        BY <1>1, <1>7, <3>1 DEF WorkCheck, Finish, Goto, TypeOK, WorkPc, CaseStatus
      <3>3. keylock[Iso[wcase[s]]] = s
        BY <1>1, <1>7 DEF WorkCheck, JobsKeyed, Entered
      <3>4. \A k \in Key : keylock[k] # s => keylock'[k] = keylock[k]
        BY <1>1, <1>3, <3>1, <3>3 DEF Finish, TypeOK
      <3>5. \A t \in Slot : wpc'[t] \in Entered => t # s /\ wpc[t] \in Entered
        BY <1>1, <3>1 DEF Finish, Goto, TypeOK, Entered
      <3>6. JobsKeyed'
        BY <1>1, <1>7, <3>1, <3>4, <3>5, IsoAssumption
           DEF WorkCheck, Finish, Goto, JobsKeyed, TypeOK, Entered, CaseStatus
      <3>7. RunsAttended'
        BY <1>1, <1>7, <3>1, <3>4, IsoAssumption
           DEF WorkCheck, Finish, Goto, RunsAttended, Active, TypeOK
      <3>8. QED
        BY <3>2, <3>6, <3>7 DEF IInv
    <2>2. CASE batch.status # "CANCELLED"
      <3>1. TypeOK'
        BY <1>1, <1>7, <2>2 DEF WorkCheck, Goto, TypeOK, WorkPc
      <3>2. JobsKeyed' /\ RunsAttended'
        BY <1>1, <1>7, <2>2
           DEF WorkCheck, Goto, JobsKeyed, RunsAttended, Active, TypeOK, Entered
      <3>3. QED
        BY <3>1, <3>2 DEF IInv
    <2>3. QED
      BY <2>1, <2>2
  <1>8. CASE WorkStartRun(s)
    <2>1. PICK r \in Run :
            /\ FreshRun(r)
            /\ run' = [run EXCEPT ![r] = "RUNNING"]
            /\ browser' = [browser EXCEPT ![r] = wcase[s]]
            /\ wrun' = [wrun EXCEPT ![s] = r]
      BY <1>8 DEF WorkStartRun
    <2>2. TypeOK'
      BY <1>1, <1>2, <1>8, <2>1 DEF WorkStartRun, Goto, TypeOK, WorkPc
    <2>3. JobsKeyed'
      BY <1>1, <1>8 DEF WorkStartRun, Goto, JobsKeyed, TypeOK, Entered
    <2>4. ASSUME NEW q \in Run, Active(q)'
          PROVE  \E t \in Slot : /\ wrun'[t] = q
                                 /\ wpc'[t] \in {"publish", "publishSave", "await"}
                                 /\ keylock'[Iso[browser'[q]]] = t
      <3>1. CASE q = r
        <4>1. keylock[Iso[wcase[s]]] = s
          BY <1>1, <1>8 DEF WorkStartRun, JobsKeyed, Entered
        <4>2. QED
          BY <3>1, <4>1, <1>1, <1>8, <2>1 DEF WorkStartRun, Goto, TypeOK
      <3>2. CASE q # r
        <4>1. Active(q) /\ browser'[q] = browser[q]
          BY <3>2, <2>1, <2>4, <1>1 DEF Active, TypeOK
        <4>2. PICK t \in Slot : /\ wrun[t] = q
                               /\ wpc[t] \in {"publish", "publishSave", "await"}
                               /\ keylock[Iso[browser[q]]] = t
          BY <4>1, <1>1 DEF RunsAttended
        <4>3. t # s
          BY <4>2, <1>8 DEF WorkStartRun
        <4>4. QED
          BY <4>1, <4>2, <4>3, <2>1, <1>1, <1>8 DEF WorkStartRun, Goto, TypeOK
      <3>3. QED
        BY <3>1, <3>2
    <2>5. RunsAttended'
      BY <2>4 DEF RunsAttended
    <2>6. QED
      BY <2>2, <2>3, <2>5 DEF IInv
  <1>9. CASE WorkStartFails(s)
    <2>1. "infra" \in FailureKind /\ wpc[s] \in Entered
      BY <1>9 DEF WorkStartFails, FailureKind, Entered
    <2>2. EndAttempt(s, "infra") /\ UNCHANGED wcase
      BY <1>9 DEF WorkStartFails
    <2>3. TypeOK'
      BY <1>1, <1>2, <1>9, <2>1, EndAttemptType DEF WorkStartFails, TypeOK
    <2>4. JobsKeyed'
      BY <2>1, <2>2, EndAttemptKeeps
    <2>5. \A t \in Slot, k \in Key : t # s /\ keylock[k] = t
             => keylock'[k] = t /\ wpc'[t] = wpc[t] /\ wrun'[t] = wrun[t]
      BY <2>1, <2>2, EndAttemptKeeps
    <2>6. RunsAttended'
      BY <1>1, <1>9, <2>5, IsoAssumption, NoneAssumption
         DEF WorkStartFails, RunsAttended, Active, TypeOK
    <2>7. QED
      BY <2>3, <2>4, <2>6 DEF IInv
  <1>10. CASE WorkPublish(s)
    <2>1. /\ batch' \in BatchDefinition
          /\ mutex' \in [snap : BatchDefinition, case : Case, new : BatchCase]
                          \cup {None}
      BY <1>1, <1>2, <1>10, RunningType, ReplaceReadType
         DEF WorkPublish, ReplaceDropped, TypeOK
    <2>2. TypeOK'
      BY <1>1, <1>10, <2>1 DEF WorkPublish, Goto, TypeOK, WorkPc
    <2>3. JobsKeyed' /\ RunsAttended'
      BY <1>1, <1>10
         DEF WorkPublish, Goto, JobsKeyed, RunsAttended, Active, TypeOK, Entered
    <2>4. QED
      BY <2>2, <2>3 DEF IInv
  <1>11. CASE WorkPublishSave(s)
    <2>1. batch' \in BatchDefinition /\ mutex' = None
      BY <1>1, <1>11, ReplaceSaveType DEF WorkPublishSave
    <2>2. TypeOK'
      BY <1>1, <1>11, <2>1 DEF WorkPublishSave, Goto, TypeOK, WorkPc
    <2>3. JobsKeyed' /\ RunsAttended'
      BY <1>1, <1>11
         DEF WorkPublishSave, Goto, JobsKeyed, RunsAttended, Active, TypeOK, Entered
    <2>4. QED
      BY <2>2, <2>3 DEF IInv
  <1>12. CASE WorkAwait(s)
    <2>1. PICK kind \in KindsOf(run[wrun[s]]) : EndAttempt(s, kind)
      BY <1>12 DEF WorkAwait
    <2>2. kind \in FailureKind /\ wpc[s] \in Entered
      BY <1>12, <2>1 DEF WorkAwait, KindsOf, FailureKind, Entered
    <2>3. TypeOK'
      BY <1>1, <1>2, <1>12, <2>1, <2>2, EndAttemptType DEF WorkAwait, TypeOK
    <2>4. UNCHANGED wcase
      BY <1>12 DEF WorkAwait
    <2>5. JobsKeyed'
      BY <2>1, <2>2, <2>4, EndAttemptKeeps
    <2>6. \A t \in Slot, k \in Key : t # s /\ keylock[k] = t
             => keylock'[k] = t /\ wpc'[t] = wpc[t] /\ wrun'[t] = wrun[t]
      BY <2>1, <2>2, <2>4, EndAttemptKeeps
    <2>7. RunsAttended'
      BY <1>1, <1>12, <2>6, IsoAssumption, NoneAssumption
         DEF WorkAwait, RunsAttended, Active, TypeOK
    <2>8. QED
      BY <2>3, <2>5, <2>7 DEF IInv
  <1>13. CASE WorkAwaitCancel(s)
    <2>1. "cancelled" \in FailureKind /\ wpc[s] \in Entered
      BY <1>13 DEF WorkAwaitCancel, FailureKind, Entered
    <2>2. EndAttempt(s, "cancelled") /\ UNCHANGED wcase
      BY <1>13 DEF WorkAwaitCancel
    <2>3. TypeOK'
      BY <1>1, <1>2, <1>13, <2>1, EndAttemptType
         DEF WorkAwaitCancel, MarkCancelled, TypeOK
    <2>4. JobsKeyed'
      BY <2>1, <2>2, EndAttemptKeeps
    <2>5. \A t \in Slot, k \in Key : t # s /\ keylock[k] = t
             => keylock'[k] = t /\ wpc'[t] = wpc[t] /\ wrun'[t] = wrun[t]
      BY <2>1, <2>2, EndAttemptKeeps
    <2>6. \A r \in Run : Active(r)' => Active(r) /\ r # wrun[s]
      BY <1>1, <1>13 DEF WorkAwaitCancel, MarkCancelled, Active, TypeOK
    <2>7. UNCHANGED browser
      BY <1>13 DEF WorkAwaitCancel
    <2>8. RunsAttended'
      BY <1>1, <2>5, <2>6, <2>7, IsoAssumption, NoneAssumption
         DEF RunsAttended, Active, TypeOK
    <2>9. QED
      BY <2>3, <2>4, <2>8 DEF IInv
  <1>14. QED
    BY <1>4, <1>5, <1>6, <1>7, <1>8, <1>9, <1>10, <1>11, <1>12, <1>13 DEF Worker

(* Steps of the runs' own threads and of the process.                      *)
LEMMA RunStep ==
    ASSUME IInv, NEW r \in Run, CancelRunDirectly(r) \/ RunEnds(r)
    PROVE  IInv'
  <1>1. TypeOK'
    BY DEF IInv, CancelRunDirectly, RunEnds, MarkCancelled, TypeOK, reqVars,
           coordVars, workVars
  <1>2. \A q \in Run : Active(q)' => Active(q) /\ browser'[q] = browser[q]
    BY DEF IInv, CancelRunDirectly, RunEnds, MarkCancelled, TypeOK, Active
  <1>3. JobsKeyed' /\ RunsAttended'
    BY <1>2 DEF IInv, CancelRunDirectly, RunEnds, workVars, JobsKeyed, RunsAttended
  <1>4. QED
    BY <1>1, <1>3 DEF IInv

LEMMA RestartStep ==
    ASSUME IInv, Restart
    PROVE  IInv'
  <1>1. TypeOK'
    BY DEF IInv, Restart, TypeOK, Idle, RequestState, CoordPc, WorkPc
  <1>2. JobsKeyed' /\ RunsAttended'
    BY DEF Restart, JobsKeyed, Entered, RunsAttended, Active
  <1>3. QED
    BY <1>1, <1>2 DEF IInv

LEMMA Inductive == IInv /\ [Next]_vars => IInv'
  <1> SUFFICES ASSUME IInv, [Next]_vars PROVE IInv'
    OBVIOUS
  <1>1. CASE UNCHANGED vars
    BY <1>1 DEF vars, IInv, TypeOK, JobsKeyed, RunsAttended, Active
  <1>2. CASE Next
    BY <1>2, RequestStep, CoordinatorStep, WorkerStep, RunStep, RestartStep
       DEF Next
  <1>3. QED
    BY <1>1, <1>2

\* The inductive invariant holds in every reachable state of Batch.
THEOREM Invariant == Spec => []IInv
  BY InitIInv, Inductive, PTL DEF Spec

\* Every variable of the batch machinery keeps its type.
THEOREM TypeCorrect == Spec => []TypeOK
  <1>1. IInv => TypeOK
    BY DEF IInv
  <1>2. QED
    BY <1>1, Invariant, PTL

\* No active run is ever without the worker that waits for it under the
\* resource lock of its isolation key (_execute_case, _await_terminal).
THEOREM Attended == Spec => []RunsAttended
  <1>1. IInv => RunsAttended
    BY DEF IInv
  <1>2. QED
    BY <1>1, Invariant, PTL

\* Two active runs never share an isolation key (_resource_lock).
THEOREM KeyExclusion == Spec => []OneRunPerKey
  <1>1. RunsAttended => OneRunPerKey
    BY DEF RunsAttended, OneRunPerKey
  <1>2. QED
    BY <1>1, Attended, PTL

-----------------------------------------------------------------------------
(* An unattended batch: one user, who starts it, and nobody who pauses or  *)
(* cancels it.  Single runs may be cancelled, attempts be retried and the  *)
(* process restart.                                                        *)
(*                                                                         *)
(* The inductive invariant.  Nobody but the holder of the mutation lock    *)
(* writes the definition while the coordinator is alive, so the copy under *)
(* the lock is the definition itself; a case is RUNNING exactly as long as *)
(* one job has it or its result is being collected.                        *)
Live == {"loop", "scan", "claimSave", "collect", "collectSave"}
Closing == {"join", "finalRead", "finalSave"}
Saving == {"markSave", "publishSave"}
Result == {"COMPLETED", "FAILED", "REVIEW_REQUIRED", "CANCELLED"}

StatusOf(c) == batch.cases[c].status
AllFree == \A s \in Slot : wpc[s] = "free"
AllSettled == \A c \in Case : StatusOf(c) \notin {"PENDING", "RUNNING"}

\* What the requests and the coordinator are about follows the batch's status.
Phases ==
    /\ batch.status \notin {"PAUSED", "CANCELLED"}
    /\ \A u \in User :
         /\ req[u].pc \in {"idle", "startSave", "ensure"}
         /\ req[u].pc = "startSave" => batch.status = "READY" /\ req[u].snap = batch
         /\ req[u].pc = "ensure" =>
              /\ batch.status = "RUNNING" /\ coord = "dead"
              /\ \A c \in Case : StatusOf(c) # "RUNNING"
    /\ batch.status \in {"DRAFT", "READY"} =>
         /\ coord = "dead"
         /\ \A c \in Case : StatusOf(c) \in {"PENDING", "SKIPPED"}
    /\ coord \in Live \cup Closing => batch.status = "RUNNING"
    /\ coord = "exit" => batch.status \in Finished
    /\ coord \in Closing => AllSettled
    /\ coord = "finalSave" => final = batch
    /\ FinishedIsSettled

\* One thread at a time holds the mutation lock, and its copy is current.
Locked ==
    /\ mutex # None =>
         /\ mutex.snap = batch
         /\ coord \in {"claimSave", "collectSave"} \/ \E s \in Slot : wpc[s] \in Saving
    /\ \A s \in Slot : wpc[s] \in Saving =>
         /\ mutex # None /\ mutex.case = wcase[s] /\ mutex.new.status = "RUNNING"
         /\ coord \notin {"claimSave", "collectSave"}
         /\ \A t \in Slot : wpc[t] \in Saving => t = s
    /\ coord = "claimSave" =>
         /\ mutex # None /\ mutex.new.status = "RUNNING"
         /\ StatusOf(mutex.case) = "PENDING"
    /\ coord = "collectSave" =>
         /\ mutex # None /\ mutex.new.status \in Result
         /\ StatusOf(mutex.case) = "RUNNING"
         /\ \A s \in Slot : wcase[s] # mutex.case

\* The jobs of the pool are those of the RUNNING cases.
JobsOfCases ==
    /\ \A s \in Slot :
         /\ wpc[s] = "free" <=> wcase[s] = None
         /\ wpc[s] # "free" => StatusOf(wcase[s]) = "RUNNING"
         /\ wpc[s] = "done" => wres[s] \in Result
    /\ ClaimedOnce
    /\ coord \notin Live => AllFree
    /\ coord \in Live => \A c \in Case : StatusOf(c) = "RUNNING" =>
         \/ \E s \in Slot : wcase[s] = c
         \/ coord = "collectSave" /\ mutex.case = c
    /\ coord \in {"scan", "claimSave"} =>
         pending = {c \in Case : StatusOf(c) = "PENDING"}

UInv == IInv /\ Phases /\ Locked /\ JobsOfCases

\* The steps of BatchPromise, and its view of the batch.
View == <<batch.status, [c \in Case |-> StatusOf(c)]>>
Promised == [Promise!Next]_View

LEMMA InitUInv == Init => UInv
  <1> SUFFICES ASSUME Init PROVE UInv
    OBVIOUS
  <1>1. IInv
    BY InitIInv
  <1>2. Phases
    BY DEF Init, Phases, StatusOf, Idle, Live, Closing, FinishedIsSettled, Finished
  <1>3. Locked
    BY DEF Init, Locked, Saving
  <1>4. JobsOfCases
    BY DEF Init, JobsOfCases, ClaimedOnce, AllFree, Live
  <1>5. QED
    BY <1>1, <1>2, <1>3, <1>4 DEF UInv

(* A step that leaves the definition alone is none of BatchPromise.        *)
LEMMA QuietView ==
    ASSUME UNCHANGED batch PROVE Promised
  BY DEF Promised, View, StatusOf

(* What saving under the lock does to the current definition.              *)
LEMMA Replaced ==
    ASSUME UInv, ReplaceSave
    PROVE  /\ mutex.case \in Case /\ mutex' = None
           /\ batch'.status = batch.status
           /\ batch'.cases[mutex.case].status = mutex.new.status
           /\ \A c \in Case : c # mutex.case => StatusOf(c)' = StatusOf(c)
  <1>1. mutex.case \in Case /\ mutex.snap = batch /\ batch \in BatchDefinition
    BY DEF UInv, IInv, TypeOK, Locked, ReplaceSave
  <1>2. QED
    BY <1>1 DEF ReplaceSave, StatusOf, BatchDefinition

(* Steps of a job that hold no lock before or after.                       *)
LEMMA JobMoves ==
    ASSUME UInv, NEW s \in Slot, NEW pc \in WorkPc \ (Saving \cup {"free"}),
           wpc[s] \notin Saving \cup {"free"}, Goto(s, pc),
           pc = "done" => wres'[s] \in Result,
           \A t \in Slot : t # s => wres'[t] = wres[t],
           UNCHANGED <<batch, mutex, req, coord, pending, final, wcase>>
    PROVE  Phases' /\ Locked' /\ JobsOfCases'
  <1>1. TypeOK /\ Phases /\ Locked /\ JobsOfCases
    BY DEF UInv, IInv
  <1>2. wpc'[s] = pc /\ \A t \in Slot : t # s => wpc'[t] = wpc[t]
    BY <1>1 DEF Goto, TypeOK
  <1>3. Phases'
    BY <1>1 DEF Phases, StatusOf, FinishedIsSettled, AllSettled
  <1>4. Locked'
    BY <1>1, <1>2 DEF Locked, StatusOf, Saving
  <1>5. coord \in Live
    BY <1>1 DEF JobsOfCases, AllFree
  <1>6. JobsOfCases'
    BY <1>1, <1>2, <1>5 DEF JobsOfCases, StatusOf, ClaimedOnce, AllFree
  <1>7. QED
    BY <1>3, <1>4, <1>6

LEMMA UserStep ==
    ASSUME Unattended, UInv, NEW u \in User, Request(u) \/ Continue(u)
    PROVE  Phases' /\ Locked' /\ JobsOfCases' /\ Promised
  <1> USE DEF coordVars, workVars, runVars
  <1>1. TypeOK /\ Phases /\ Locked /\ JobsOfCases
    BY DEF UInv, IInv
  <1>2. \A v \in User : v = u
    BY DEF Unattended
  <1>3. CASE StartRead(u)
    <2>1. Phases'
      BY <1>1, <1>3 DEF StartRead, Phases, StatusOf, FinishedIsSettled, AllSettled, TypeOK
    <2>2. Locked' /\ JobsOfCases'
      BY <1>1, <1>3 DEF StartRead, Locked, JobsOfCases, StatusOf, ClaimedOnce, AllFree
    <2>3. QED
      BY <2>1, <2>2, <1>3, QuietView DEF StartRead
  <1>4. CASE StartSave(u)
    <2>1. batch.status = "READY" /\ req[u].snap = batch /\ coord = "dead" /\ coord' = coord
      BY <1>1, <1>4 DEF StartSave, Phases
    <2>2. AllFree /\ mutex = None
      BY <1>1, <2>1 DEF JobsOfCases, AllFree, Locked, Live, Saving
    <2>3. batch'.status = "RUNNING" /\ \A c \in Case : StatusOf(c)' = StatusOf(c)
      BY <1>1, <1>4, <2>1 DEF StartSave, StatusOf, TypeOK, BatchDefinition
    <2>4. Phases'
      BY <1>1, <1>2, <1>4, <2>1, <2>3
         DEF StartSave, Phases, FinishedIsSettled, AllSettled, TypeOK, Live, Closing
    <2>5. Locked'
      BY <1>1, <1>4, <2>1, <2>2, <2>3 DEF StartSave, Locked, AllFree, Saving
    <2>6. JobsOfCases'
      BY <1>1, <1>4, <2>1, <2>2, <2>3
         DEF StartSave, JobsOfCases, ClaimedOnce, AllFree, Live, TypeOK
    <2>7. Promise!Start
      BY <2>1, <2>3 DEF Promise!Start, StatusOf
    <2>8. QED
      BY <2>4, <2>5, <2>6, <2>7 DEF Promised, Promise!Next
  <1>5. CASE EnsureCoordinator(u)
    <2>1. Phases'
      BY <1>1, <1>2, <1>5
         DEF EnsureCoordinator, Phases, StatusOf, FinishedIsSettled, AllSettled, TypeOK,
             Idle, Closing
    <2>2. Locked'
      BY <1>1, <1>5 DEF EnsureCoordinator, Locked, StatusOf, Phases
    <2>3. JobsOfCases'
      BY <1>1, <1>5
         DEF EnsureCoordinator, JobsOfCases, StatusOf, ClaimedOnce, AllFree, Live, Phases
    <2>4. QED
      BY <2>1, <2>2, <2>3, <1>5, QuietView DEF EnsureCoordinator
  <1>6. ~PauseRead(u) /\ ~CancelRead(u)
    BY DEF Unattended, PauseRead, CancelRead
  <1>7. ~PauseSave(u) /\ ~CancelOneRun(u) /\ ~CancelSave(u)
    BY <1>1 DEF Phases, PauseSave, CancelOneRun, CancelSave
  <1>8. QED
    BY <1>3, <1>4, <1>5, <1>6, <1>7 DEF Request, Continue

LEMMA CoordStep ==
    ASSUME Unattended, UInv, Coordinator
    PROVE  Phases' /\ Locked' /\ JobsOfCases' /\ Promised
  <1> USE DEF reqVars, workVars, runVars
  <1>1. TypeOK /\ Phases /\ Locked /\ JobsOfCases
    BY DEF UInv, IInv
  <1>2. CASE CoordLoop
    <2>1. coord = "loop" /\ batch.status = "RUNNING"
      BY <1>1, <1>2 DEF CoordLoop, Phases, Live
    <2>2. coord' = "scan" /\ pending' = {c \in Case : StatusOf(c) = "PENDING"}
      BY <1>2, <2>1 DEF CoordLoop, StatusOf, IsPending
    <2>3. Phases'
      BY <1>1, <1>2, <2>1, <2>2
         DEF CoordLoop, Phases, StatusOf, FinishedIsSettled, AllSettled, Closing
    <2>4. Locked'
      BY <1>1, <1>2, <2>1, <2>2 DEF CoordLoop, Locked, StatusOf
    <2>5. JobsOfCases'
      BY <1>1, <1>2, <2>1, <2>2 DEF CoordLoop, JobsOfCases, StatusOf, ClaimedOnce, AllFree, Live
    <2>6. QED
      BY <2>3, <2>4, <2>5, <1>2, QuietView DEF CoordLoop
  <1>3. CASE ScanDone
    <2>1. coord = "scan" /\ batch.status = "RUNNING"
      BY <1>1, <1>3 DEF ScanDone, Phases, Live
    <2>2. pending = {c \in Case : StatusOf(c) = "PENDING"}
      BY <1>1, <2>1 DEF JobsOfCases
    <2>3. CASE FreeSlots = Slot
      <3>1. coord' = "join" /\ pending = {}
        BY <1>3, <2>3, SlotAssumption DEF ScanDone
      <3>2. AllFree
        BY <2>3 DEF FreeSlots, Free, AllFree
      <3>3. AllSettled
        BY <1>1, <2>1, <2>2, <3>1, <3>2, NoneAssumption DEF AllSettled, JobsOfCases, AllFree, Live
      <3>4. mutex = None
        BY <1>1, <2>1, <3>2 DEF Locked, AllFree, Saving
      <3>5. Phases'
        BY <1>1, <1>3, <2>1, <3>1, <3>3
           DEF ScanDone, Phases, StatusOf, FinishedIsSettled, AllSettled, Closing
      <3>6. Locked'
        BY <1>1, <1>3, <3>1, <3>2, <3>4 DEF ScanDone, Locked, AllFree, Saving
      <3>7. JobsOfCases'
        BY <1>1, <1>3, <3>1, <3>2 DEF ScanDone, JobsOfCases, StatusOf, ClaimedOnce, AllFree, Live
      <3>8. QED
        BY <3>5, <3>6, <3>7, <1>3, QuietView DEF ScanDone
    <2>4. CASE FreeSlots # Slot
      <3>1. coord' = "collect"
        BY <1>3, <2>4 DEF ScanDone
      <3>2. Phases'
        BY <1>1, <1>3, <2>1, <3>1
           DEF ScanDone, Phases, StatusOf, FinishedIsSettled, AllSettled, Closing
      <3>3. Locked'
        BY <1>1, <1>3, <2>1, <3>1 DEF ScanDone, Locked, StatusOf
      <3>4. JobsOfCases'
        BY <1>1, <1>3, <2>1, <3>1 DEF ScanDone, JobsOfCases, StatusOf, ClaimedOnce, AllFree, Live
      <3>5. QED
        BY <3>2, <3>3, <3>4, <1>3, QuietView DEF ScanDone
    <2>5. QED
      BY <2>3, <2>4
  <1>4. CASE CollectSave
    <2>1. /\ mutex # None /\ mutex.new.status \in Result
          /\ StatusOf(mutex.case) = "RUNNING" /\ batch.status = "RUNNING"
          /\ \A s \in Slot : wcase[s] # mutex.case /\ wpc[s] \notin Saving
      BY <1>1, <1>4 DEF CollectSave, Locked, Phases, Live
    <2>2. /\ mutex.case \in Case /\ mutex' = None
          /\ batch'.status = batch.status
          /\ batch'.cases[mutex.case].status = mutex.new.status
          /\ \A c \in Case : c # mutex.case => StatusOf(c)' = StatusOf(c)
      BY <1>4, Replaced DEF CollectSave
    <2>3. coord = "collectSave" /\ coord' = "collect"
      BY <1>4 DEF CollectSave
    <2>4. Phases'
      BY <1>1, <1>4, <2>1, <2>2, <2>3
         DEF CollectSave, Phases, FinishedIsSettled, Closing, Live, Finished
    <2>5. Locked'
      BY <1>4, <2>1, <2>2, <2>3 DEF CollectSave, Locked
    <2>6. \A c \in Case : StatusOf(c)' = "RUNNING" => c # mutex.case
      BY <2>1, <2>2 DEF StatusOf, Result
    <2>7. \A s \in Slot : wpc[s] # "free" => StatusOf(wcase[s])' = "RUNNING"
      <3> SUFFICES ASSUME NEW s \in Slot, wpc[s] # "free" PROVE StatusOf(wcase[s])' = "RUNNING"
        BY <1>4 DEF CollectSave
      <3>1. wcase[s] \in Case /\ wcase[s] # mutex.case /\ StatusOf(wcase[s]) = "RUNNING"
        BY <1>1, <2>1 DEF JobsOfCases, TypeOK
      <3>2. wcase'[s] = wcase[s]
        BY <1>4 DEF CollectSave
      <3>3. QED
        BY <3>1, <3>2, <2>2 DEF StatusOf
    <2>8. JobsOfCases'
      BY <1>1, <1>4, <2>2, <2>3, <2>6, <2>7
         DEF CollectSave, JobsOfCases, ClaimedOnce, AllFree, Live
    <2>12. PICK d \in Case : d = mutex.case
      BY <2>2
    <2>9. Promise!Settle(d)
      <3>1. mutex.new.status \in Promise!Settled \ {"SKIPPED"}
        BY <2>1 DEF Result, Promise!Settled
      <3>2. [c \in Case |-> batch.cases[c].status]'
              = [[c \in Case |-> batch.cases[c].status]
                   EXCEPT ![d] = mutex.new.status]
        BY <2>2, <2>12 DEF StatusOf
      <3>3. QED
        BY <2>1, <2>2, <2>12, <3>1, <3>2 DEF Promise!Settle, StatusOf
    <2>10. Promised
      BY <2>9 DEF Promised, Promise!Next, Promise!Progress
    <2>11. QED
      BY <2>4, <2>5, <2>8, <2>10
  <1>5. CASE CollectDone
    <2>1. coord = "collect" /\ coord' = "loop"
      BY <1>5 DEF CollectDone
    <2>2. Phases'
      BY <1>1, <1>5, <2>1
         DEF CollectDone, Phases, StatusOf, FinishedIsSettled, AllSettled, Closing, Live
    <2>3. Locked'
      BY <1>1, <1>5, <2>1 DEF CollectDone, Locked, StatusOf
    <2>4. JobsOfCases'
      BY <1>1, <1>5, <2>1 DEF CollectDone, JobsOfCases, StatusOf, ClaimedOnce, AllFree, Live
    <2>5. QED
      BY <2>2, <2>3, <2>4, <1>5, QuietView DEF CollectDone
  <1>6. CASE CoordJoin
    <2>1. coord = "join" /\ coord' = "finalRead" /\ AllFree
      BY <1>1, <1>6 DEF CoordJoin, JobsOfCases, Live
    <2>2. mutex = None
      BY <1>1, <2>1 DEF Locked, AllFree, Saving
    <2>3. Phases'
      BY <1>1, <1>6, <2>1
         DEF CoordJoin, Phases, StatusOf, FinishedIsSettled, AllSettled, Closing, Live
    <2>4. Locked'
      BY <1>6, <2>1, <2>2 DEF CoordJoin, Locked, Saving
    <2>5. JobsOfCases'
      BY <1>6, <2>1, NoneAssumption DEF CoordJoin, JobsOfCases, ClaimedOnce, AllFree, Live
    <2>6. QED
      BY <2>3, <2>4, <2>5, <1>6, QuietView DEF CoordJoin
  <1>7. CASE FinalRead
    <2>1. coord = "finalRead" /\ coord' = "finalSave" /\ final' = batch
      BY <1>1, <1>7 DEF FinalRead, Phases
    <2>2. Phases'
      BY <1>1, <1>7, <2>1
         DEF FinalRead, Phases, StatusOf, FinishedIsSettled, AllSettled, Closing, Live
    <2>3. Locked' /\ JobsOfCases'
      BY <1>1, <1>7, <2>1
         DEF FinalRead, Locked, JobsOfCases, StatusOf, ClaimedOnce, AllFree, Live
    <2>4. QED
      BY <2>2, <2>3, <1>7, QuietView DEF FinalRead
  <1>8. CASE FinalSave
    <2>1. coord = "finalSave" /\ coord' = "exit" /\ final = batch /\ AllSettled /\ AllFree
      BY <1>1, <1>8 DEF FinalSave, Phases, JobsOfCases, Closing, Live
    <2>2. batch.status = "RUNNING" /\ mutex = None
      BY <1>1, <2>1 DEF Phases, Closing, Locked, AllFree, Saving
    <2>3. /\ batch'.status = IF HasFailures(batch) THEN "COMPLETED_WITH_FAILURES"
                                                   ELSE "COMPLETED"
          /\ \A c \in Case : StatusOf(c)' = StatusOf(c)
      BY <1>1, <1>8, <2>1 DEF FinalSave, StatusOf, TypeOK, BatchDefinition
    <2>4. FinishedIsSettled'
      BY <2>1, <2>3 DEF FinishedIsSettled, AllSettled, HasFailures, StatusOf
    <2>5. Phases'
      BY <1>1, <1>8, <2>1, <2>2, <2>3, <2>4
         DEF FinalSave, Phases, Closing, Live, Finished
    <2>6. Locked'
      BY <1>8, <2>1, <2>2 DEF FinalSave, Locked, AllFree, Saving
    <2>7. JobsOfCases'
      BY <1>1, <1>8, <2>1 DEF FinalSave, JobsOfCases, ClaimedOnce, AllFree, Live
    <2>8. [c \in Case |-> batch.cases[c].status]' = [c \in Case |-> batch.cases[c].status]
      BY <2>3 DEF StatusOf
    <2>9. Promise!Conclude
      BY <2>1, <2>2, <2>3, <2>8
         DEF Promise!Conclude, Promise!Settled, AllSettled, StatusOf, HasFailures,
             UInv, IInv, TypeOK, BatchDefinition, BatchCase, CaseStatus
    <2>10. QED
      BY <2>5, <2>6, <2>7, <2>9 DEF Promised, Promise!Next, Promise!Progress
  <1>9. CASE CoordExit
    <2>1. coord = "exit" /\ coord' = "dead"
      BY <1>9 DEF CoordExit
    <2>2. Phases'
      BY <1>1, <1>9, <2>1
         DEF CoordExit, Phases, StatusOf, FinishedIsSettled, AllSettled, Closing, Live, Finished
    <2>3. Locked' /\ JobsOfCases'
      BY <1>1, <1>9, <2>1
         DEF CoordExit, Locked, JobsOfCases, StatusOf, ClaimedOnce, AllFree, Live
    <2>4. QED
      BY <2>2, <2>3, <1>9, QuietView DEF CoordExit
  <1>10. ASSUME NEW c \in Case, ClaimRead(c) PROVE Phases' /\ Locked' /\ JobsOfCases' /\ Promised
    <2>1. /\ coord = "scan" /\ coord' = "claimSave" /\ mutex = None
          /\ mutex' = [snap |-> batch, case |-> c, new |-> Claimed(c)]
          /\ StatusOf(c) = "PENDING"
      BY <1>10 DEF ClaimRead, Claimable, IsPending, StatusOf
    <2>2. Phases'
      BY <1>1, <1>10, <2>1
         DEF ClaimRead, Phases, StatusOf, FinishedIsSettled, AllSettled, Closing, Live
    <2>6. mutex' # None
      BY <1>1, <2>1, NoneAssumption DEF Claimed, TypeOK, BatchDefinition, BatchCase, CaseStatus
    <2>3. Locked'
      BY <1>1, <1>10, <2>1, <2>6 DEF ClaimRead, Claimed, Locked, StatusOf
    <2>4. JobsOfCases'
      BY <1>1, <1>10, <2>1 DEF ClaimRead, JobsOfCases, StatusOf, ClaimedOnce, AllFree, Live
    <2>7. QED
      BY <2>2, <2>3, <2>4, <1>10, QuietView DEF ClaimRead
  <1>11. ASSUME NEW c \in Case, ClaimRefused(c) PROVE FALSE
    BY <1>1, <1>11 DEF ClaimRefused, IsNext, Claimable, IsPending, JobsOfCases, Phases, Live,
       StatusOf
  <1>12. ASSUME NEW s \in Slot, ClaimSave(s) PROVE Phases' /\ Locked' /\ JobsOfCases' /\ Promised
    <2>1. /\ mutex # None /\ mutex.new.status = "RUNNING" /\ wpc[s] = "free"
          /\ StatusOf(mutex.case) = "PENDING" /\ batch.status = "RUNNING"
          /\ \A t \in Slot : wpc[t] \notin Saving
          /\ pending = {c \in Case : StatusOf(c) = "PENDING"}
      BY <1>1, <1>12 DEF ClaimSave, Free, Locked, Phases, Live, JobsOfCases
    <2>2. /\ mutex.case \in Case /\ mutex' = None
          /\ batch'.status = batch.status
          /\ batch'.cases[mutex.case].status = mutex.new.status
          /\ \A c \in Case : c # mutex.case => StatusOf(c)' = StatusOf(c)
      BY <1>12, Replaced DEF ClaimSave
    <2>3. /\ coord = "claimSave" /\ coord' = "scan"
          /\ pending' = pending \ {mutex.case}
      BY <1>12 DEF ClaimSave
    <2>4. /\ wpc'[s] = "submitted" /\ wcase'[s] = mutex.case
          /\ \A t \in Slot : t # s => wpc'[t] = wpc[t] /\ wcase'[t] = wcase[t]
      BY <1>1, <1>12 DEF ClaimSave, TypeOK
    <2>5. Phases'
      BY <1>1, <1>12, <2>1, <2>2, <2>3
         DEF ClaimSave, Phases, FinishedIsSettled, Closing, Live, Finished
    <2>6. Locked'
      BY <1>12, <2>1, <2>2, <2>3, <2>4 DEF Locked, Saving
    <2>7. \A t \in Slot : t # s /\ wpc[t] # "free" =>
             /\ wcase[t] \in Case /\ wcase[t] # mutex.case /\ StatusOf(wcase[t]) = "RUNNING"
      BY <1>1, <2>1 DEF JobsOfCases, TypeOK
    <2>8. \A t \in Slot : wpc'[t] # "free" => StatusOf(wcase[t])' = "RUNNING"
      BY <2>1, <2>2, <2>4, <2>7 DEF StatusOf
    <2>9. ClaimedOnce'
      BY <1>1, <2>4, <2>7 DEF ClaimedOnce, JobsOfCases
    <2>10. pending' = {c \in Case : StatusOf(c)' = "PENDING"}
      BY <2>1, <2>2, <2>3 DEF StatusOf
    <2>11. \A c \in Case : StatusOf(c)' = "RUNNING" => \E t \in Slot : wcase'[t] = c
      <3> SUFFICES ASSUME NEW c \in Case, StatusOf(c)' = "RUNNING", c # mutex.case
                   PROVE  \E t \in Slot : wcase'[t] = c
        BY <2>4
      <3>1. StatusOf(c) = "RUNNING"
        BY <2>2
      <3>2. PICK t \in Slot : wcase[t] = c
        BY <3>1, <1>1, <2>3 DEF JobsOfCases, Live
      <3>3. t # s
        BY <3>2, <1>1, <2>1, NoneAssumption DEF JobsOfCases
      <3>4. QED
        BY <3>2, <3>3, <2>4
    <2>12. \A t \in Slot : wpc'[t] = "free" <=> wcase'[t] = None
      BY <1>1, <2>2, <2>4, NoneAssumption DEF JobsOfCases
    <2>13. \A t \in Slot : wpc'[t] = "done" => wres'[t] \in Result
      BY <1>1, <1>12, <2>4 DEF ClaimSave, JobsOfCases
    <2>14. JobsOfCases'
      BY <2>3, <2>8, <2>9, <2>10, <2>11, <2>12, <2>13 DEF JobsOfCases, Live
    <2>19. PICK d \in Case : d = mutex.case
      BY <2>2
    <2>15. [c \in Case |-> batch.cases[c].status]'
             = [[c \in Case |-> batch.cases[c].status] EXCEPT ![d] = "RUNNING"]
      BY <2>1, <2>2, <2>19 DEF StatusOf
    <2>16. Promise!Execute(d)
      BY <2>1, <2>2, <2>15, <2>19 DEF Promise!Execute, StatusOf
    <2>17. Promised
      BY <2>16 DEF Promised, Promise!Next, Promise!Progress
    <2>18. QED
      BY <2>5, <2>6, <2>14, <2>17
  <1>13. ASSUME NEW s \in Slot, CollectRead(s) PROVE Phases' /\ Locked' /\ JobsOfCases' /\ Promised
    <2>1. /\ coord = "collect" /\ coord' = "collectSave" /\ mutex = None
          /\ mutex' = [snap |-> batch, case |-> wcase[s],
                       new |-> [status |-> wres[s], run |-> None]]
          /\ UNCHANGED batch
      BY <1>1, <1>13 DEF CollectRead, ReplaceRead, ReplaceDropped, Phases
    <2>2. /\ wcase[s] \in Case /\ StatusOf(wcase[s]) = "RUNNING" /\ wres[s] \in Result
          /\ wcase[s] # None
      BY <1>1, <1>13, NoneAssumption DEF CollectRead, JobsOfCases, TypeOK
    <2>3. /\ wpc'[s] = "free" /\ wcase'[s] = None
          /\ \A t \in Slot : t # s => /\ wpc'[t] = wpc[t] /\ wcase'[t] = wcase[t]
                                      /\ wres'[t] = wres[t]
      BY <1>1, <1>13 DEF CollectRead, FreedSlot, TypeOK
    <2>4. Phases'
      BY <1>1, <1>13, <2>1
         DEF CollectRead, Phases, StatusOf, FinishedIsSettled, AllSettled, Closing, Live
    <2>5. \A t \in Slot : wcase'[t] # wcase[s]
      BY <1>1, <2>2, <2>3 DEF JobsOfCases, ClaimedOnce
    <2>6. \A t \in Slot : wpc'[t] \notin Saving
      BY <1>1, <2>1, <2>3 DEF Locked, Saving
    <2>12. mutex' # None
      BY <1>1, <2>1, <2>2, NoneAssumption DEF TypeOK, BatchCase, CaseStatus, Result
    <2>7. Locked'
      BY <2>1, <2>2, <2>5, <2>6, <2>12 DEF Locked, StatusOf
    <2>8. ClaimedOnce'
      BY <1>1, <2>3 DEF JobsOfCases, ClaimedOnce
    <2>9. \A c \in Case : StatusOf(c)' = "RUNNING" =>
            (\E t \in Slot : wcase'[t] = c) \/ c = wcase[s]
      BY <1>1, <2>1, <2>3 DEF JobsOfCases, StatusOf, Live
    <2>10. JobsOfCases'
      BY <1>1, <2>1, <2>3, <2>8, <2>9 DEF JobsOfCases, StatusOf, Live
    <2>13. QED
      BY <2>1, <2>4, <2>7, <2>10, QuietView
  <1>14. QED
    BY <1>2, <1>3, <1>4, <1>5, <1>6, <1>7, <1>8, <1>9, <1>10, <1>11, <1>12, <1>13
       DEF Coordinator

(* Steps of a worker: only its two saves write the definition, and they    *)
(* leave the status of its case RUNNING.                                   *)
LEMMA JobSaves ==
    ASSUME UInv, NEW s \in Slot, NEW pc \in {"check", "await"}, wpc[s] \in Saving,
           ReplaceSave, Goto(s, pc),
           UNCHANGED <<req, coord, pending, final, wcase, wres>>
    PROVE  Phases' /\ Locked' /\ JobsOfCases' /\ Promised
  <1>1. TypeOK /\ Phases /\ Locked /\ JobsOfCases
    BY DEF UInv, IInv
  <1>2. /\ mutex # None /\ mutex.case = wcase[s] /\ mutex.new.status = "RUNNING"
        /\ coord \in Live /\ coord \notin {"claimSave", "collectSave"}
        /\ \A t \in Slot : t # s => wpc[t] \notin Saving
    BY <1>1 DEF Locked, JobsOfCases, AllFree, Saving
  <1>3. StatusOf(mutex.case) = "RUNNING"
    BY <1>1, <1>2 DEF JobsOfCases, Saving
  <1>4. /\ mutex' = None /\ batch'.status = batch.status
        /\ \A c \in Case : StatusOf(c)' = StatusOf(c)
    BY <1>2, <1>3, Replaced DEF StatusOf
  <1>5. wpc'[s] = pc /\ \A t \in Slot : t # s => wpc'[t] = wpc[t]
    BY <1>1 DEF Goto, TypeOK
  <1>6. batch.status = "RUNNING"
    BY <1>1, <1>2 DEF Phases
  <1>7. Phases'
    BY <1>1, <1>2, <1>4, <1>6 DEF Phases, FinishedIsSettled, Finished, Closing, Live
  <1>8. Locked'
    BY <1>2, <1>4, <1>5 DEF Locked, Saving
  <1>9. \A t \in Slot : wpc'[t] # "free" => StatusOf(wcase[t])' = "RUNNING"
    <2> SUFFICES ASSUME NEW t \in Slot, wpc'[t] # "free"
                 PROVE  StatusOf(wcase[t])' = "RUNNING"
      OBVIOUS
    <2>1. wpc[t] # "free" /\ wcase[t] \in Case /\ wcase'[t] = wcase[t]
      BY <1>1, <1>5 DEF JobsOfCases, TypeOK, Saving
    <2>2. StatusOf(wcase[t]) = "RUNNING"
      BY <1>1, <2>1 DEF JobsOfCases
    <2>3. QED
      BY <2>1, <2>2, <1>4 DEF StatusOf
  <1>10. JobsOfCases'
    BY <1>1, <1>2, <1>4, <1>5, <1>9 DEF JobsOfCases, ClaimedOnce, AllFree, Saving
  <1>11. [c \in Case |-> batch.cases[c].status]' = [c \in Case |-> batch.cases[c].status]
    BY <1>4 DEF StatusOf
  <1>12. Promised
    BY <1>4, <1>11 DEF Promised, View, StatusOf
  <1>13. QED
    BY <1>7, <1>8, <1>10, <1>12

(* A worker that takes the lock for its case.                              *)
LEMMA JobReads ==
    ASSUME UInv, NEW s \in Slot, NEW pc \in Saving,
           wpc[s] \notin Saving \cup {"free"},
           ReplaceRead(wcase[s], Running(s)), Goto(s, pc),
           UNCHANGED <<req, coord, pending, final, wcase, wres>>
    PROVE  Phases' /\ Locked' /\ JobsOfCases' /\ Promised
  <1>1. TypeOK /\ Phases /\ Locked /\ JobsOfCases
    BY DEF UInv, IInv
  <1>2. /\ mutex = None /\ UNCHANGED batch
        /\ mutex' = [snap |-> batch, case |-> wcase[s], new |-> Running(s)]
        /\ wcase[s] \in Case
    BY <1>1 DEF ReplaceRead, JobsOfCases, TypeOK
  <1>3. mutex' # None
    BY <1>1, <1>2, RunningType, NoneAssumption DEF TypeOK
  <1>4. wpc'[s] = pc /\ \A t \in Slot : t # s => wpc'[t] = wpc[t]
    BY <1>1 DEF Goto, TypeOK
  <1>5. coord \in Live
    BY <1>1 DEF JobsOfCases, AllFree
  <1>6. Phases'
    BY <1>1, <1>2 DEF Phases, StatusOf, FinishedIsSettled, AllSettled
  <1>7. coord \notin {"claimSave", "collectSave"} /\ \A t \in Slot : wpc[t] \notin Saving
    BY <1>1, <1>2 DEF Locked
  <1>8. Locked'
    BY <1>2, <1>3, <1>4, <1>7 DEF Locked, Running
  <1>9. JobsOfCases'
    BY <1>1, <1>2, <1>4, <1>5, <1>7 DEF JobsOfCases, StatusOf, ClaimedOnce, AllFree, Saving
  <1>10. QED
    BY <1>2, <1>6, <1>8, <1>9, QuietView

LEMMA JobEnds ==
    ASSUME UInv, NEW s \in Slot, NEW kind \in FailureKind,
           wpc[s] \notin Saving \cup {"free"}, EndAttempt(s, kind),
           UNCHANGED <<batch, mutex, req, coord, pending, final, wcase>>
    PROVE  Phases' /\ Locked' /\ JobsOfCases'
  <1>1. TypeOK
    BY DEF UInv, IInv
  <1>2. CASE MayRetry(s, kind)
    BY <1>2, JobMoves DEF EndAttempt, WorkPc, Saving
  <1>3. CASE ~MayRetry(s, kind)
    <2>1. PICK st \in CaseOutcome(wcase[s], kind) : Finish(s, st)
      BY <1>3 DEF EndAttempt
    <2>2. wcase[s] \in Case
      BY DEF UInv, IInv, JobsKeyed
    <2>3. st \in Result
      BY <2>1, <2>2, ReviewAssumption DEF CaseOutcome, FailureKind, Result
    <2>4. wres'[s] = st /\ \A t \in Slot : t # s => wres'[t] = wres[t]
      BY <1>1, <2>1 DEF Finish, TypeOK
    <2>5. Goto(s, "done")
      BY <2>1 DEF Finish
    <2>6. QED
      BY <2>3, <2>4, <2>5, JobMoves DEF WorkPc, Saving
  <1>4. QED
    BY <1>2, <1>3

LEMMA JobStep ==
    ASSUME UInv, NEW s \in Slot, Worker(s)
    PROVE  Phases' /\ Locked' /\ JobsOfCases' /\ Promised
  <1> USE DEF reqVars, coordVars, runVars, WorkPc, Saving
  <1>1. batch.status # "CANCELLED"
    BY DEF UInv, Phases
  <1>2. CASE WorkLock(s)
    BY <1>2, JobMoves, QuietView DEF WorkLock
  <1>3. CASE WorkMark(s)
    BY <1>1, <1>3, JobReads DEF WorkMark, ReplaceDropped
  <1>4. CASE WorkMarkSave(s)
    BY <1>4, JobSaves DEF WorkMarkSave
  <1>5. CASE WorkCheck(s)
    BY <1>1, <1>5, JobMoves, QuietView DEF WorkCheck
  <1>6. CASE WorkStartRun(s)
    BY <1>6, JobMoves, QuietView DEF WorkStartRun
  <1>7. CASE WorkStartFails(s)
    BY <1>7, JobEnds, QuietView DEF WorkStartFails, FailureKind
  <1>8. CASE WorkPublish(s)
    BY <1>1, <1>8, JobReads DEF WorkPublish, ReplaceDropped
  <1>9. CASE WorkPublishSave(s)
    BY <1>9, JobSaves DEF WorkPublishSave
  <1>10. CASE WorkAwait(s)
    BY <1>10, JobEnds, QuietView DEF WorkAwait, KindsOf, FailureKind
  <1>11. ~WorkAwaitCancel(s)
    BY <1>1 DEF WorkAwaitCancel
  <1>12. QED
    BY <1>2, <1>3, <1>4, <1>5, <1>6, <1>7, <1>8, <1>9, <1>10, <1>11 DEF Worker

(* Runs end or are cancelled one by one, and the process restarts.         *)
LEMMA OutsideStep ==
    ASSUME UInv, Restart \/ \E r \in Run : CancelRunDirectly(r) \/ RunEnds(r)
    PROVE  Phases' /\ Locked' /\ JobsOfCases' /\ Promised
  <1>1. TypeOK /\ Phases /\ Locked /\ JobsOfCases
    BY DEF UInv, IInv
  <1>2. UNCHANGED batch
    BY DEF Restart, CancelRunDirectly, RunEnds
  <1>3. CASE Restart
    <2>1. Phases'
      BY <1>1, <1>2, <1>3
         DEF Restart, Idle, Phases, StatusOf, FinishedIsSettled, AllSettled, Live, Closing
    <2>2. Locked' /\ JobsOfCases'
      BY <1>3 DEF Restart, Locked, JobsOfCases, ClaimedOnce, AllFree, Live, Saving
    <2>3. QED
      BY <1>2, <2>1, <2>2, QuietView
  <1>4. CASE \E r \in Run : CancelRunDirectly(r) \/ RunEnds(r)
    <2>1. UNCHANGED <<batch, mutex, req, coord, pending, final, wpc, wcase, wres>>
      BY <1>4 DEF CancelRunDirectly, RunEnds, reqVars, coordVars, workVars
    <2>2. Phases' /\ Locked' /\ JobsOfCases'
      BY <1>1, <2>1
         DEF Phases, Locked, JobsOfCases, StatusOf, FinishedIsSettled, AllSettled,
             ClaimedOnce, AllFree
    <2>3. QED
      BY <1>2, <2>2, QuietView
  <1>5. QED
    BY <1>3, <1>4

LEMMA UnattendedStep ==
    ASSUME Unattended, UInv, [Next]_vars
    PROVE  UInv' /\ Promised
  <1>1. IInv'
    BY Inductive DEF UInv
  <1>2. CASE UNCHANGED vars
    <2>1. Phases' /\ Locked' /\ JobsOfCases'
      BY <1>2
         DEF vars, UInv, Phases, Locked, JobsOfCases, StatusOf, FinishedIsSettled,
             AllSettled, ClaimedOnce, AllFree
    <2>2. QED
      BY <1>1, <1>2, <2>1, QuietView DEF UInv, vars
  <1>3. CASE Next
    <2>1. Phases' /\ Locked' /\ JobsOfCases' /\ Promised
      BY <1>3, UserStep, CoordStep, JobStep, OutsideStep DEF Next
    <2>2. QED
      BY <1>1, <2>1 DEF UInv
  <1>4. QED
    BY <1>2, <1>3

(* The results that BatchPromise allows a case to have are final.          *)
LEMMA PromisedStays ==
    ASSUME Promised, UInv
    PROVE  \A c \in Case : StatusOf(c) \notin {"PENDING", "RUNNING"}
                             => StatusOf(c)' = StatusOf(c)
  <1> DEFINE cs == [c \in Case |-> batch.cases[c].status]
  <1>1. CASE UNCHANGED View
    BY <1>1 DEF View, StatusOf
  <1>2. CASE Promise!Start \/ Promise!Conclude
    <2>1. cs' = cs
      BY <1>2 DEF Promise!Start, Promise!Conclude
    <2>2. QED
      BY <2>1 DEF StatusOf
  <1>3. ASSUME NEW d \in Case, Promise!Execute(d) \/ Promise!Settle(d)
        PROVE  \A c \in Case : c # d => StatusOf(c)' = StatusOf(c)
    <2>1. PICK st : cs' = [cs EXCEPT ![d] = st]
      BY <1>3 DEF Promise!Execute, Promise!Settle
    <2>2. QED
      BY <2>1 DEF StatusOf
  <1>4. ASSUME NEW d \in Case, Promise!Execute(d) \/ Promise!Settle(d)
        PROVE  StatusOf(d) \in {"PENDING", "RUNNING"}
    BY <1>4 DEF Promise!Execute, Promise!Settle, StatusOf
  <1>5. QED
    BY <1>1, <1>2, <1>3, <1>4 DEF Promised, Promise!Next, Promise!Progress


(* The case that is about to be saved under the lock is not settled.       *)
LEMMA SavedCaseIsOpen ==
    ASSUME UInv, mutex # None
    PROVE  StatusOf(mutex.case) \in {"PENDING", "RUNNING"}
  <1>1. CASE coord \in {"claimSave", "collectSave"}
    BY <1>1 DEF UInv, Locked
  <1>2. ASSUME NEW s \in Slot, wpc[s] \in Saving
        PROVE  StatusOf(mutex.case) = "RUNNING"
    BY <1>2 DEF UInv, Locked, JobsOfCases, Saving
  <1>3. QED
    BY <1>1, <1>2 DEF UInv, Locked

(* Cases are written under the lock only: starting and concluding the      *)
(* batch write its status over a copy that is still current.               *)
LEMMA CasesWritten ==
    ASSUME Unattended, UInv, [Next]_vars
    PROVE  ReplaceSave \/ batch'.cases = batch.cases
  <1>1. TypeOK /\ Phases
    BY DEF UInv, IInv
  <1>2. ASSUME NEW u \in User, Request(u) \/ Continue(u)
        PROVE  batch'.cases = batch.cases
    <2>1. CASE StartSave(u)
      BY <1>1, <2>1 DEF StartSave, Phases, TypeOK, BatchDefinition
    <2>2. CASE StartRead(u) \/ EnsureCoordinator(u)
      BY <2>2 DEF StartRead, EnsureCoordinator
    <2>3. ~PauseRead(u) /\ ~CancelRead(u)
      BY DEF Unattended, PauseRead, CancelRead
    <2>4. ~PauseSave(u) /\ ~CancelOneRun(u) /\ ~CancelSave(u)
      BY <1>1 DEF Phases, PauseSave, CancelOneRun, CancelSave
    <2>5. QED
      BY <1>2, <2>1, <2>2, <2>3, <2>4 DEF Request, Continue
  <1>3. CASE Coordinator
    <2>1. CASE FinalSave
      BY <1>1, <2>1 DEF FinalSave, Phases, TypeOK, BatchDefinition
    <2>2. ASSUME ~FinalSave PROVE ReplaceSave \/ UNCHANGED batch
      BY <1>3, <2>2
         DEF Coordinator, CoordLoop, ScanDone, CollectSave, CollectDone, CoordJoin, FinalRead,
             CoordExit, ClaimRead, ClaimRefused, ClaimSave, CollectRead, ReplaceRead,
             ReplaceDropped
    <2>3. QED
      BY <2>1, <2>2
  <1>4. ASSUME NEW s \in Slot, Worker(s) PROVE ReplaceSave \/ UNCHANGED batch
    BY <1>4
       DEF Worker, WorkLock, WorkMark, WorkMarkSave, WorkCheck, WorkStartRun, WorkStartFails,
           WorkPublish, WorkPublishSave, WorkAwait, WorkAwaitCancel, ReplaceRead, ReplaceDropped
  <1>5. CASE Restart \/ \E r \in Run : CancelRunDirectly(r) \/ RunEnds(r)
    BY <1>5 DEF Restart, CancelRunDirectly, RunEnds
  <1>6. QED
    BY <1>2, <1>3, <1>4, <1>5 DEF Next, vars

-----------------------------------------------------------------------------
(* What is guaranteed for every number of cases, slots, runs and retries.  *)

\* The invariant of the unattended batch holds in every reachable state.
THEOREM UnattendedInvariant == ASSUME Unattended PROVE Spec => []UInv
  <1>1. UInv /\ [Next]_vars => UInv'
    BY UnattendedStep
  <1>2. QED
    BY <1>1, InitUInv, PTL DEF Spec

\* _claim_case claims a case "atomically so that it is put on the execution
\* queue only once": no case is ever in two jobs of the pool.
THEOREM ClaimsAreOnce == ASSUME Unattended PROVE Spec => []ClaimedOnce
  <1>1. UInv => ClaimedOnce
    BY DEF UInv, JobsOfCases
  <1>2. QED
    BY <1>1, UnattendedInvariant, PTL

\* The final save of _run_batch finds every case settled, and the verdict it
\* writes says whether one failed or needs review.
THEOREM VerdictIsSettled == ASSUME Unattended PROVE Spec => []FinishedIsSettled
  <1>1. UInv => FinishedIsSettled
    BY DEF UInv, Phases
  <1>2. QED
    BY <1>1, UnattendedInvariant, PTL

\* A settled case is never executed again: no save, restart or retry writes
\* its record, its run included.
THEOREM ResultsStay == ASSUME Unattended PROVE Spec => SettledStays
  <1> DEFINE Stays == \A c \in Case : batch.cases[c].status \notin {"PENDING", "RUNNING"}
                                        => batch'.cases[c] = batch.cases[c]
  <1>1. ASSUME UInv, [Next]_vars PROVE Stays
    <2>1. CASE ReplaceSave
      <3>1. mutex # None /\ mutex.snap = batch /\ mutex.case \in Case /\ batch \in BatchDefinition
        BY <1>1, <2>1 DEF ReplaceSave, UInv, IInv, TypeOK, Locked
      <3>2. StatusOf(mutex.case) \in {"PENDING", "RUNNING"}
        BY <1>1, <3>1, SavedCaseIsOpen
      <3>3. QED
        BY <2>1, <3>1, <3>2 DEF ReplaceSave, StatusOf, BatchDefinition
    <2>2. CASE batch'.cases = batch.cases
      BY <2>2
    <2>3. QED
      BY <1>1, <2>1, <2>2, CasesWritten
  <1>2. UInv /\ [Next]_vars => [Stays]_vars
    BY <1>1
  <1>3. QED
    BY <1>2, UnattendedInvariant, PTL DEF Spec, SettledStays

\* The safety part of BatchPromise: with nobody pausing or cancelling, every
\* step of requests, coordinator, workers and restarts is a step the promise
\* allows or leaves its view of the batch alone.
THEOREM PromiseIsKept ==
    ASSUME Unattended PROVE Spec => Promise!Init /\ [][Promise!Next]_View
  <1>1. Init => Promise!Init
    BY DEF Init, Promise!Init
  <1>2. UInv /\ [Next]_vars => Promised
    BY UnattendedStep
  <1>3. QED
    BY <1>1, <1>2, UnattendedInvariant, PTL DEF Spec, Promised

=============================================================================
