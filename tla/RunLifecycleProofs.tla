-------------------------- MODULE RunLifecycleProofs --------------------------
(***************************************************************************)
(* RunLifecycle keeps its types, its mutation locks and the tie between a  *)
(* verdict and its result, for any number of runs, requests, steps and     *)
(* restarts; RunTraffic keeps what a cancellation in time and logs in time *)
(* are promised.                                                           *)
(***************************************************************************)
EXTENDS RunTraffic, TLAPS

\* What a thread holds when it is about to write.
Prepared(t) ==
    /\ pc[t] \in {"flag", "cancelSave", "markSave"} => copy[t] \in RunSummary
    /\ pc[t] \in {"mark", "markSave"} => goal[t] \in Trace \cup {"observed"}
    /\ pc[t] \in {"ended", "persist"} => goal[t] \in Terminal
    /\ t \in User /\ pc[t] # "idle" => target[t] \in Run
    /\ goal[t] = "observed" => t \in Run

Backed(record) ==
    record.status \in {"WAITING_FOR_REVIEW", "AUTO_FAILED"} => record.result

\* A stale copy is backed as the stored record was, so saving it is harmless.
CopiesBacked == \A t \in Thread : copy[t] # None => Backed(copy[t])

LockHeld == \A r \in Mutating : InBrowser(r) => account[AccountOf[r]] = r

IInv ==
    /\ TypeOK
    /\ \A t \in Thread : Prepared(t)
    /\ ResultBacksVerdict
    /\ CopiesBacked
    /\ LockHeld

USE AccountAssumption, MutatingAssumption, StepsAssumption, ThreadAssumption,
    NoneAssumption
USE DEF Thread, Active, Terminal, Trace, RunSummary, Goals

LEMMA InitIInv == Init => IInv
  BY DEF Init, IInv, TypeOK, Prepared, ResultBacksVerdict, CopiesBacked,
         LockHeld, InBrowser, Exists, UserPc, RunPc

\* A thread that has marked a record goes on with a step and a goal of its own.
LEMMA AfterMarkTypes ==
  ASSUME TypeOK, NEW t \in Thread, AfterMark(t)
  PROVE  /\ pc' \in [Thread -> UserPc \cup RunPc]
         /\ \A u \in User : pc'[u] \in UserPc
         /\ \A r \in Run : pc'[r] \in RunPc
         /\ target' \in [User -> Run \cup {None}]
         /\ goal' \in [Thread -> Goals \cup {None}]
  <1>1. PICK p \in {"mark", "done", "idle"} :
          /\ pc' = [pc EXCEPT ![t] = p]
          /\ p = "done" => t \in Run
          /\ p = "idle" => t \in User
    <2>1. CASE goal[t] = "observed"
      BY <2>1 DEF AfterMark, Goto
    <2>2. CASE goal[t] # "observed" /\ t \in Run
      BY <2>2 DEF AfterMark, Goto
    <2>3. CASE goal[t] # "observed" /\ t \in User
      BY <2>3 DEF AfterMark, Goto
    <2> QED
      BY <2>1, <2>2, <2>3
  <1>2. /\ pc' \in [Thread -> UserPc \cup RunPc]
        /\ \A u \in User : pc'[u] \in UserPc
        /\ \A r \in Run : pc'[r] \in RunPc
    BY <1>1 DEF TypeOK, UserPc, RunPc
  <1>3. target' \in [User -> Run \cup {None}]
    BY DEF AfterMark, TypeOK
  <1>4. goal' \in [Thread -> Goals \cup {None}]
    BY DEF AfterMark, TypeOK
  <1> QED
    BY <1>2, <1>3, <1>4

LEMMA NextIInv == IInv /\ [Next]_vars => IInv'
  <1> SUFFICES ASSUME IInv, [Next]_vars PROVE IInv'
    OBVIOUS
  <1> USE DEF IInv, TypeOK, Prepared, UserPc, RunPc, Goto, Save, Exists,
              InBrowser, RunOf
  <1>1. ASSUME NEW r \in Run, StartRun(r) PROVE IInv'
    <2>1. TypeOK'
      BY <1>1 DEF StartRun, Queued
    <2>2. \A t_1 \in Thread : Prepared(t_1)'
      BY <1>1 DEF StartRun, Queued
    <2>3. ResultBacksVerdict' /\ CopiesBacked'
      BY <1>1 DEF StartRun, Queued, ResultBacksVerdict, CopiesBacked, Backed
    <2>4. LockHeld'
      BY <1>1 DEF StartRun, Queued, LockHeld
    <2> QED
      BY <2>1, <2>2, <2>3, <2>4
  <1>2. ASSUME NEW r \in Run, SaveRunning(r) PROVE IInv'
    <2>1. TypeOK'
      BY <1>2 DEF SaveRunning, Queued
    <2>2. \A t_1 \in Thread : Prepared(t_1)'
      BY <1>2 DEF SaveRunning, Queued
    <2>3. ResultBacksVerdict' /\ CopiesBacked'
      BY <1>2 DEF SaveRunning, Queued, ResultBacksVerdict, CopiesBacked, Backed
    <2>4. LockHeld'
      BY <1>2 DEF SaveRunning, Queued, LockHeld
    <2> QED
      BY <2>1, <2>2, <2>3, <2>4
  <1>3. ASSUME NEW r \in Run, Enter(r) PROVE IInv'
    <2>1. TypeOK'
      BY <1>3 DEF Enter, MayEnter
    <2>2. \A t_1 \in Thread : Prepared(t_1)'
      BY <1>3 DEF Enter, MayEnter
    <2>3. ResultBacksVerdict' /\ CopiesBacked'
      BY <1>3 DEF Enter, MayEnter, ResultBacksVerdict, CopiesBacked, Backed
    <2>4. LockHeld'
      BY <1>3 DEF Enter, MayEnter, LockHeld
    <2> QED
      BY <2>1, <2>2, <2>3, <2>4
  <1>4. ASSUME NEW r \in Run, Step(r) PROVE IInv'
    <2>1. TypeOK'
      BY <1>4 DEF Step
    <2>2. \A t_1 \in Thread : Prepared(t_1)'
      BY <1>4 DEF Step
    <2>3. ResultBacksVerdict' /\ CopiesBacked'
      BY <1>4 DEF Step, ResultBacksVerdict, CopiesBacked, Backed
    <2>4. LockHeld'
      BY <1>4 DEF Step, LockHeld
    <2> QED
      BY <2>1, <2>2, <2>3, <2>4
  <1>5. ASSUME NEW r \in Run, Fallback(r) PROVE IInv'
    <2>1. TypeOK'
      BY <1>5 DEF Fallback
    <2>2. \A t_1 \in Thread : Prepared(t_1)'
      BY <1>5 DEF Fallback
    <2>3. ResultBacksVerdict' /\ CopiesBacked'
      BY <1>5 DEF Fallback, ResultBacksVerdict, CopiesBacked, Backed
    <2>4. LockHeld'
      BY <1>5 DEF Fallback, LockHeld
    <2> QED
      BY <2>1, <2>2, <2>3, <2>4
  <1>6. ASSUME NEW r \in Run, ExecEnds(r) PROVE IInv'
    <2>1. TypeOK'
      BY <1>6 DEF ExecEnds, Outcomes
    <2>2. \A t_1 \in Thread : Prepared(t_1)'
      BY <1>6 DEF ExecEnds, Outcomes
    <2>3. ResultBacksVerdict' /\ CopiesBacked'
      BY <1>6 DEF ExecEnds, Outcomes, ResultBacksVerdict, CopiesBacked, Backed
    <2>4. LockHeld'
      BY <1>6 DEF ExecEnds, Outcomes, LockHeld
    <2> QED
      BY <2>1, <2>2, <2>3, <2>4
  <1>7. ASSUME NEW r \in Run, PersistRead(r) PROVE IInv'
    <2>1. TypeOK'
      BY <1>7 DEF PersistRead, Stored
    <2>2. \A t_1 \in Thread : Prepared(t_1)'
      BY <1>7 DEF PersistRead, Stored
    <2>3. ResultBacksVerdict' /\ CopiesBacked'
      BY <1>7 DEF PersistRead, Stored, ResultBacksVerdict, CopiesBacked, Backed
    <2>4. LockHeld'
      BY <1>7 DEF PersistRead, Stored, LockHeld
    <2> QED
      BY <2>1, <2>2, <2>3, <2>4
  <1>8. ASSUME NEW r \in Run, PersistSave(r) PROVE IInv'
    <2>1. TypeOK'
      BY <1>8 DEF PersistSave, Outcome
    <2>2. \A t_1 \in Thread : Prepared(t_1)'
      BY <1>8 DEF PersistSave, Outcome
    <2>3. ResultBacksVerdict' /\ CopiesBacked'
      BY <1>8 DEF PersistSave, Outcome, ResultBacksVerdict, CopiesBacked, Backed
    <2>4. LockHeld'
      BY <1>8 DEF PersistSave, Outcome, LockHeld
    <2> QED
      BY <2>1, <2>2, <2>3, <2>4
  <1>9. ASSUME NEW r \in Run, ChooseTrace(r) PROVE IInv'
    <2>1. TypeOK'
      BY <1>9 DEF ChooseTrace
    <2>2. \A t_1 \in Thread : Prepared(t_1)'
      BY <1>9 DEF ChooseTrace
    <2>3. ResultBacksVerdict' /\ CopiesBacked'
      BY <1>9 DEF ChooseTrace, ResultBacksVerdict, CopiesBacked, Backed
    <2>4. LockHeld'
      BY <1>9 DEF ChooseTrace, LockHeld
    <2> QED
      BY <2>1, <2>2, <2>3, <2>4
  <1>10. ASSUME NEW r \in Run, Poll(r) PROVE IInv'
    <2>1. TypeOK'
      BY <1>10 DEF Poll
    <2>2. \A t_1 \in Thread : Prepared(t_1)'
      BY <1>10 DEF Poll
    <2>3. ResultBacksVerdict' /\ CopiesBacked'
      BY <1>10 DEF Poll, ResultBacksVerdict, CopiesBacked, Backed
    <2>4. LockHeld'
      BY <1>10 DEF Poll, LockHeld
    <2> QED
      BY <2>1, <2>2, <2>3, <2>4
  <1>11. ASSUME NEW r \in Run, PollAgain(r) PROVE IInv'
    <2>1. TypeOK'
      BY <1>11 DEF PollAgain
    <2>2. \A t_1 \in Thread : Prepared(t_1)'
      BY <1>11 DEF PollAgain
    <2>3. ResultBacksVerdict' /\ CopiesBacked'
      BY <1>11 DEF PollAgain, ResultBacksVerdict, CopiesBacked, Backed
    <2>4. LockHeld'
      BY <1>11 DEF PollAgain, LockHeld
    <2> QED
      BY <2>1, <2>2, <2>3, <2>4
  <1>12. ASSUME NEW r \in Run, GiveUp(r) PROVE IInv'
    <2>1. TypeOK'
      BY <1>12 DEF GiveUp
    <2>2. \A t_1 \in Thread : Prepared(t_1)'
      BY <1>12 DEF GiveUp
    <2>3. ResultBacksVerdict' /\ CopiesBacked'
      BY <1>12 DEF GiveUp, ResultBacksVerdict, CopiesBacked, Backed
    <2>4. LockHeld'
      BY <1>12 DEF GiveUp, LockHeld
    <2> QED
      BY <2>1, <2>2, <2>3, <2>4
  <1>13. ASSUME NEW t \in Thread, MarkRead(t) PROVE IInv'
    <2>1. TypeOK'
      <3>1. CASE Exists(RunOf(t))
        <4>1. store[RunOf(t)] \in RunSummary
          BY <1>13, <3>1 DEF MarkRead
        <4> QED
          BY <1>13, <3>1, <4>1 DEF MarkRead
      <3>2. CASE ~Exists(RunOf(t))
        <4>1. AfterMark(t) /\ UNCHANGED <<store, events, flag, copy, left, account, restarts>>
          BY <1>13, <3>2 DEF MarkRead
        <4> QED
          BY <4>1, AfterMarkTypes
      <3> QED
        BY <3>1, <3>2
    <2>2. ASSUME NEW w \in Thread PROVE Prepared(w)'
      <3>1. CASE w # t
        <4>1. w \in User => target'[w] = target[w]
          BY <1>13, <3>1 DEF MarkRead, AfterMark
        <4>2. pc'[w] = pc[w] /\ goal'[w] = goal[w] /\ copy'[w] = copy[w]
          BY <1>13, <3>1 DEF MarkRead, AfterMark
        <4> QED
          BY <4>1, <4>2
      <3>2. CASE w = t /\ goal[t] = "observed"
        BY <1>13, <3>2 DEF MarkRead, AfterMark
      <3>3. CASE w = t /\ goal[t] # "observed"
        BY <1>13, <3>3 DEF MarkRead, AfterMark
      <3> QED
        BY <3>1, <3>2, <3>3
    <2>3. ResultBacksVerdict' /\ CopiesBacked'
      BY <1>13 DEF MarkRead, AfterMark, ResultBacksVerdict, CopiesBacked, Backed
    <2>4. LockHeld'
      BY <1>13 DEF MarkRead, AfterMark, LockHeld
    <2> QED
      BY <2>1, <2>2, <2>3, <2>4
  <1>14. ASSUME NEW t \in Thread, MarkSave(t) PROVE IInv'
    <2>1. TypeOK'
      <3>1. Marked(t) \in RunSummary
        <4>1. copy[t] \in RunSummary /\ goal[t] \in Trace \cup {"observed"}
          BY <1>14 DEF MarkSave
        <4>2. (IF goal[t] = "observed" THEN "linked" ELSE goal[t]) \in Trace
          BY <4>1
        <4> QED
          BY <4>1, <4>2 DEF Marked
      <3>2. RunOf(t) \in Run
        BY <1>14 DEF MarkSave
      <3>3. /\ store' \in [Run -> RunSummary \cup {None}]
            /\ copy' \in [Thread -> RunSummary \cup {None}]
        BY <1>14, <3>1, <3>2 DEF MarkSave
      <3>4. AfterMark(t) /\ UNCHANGED <<events, flag, left, account, restarts>>
        BY <1>14 DEF MarkSave
      <3> QED
        BY <3>3, <3>4, AfterMarkTypes
    <2>2. ASSUME NEW w \in Thread PROVE Prepared(w)'
      <3>1. CASE w # t
        <4>1. w \in User => target'[w] = target[w]
          BY <1>14, <3>1 DEF MarkSave, AfterMark
        <4>2. pc'[w] = pc[w] /\ goal'[w] = goal[w] /\ copy'[w] = copy[w]
          BY <1>14, <3>1 DEF MarkSave, AfterMark
        <4> QED
          BY <4>1, <4>2
      <3>2. CASE w = t /\ goal[t] = "observed"
        BY <1>14, <3>2 DEF MarkSave, AfterMark, Marked
      <3>3. CASE w = t /\ goal[t] # "observed"
        BY <1>14, <3>3 DEF MarkSave, AfterMark, Marked
      <3> QED
        BY <3>1, <3>2, <3>3
    <2>3. ResultBacksVerdict' /\ CopiesBacked'
      BY <1>14 DEF MarkSave, AfterMark, Marked, ResultBacksVerdict, CopiesBacked, Backed
    <2>4. LockHeld'
      BY <1>14 DEF MarkSave, AfterMark, Marked, LockHeld
    <2> QED
      BY <2>1, <2>2, <2>3, <2>4
  <1>15. ASSUME NEW u \in User, NEW r \in Run, Ingest(u, r) PROVE IInv'
    <2>1. TypeOK'
      BY <1>15 DEF Ingest, Request
    <2>2. \A t_1 \in Thread : Prepared(t_1)'
      BY <1>15 DEF Ingest, Request
    <2>3. ResultBacksVerdict' /\ CopiesBacked'
      BY <1>15 DEF Ingest, Request, ResultBacksVerdict, CopiesBacked, Backed
    <2>4. LockHeld'
      BY <1>15 DEF Ingest, Request, LockHeld
    <2> QED
      BY <2>1, <2>2, <2>3, <2>4
  <1>16. ASSUME NEW u \in User, NEW r \in Run, MarkExternal(u, r) PROVE IInv'
    <2>1. TypeOK'
      BY <1>16 DEF MarkExternal, Request
    <2>2. \A t_1 \in Thread : Prepared(t_1)'
      BY <1>16 DEF MarkExternal, Request
    <2>3. ResultBacksVerdict' /\ CopiesBacked'
      BY <1>16 DEF MarkExternal, Request, ResultBacksVerdict, CopiesBacked, Backed
    <2>4. LockHeld'
      BY <1>16 DEF MarkExternal, Request, LockHeld
    <2> QED
      BY <2>1, <2>2, <2>3, <2>4
  <1>17. ASSUME NEW u \in User, NEW r \in Run, CancelRead(u, r) PROVE IInv'
    <2>1. TypeOK'
      BY <1>17 DEF CancelRead, Request, Cancellable
    <2>2. \A t_1 \in Thread : Prepared(t_1)'
      BY <1>17 DEF CancelRead, Request, Cancellable
    <2>3. ResultBacksVerdict' /\ CopiesBacked'
      BY <1>17 DEF CancelRead, Request, Cancellable, ResultBacksVerdict, CopiesBacked, Backed
    <2>4. LockHeld'
      BY <1>17 DEF CancelRead, Request, Cancellable, LockHeld
    <2> QED
      BY <2>1, <2>2, <2>3, <2>4
  <1>18. ASSUME NEW u \in User, CancelFlag(u) PROVE IInv'
    <2>1. TypeOK'
      BY <1>18 DEF CancelFlag
    <2>2. \A t_1 \in Thread : Prepared(t_1)'
      BY <1>18 DEF CancelFlag
    <2>3. ResultBacksVerdict' /\ CopiesBacked'
      BY <1>18 DEF CancelFlag, ResultBacksVerdict, CopiesBacked, Backed
    <2>4. LockHeld'
      BY <1>18 DEF CancelFlag, LockHeld
    <2> QED
      BY <2>1, <2>2, <2>3, <2>4
  <1>19. ASSUME NEW u \in User, CancelSave(u) PROVE IInv'
    <2>1. TypeOK'
      BY <1>19 DEF CancelSave
    <2>2. \A t_1 \in Thread : Prepared(t_1)'
      BY <1>19 DEF CancelSave
    <2>3. ResultBacksVerdict' /\ CopiesBacked'
      BY <1>19 DEF CancelSave, ResultBacksVerdict, CopiesBacked, Backed
    <2>4. LockHeld'
      BY <1>19 DEF CancelSave, LockHeld
    <2> QED
      BY <2>1, <2>2, <2>3, <2>4
  <1>20. ASSUME NEW u \in User, NEW r \in Run, Delete(u, r) PROVE IInv'
    <2>1. TypeOK'
      BY <1>20 DEF Delete
    <2>2. \A t_1 \in Thread : Prepared(t_1)'
      BY <1>20 DEF Delete
    <2>3. ResultBacksVerdict' /\ CopiesBacked'
      BY <1>20 DEF Delete, ResultBacksVerdict, CopiesBacked, Backed
    <2>4. LockHeld'
      BY <1>20 DEF Delete, LockHeld
    <2> QED
      BY <2>1, <2>2, <2>3, <2>4
  <1>21. ASSUME Restart PROVE IInv'
    <2>1. TypeOK'
      BY <1>21 DEF Restart
    <2>2. \A t_1 \in Thread : Prepared(t_1)'
      BY <1>21 DEF Restart
    <2>3. ResultBacksVerdict' /\ CopiesBacked'
      BY <1>21 DEF Restart, ResultBacksVerdict, CopiesBacked, Backed
    <2>4. LockHeld'
      BY <1>21 DEF Restart, LockHeld
    <2> QED
      BY <2>1, <2>2, <2>3, <2>4
  <1>22. CASE UNCHANGED vars
    BY <1>22 DEF vars, ResultBacksVerdict, CopiesBacked, Backed, LockHeld
  <1> QED
    BY <1>1, <1>2, <1>3, <1>4, <1>5, <1>6, <1>7, <1>8, <1>9, <1>10, <1>11,
       <1>12, <1>13, <1>14, <1>15, <1>16, <1>17, <1>18, <1>19, <1>20, <1>21, <1>22
    DEF Next, Execute, Continue, Receive

\* Every variable keeps its type: in particular every save writes a record.
THEOREM Invariant == Spec => []IInv
  BY InitIInv, NextIInv, PTL DEF Spec

THEOREM TypeCorrect == Spec => []TypeOK
  BY Invariant, PTL DEF IInv

\* For any number of runs, requests and restarts, a status that claims an
\* outcome of the browser comes with that outcome.
THEOREM VerdictBacked == Spec => []ResultBacksVerdict
  BY Invariant, PTL DEF IInv

\* Mutating runs of one account exclude each other in the browser, because each
\* of them holds the lock of the account.
THEOREM MutationExclusion == Spec => []OneMutationPerAccount
  <1>1. IInv => OneMutationPerAccount
    BY DEF IInv, LockHeld, OneMutationPerAccount
  <1> QED
    BY <1>1, Invariant, PTL

-----------------------------------------------------------------------------
(* Runs under chosen traffic.                                              *)

\* Where only cancellations come in, a run that was cancelled in time has
\* CANCELLED in its record, in what _persist_result will save and in the copy
\* that a writer of the trace holds.
Decided(r) ==
    /\ Stored(r, "CANCELLED")
    /\ pc[r] \notin {"new", "preparing"}
    /\ pc[r] = "persist" => goal[r] = "CANCELLED"
    /\ pc[r] = "markSave" => copy[r].status = "CANCELLED"

CancelInv ==
    workload = "cancels" =>
        /\ \A u \in User : pc[u] \in {"idle", "flag", "cancelSave"}
        /\ \A r \in decided : Decided(r)

\* No record, copy or intention of a thread calls the trace of r partial.
Whole(r) ==
    /\ Exists(r) => store[r].trace # "partial"
    /\ goal[r] # "partial"
    /\ copy[r] # None => copy[r].trace # "partial"
    /\ \A u \in User :
         target[u] = r /\ copy[u] # None => copy[u].trace # "partial"

\* Where nothing is deleted and no restart happens, a run in time has its events.
LogsInv ==
    workload = "logs" =>
        /\ \A u \in User :
             /\ goal[u] # "partial"
             /\ pc[u] \in {"idle", "mark"} => copy[u] = None
        /\ \A r \in Run : pc[r] \in BeforeWaiting \cup {"new", "missed"} => Whole(r)
        /\ \A r \in inTime : Whole(r) /\ r \in events /\ pc[r] \notin {"new", "missed"}

TrafficInv ==
    /\ IInv
    /\ workload \in DOMAIN Workload /\ decided \subseteq Run /\ inTime \subseteq Run
    /\ CancelInv /\ LogsInv

LEMMA TrafficInit == WorkloadInit => TrafficInv
  <1> SUFFICES ASSUME WorkloadInit PROVE TrafficInv
    OBVIOUS
  <1>1. IInv
    BY InitIInv DEF WorkloadInit
  <1>2. CancelInv /\ LogsInv
    BY DEF WorkloadInit, Init, CancelInv, LogsInv, Whole, Exists
  <1> QED
    BY <1>1, <1>2 DEF WorkloadInit, TrafficInv

LEMMA TrafficIsNext == [WorkloadNext]_trafficVars => [Next]_vars
  BY DEF WorkloadNext, trafficVars, Next, Receive

\* Where only cancellations come in, no user thread ever writes a trace.
OnlyCancels == \A u \in User : pc[u] \in {"idle", "flag", "cancelSave"}

CancelsNext ==
    \/ \E r \in Run : StartRun(r) \/ Execute(r)
    \/ \E u \in User : CancelFlag(u) \/ CancelSave(u) \/ \E r \in Run : CancelRead(u, r)
    \/ Restart

LEMMA OnlyCancelsStep ==
  ASSUME TypeOK, OnlyCancels, CancelsNext
  PROVE  OnlyCancels'
  <1> USE DEF TypeOK, Goto, OnlyCancels
  <1>1. ASSUME NEW r \in Run, StartRun(r) \/ Execute(r) PROVE \A u \in User : pc'[u] = pc[u]
    <2>1. CASE MarkRead(r) \/ MarkSave(r)
      BY <2>1 DEF MarkRead, MarkSave, AfterMark
    <2>2. CASE ~MarkRead(r) /\ ~MarkSave(r)
      BY <1>1, <2>2
         DEF StartRun, Execute, SaveRunning, Enter, Step, Fallback, ExecEnds, PersistRead,
             PersistSave, ChooseTrace, Poll, PollAgain, GiveUp
    <2> QED
      BY <2>1, <2>2
  <1>2. ASSUME NEW u \in User, CancelFlag(u) PROVE OnlyCancels'
    BY <1>2 DEF CancelFlag
  <1>3. ASSUME NEW u \in User, CancelSave(u) PROVE OnlyCancels'
    BY <1>3 DEF CancelSave
  <1>4. ASSUME NEW u \in User, NEW r \in Run, CancelRead(u, r) PROVE OnlyCancels'
    BY <1>4 DEF CancelRead, Request
  <1>5. CASE Restart
    BY <1>5 DEF Restart
  <1> QED
    BY <1>1, <1>2, <1>3, <1>4, <1>5 DEF CancelsNext

\* What a cancelled run has in its record and its thread stays, whichever
\* thread takes a step and although the process may restart.
LEMMA DecidedStep ==
  ASSUME IInv, NEW q \in Run, Decided(q), CancelsNext
  PROVE  Decided(q)'
  <1> USE DEF IInv, TypeOK, Prepared, Goto, Save, Exists, Stored, RunOf, Decided
  <1>1. ASSUME NEW r \in Run, StartRun(r) \/ SaveRunning(r) PROVE Decided(q)'
    BY <1>1 DEF StartRun, SaveRunning
  <1>2. ASSUME NEW r \in Run,
               Enter(r) \/ Step(r) \/ Fallback(r) \/ ExecEnds(r) \/ PersistRead(r)
        PROVE  Decided(q)'
    BY <1>2 DEF Enter, Step, Fallback, ExecEnds, PersistRead, InBrowser
  <1>3. ASSUME NEW r \in Run, PersistSave(r) PROVE Decided(q)'
    <2>1. Outcome(r) \in RunSummary
      BY <1>3 DEF PersistSave, Outcome
    <2>2. /\ pc[r] = "persist" /\ pc' = [pc EXCEPT ![r] = "trace"]
          /\ store' = [store EXCEPT ![r] = Outcome(r)]
      BY <1>3 DEF PersistSave
    <2>3. CASE r = q
      <3>1. store'[q] = Outcome(q) /\ pc'[q] = "trace"
        BY <2>2, <2>3
      <3>2. Outcome(q) # None /\ Outcome(q).status = "CANCELLED"
        BY <2>1, <2>2, <2>3 DEF Outcome
      <3> QED
        BY <3>1, <3>2
    <2>4. CASE r # q
      BY <1>3, <2>2, <2>4 DEF PersistSave
    <2> QED
      BY <2>3, <2>4
  <1>4. ASSUME NEW r \in Run, ChooseTrace(r) \/ Poll(r) \/ PollAgain(r) \/ GiveUp(r)
        PROVE  Decided(q)'
    BY <1>4 DEF ChooseTrace, Poll, PollAgain, GiveUp
  <1>5. ASSUME NEW r \in Run, MarkRead(r) PROVE Decided(q)'
    BY <1>5 DEF MarkRead, AfterMark
  <1>6. ASSUME NEW r \in Run, MarkSave(r) PROVE Decided(q)'
    BY <1>6 DEF MarkSave, Marked, AfterMark
  <1>7. ASSUME NEW u \in User, CancelFlag(u) \/ CancelSave(u) PROVE Decided(q)'
    BY <1>7 DEF CancelFlag, CancelSave
  <1>8. ASSUME NEW u \in User, NEW r \in Run, CancelRead(u, r) PROVE Decided(q)'
    BY <1>8 DEF CancelRead, Request
  <1>9. CASE Restart
    BY <1>9 DEF Restart
  <1>10. ASSUME NEW r \in Run, Execute(r) PROVE Decided(q)'
    BY <1>1, <1>2, <1>3, <1>4, <1>5, <1>6, <1>10 DEF Execute
  <1> QED
    BY <1>1, <1>7, <1>8, <1>9, <1>10 DEF CancelsNext

LEMMA CancelStep == TrafficInv /\ [WorkloadNext]_trafficVars => CancelInv'
  <1> SUFFICES ASSUME TrafficInv, [WorkloadNext]_trafficVars, workload' = "cancels"
               PROVE  CancelInv'
    BY DEF CancelInv
  <1>1. workload = "cancels" /\ IInv /\ TypeOK
    BY DEF WorkloadNext, trafficVars, TrafficInv, IInv
  <1>2. OnlyCancels /\ \A r \in decided : Decided(r)
    BY <1>1 DEF TrafficInv, CancelInv, OnlyCancels
  <1>3. CASE UNCHANGED trafficVars
    BY <1>2, <1>3 DEF trafficVars, vars, CancelInv, OnlyCancels, Decided, Stored, Exists
  <1>4. CASE WorkloadNext
    <2>1. Chosen.ops = {"cancel"}
      BY <1>1 DEF Chosen, Workload
    <2>2. CancelsNext
      BY <1>2, <1>4, <2>1
         DEF WorkloadNext, CancelsNext, Continue, OnlyCancels, MarkRead, MarkSave
    <2>3. decided' \subseteq Run /\ \A r \in decided' : Decided(r)
      BY <1>2, <1>4 DEF WorkloadNext, TrafficInv, Decided, BeforeLook
    <2>4. \A r \in decided' : Decided(r)'
      BY <1>1, <2>2, <2>3, DecidedStep
    <2> QED
      BY <1>1, <1>2, <2>2, <2>4, OnlyCancelsStep DEF CancelInv, OnlyCancels
  <1> QED
    BY <1>3, <1>4

-----------------------------------------------------------------------------
\* A run whose trace nobody calls partial stays so while its thread does not
\* give up and the process does not restart.
UsersWhole ==
    \A u \in User : /\ goal[u] # "partial"
                    /\ pc[u] \in {"idle", "mark"} => copy[u] = None

LogsNext ==
    \/ \E r \in Run : StartRun(r) \/ Execute(r)
    \/ \E u \in User : Continue(u)
    \/ \E u \in User, r \in Run : Ingest(u, r) \/ MarkExternal(u, r) \/ CancelRead(u, r)

LEMMA UsersWholeStep ==
  ASSUME TypeOK, UsersWhole, LogsNext
  PROVE  UsersWhole'
  <1> USE DEF TypeOK, Goto, UsersWhole
  <1>1. ASSUME NEW r \in Run, StartRun(r) \/ Execute(r)
        PROVE  \A u \in User : pc'[u] = pc[u] /\ goal'[u] = goal[u] /\ copy'[u] = copy[u]
    <2>1. CASE MarkRead(r) \/ MarkSave(r)
      BY <2>1 DEF MarkRead, MarkSave, AfterMark
    <2>2. CASE ~MarkRead(r) /\ ~MarkSave(r)
      BY <1>1, <2>2
         DEF StartRun, Execute, SaveRunning, Enter, Step, Fallback, ExecEnds, PersistRead,
             PersistSave, ChooseTrace, Poll, PollAgain, GiveUp
    <2> QED
      BY <2>1, <2>2
  <1>2. ASSUME NEW u \in User, CancelFlag(u) \/ CancelSave(u) PROVE UsersWhole'
    BY <1>2 DEF CancelFlag, CancelSave
  <1>3. ASSUME NEW u \in User, MarkRead(u) PROVE UsersWhole'
    BY <1>3 DEF MarkRead, AfterMark
  <1>4. ASSUME NEW u \in User, MarkSave(u) PROVE UsersWhole'
    BY <1>4 DEF MarkSave, AfterMark
  <1>5. ASSUME NEW u \in User, NEW r \in Run, Ingest(u, r) \/ MarkExternal(u, r) PROVE UsersWhole'
    BY <1>5 DEF Ingest, MarkExternal, Request
  <1>6. ASSUME NEW u \in User, NEW r \in Run, CancelRead(u, r) PROVE UsersWhole'
    BY <1>6 DEF CancelRead, Request
  <1> QED
    BY <1>1, <1>2, <1>3, <1>4, <1>5, <1>6 DEF LogsNext, Continue

LEMMA WholeStep ==
  ASSUME IInv, UsersWhole, NEW q \in Run, Whole(q), LogsNext, ~GiveUp(q)
  PROVE  Whole(q)'
  <1> USE DEF IInv, TypeOK, Prepared, Goto, Save, Exists, RunOf, Whole
  <1>1. ASSUME NEW r \in Run, StartRun(r) \/ SaveRunning(r) PROVE Whole(q)'
    BY <1>1 DEF StartRun, SaveRunning, Queued
  <1>2. ASSUME NEW r \in Run,
               Enter(r) \/ Step(r) \/ Fallback(r) \/ ExecEnds(r) \/ PersistRead(r)
        PROVE  Whole(q)'
    BY <1>2 DEF Enter, Step, Fallback, ExecEnds, PersistRead, Outcomes
  <1>3. ASSUME NEW r \in Run, PersistSave(r) PROVE Whole(q)'
    BY <1>3 DEF PersistSave, Outcome
  <1>4. ASSUME NEW r \in Run, ChooseTrace(r) \/ Poll(r) \/ PollAgain(r) \/ GiveUp(r)
        PROVE  Whole(q)'
    BY <1>4 DEF ChooseTrace, Poll, PollAgain, GiveUp
  <1>5. ASSUME NEW t \in Thread, MarkRead(t) PROVE Whole(q)'
    BY <1>5 DEF MarkRead, AfterMark
  <1>6. ASSUME NEW t \in Thread, MarkSave(t) PROVE Whole(q)'
    BY <1>6 DEF MarkSave, Marked, AfterMark, UsersWhole
  <1>7. ASSUME NEW u \in User, CancelFlag(u) \/ CancelSave(u) PROVE Whole(q)'
    BY <1>7 DEF CancelFlag, CancelSave
  <1>8. ASSUME NEW u \in User, NEW r \in Run,
               Ingest(u, r) \/ MarkExternal(u, r) \/ CancelRead(u, r)
        PROVE  Whole(q)'
    BY <1>8 DEF Ingest, MarkExternal, CancelRead, Request, UsersWhole
  <1>9. ASSUME NEW r \in Run, Execute(r) PROVE Whole(q)'
    BY <1>1, <1>2, <1>3, <1>4, <1>5, <1>6, <1>9 DEF Execute
  <1> QED
    BY <1>1, <1>5, <1>6, <1>7, <1>8, <1>9 DEF LogsNext, Continue

\* Events stay, and a run whose events are there does not miss them.
LEMMA EventsStep ==
  ASSUME TypeOK, NEW q \in Run, q \in events, pc[q] \notin {"new", "missed"}, LogsNext
  PROVE  q \in events' /\ pc'[q] \notin {"new", "missed"}
  <1> USE DEF TypeOK, Goto
  <1>1. ASSUME NEW t \in Thread, MarkRead(t) \/ MarkSave(t)
        PROVE  q \in events' /\ pc'[q] \notin {"new", "missed"}
    BY <1>1 DEF MarkRead, MarkSave, AfterMark
  <1>2. ASSUME NEW r \in Run, StartRun(r) \/ Execute(r), ~MarkRead(r) /\ ~MarkSave(r)
        PROVE  q \in events' /\ pc'[q] \notin {"new", "missed"}
    BY <1>2
       DEF StartRun, Execute, SaveRunning, Enter, Step, Fallback, ExecEnds, PersistRead,
           PersistSave, ChooseTrace, Poll, PollAgain, GiveUp
  <1>3. ASSUME NEW u \in User, CancelFlag(u) \/ CancelSave(u)
        PROVE  q \in events' /\ pc'[q] \notin {"new", "missed"}
    BY <1>3 DEF CancelFlag, CancelSave
  <1>4. ASSUME NEW u \in User, NEW r \in Run,
               Ingest(u, r) \/ MarkExternal(u, r) \/ CancelRead(u, r)
        PROVE  q \in events' /\ pc'[q] \notin {"new", "missed"}
    BY <1>4 DEF Ingest, MarkExternal, CancelRead, Request
  <1> QED
    BY <1>1, <1>2, <1>3, <1>4 DEF LogsNext, Continue

Early == BeforeWaiting \cup {"new", "missed"}

\* A thread that has begun to write about the trace never polls again.
LEMMA EarlyStep ==
  ASSUME TypeOK, NEW q \in Run, LogsNext, pc'[q] \in Early
  PROVE  pc[q] \in Early /\ ~GiveUp(q)
  <1> USE DEF TypeOK, Goto, Early, BeforeWaiting, RunPc
  <1>1. ASSUME NEW t \in Thread, MarkRead(t) \/ MarkSave(t) PROVE pc[q] \in Early /\ ~GiveUp(q)
    BY <1>1 DEF MarkRead, MarkSave, AfterMark, GiveUp
  <1>2. ASSUME NEW r \in Run, StartRun(r) \/ Execute(r), ~MarkRead(r) /\ ~MarkSave(r)
        PROVE  pc[q] \in Early /\ ~GiveUp(q)
    BY <1>2
       DEF StartRun, Execute, SaveRunning, Enter, Step, Fallback, ExecEnds, PersistRead,
           PersistSave, ChooseTrace, Poll, PollAgain, GiveUp, InBrowser
  <1>3. ASSUME NEW u \in User, CancelFlag(u) \/ CancelSave(u) PROVE pc[q] \in Early /\ ~GiveUp(q)
    BY <1>3 DEF CancelFlag, CancelSave, GiveUp
  <1>4. ASSUME NEW u \in User, NEW r \in Run,
               Ingest(u, r) \/ MarkExternal(u, r) \/ CancelRead(u, r)
        PROVE  pc[q] \in Early /\ ~GiveUp(q)
    BY <1>4 DEF Ingest, MarkExternal, CancelRead, Request, GiveUp
  <1> QED
    BY <1>1, <1>2, <1>3, <1>4 DEF LogsNext, Continue

LEMMA LogsStep == TrafficInv /\ [WorkloadNext]_trafficVars => LogsInv'
  <1> SUFFICES ASSUME TrafficInv, [WorkloadNext]_trafficVars, workload' = "logs"
               PROVE  LogsInv'
    BY DEF LogsInv
  <1>1. workload = "logs" /\ IInv /\ TypeOK
    BY DEF WorkloadNext, trafficVars, TrafficInv, IInv
  <1>2. /\ UsersWhole
        /\ \A r \in Run : pc[r] \in Early => Whole(r)
        /\ \A r \in inTime : Whole(r) /\ r \in events /\ pc[r] \notin {"new", "missed"}
    BY <1>1 DEF TrafficInv, LogsInv, UsersWhole, Early
  <1>3. CASE UNCHANGED trafficVars
    BY <1>2, <1>3 DEF trafficVars, vars, LogsInv, UsersWhole, Whole, Exists, Early
  <1>4. CASE WorkloadNext
    <2>1. Chosen.restarts = 0 /\ "delete" \notin Chosen.ops
      BY <1>1 DEF Chosen, Workload
    <2>2. LogsNext
      <3>1. ~(restarts < Chosen.restarts)
        BY <1>1, <2>1 DEF TypeOK
      <3> QED
        BY <1>4, <2>1, <3>1 DEF WorkloadNext, LogsNext
    <2>3. /\ inTime' \subseteq Run
          /\ \A r \in inTime' : Whole(r) /\ r \in events /\ pc[r] \notin {"new", "missed"}
      BY <1>1, <1>2, <1>4
         DEF WorkloadNext, TrafficInv, TypeOK, BeforeWaiting, RunPc, Early
    <2>4. \A r \in inTime' : /\ Whole(r)' /\ r \in events'
                             /\ pc'[r] \notin {"new", "missed"}
      <3> SUFFICES ASSUME NEW r \in inTime'
                   PROVE  Whole(r)' /\ r \in events' /\ pc'[r] \notin {"new", "missed"}
        OBVIOUS
      <3>1. r \in Run /\ Whole(r) /\ r \in events /\ pc[r] \notin {"new", "missed"}
        BY <2>3
      <3>2. ~GiveUp(r)
        BY <3>1 DEF GiveUp
      <3> QED
        BY <1>1, <1>2, <2>2, <3>1, <3>2, WholeStep, EventsStep
    <2>5. \A r \in Run : pc'[r] \in Early => Whole(r)'
      BY <1>1, <1>2, <2>2, EarlyStep, WholeStep
    <2>6. UsersWhole'
      BY <1>1, <1>2, <2>2, UsersWholeStep
    <2> QED
      BY <2>4, <2>5, <2>6 DEF LogsInv, UsersWhole, Early
  <1> QED
    BY <1>3, <1>4

THEOREM TrafficInvariant == WorkloadSpec => []TrafficInv
  <1>1. TrafficInv /\ [WorkloadNext]_trafficVars => TrafficInv'
    <2> SUFFICES ASSUME TrafficInv, [WorkloadNext]_trafficVars PROVE TrafficInv'
      OBVIOUS
    <2>1. IInv'
      BY TrafficIsNext, NextIInv DEF TrafficInv
    <2>2. /\ workload' \in DOMAIN Workload
          /\ decided' \subseteq Run /\ inTime' \subseteq Run
      BY DEF TrafficInv, IInv, TypeOK, WorkloadNext, trafficVars
    <2> QED
      BY <2>1, <2>2, CancelStep, LogsStep DEF TrafficInv
  <1> QED
    BY <1>1, TrafficInit, PTL DEF WorkloadSpec

\* Every traffic is one of RunLifecycle's.
THEOREM TrafficIsLifecycle == WorkloadSpec => Spec
  <1>1. WorkloadInit => Init
    BY DEF WorkloadInit
  <1> QED
    BY <1>1, TrafficIsNext, PTL DEF WorkloadSpec, Spec

\* A cancellation saved before _persist_result looks for one decides the run,
\* for any number of runs, cancelling users and restarts.
THEOREM CancellationDecides == WorkloadSpec => []CancelWins
  <1>1. TrafficInv => CancelWins
    BY DEF TrafficInv, CancelInv, CancelWins, Decided
  <1> QED
    BY <1>1, TrafficInvariant, PTL

\* Logs that arrive before the wait for them has begun are never lost to a
\* writer of a stale copy: the run is not labelled partial.
THEOREM LogsAreLinked == WorkloadSpec => []LogsInTime
  <1>1. TrafficInv => LogsInTime
    BY DEF TrafficInv, LogsInv, LogsInTime, Whole
  <1> QED
    BY <1>1, TrafficInvariant, PTL
=============================================================================
