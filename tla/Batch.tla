-------------------------------- MODULE Batch --------------------------------
(***************************************************************************)
(* One batch of BatchService: the stored BatchDefinition, the coordinator  *)
(* thread (_run_batch), the worker threads of its pool (_execute_case),    *)
(* the browser runs they start and the operators' start / pause / resume / *)
(* cancel requests.  get_batch and save_batch are atomic (store lock), but *)
(* everything between them is not: a handler that reads the definition and *)
(* later saves a changed copy of it is two actions, and the copy it holds  *)
(* is part of the state.  _BATCH_MUTATION_LOCK is taken by _claim_case and *)
(* _replace_case only, so the requests and the final save interleave with  *)
(* them freely.                                                            *)
(*                                                                         *)
(* Abstracted: payload data (inputs, versions, evidence paths, times), the *)
(* attempt records (their number is kept) and the flaky flag.  A run is    *)
(* RUNNING, TERMINAL (WAITING_FOR_REVIEW or AUTO_FAILED) or CANCELLED; its *)
(* failure kind is chosen when the one worker waiting for it reads it.     *)
(***************************************************************************)
EXTENDS Integers, FiniteSets

CONSTANTS
    NumCases,           \* cases of the batch, executed in list order
    Key,                \* isolation keys
    Iso,                \* Iso[c]: isolationKey of case c
    Review,             \* Review[c]: reviewRequired of case c
    Slot,               \* threads of the pool: min(concurrency, rate limit)
    Run,                \* run identifiers; one is reused once nobody holds it
    User,               \* concurrent API request threads
    Ops,                \* requests users make
    InfraRetry,         \* policy.infraRetryCount
    ProductRetry,       \* policy.productRetryCount
    MaxRestarts,        \* bound on process restarts
    None

Case == 1 .. NumCases
Requests == {"start", "pause", "cancel", "cancelRun"}

ASSUME SizeAssumption == NumCases \in Nat \ {0}
ASSUME IsoAssumption == Iso \in [Case -> Key]
ASSUME SlotAssumption == Slot # {}
ASSUME ReviewAssumption == Review \in [Case -> BOOLEAN]
ASSUME OpsAssumption == Ops \subseteq Requests
ASSUME RetryAssumption == InfraRetry \in 0 .. 3 /\ ProductRetry \in 0 .. 1
ASSUME RestartAssumption == MaxRestarts \in Nat

CaseStatus == {"PENDING", "RUNNING", "COMPLETED", "FAILED",
               "REVIEW_REQUIRED", "SKIPPED", "CANCELLED"}
BatchStatus == {"DRAFT", "READY", "RUNNING", "PAUSED", "COMPLETED",
                "COMPLETED_WITH_FAILURES", "CANCELLED"}
Finished == {"COMPLETED", "COMPLETED_WITH_FAILURES", "CANCELLED"}
FailureKind == {"none", "infra", "product", "cancelled"}

BatchCase == [status : CaseStatus, run : Run \cup {None}]
BatchDefinition == [status : BatchStatus, cases : [Case -> BatchCase]]

ASSUME NoneAssumption ==
    /\ None \notin Run /\ None \notin Slot /\ None \notin Key
    /\ None \notin Case /\ None \notin CaseStatus
    /\ None \notin BatchDefinition
    /\ None \notin [snap : BatchDefinition, case : Case, new : BatchCase]

VARIABLES
    batch,      \* the definition held by the store
    mutex,      \* _BATCH_MUTATION_LOCK: None, or the copy read and the change
    req,        \* req[u]: request in progress: step, copy read, runs to cancel
    coord,      \* where the coordinator thread is
    pending,    \* its list of PENDING cases not yet looked at
    final,      \* the copy its final save will write
    wpc,        \* wpc[s]: where the job in pool thread s is
    wcase,      \* wcase[s]: the case it executes
    wrun,       \* wrun[s]: the run of its current attempt
    wtry,       \* wtry[s]: attempts it has made
    wres,       \* wres[s]: status of the case it returns
    keylock,    \* keylock[k]: the thread holding resource lock k
    run,        \* run[r]: status of run r in the store
    browser,    \* browser[r]: the case whose browser session runs r, or None
    restarts    \* process restarts so far

reqVars == <<req>>
coordVars == <<coord, pending, final>>
workVars == <<wpc, wcase, wrun, wtry, wres, keylock>>
runVars == <<run, browser>>
vars == <<batch, mutex, req, coord, pending, final, wpc, wcase, wrun, wtry,
          wres, keylock, run, browser, restarts>>

Idle == [pc |-> "idle", snap |-> None, todo |-> {}]

\* A request that has read the definition keeps the copy until it saves it.
RequestState ==
    [pc : {"idle", "ensure"}, snap : {None}, todo : {{}}]
      \cup [pc : {"startSave", "pauseSave", "cancelRuns"},
            snap : BatchDefinition, todo : SUBSET Run]
CoordPc == {"dead", "loop", "scan", "claimSave", "collect", "collectSave",
            "join", "finalRead", "finalSave", "exit"}
WorkPc == {"free", "submitted", "mark", "markSave", "check", "start",
           "publish", "publishSave", "await", "done"}

TypeOK ==
    /\ batch \in BatchDefinition
    /\ mutex \in [snap : BatchDefinition, case : Case, new : BatchCase]
                   \cup {None}
    /\ req \in [User -> RequestState]
    /\ coord \in CoordPc
    /\ pending \in SUBSET Case
    /\ final \in BatchDefinition \cup {None}
    /\ coord = "finalSave" => final \in BatchDefinition
    /\ wpc \in [Slot -> WorkPc]
    /\ wcase \in [Slot -> Case \cup {None}]
    /\ wrun \in [Slot -> Run \cup {None}]
    /\ wtry \in [Slot -> Nat]
    /\ wres \in [Slot -> CaseStatus \cup {None}]
    /\ keylock \in [Key -> Slot \cup {None}]
    /\ run \in [Run -> {"RUNNING", "TERMINAL", "CANCELLED"}]
    /\ browser \in [Run -> Case \cup {None}]
    /\ restarts \in Nat

\* create: READY or DRAFT, each case PENDING or skipped by the policy.
Init ==
    /\ \E st \in {"DRAFT", "READY"}, skipped \in SUBSET Case :
         batch = [status |-> st,
                  cases |-> [c \in Case |->
                     [status |-> IF c \in skipped THEN "SKIPPED" ELSE "PENDING",
                      run |-> None]]]
    /\ mutex = None
    /\ req = [u \in User |-> Idle]
    /\ coord = "dead"
    /\ pending = {}
    /\ final = None
    /\ wpc = [s \in Slot |-> "free"]
    /\ wcase = [s \in Slot |-> None]
    /\ wrun = [s \in Slot |-> None]
    /\ wtry = [s \in Slot |-> 0]
    /\ wres = [s \in Slot |-> None]
    /\ keylock = [k \in Key |-> None]
    /\ run = [r \in Run |-> "TERMINAL"]
    /\ browser = [r \in Run |-> None]
    /\ restarts = 0

-----------------------------------------------------------------------------
(* Requests                                                                *)

StartRead(u) ==
    /\ "start" \in Ops
    /\ req[u].pc = "idle"
    /\ batch.status \in {"READY", "PAUSED"}
    /\ req' = [req EXCEPT ![u] = [pc |-> "startSave", snap |-> batch, todo |-> {}]]
    /\ UNCHANGED <<batch, mutex, restarts, coordVars, workVars, runVars>>

StartSave(u) ==
    /\ req[u].pc = "startSave"
    /\ batch' = [req[u].snap EXCEPT !.status = "RUNNING"]
    /\ req' = [req EXCEPT ![u] = [pc |-> "ensure", snap |-> None, todo |-> {}]]
    /\ UNCHANGED <<mutex, restarts, coordVars, workVars, runVars>>

\* A coordinator that has left its loop but not yet returned is_alive too.
EnsureCoordinator(u) ==
    /\ req[u].pc = "ensure"
    /\ req' = [req EXCEPT ![u] = Idle]
    /\ coord' = IF coord = "dead" THEN "loop" ELSE coord
    /\ UNCHANGED <<batch, mutex, restarts, pending, final, workVars, runVars>>

PauseRead(u) ==
    /\ "pause" \in Ops
    /\ req[u].pc = "idle"
    /\ batch.status = "RUNNING"
    /\ req' = [req EXCEPT ![u] = [pc |-> "pauseSave", snap |-> batch, todo |-> {}]]
    /\ UNCHANGED <<batch, mutex, restarts, coordVars, workVars, runVars>>

PauseSave(u) ==
    /\ req[u].pc = "pauseSave"
    /\ batch' = [req[u].snap EXCEPT !.status = "PAUSED"]
    /\ req' = [req EXCEPT ![u] = Idle]
    /\ UNCHANGED <<mutex, restarts, coordVars, workVars, runVars>>

RunsOf(b) == {b.cases[c].run : c \in Case} \ {None}

CancelRead(u) ==
    /\ "cancel" \in Ops
    /\ req[u].pc = "idle"
    /\ batch.status \notin Finished
    /\ req' = [req EXCEPT ![u] = [pc |-> "cancelRuns", snap |-> batch,
                                  todo |-> RunsOf(batch)]]
    /\ UNCHANGED <<batch, mutex, restarts, coordVars, workVars, runVars>>

\* cancel_run writes the flag and saves CANCELLED unless the run is terminal.
MarkCancelled(r) ==
    run' = [run EXCEPT ![r] = IF @ = "RUNNING" THEN "CANCELLED" ELSE @]

CancelOneRun(u) ==
    /\ req[u].pc = "cancelRuns"
    /\ \E r \in req[u].todo :
         /\ MarkCancelled(r)
         /\ req' = [req EXCEPT ![u].todo = @ \ {r}]
    /\ UNCHANGED <<batch, mutex, restarts, browser, coordVars, workVars>>

\* Mutant: a misspelt status.
MutantCancelledCase(cs) ==
    IF cs.status \in {"PENDING", "RUNNING"}
    THEN [status |-> "CANCELED", run |-> None] ELSE cs

CancelledCase(cs) ==
    IF cs.status \in {"PENDING", "RUNNING"}
    THEN [status |-> "CANCELLED", run |-> None] ELSE cs

CancelSave(u) ==
    /\ req[u].pc = "cancelRuns"
    /\ req[u].todo = {}
    /\ LET b == req[u].snap IN
         batch' = [status |-> "CANCELLED",
                   cases |-> [c \in Case |-> CancelledCase(b.cases[c])]]
    /\ req' = [req EXCEPT ![u] = Idle]
    /\ UNCHANGED <<mutex, restarts, coordVars, workVars, runVars>>

\* The run itself is cancelled through the run API.
CancelRunDirectly(r) ==
    /\ "cancelRun" \in Ops
    /\ run[r] = "RUNNING"
    /\ MarkCancelled(r)
    /\ UNCHANGED <<batch, mutex, restarts, browser, reqVars, coordVars, workVars>>

-----------------------------------------------------------------------------
(* _replace_case: read and save under the mutation lock                    *)

ReplaceRead(c, new) ==
    /\ mutex = None
    /\ batch.status # "CANCELLED"
    /\ mutex' = [snap |-> batch, case |-> c, new |-> new]
    /\ UNCHANGED batch

ReplaceDropped ==
    /\ mutex = None
    /\ batch.status = "CANCELLED"
    /\ UNCHANGED <<batch, mutex>>

ReplaceSave ==
    /\ mutex # None
    /\ batch' = [mutex.snap EXCEPT !.cases[mutex.case] = mutex.new]
    /\ mutex' = None

-----------------------------------------------------------------------------
(* The coordinator                                                         *)

Free(s) == wpc[s] = "free"
FreeSlots == {s \in Slot : Free(s)}

FreedSlot(s) ==
    /\ wpc' = [wpc EXCEPT ![s] = "free"]
    /\ wcase' = [wcase EXCEPT ![s] = None]
    /\ wrun' = [wrun EXCEPT ![s] = None]
    /\ wtry' = [wtry EXCEPT ![s] = 0]
    /\ wres' = [wres EXCEPT ![s] = None]

\* Mutant: failed cases are queued again.
MutantIsPending(cs) == cs.status \in {"PENDING", "FAILED"}

IsPending(cs) == cs.status = "PENDING"

\* Mutant: a paused coordinator only waits, it does not collect.
MutantCoordLoop ==
    /\ coord = "loop"
    /\ \/ /\ batch.status = "CANCELLED"
          /\ coord' = "join"
          /\ UNCHANGED pending
       \/ /\ batch.status \notin {"CANCELLED", "PAUSED"}
          /\ coord' = "scan"
          /\ pending' = {c \in Case : IsPending(batch.cases[c])}
    /\ UNCHANGED <<batch, mutex, restarts, final, reqVars, workVars, runVars>>

CoordLoop ==
    /\ coord = "loop"
    /\ \/ /\ batch.status = "CANCELLED"
          /\ coord' = "join"
          /\ UNCHANGED pending
       \/ /\ batch.status = "PAUSED"
          /\ FreeSlots # Slot
          /\ coord' = "collect"
          /\ UNCHANGED pending
       \/ /\ batch.status \notin {"CANCELLED", "PAUSED"}
          /\ coord' = "scan"
          /\ pending' = {c \in Case : IsPending(batch.cases[c])}
    /\ UNCHANGED <<batch, mutex, restarts, final, reqVars, workVars, runVars>>

IsNext(c) == c \in pending /\ \A d \in pending : c <= d

Claimable(c) == batch.status = "RUNNING" /\ IsPending(batch.cases[c])

\* Mutant: the claim does not change the status.
MutantClaimed(c) == batch.cases[c]

Claimed(c) == [status |-> "RUNNING", run |-> batch.cases[c].run]

ClaimRead(c) ==
    /\ coord = "scan"
    /\ IsNext(c)
    /\ FreeSlots # {}
    /\ mutex = None
    /\ Claimable(c)
    /\ mutex' = [snap |-> batch, case |-> c, new |-> Claimed(c)]
    /\ coord' = "claimSave"
    /\ UNCHANGED <<batch, restarts, pending, final, reqVars, workVars, runVars>>

ClaimRefused(c) ==
    /\ coord = "scan"
    /\ IsNext(c)
    /\ FreeSlots # {}
    /\ mutex = None
    /\ ~Claimable(c)
    /\ pending' = pending \ {c}
    /\ UNCHANGED <<batch, mutex, restarts, coord, final, reqVars, workVars, runVars>>

ClaimSave(s) ==
    /\ coord = "claimSave"
    /\ Free(s)
    /\ ReplaceSave
    /\ wpc' = [wpc EXCEPT ![s] = "submitted"]
    /\ wcase' = [wcase EXCEPT ![s] = mutex.case]
    /\ wrun' = [wrun EXCEPT ![s] = mutex.new.run]
    /\ pending' = pending \ {mutex.case}
    /\ coord' = "scan"
    /\ UNCHANGED <<restarts, final, wtry, wres, keylock, reqVars, runVars>>

\* Mutant: the loop ends with the list, not with the last job.
MutantScanDone ==
    /\ coord = "scan"
    /\ pending = {} \/ FreeSlots = {}
    /\ coord' = IF pending = {} THEN "join" ELSE "collect"
    /\ pending' = {}
    /\ UNCHANGED <<batch, mutex, restarts, final, reqVars, workVars, runVars>>

ScanDone ==
    /\ coord = "scan"
    /\ pending = {} \/ FreeSlots = {}
    /\ coord' = IF FreeSlots = Slot THEN "join" ELSE "collect"
    /\ pending' = {}
    /\ UNCHANGED <<batch, mutex, restarts, final, reqVars, workVars, runVars>>

CollectRead(s) ==
    /\ coord = "collect"
    /\ wpc[s] = "done"
    /\ \/ /\ ReplaceRead(wcase[s], [status |-> wres[s], run |-> None])
          /\ coord' = "collectSave"
       \/ /\ ReplaceDropped
          /\ UNCHANGED coord
    /\ FreedSlot(s)
    /\ UNCHANGED <<restarts, pending, final, keylock, reqVars, runVars>>

CollectSave ==
    /\ coord = "collectSave"
    /\ ReplaceSave
    /\ coord' = "collect"
    /\ UNCHANGED <<restarts, pending, final, reqVars, workVars, runVars>>

\* wait() returned: nothing (more) is done.
CollectDone ==
    /\ coord = "collect"
    /\ \A s \in Slot : wpc[s] # "done"
    /\ coord' = "loop"
    /\ UNCHANGED <<batch, mutex, restarts, pending, final, reqVars, workVars, runVars>>

\* Leaving the pool waits for every job; results not collected are dropped.
CoordJoin ==
    /\ coord = "join"
    /\ \A s \in Slot : wpc[s] \in {"free", "done"}
    /\ wpc' = [s \in Slot |-> "free"]
    /\ wcase' = [s \in Slot |-> None]
    /\ wrun' = [s \in Slot |-> None]
    /\ wtry' = [s \in Slot |-> 0]
    /\ wres' = [s \in Slot |-> None]
    /\ coord' = "finalRead"
    /\ UNCHANGED <<batch, mutex, restarts, pending, final, keylock, reqVars, runVars>>

FinalRead ==
    /\ coord = "finalRead"
    /\ IF batch.status = "CANCELLED"
       THEN coord' = "exit" /\ UNCHANGED final
       ELSE coord' = "finalSave" /\ final' = batch
    /\ UNCHANGED <<batch, mutex, restarts, pending, reqVars, workVars, runVars>>

\* Mutant: a case left for review does not count.
MutantHasFailures(b) == \E c \in Case : b.cases[c].status = "FAILED"

HasFailures(b) ==
    \E c \in Case : b.cases[c].status \in {"FAILED", "REVIEW_REQUIRED"}

FinalSave ==
    /\ coord = "finalSave"
    /\ batch' = [final EXCEPT !.status = IF HasFailures(final)
                                         THEN "COMPLETED_WITH_FAILURES"
                                         ELSE "COMPLETED"]
    /\ final' = None
    /\ coord' = "exit"
    /\ UNCHANGED <<mutex, restarts, pending, reqVars, workVars, runVars>>

CoordExit ==
    /\ coord = "exit"
    /\ coord' = "dead"
    /\ UNCHANGED <<batch, mutex, restarts, pending, final, reqVars, workVars, runVars>>

-----------------------------------------------------------------------------
(* A job of the pool: _execute_case                                        *)

Goto(s, pc) == wpc' = [wpc EXCEPT ![s] = pc]

\* Mutant: the resource lock is taken from whoever holds it.
MutantWorkLock(s) ==
    /\ wpc[s] = "submitted"
    /\ keylock' = [keylock EXCEPT ![Iso[wcase[s]]] = s]
    /\ Goto(s, "mark")
    /\ UNCHANGED <<batch, mutex, restarts, wcase, wrun, wtry, wres, reqVars,
                   coordVars, runVars>>

WorkLock(s) ==
    /\ wpc[s] = "submitted"
    /\ keylock[Iso[wcase[s]]] = None
    /\ keylock' = [keylock EXCEPT ![Iso[wcase[s]]] = s]
    /\ Goto(s, "mark")
    /\ UNCHANGED <<batch, mutex, restarts, wcase, wrun, wtry, wres, reqVars,
                   coordVars, runVars>>

Running(s) == [status |-> "RUNNING", run |-> wrun[s]]

WorkMark(s) ==
    /\ wpc[s] = "mark"
    /\ \/ ReplaceRead(wcase[s], Running(s)) /\ Goto(s, "markSave")
       \/ ReplaceDropped /\ Goto(s, "check")
    /\ UNCHANGED <<restarts, wcase, wrun, wtry, wres, keylock, reqVars,
                   coordVars, runVars>>

WorkMarkSave(s) ==
    /\ wpc[s] = "markSave"
    /\ ReplaceSave
    /\ Goto(s, "check")
    /\ UNCHANGED <<restarts, wcase, wrun, wtry, wres, keylock, reqVars,
                   coordVars, runVars>>

\* Mutant: the resource lock is kept.
MutantFinish(s, st) ==
    /\ Goto(s, "done")
    /\ wres' = [wres EXCEPT ![s] = st]
    /\ UNCHANGED keylock

\* The job returns: the case gets status st, the resource lock is released.
Finish(s, st) ==
    /\ Goto(s, "done")
    /\ wres' = [wres EXCEPT ![s] = st]
    /\ keylock' = [keylock EXCEPT ![Iso[wcase[s]]] = None]

WorkCheck(s) ==
    /\ wpc[s] = "check"
    /\ IF batch.status = "CANCELLED"
       THEN Finish(s, "CANCELLED")
       ELSE Goto(s, "start") /\ UNCHANGED <<wres, keylock>>
    /\ UNCHANGED <<batch, mutex, restarts, wcase, wrun, wtry, reqVars,
                   coordVars, runVars>>

Allowed(kind) == IF kind = "infra" THEN InfraRetry ELSE ProductRetry

MayRetry(s, kind) == kind # "none" /\ wtry[s] + 1 < 1 + Allowed(kind)

\* Without evidence even a passing run is left for review.
CaseOutcome(c, kind) ==
    CASE kind = "cancelled" -> {"CANCELLED"}
      [] kind \in {"infra", "product"} -> {"FAILED"}
      [] kind = "none" -> IF Review[c] THEN {"REVIEW_REQUIRED"}
                          ELSE {"REVIEW_REQUIRED", "COMPLETED"}

EndAttempt(s, kind) ==
    /\ wtry' = [wtry EXCEPT ![s] = @ + 1]
    /\ wrun' = [wrun EXCEPT ![s] = None]
    /\ IF MayRetry(s, kind)
       THEN Goto(s, "check") /\ UNCHANGED <<wres, keylock>>
       ELSE \E st \in CaseOutcome(wcase[s], kind) : Finish(s, st)

HeldRuns ==
    {wrun[s] : s \in Slot} \cup RunsOf(batch)
      \cup (IF mutex = None THEN {} ELSE RunsOf(mutex.snap) \cup {mutex.new.run})
      \cup (IF final = None THEN {} ELSE RunsOf(final))
      \cup UNION {req[u].todo : u \in User}
      \cup UNION {RunsOf(req[u].snap) : u \in {v \in User : req[v].snap # None}}

\* A new identifier: no thread executes it and nobody remembers it.
FreshRun(r) == browser[r] = None /\ r \notin HeldRuns

WorkStartRun(s) ==
    /\ wpc[s] = "start"
    /\ \E r \in Run :
         /\ FreshRun(r)
         /\ run' = [run EXCEPT ![r] = "RUNNING"]
         /\ browser' = [browser EXCEPT ![r] = wcase[s]]
         /\ wrun' = [wrun EXCEPT ![s] = r]
    /\ Goto(s, "publish")
    /\ UNCHANGED <<batch, mutex, restarts, wcase, wtry, wres, keylock, reqVars,
                   coordVars>>

\* start_run raised: an infra attempt without a run.
WorkStartFails(s) ==
    /\ wpc[s] = "start"
    /\ EndAttempt(s, "infra")
    /\ UNCHANGED <<batch, mutex, restarts, wcase, reqVars, coordVars, runVars>>

WorkPublish(s) ==
    /\ wpc[s] = "publish"
    /\ \/ ReplaceRead(wcase[s], Running(s)) /\ Goto(s, "publishSave")
       \/ ReplaceDropped /\ Goto(s, "await")
    /\ UNCHANGED <<restarts, wcase, wrun, wtry, wres, keylock, reqVars,
                   coordVars, runVars>>

WorkPublishSave(s) ==
    /\ wpc[s] = "publishSave"
    /\ ReplaceSave
    /\ Goto(s, "await")
    /\ UNCHANGED <<restarts, wcase, wrun, wtry, wres, keylock, reqVars,
                   coordVars, runVars>>

KindsOf(status) ==
    IF status = "CANCELLED" THEN {"cancelled"} ELSE {"none", "infra", "product"}

WorkAwait(s) ==
    /\ wpc[s] = "await"
    /\ run[wrun[s]] # "RUNNING"
    /\ \E kind \in KindsOf(run[wrun[s]]) : EndAttempt(s, kind)
    /\ UNCHANGED <<batch, mutex, restarts, wcase, reqVars, coordVars, runVars>>

\* Mutant: the worker gives up on a cancelled batch without cancelling the run.
MutantWorkAwaitCancel(s) ==
    /\ wpc[s] = "await"
    /\ run[wrun[s]] = "RUNNING"
    /\ batch.status = "CANCELLED"
    /\ EndAttempt(s, "cancelled")
    /\ UNCHANGED <<batch, mutex, restarts, wcase, reqVars, coordVars, runVars>>

WorkAwaitCancel(s) ==
    /\ wpc[s] = "await"
    /\ run[wrun[s]] = "RUNNING"
    /\ batch.status = "CANCELLED"
    /\ MarkCancelled(wrun[s])
    /\ EndAttempt(s, "cancelled")
    /\ UNCHANGED <<batch, mutex, restarts, wcase, browser, reqVars, coordVars>>

-----------------------------------------------------------------------------
(* Runs and the process                                                    *)

\* The run's thread ends.  It keeps a cancellation it saw, and overwrites one
\* saved after its last look at the store (_persist_result).
RunEnds(r) ==
    /\ browser[r] # None
    /\ browser' = [browser EXCEPT ![r] = None]
    /\ \/ run' = [run EXCEPT ![r] = "TERMINAL"]
       \/ run[r] = "CANCELLED" /\ UNCHANGED run
    /\ UNCHANGED <<batch, mutex, restarts, reqVars, coordVars, workVars>>

\* Threads, locks and sessions are gone; the stored batch and runs are not.
Restart ==
    /\ restarts < MaxRestarts
    /\ restarts' = restarts + 1
    /\ mutex' = None
    /\ req' = [u \in User |-> Idle]
    /\ coord' = "dead"
    /\ pending' = {}
    /\ final' = None
    /\ wpc' = [s \in Slot |-> "free"]
    /\ wcase' = [s \in Slot |-> None]
    /\ wrun' = [s \in Slot |-> None]
    /\ wtry' = [s \in Slot |-> 0]
    /\ wres' = [s \in Slot |-> None]
    /\ keylock' = [k \in Key |-> None]
    /\ browser' = [r \in Run |-> None]
    /\ UNCHANGED <<batch, run>>

Continue(u) ==
    StartSave(u) \/ EnsureCoordinator(u) \/ PauseSave(u) \/ CancelOneRun(u)
      \/ CancelSave(u)

Request(u) == StartRead(u) \/ PauseRead(u) \/ CancelRead(u)

Coordinator ==
    \/ CoordLoop \/ ScanDone \/ CollectSave \/ CollectDone \/ CoordJoin
    \/ FinalRead \/ FinalSave \/ CoordExit
    \/ \E c \in Case : ClaimRead(c) \/ ClaimRefused(c)
    \/ \E s \in Slot : ClaimSave(s) \/ CollectRead(s)

Worker(s) ==
    \/ WorkLock(s) \/ WorkMark(s) \/ WorkMarkSave(s) \/ WorkCheck(s)
    \/ WorkStartRun(s) \/ WorkStartFails(s) \/ WorkPublish(s)
    \/ WorkPublishSave(s) \/ WorkAwait(s) \/ WorkAwaitCancel(s)

Next ==
    \/ \E u \in User : Request(u) \/ Continue(u)
    \/ Coordinator
    \/ \E s \in Slot : Worker(s)
    \/ \E r \in Run : CancelRunDirectly(r) \/ RunEnds(r)
    \/ Restart

Spec == Init /\ [][Next]_vars

\* Threads of a live process keep running, a browser run ends (its tools have
\* time limits); a request once received is finished.  No user must act.
Fairness ==
    /\ WF_vars(Coordinator)
    /\ \A s \in Slot : WF_vars(Worker(s))
    /\ \A r \in Run : WF_vars(RunEnds(r))
    /\ \A u \in User : WF_vars(Continue(u))

FairSpec == Spec /\ Fairness

-----------------------------------------------------------------------------
(* Properties                                                              *)

\* A run that nobody has cancelled and whose browser session is open.
Active(r) == browser[r] # None /\ run[r] = "RUNNING"

\* Every active run has its worker: the thread that started it is waiting for
\* it (_await_terminal) and holds the resource lock of its isolation key, so a
\* run is never left behind by a pause, a cancel or a lost update.
RunsAttended ==
    \A r \in Run : Active(r) =>
        \E s \in Slot : /\ wrun[s] = r
                        /\ wpc[s] \in {"publish", "publishSave", "await"}
                        /\ keylock[Iso[browser[r]]] = s

\* Two active runs never have the same isolation key (_resource_lock held for
\* the whole of _execute_case), whatever the requests do to the definition.
OneRunPerKey ==
    \A r, q \in Run : Active(r) /\ Active(q) /\ r # q
                          => Iso[browser[r]] # Iso[browser[q]]

\* Once a batch stays cancelled every job ends and no run stays active: the
\* workers' checks of the status (_execute_case, _await_terminal) reach them
\* even though cancel itself only saw the runs of the copy it read.
CancelDrains ==
    <>[](batch.status = "CANCELLED")
      => <>[](\A s \in Slot : Free(s) /\ \A r \in Run : ~Active(r))

\* Once a batch stays paused its jobs run to their end and are collected.
PauseQuiesces ==
    <>[](batch.status = "PAUSED") => <>[](\A s \in Slot : Free(s))

\* One start request, no pause and no cancel of the batch.
Unattended ==
    /\ Ops \cap {"pause", "cancel"} = {}
    /\ \A u, v \in User : u = v

\* No case is in two jobs at a time: _claim_case "atomically claims a PENDING
\* case so that it is put on the execution queue only once".
ClaimedOnce ==
    \A s, t \in Slot : s # t /\ wcase[s] # None => wcase[s] # wcase[t]

\* A settled case is never executed again or given another result.
SettledStays ==
    [][\A c \in Case : batch.cases[c].status \notin {"PENDING", "RUNNING"}
          => batch'.cases[c] = batch.cases[c]]_vars

\* When the final save declares the batch over no case is waiting or running,
\* and it is declared clean only if no case failed or needs review.
FinishedIsSettled ==
    batch.status \in {"COMPLETED", "COMPLETED_WITH_FAILURES"} =>
        /\ \A c \in Case : batch.cases[c].status \notin {"PENDING", "RUNNING"}
        /\ batch.status = "COMPLETED"
             <=> \A c \in Case :
                   batch.cases[c].status \notin {"FAILED", "REVIEW_REQUIRED"}

\* A started batch is eventually over, with every job collected.
Completes == batch.status = "RUNNING" ~> batch.status \in Finished

\* With no pause and no cancel request the batch keeps BatchPromise.
Promise == INSTANCE BatchPromise WITH
    status <- batch.status,
    caseStatus <- [c \in Case |-> batch.cases[c].status]

\* An unattended batch (one start, runs possibly cancelled one by one through
\* the run API) refines the abstract work list, liveness included.
KeepsPromise == Promise!Spec
=============================================================================
