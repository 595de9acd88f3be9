----------------------------- MODULE RunLifecycle -----------------------------
(***************************************************************************)
(* The life of browser runs: BrowserRunService (start_run, the thread of   *)
(* _execute_and_persist, _persist_result, cancel_run, delete_many), the    *)
(* writers of TelemetryService and the step loop of execute_run.           *)
(*                                                                         *)
(* Every writer of a run record reads it from the store, makes a changed   *)
(* copy and saves the whole copy; only the read and the save are atomic.   *)
(* Such a writer is two actions, and the copy it holds is state.           *)
(*                                                                         *)
(* A thread is a user's API request or the thread of one run, which is     *)
(* named by the run.  partialEvidence and the backend_telemetry entry of   *)
(* missingData are functions of backendTraceStatus and left out.           *)
(***************************************************************************)
EXTENDS Integers, FiniteSets

CONSTANTS
    Run,            \* run identifiers; each is started once
    Account,        \* environment : account keys of the mutation locks
    AccountOf,      \* AccountOf[r]: the key run r works under
    Mutating,       \* runs allowed, and having, a destructive step
    NumSteps,       \* steps of a scenario
    User,           \* concurrent API requests
    Ops,            \* operations users request
    MaxRestarts,    \* bound on process restarts
    None

Thread == User \cup Run
Operations == {"cancel", "ingest", "external", "delete"}

ASSUME AccountAssumption == AccountOf \in [Run -> Account]
ASSUME MutatingAssumption == Mutating \subseteq Run
ASSUME StepsAssumption == NumSteps \in Nat \ {0}
ASSUME ThreadAssumption == User \cap Run = {}
ASSUME OperationsAssumption == Ops \subseteq Operations
ASSUME RestartsAssumption == MaxRestarts \in Nat

Active == {"PREPARING", "RUNNING"}
Terminal == {"WAITING_FOR_REVIEW", "AUTO_FAILED", "CANCELLED"}
Trace == {"pending", "linked", "partial", "external_network_only", "not_required"}

\* result: the outcome of the browser (steps, evidence, verdict) is recorded.
RunSummary == [status : Active \cup Terminal, result : BOOLEAN, trace : Trace]

\* What a thread is about to write into a record; "observed": linked, and then
\* external_network_only.
Goals == Trace \cup Terminal \cup {"observed"}

ASSUME NoneAssumption == None \notin RunSummary \cup Run \cup Goals

VARIABLES
    store,      \* store[r]: the stored record of run r, or None
    events,     \* runs that have backend events in the store
    flag,       \* runs whose evidence directory holds the file CANCEL
    pc,         \* pc[t]: where thread t is
    copy,       \* copy[t]: the record thread t has read and will save
    target,     \* target[u]: the run that user u's request is about
    goal,       \* goal[t]: status or trace thread t is to write
    left,       \* left[r]: steps the browser of run r has still to do
    account,    \* account[k]: the run holding mutation lock k
    restarts    \* process restarts so far

vars == <<store, events, flag, pc, copy, target, goal, left, account, restarts>>

UserPc == {"idle", "flag", "cancelSave", "mark", "markSave"}
RunPc == {"new", "preparing", "enter", "exec", "fallback", "ended", "persist",
          "trace", "await", "missed", "mark", "markSave", "done"}

TypeOK ==
    /\ store \in [Run -> RunSummary \cup {None}]
    /\ events \subseteq Run /\ flag \subseteq Run
    /\ pc \in [Thread -> UserPc \cup RunPc]
    /\ \A u \in User : pc[u] \in UserPc
    /\ \A r \in Run : pc[r] \in RunPc
    /\ copy \in [Thread -> RunSummary \cup {None}]
    /\ target \in [User -> Run \cup {None}]
    /\ goal \in [Thread -> Goals \cup {None}]
    /\ left \in [Run -> 0 .. NumSteps]
    /\ account \in [Account -> Run \cup {None}]
    /\ restarts \in Nat

Init ==
    /\ store = [r \in Run |-> None]
    /\ events = {} /\ flag = {}
    /\ pc = [t \in Thread |-> IF t \in Run THEN "new" ELSE "idle"]
    /\ copy = [t \in Thread |-> None]
    /\ target = [u \in User |-> None]
    /\ goal = [t \in Thread |-> None]
    /\ left = [r \in Run |-> 0]
    /\ account = [k \in Account |-> None]
    /\ restarts = 0

Goto(t, p) == pc' = [pc EXCEPT ![t] = p]
Save(r, record) == store' = [store EXCEPT ![r] = record]
Exists(r) == store[r] # None
Stored(r, status) == Exists(r) /\ store[r].status = status

-----------------------------------------------------------------------------
(* Starting and executing a run                                            *)

\* The first record; start_run saves copies of it and never reads it back.
Queued(status) == [status |-> status, result |-> FALSE, trace |-> "pending"]

StartRun(r) ==
    /\ pc[r] = "new"
    /\ Save(r, Queued("PREPARING"))
    /\ Goto(r, "preparing")
    /\ UNCHANGED <<events, flag, copy, target, goal, left, account, restarts>>

SaveRunning(r) ==
    /\ pc[r] = "preparing"
    /\ Save(r, Queued("RUNNING"))
    /\ Goto(r, "enter")
    /\ UNCHANGED <<events, flag, copy, target, goal, left, account, restarts>>

\* Mutant: the lock is not shared between runs.
MutantMayEnter(r) == TRUE

MayEnter(r) == r \in Mutating => account[AccountOf[r]] = None

\* _mutation_execution_context
Enter(r) ==
    /\ pc[r] = "enter"
    /\ MayEnter(r)
    /\ account' = IF r \in Mutating THEN [account EXCEPT ![AccountOf[r]] = r]
                                    ELSE account
    /\ left' = [left EXCEPT ![r] = NumSteps]
    /\ Goto(r, "exec")
    /\ UNCHANGED <<store, events, flag, copy, target, goal, restarts>>

InBrowser(r) == pc[r] \in {"exec", "fallback"}

Step(r) ==
    /\ InBrowser(r)
    /\ left[r] > 0 /\ r \notin flag
    /\ left' = [left EXCEPT ![r] = @ - 1]
    /\ UNCHANGED <<store, events, flag, pc, copy, target, goal, account, restarts>>

\* The adapter gave no result: execute_scenario starts from the first step.
Fallback(r) ==
    /\ pc[r] = "exec"
    /\ left' = [left EXCEPT ![r] = NumSteps]
    /\ Goto(r, "fallback")
    /\ UNCHANGED <<store, events, flag, copy, target, goal, account, restarts>>

\* The browser saw the flag before a step, did all steps, or gave up early
\* (an exception, a precondition not met).
Outcomes(r) ==
    {"AUTO_FAILED"}
      \cup (IF left[r] > 0 /\ r \in flag THEN {"CANCELLED"} ELSE {})
      \cup (IF left[r] = 0 THEN {"WAITING_FOR_REVIEW"} ELSE {})

\* Mutant: the mutation lock is not released.
MutantExecEnds(r) ==
    /\ InBrowser(r)
    /\ \E status \in Outcomes(r) : goal' = [goal EXCEPT ![r] = status]
    /\ Goto(r, "ended")
    /\ UNCHANGED <<store, events, flag, copy, target, left, account, restarts>>

ExecEnds(r) ==
    /\ InBrowser(r)
    /\ \E status \in Outcomes(r) : goal' = [goal EXCEPT ![r] = status]
    /\ account' = IF r \in Mutating THEN [account EXCEPT ![AccountOf[r]] = None]
                                    ELSE account
    /\ Goto(r, "ended")
    /\ UNCHANGED <<store, events, flag, copy, target, left, restarts>>

\* Mutant: the browser's outcome is saved without looking for a cancellation.
MutantPersistRead(r) ==
    /\ pc[r] = "ended"
    /\ Goto(r, "persist")
    /\ UNCHANGED <<store, events, flag, copy, target, goal, left, account, restarts>>

\* _persist_result looks whether a cancellation came in, then asks the language
\* model for a summary, then saves a record made from the copy start_run had.
PersistRead(r) ==
    /\ pc[r] = "ended"
    /\ goal' = IF Stored(r, "CANCELLED") THEN [goal EXCEPT ![r] = "CANCELLED"]
                                         ELSE goal
    /\ Goto(r, "persist")
    /\ UNCHANGED <<store, events, flag, copy, target, left, account, restarts>>

\* Mutant: a failed run is saved without its steps and evidence.
MutantOutcome(r) ==
    [status |-> goal[r], result |-> goal[r] # "AUTO_FAILED", trace |-> "pending"]

Outcome(r) == [status |-> goal[r], result |-> TRUE, trace |-> "pending"]

PersistSave(r) ==
    /\ pc[r] = "persist"
    /\ Save(r, Outcome(r))
    /\ Goto(r, "trace")
    /\ goal' = [goal EXCEPT ![r] = None]
    /\ UNCHANGED <<events, flag, copy, target, left, account, restarts>>

-----------------------------------------------------------------------------
(* Writers of the backend trace                                            *)

\* The browser observed requests, or the scenario waits for a response, or
\* neither: what remains to be written about the backend trace.
ChooseTrace(r) ==
    /\ pc[r] = "trace"
    /\ \/ /\ events' = events \cup {r}
          /\ goal' = [goal EXCEPT ![r] = "observed"]
          /\ Goto(r, "mark")
       \/ Goto(r, "await") /\ UNCHANGED <<events, goal>>
       \/ /\ goal' = [goal EXCEPT ![r] = "not_required"]
          /\ Goto(r, "mark")
          /\ UNCHANGED events
    /\ UNCHANGED <<store, flag, copy, target, left, account, restarts>>

\* Mutant: the poll does not look at the events.
MutantPoll(r) ==
    /\ pc[r] = "await"
    /\ Goto(r, "missed")
    /\ UNCHANGED <<store, events, flag, copy, target, goal, left, account, restarts>>

\* await_backend_logs: polls, and looks at the clock after a poll that missed.
Poll(r) ==
    /\ pc[r] = "await"
    /\ IF r \in events
       THEN Goto(r, "mark") /\ goal' = [goal EXCEPT ![r] = "linked"]
       ELSE Goto(r, "missed") /\ UNCHANGED goal
    /\ UNCHANGED <<store, events, flag, copy, target, left, account, restarts>>

PollAgain(r) ==
    /\ pc[r] = "missed"
    /\ Goto(r, "await")
    /\ UNCHANGED <<store, events, flag, copy, target, goal, left, account, restarts>>

GiveUp(r) ==
    /\ pc[r] = "missed"
    /\ Goto(r, "mark")
    /\ goal' = [goal EXCEPT ![r] = "partial"]
    /\ UNCHANGED <<store, events, flag, copy, target, left, account, restarts>>

RunOf(t) == IF t \in Run THEN t ELSE target[t]

\* Where a thread goes when its mark is written or the run is gone: linking
\* observed requests is followed by mark_external_network_only.
AfterMark(t) ==
    /\ goal' = [goal EXCEPT ![t] = IF @ = "observed" THEN "external_network_only"
                                                     ELSE None]
    /\ Goto(t, CASE goal[t] = "observed" -> "mark"
                 [] goal[t] # "observed" /\ t \in Run -> "done"
                 [] goal[t] # "observed" /\ t \in User -> "idle")
    /\ target' = [u \in User |-> IF u = t THEN None ELSE target[u]]

MarkRead(t) ==
    /\ pc[t] = "mark"
    /\ IF Exists(RunOf(t))
       THEN /\ copy' = [copy EXCEPT ![t] = store[RunOf(t)]]
            /\ Goto(t, "markSave")
            /\ UNCHANGED <<goal, target>>
       ELSE AfterMark(t) /\ UNCHANGED copy
    /\ UNCHANGED <<store, events, flag, left, account, restarts>>

\* Mutant: the intermediate goal is stored as it is.
MutantMarked(t) == [copy[t] EXCEPT !.trace = goal[t]]

Marked(t) ==
    [copy[t] EXCEPT !.trace = IF goal[t] = "observed" THEN "linked" ELSE goal[t]]

MarkSave(t) ==
    /\ pc[t] = "markSave"
    /\ Save(RunOf(t), Marked(t))
    /\ copy' = [copy EXCEPT ![t] = None]
    /\ AfterMark(t)
    /\ UNCHANGED <<events, flag, left, account, restarts>>

-----------------------------------------------------------------------------
(* Requests                                                                *)

Request(u, op, r, p) ==
    /\ op \in Ops
    /\ pc[u] = "idle"
    /\ target' = [target EXCEPT ![u] = r]
    /\ Goto(u, p)

\* Backend logs of a run arrive (POST /test-telemetry/backend).
Ingest(u, r) ==
    /\ Request(u, "ingest", r, "mark")
    /\ pc[r] # "new"
    /\ events' = events \cup {r}
    /\ goal' = [goal EXCEPT ![u] = "linked"]
    /\ UNCHANGED <<store, flag, copy, left, account, restarts>>

\* POST /runs/{id}/backend-trace/external
MarkExternal(u, r) ==
    /\ Request(u, "external", r, "mark")
    /\ Exists(r)
    /\ goal' = [goal EXCEPT ![u] = "external_network_only"]
    /\ UNCHANGED <<store, events, flag, copy, left, account, restarts>>

Cancellable(r) == Exists(r) /\ store[r].status \notin Terminal

CancelRead(u, r) ==
    /\ Request(u, "cancel", r, "flag")
    /\ Cancellable(r)
    /\ copy' = [copy EXCEPT ![u] = store[r]]
    /\ UNCHANGED <<store, events, flag, goal, left, account, restarts>>

CancelFlag(u) ==
    /\ pc[u] = "flag"
    /\ flag' = flag \cup {target[u]}
    /\ Goto(u, "cancelSave")
    /\ UNCHANGED <<store, events, copy, target, goal, left, account, restarts>>

CancelSave(u) ==
    /\ pc[u] = "cancelSave"
    /\ Save(target[u], [copy[u] EXCEPT !.status = "CANCELLED"])
    /\ copy' = [copy EXCEPT ![u] = None]
    /\ target' = [target EXCEPT ![u] = None]
    /\ Goto(u, "idle")
    /\ UNCHANGED <<events, flag, goal, left, account, restarts>>

\* delete_run removes the record and its events in one locked section.
Delete(u, r) ==
    /\ "delete" \in Ops
    /\ pc[u] = "idle"
    /\ Exists(r)
    /\ Save(r, None)
    /\ events' = events \ {r}
    /\ UNCHANGED <<flag, pc, copy, target, goal, left, account, restarts>>

\* Threads and locks are gone; store, events and flag files are not.
Restart ==
    /\ restarts < MaxRestarts
    /\ restarts' = restarts + 1
    /\ pc' = [t \in Thread |-> CASE t \in User -> "idle"
                                 [] t \in Run /\ pc[t] = "new" -> "new"
                                 [] t \in Run /\ pc[t] # "new" -> "done"]
    /\ copy' = [t \in Thread |-> None]
    /\ target' = [u \in User |-> None]
    /\ goal' = [t \in Thread |-> None]
    /\ left' = [r \in Run |-> 0]
    /\ account' = [k \in Account |-> None]
    /\ UNCHANGED <<store, events, flag>>

-----------------------------------------------------------------------------
Execute(r) ==
    \/ SaveRunning(r) \/ Enter(r) \/ Step(r) \/ Fallback(r) \/ ExecEnds(r)
    \/ PersistRead(r) \/ PersistSave(r) \/ ChooseTrace(r)
    \/ Poll(r) \/ PollAgain(r) \/ GiveUp(r) \/ MarkRead(r) \/ MarkSave(r)

Continue(u) == CancelFlag(u) \/ CancelSave(u) \/ MarkRead(u) \/ MarkSave(u)

Receive(u, r) ==
    Ingest(u, r) \/ MarkExternal(u, r) \/ CancelRead(u, r) \/ Delete(u, r)

Next ==
    \/ \E r \in Run : StartRun(r) \/ Execute(r)
    \/ \E u \in User : Continue(u) \/ \E r \in Run : Receive(u, r)
    \/ Restart

Spec == Init /\ [][Next]_vars

\* A live thread keeps running and await_backend_logs has a deadline.  Nobody
\* has to start a run or to make a request.
Fairness ==
    /\ \A r \in Run : WF_vars(Execute(r)) /\ SF_vars(GiveUp(r))
    /\ \A u \in User : WF_vars(Continue(u))

-----------------------------------------------------------------------------
(* Properties                                                              *)

\* Runs that change data of the same environment and account are never in the
\* browser at the same time (_mutation_execution_context), cancelled or not.
OneMutationPerAccount ==
    \A r, q \in Mutating :
        InBrowser(r) /\ InBrowser(q) /\ AccountOf[r] = AccountOf[q] => r = q

\* A run waits for review, or has failed, only with the outcome of its browser
\* recorded: no writer of a stale copy can separate the status _persist_result
\* saved from the result it saved with it.
ResultBacksVerdict ==
    \A r \in Run : Exists(r) =>
        (store[r].status \in {"WAITING_FOR_REVIEW", "AUTO_FAILED"} => store[r].result)

\* In the end every stored run has a terminal status for good: whatever
\* cancel_run and delete_run do in between, the thread of the run ends, waits
\* for no lock for ever and saves a terminal record.
Ends == <>[](\A r \in Run : Exists(r) => store[r].status \in Terminal)

\* "If a cancel request came in during the execution the cancelled status is
\* kept" (run_service, 628): also one saved after that look at the store.
CancelKept ==
    [][\A r \in Run : Stored(r, "CANCELLED") /\ pc[r] # "preparing"
          => Stored(r, "CANCELLED")']_vars
=============================================================================
