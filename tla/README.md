# Verification of the QA automation backend

The backend (`src/backend/app`) analyses the sources of a web application, makes
test scenarios of it, and executes them in a browser: one at a time, in batches,
or on a schedule. It is one Python process with an in-memory store that is
persisted to SQLite. What is hard in it is not an algorithm but that API
requests, coordinator threads, pool workers and the threads of browser runs all
read a record, work for a while, and save a changed copy of the whole record.
These modules model that part: who reads what, when it is saved, and what is
lost or left behind when the copies overtake each other, a request cancels or
deletes what another thread works on, or the process restarts.

## Inventory

| component | state | operations | interacts with | hard behaviour | what makes it correct |
|---|---|---|---|---|---|
| Batch orchestration (`services/batch_service.py`) | `BatchDefinition` with its cases, coordinator thread per batch, pool, resource locks | create, start, pause, resume, cancel, `_run_batch`, `_claim_case`, `_execute_case`, `_collect`, `_replace_case` | starts, polls and cancels runs; API requests change the batch | whole-record saves in and out of `_BATCH_MUTATION_LOCK`, cancel against claim and result, retry, locks held over a run, restart | a case is executed once, its result stays, the verdict is honest, every active run is attended and alone with its key, stop requests bring the batch to rest |
| Run lifecycle (`services/run_service.py`, `services/telemetry/service.py`, `skills/browser_execute`) | `RunSummary`, backend events, the file CANCEL, mutation locks per account | `start_run`, `_execute_and_persist`, `_persist_result`, `cancel_run`, `delete_many`, `ingest`, `await_backend_logs`, `mark_*` | batches, schedules and API requests start and cancel; telemetry agents write the same record | cancel against end, stale copies saved by the trace writers, logs against the timeout, deletion of a live run | a verdict has its result, a cancellation in time wins, every run ends, runs that change data of one account exclude each other |
| Schedules (`services/schedule_service.py`) | `ScheduleDefinition` with its last execution | coordinator `tick`, create, list, update, execute, delete, `_refresh_execution` | starts runs and reads their status | every read may save, overlap check against start, runs lost or deleted | RUNNING is backed by an execution, reports are honest, executions get reported and due schedules served |
| Store and SQLite catalog (`services/repository_store.py`) | dictionaries of all records, the catalog in SQLite | `save_*`, `get_*`, `delete_*`, `_persist_catalog`, hydrate | every service | the catalog is built under the lock and written after it; deletions cascade | a restart finds what was saved, nothing is left of what was deleted |
| Repository synchronisation (`services/repository_sync.py`) | status of a set and its repositories, lock per set, cloned files | register, update, remove, sync | analysis | works on a copy of the set, try-lock, partial failure | an edit is not undone, a complete set has the inventory of what it names |
| Analysis progress (`services/analysis_progress.py`, `frontend_analysis.py`, `backend_analysis.py`) | one record, two threads that publish it | publish, watch, end | pipeline, monitor | the watcher is given up after a second | no progress is stored after the end |
| Analysis pipeline (`services/pipeline.py` and what it calls) | analyses, mappings, graphs, scenarios, contracts | the stages, their fallbacks and failures | all of those services | every stage reads the newest of something | what a complete result names belongs together |
| API mapping and graph composition (`skills/api_map`, `skills/interaction_graph`, `services/api_mapping.py`) | the mapping in file and store, nodes and edges | map, compose, correct | pipeline | paths that are alike, identifiers made of what is left of a path | calls are drawn when certain, the graph is whole |
| Interaction graph editing (`services/interaction_graph.py`) | the edges of a graph, shared objects | compose, patch, rewire, create, delete | scenarios | lists are copied, edges are changed in place | identifiers are unique, accepted edits stay |
| Scenario generation (`skills/scenario_dsl`, `services/scenario_service.py`) | rows of scenarios | generate, store with version, delete | inputs, runs | which submissions a scenario makes, overlapping generations | rows are safe to run, a case has one row |
| Input recommendation and profiles (`skills/input_recommend`, `services/input_recommend_service.py`) | contract, recommendations, profiles | recommend, make, approve, regenerate, inputs of a run | scenarios, runs | a variant's value against defaults, overrides and other scenarios' profiles | a variant is entered as it says, approvals stay |
| Browser driver (`skills/browser_execute`) | steps, evidence, criteria of one run | every kind of step, the filling of inputs, the verdict | runs | blockers, refusals and late observations decide together | a success is earned |
| Binding validation and evidence packages (`services/binding_validation.py`, `evidence_package.py`) | files and a manifest of a run | finalize, verify, expire | reports | partial evidence, cut off between two files | complete means whole |
| Run verdicts and reports (`services/run_service.py`, `run_report_service.py`, `skills/run_report`) | corrections of a stored result, a report in two files | derive, report, show | console | made early and kept, while the parts change | a quiet report is clean, report and history agree |
| Orchestrator, planner, events and traces (`core/planning`, `core/execution`, `core/observability`, `langgraph_runtime`) | plan of a workflow, the bounded list of events | plan, execute, review, reduce, record | skills | one list for all workflows, exceptions | a trace says what became of its workflow |
| Model registry (`core/models/registry.py`, `secret_store.py`) | a profile, its key in the vault | create, update, delete, health check, load | LLM client | the vault fails; a check saves what it read | profile and key go together |
| Project context documents (`services/project_context_service.py`) | rows, directories, manifest | upload, process, delete, list | scenario generation | a background task against a deletion; the manifest is everybody's | what is said of a document is so; deleted ones stay deleted |
| Cron expressions, language model client, projects and accounts, source analysis, dashboard and console, frontend | none, or views | - | - | - | - |

The last row has no concurrent behaviour of its own and is not modelled.
`PROJECT.json` lists every component with the reason, and under `hazards` each
place where this code can go wrong in a way a test hardly reaches.

## Modules

| module | what it is |
|---|---|
| `Batch` | one batch: requests, coordinator, workers, locks, runs, restart |
| `BatchPromise` | what an unattended batch promises: each case executed once, settled for good, an honest verdict |
| `BatchProofs` | TLAPS proofs about `Batch` |
| `RunLifecycle` | runs with their threads, cancellation, telemetry, deletion, mutation locks |
| `RunTraffic` | `RunLifecycle` under three kinds of traffic, with what two properties remember |
| `RunLifecycleProofs` | TLAPS proofs about both |
| `Schedule` | one schedule: coordinator, requests, its runs, time, restart |
| `ScheduleProofs` | TLAPS proofs about it |
| `Catalog` | the store and its catalog |
| `RepositorySync` | a repository set, its edits and its synchronisation |
| `AnalysisRun` | one analysis with the two threads that publish its progress |
| `AnalysisPipeline` | the pipeline of a project |
| `ApiMapping`, `GraphComposition` | which endpoint a call is mapped to (operators), and the graph composed with it |
| `GraphEdges` | the edges of a graph, edited by hand |
| `ScenarioDrafts`, `ScenarioGeneration` | what a flow becomes as a scenario (operators), and the rows that are stored |
| `InputRecommendation`, `InputProfiles` | candidates, defaults and cases (operators), and the requests around them |
| `BrowserExecution` | the browser driver, step by step |
| `EvidencePackage` | one package, file by file |
| `RunVerdict`, `RunReport` | the corrections and projections of a result (operators), and the report made of it |
| `PlanTraces` | workflows, their steps and the list of events |
| `ModelProfiles` | one profile and its key |
| `ContextDocuments` | the documents of a project |
| `Lists` | what is taken from a list at some places, in order |
| `Services` | the modules of the services side by side, with what is assumed of their constants, and the properties |
| `MCBatch`, `MCRunLifecycle`, `MCSchedule` | definitions for the constants of the TLC instances, symmetry sets |
| `MCRunTraffic`, `MCServices` | the instances of `RunTraffic` and of `Services` for TLC |
| `StoreProofs` | TLAPS proofs about `Catalog`, `RepositorySync` and `ContextDocuments` |
| `GraphProofs` | about `GraphEdges`, `ApiMapping` and `GraphComposition` |
| `ScenarioProofs` | about `ScenarioDrafts`, `ScenarioGeneration`, `InputRecommendation` and `InputProfiles` |
| `AgentProofs` | about `AnalysisRun`, `AnalysisPipeline`, `ModelProfiles`, `PlanTraces`, `BrowserExecution`, `RunVerdict`, `RunReport` and `EvidencePackage` |
| `ListProofs` | what they need of lists and of finite sets of numbers |

The abstraction is the same in all of them. `get_*` and `save_*` of the store are
atomic (they hold its lock), and nothing else is. A handler that reads a record
and later saves a copy of it is therefore two actions (`PauseRead`,
`PauseSave`; `MarkRead`, `MarkSave`), and the copy it holds meanwhile is a
variable. Where the code holds `_BATCH_MUTATION_LOCK` over both, the module has
the lock: `mutex` is taken by `ClaimRead` / `ReplaceRead` and given back by
`ClaimSave` / `ReplaceSave`. Texts, times, inputs, paths and counts shown to
users are left out.

**Batch.** `batch` is the stored definition; `req[u]` a request in progress;
`coord`, `pending`, `final` the coordinator (`_run_batch`: `CoordLoop`, scan
and claim, `CollectRead` / `CollectSave`, `CoordJoin` which is the exit of the
pool's `with`, `FinalRead`, `FinalSave`); `wpc[s]` ... `wres[s]` the job in each
pool thread (`_execute_case`, with its resource lock `keylock`, the attempts and
their retries, `_await_terminal`); `run[r]` and `browser[r]` what the store and
the browser thread know of a run. A run marked CANCELLED keeps its browser until
its thread ends (`RunEnds`). Its failure kind, computed from texts by
`_failure_kind`, is chosen among those the status admits (`KindsOf`).

**RunLifecycle.** A thread is a request or the thread of a run. `StartRun` is
`start_run` up to the first save (PREPARING), `SaveRunning` the second, which
writes its own copy; `Enter` takes the mutation lock; `Step` performs a step or
notices the flag; `Fallback` is the second execution when the workflow returned
nothing; `PersistRead` looks for a cancellation and `PersistSave` writes the
result; `ChooseTrace`, `Poll`, `GiveUp` and the two `Mark` actions are the
labelling of the backend trace. `save_run` of a record that was deleted brings it
back, in the model as in the code.

**Schedule.** `copy[t]` is the definition a thread holds; `Refresh` /
`RefreshSave` are `_refresh_execution`, which every read goes through; the
operations go on from there (`Proceed`). `nextRunAt` is `none`, `later` or
`due`, and time (`TimePasses`) is nobody's choice. What `get_run` tells of a run
is its state here; the races inside a run record are RunLifecycle's.

**The services.** The modules of the other services have one shape: `memory` is
what the process knows, `disk` what a restart finds, `thread` what each request
holds (its step, its copies), and `past` what a property has to remember, with
the bounds. The actions are named after the steps of the handler. Where a
property has to except something the code does, `past` names it: `raced`,
`refused`, `late`, `stale`, `overlapped`, `leftover`; each is set by the one
action that does it, at the line the comment gives.

- `Catalog`: `Change` is any `save_*` or `delete_*` with its cascades, `make`
  and `write` the two halves of `_persist_catalog`. A version stands for the
  content of a record. Most of the catalog is copied under the lock; three
  dictionaries are handed out as they are (`Live`), and written as they are by
  then.
- `RepositorySync`: an edit is one action on `memory`; `sync` reads, tries the
  lock, clones into the files, saves, makes the inventory and saves again.
- `AnalysisRun`: `publish` in four steps (file, copy of the summary, summary,
  store), for the watcher and for the request.
- `AnalysisPipeline`: a stage is an action that may fail, and reads what the code
  reads at that point: the newest mapping, or the one just made. Contract and
  recommendation each look up the analyses of the scenario's graph, or the
  newest when the graph is gone.
- `ApiMapping`, `GraphComposition`: paths are sequences of segments with a kind,
  so that `_normalize` and `_safe_id` can be told apart; `compose_graph` goes over
  its lists in the order of the code, and an element is chosen as it is read.
- `GraphEdges`: edges are objects. A request's list is a copy, its edges are not.
- `ScenarioDrafts` and `InputRecommendation` are operators: a source or an input
  is a record of the features the code asks for. A source has its routes (its
  screen, the screen that leads to it, what it requests), and the graph says which
  routes only a POST opens and which have a trigger: as in
  `apply_session_precondition`, the first such route of a scenario (`Target`) is
  replaced by its trigger unless a click of the steps posts to just this route.
  What `dedupe_scenarios` drops has the case and the request of another draft, and
  no two drafts have both, so it is not modelled; of one case the row with the
  most steps, the most evidence and the longest name is kept (`Better`).
- `BrowserExecution`: the next step, the page and what is seen on it are chosen
  when the driver comes to them; evidence, criteria and the corrections of the
  verdict are computed as in the code.
- `EvidencePackage`: `finalize` empties the directory and writes one file per
  action; failure, expiry and restart may come in between.
- `RunReport` takes results from `RunVerdict`; validation, package and report are
  made when somebody asks, and kept: before the run has ended, before its logs
  have arrived, or after. What a package lacks (`Lacks`) depends on whether the
  scenario expects a response (`memory.expects`) and on what there was of the run,
  its binding result and its events when it was made. A package of a run that
  has not ended has no requests of the browser and says so, so it is never without
  remarks; one made afterwards says how the run ended.
- `PlanTraces`: the list of events keeps the newest `MaxEvents`.
- `ModelProfiles`: a request has the lock from the vault to the catalog, the
  health check only for its read and its save.
- `ContextDocuments`: the row is saved under a lock; the task's copy, the
  directory and the manifest are not.

## Runs

Every run takes at most about four minutes with two workers.

| run | properties | instance | shows |
|---|---|---|---|
| `batch_unattended` | ClaimedOnce, FinishedIsSettled, SettledStays, Completes, KeepsPromise (refinement of BatchPromise, with its fairness) | 3 cases, 2 of them with one key, one needing review, 2 slots; start, direct cancels of runs | a batch nobody pauses or cancels keeps its promise and ends |
| `batch_controls` | TypeOK, RunsAttended, OneRunPerKey | 2 cases with one key, 2 slots; start, pause, cancel (3 million states) | whatever is requested, an active run has the worker and the lock of its key |
| `batch_drains` | CancelDrains, PauseQuiesces | 1 slot, 2 cases, one retry, one restart; start, pause, cancel | a batch that stays cancelled or paused comes to rest |
| `run_records` | TypeOK, ResultBacksVerdict, CancelWins, LogsInTime | 1 run, 2 concurrent requests, one restart; every kind of request, or cancels only, or all but deletions | stale copies never separate a verdict from its result, a cancellation in time decides the run, logs in time are not labelled missing |
| `run_ends` | OneMutationPerAccount, Ends | 2 mutating runs of one account; cancel, delete; the process stays up and nobody sends logs (`QuietSpec`) | mutation locks exclude, no run waits or runs for ever |
| `schedule_reports` | RunningBacked, HonestReport | 2 runs, 2 scenarios; update, delete, deletion of runs, one restart (2.4 million states) | no copy of any age leaves a RUNNING schedule without an execution, or reports falsely |
| `schedule_served` | Reported, DueServed | 2 runs, 2 scenarios; list, execute, create, cancelled runs | executions are reported as over and due schedules served |
| `services` | DeletedStays, ChangesAreDurable, EditsKept, InventoryBacked, EndIsLast, GraphIsWhole, CallsAreCertain, EditsStay, KeyFollowsProfile, TracesAreHonest, SuccessIsEarned, CompleteIsWhole, QuietReportIsClean, ReportAgreesWithHistory, RowsAreSafeToRun, RegenerationReplaces, VariantIsPinned, ApprovalStays, CompleteIsTraceable, ContextIsHonest | the 14 services one beside the other, each with two requests at work where it has requests, and a restart where it persists (2.5 million states) | each service keeps what it promises, but for what the comment of the property excepts |
| `batch_claim_once` | ClaimedOnce is violated | start, pause | pause saves a stale copy over a claim; the case is executed twice |
| `run_cancel_kept` | CancelKept is violated | one cancel | a cancellation during the summary call is overwritten |
| `schedule_stale_list` | OneExecution is violated | list | a listing writes an old copy over an execution, which is started again |
| `report_partial` | PartIsNoSuccess is violated | a run, its validation, package and report | a run with an undetermined criterion becomes a success when its controls are found in the steps |

**What the properties of `services` are about.**

| module | property | what could go wrong |
|---|---|---|
| `Catalog` | `NothingLeftBehind` (in `DeletedStays`) | a cascade misses what a project owns, or a catalog from before the deletion is written |
| `Catalog` | `ChangesAreDurable` | a change is in memory only when the process ends |
| `RepositorySync` | `EditsKept` | the copy a synchronisation works on overwrites an edit |
| `RepositorySync` | `InventoryBacked` | a set is complete with the inventory of other repositories |
| `AnalysisRun` | `EndIsLast` | the watcher's copy of the summary is stored after the end |
| `GraphEdges`, `GraphComposition` | `IdsAreUnique` and `GraphIsWhole` (in `GraphIsWhole`) | two edges with one identifier, an edge to nowhere |
| `GraphComposition` | `CallsAreCertain` | a call is drawn to one of several endpoints that fit |
| `GraphEdges` | `EditsStay` | an edit disappears from memory or from the catalog |
| `ModelProfiles` | `KeyFollowsProfile` | a key stays in the vault, a profile claims a key it has not |
| `PlanTraces` | `TracesAreHonest` | a truncated trace has another status than its workflow |
| `BrowserExecution` | `SuccessIsEarned` | a run succeeds by having reached its end |
| `EvidencePackage` | `CompleteIsWhole` | a package is complete without a file, or with one of another finalization |
| `RunReport` | `QuietReportIsClean` | a run that failed, was cancelled, or lacks what it should have shown has a report without remarks, because its validation or its package was made early |
| `RunReport` | `ReportAgreesWithHistory` | a report tells of another run than there was |
| `ScenarioGeneration` | `RowsAreSafeToRun` | a trigger beside a form's own submission, a submission before the inputs of the form or before the login, or for a variant that is only to be refused |
| `ScenarioGeneration` | `RegenerationReplaces` | rows of one case pile up |
| `InputProfiles` | `VariantIsPinned`, `ApprovalStays` | a default is entered instead of the variant's value; an approval is lost |
| `AnalysisPipeline` | `CompleteIsTraceable` | a result names a graph of other analyses, or recommendations, which look the analyses up once more, made of others than their contract |
| `ContextDocuments` | `ContextIsHonest`, `DeletedStays` | a row claims chunks that are not there; a document comes back |

`Services` gives each service its own instance; an initial choice says which
one runs, and since they share no state the graph is the union of theirs. The
constraint `Small` of `MCServices` keeps the instances finite and small: after a
restart the synchronisation, the documents, the scenarios and the inputs have one
thread at work at a time (`AtMostOne`), and the pipelines make six records between them at most
(`AtMostSix`). What is left out that way is proved: the theorems below are about
`Services` without the constraint.

**Bounds.** Two requests in flight (or a request and the coordinator) are what
it takes for one copy to overtake another, and one copy can be overtaken only
once before it is saved; a third thread in `run_records` is the run itself. Two
cases with the same key and one with another key are what locks can tell apart,
two slots what a pool can. Runs are reused in `Batch` once nobody holds them;
in `Schedule`, when all are used, `start_run` can only fail, which it may do
anyway. `NumSteps`, `MaxRestarts`, the retries and, in the services, the numbers of
changes, edits, requests, events and items are the only counters, and all are
constants that bound how much is asked for, never what an operation does. Three
changes are what it takes for one to be overtaken by a second and repaired or
lost by a third; where the case needs a creation first, the bound is four. The list
of events holds fewer than two workflows record, so that it forgets. Results of runs
have at most one of the troubles that decide an outcome or call attention to it
(`Results1`): two of them would hide which one a report was made for. Where a step
saw the controls that a criterion misses, the others are those that decide whether
the verdict is taken back. A contract has a field of each kind and one that is
declared twice (`Form1`), and a scenario may be without pins, or pin a value and a
field that is computed (`CaseVariants`). Users type
nothing or a value for one field (`Overrides1`), so that runs and profiles without
typed values, and fields beside a typed one, are there for `VariantIsPinned`. The
graphs have a form on a page that only a POST opens and that posts elsewhere, one
that posts to such a route itself, a logout that is opened by its trigger, and a
graph in which triggers and markers are missing (`Graphs1`).
Deadlock is not checked because the system may rest: a finished batch with no
request, a user who does nothing.

**What the services' properties except.** These are things the code does:

- a writer of the trace may put an old copy of a run back, which is then RUNNING
  for good (`telemetry/service.py` 300; `MCRunLifecycle!QuietNext`);
- an older catalog may be written over a newer one (`repository_store.py` 227,
  `Catalog!past.stale`), and a few operations do not persist: `past.unsaved`
  is the last such change of each record, until a catalog with it is written;
- a synchronisation overwrites an edit made after it read the set
  (`RepositorySync!past.raced`);
- the watcher that is given up after a second may still publish
  (`AnalysisRun!past.abandoned`);
- requests that overlap on a graph store whole lists, and a refused request has
  changed the edge already (`GraphEdges!past.raced`, `past.refused`);
- a health check saves the profile it read (`ModelProfiles!past.raced`);
- a planner that raises leaves a trace running (`PlanTraces!past.silent`);
- `finalize` takes no lock: when two were at work at once, the records in a
  package may be the other one's (`EvidencePackage!past.overlapped`; its files are
  all there all the same);
- generations of one case that overlap make two rows
  (`ScenarioGeneration!past.alone`);
- a field that the user has typed is entered as typed, in the first case of the
  profile that was made with it and in the runs that enter it, and only this
  field (`typed`); a profile that the workflow of a recommendation made
  knows nothing of the variant (`pinned`); and what was made before the
  scenario was generated again is of the scenario as it was (`of`);
- the trigger of a route that only a POST opens is the first of the steps, as it
  stands for opening the page. Where the form of that page posts to another
  path, trigger and submission are both there: each posts to a path of its own,
  and the form is submitted after its inputs. Inputs that follow a trigger, of a
  scenario that has no submission, are not what the trigger posts;
- the diagnosis does not look at a refusal by the server: a report without
  remarks can be about a run whose outcome is an error of the server
  (`RunVerdict`, `refused` and `signal`), the one exception of
  `QuietReportIsClean`;
- a task that held a document when it was deleted saves it again, and a manifest
  may be written from an older list (`ContextDocuments!past.raced`,
  `past.stale`).

**What the narrower instances leave out.** The operations of a run are those
under which its properties hold. Outside of them the code, and so these modules,
behave as follows:

- `FinishedIsSettled` with `Ops = {"start", "pause"}` fails: a pause between the
  coordinator's list of pending cases and its claims ends the loop without a
  future, and the batch is COMPLETED with cases pending (`batch_service.py` 287).
- A cancelled batch may become COMPLETED: the final save, a claim or a result
  in progress writes a copy read before (`batch_service.py` 300, 470, 483).
  `CancelDrains` is therefore about batches that stay cancelled.
- A run marked CANCELLED keeps its browser session for a while and its worker
  releases the resource lock at once, so browser *sessions* of one key can
  overlap (`batch_service.py` 418); `OneRunPerKey` is about active runs.
- `Completes` with `MaxRestarts = 1` fails: a batch stored as RUNNING has no
  coordinator after a restart and `start` refuses it (`batch_service.py` 211);
  pausing and resuming it is the way out.
- `Ends` with `"ingest"` in `Ops` fails: an ingest that read the record before
  the result was saved puts it back to RUNNING for good
  (`telemetry/service.py` 300).
- With `"ingest"` logs that arrive between the last poll and the save of
  `partial` stay unlinked (`telemetry/service.py` 80); `LogsInTime` says which
  logs are safe. `CancelWins` too is false when an ingest is in flight.
- `OneExecution` also fails with `Ops = {"execute"}`: two executions pass the
  overlap check together (`schedule_service.py` 203). The run has listings only.
- A deleted schedule may come back by a save in progress
  (`schedule_service.py` 66).
- `Reported` with `"deleteRun"` or a restart fails: a run that is gone is never
  counted as ended (`schedule_service.py` 318).

**Fairness.** Weak fairness of each thread that exists: a started Python thread
goes on, the coordinator loops look again (every 0.2 s and 15 s), requests in
flight are answered, and the browser of a run ends because its step loop is
bounded and its commands have timeouts. In `RunLifecycle` `GiveUp` has strong
fairness: it is the deadline of `await_backend_logs`, which passes although the
thread alternates between looking and sleeping. No user has to act. Weak
fairness is enough for a worker or run that waits for a lock, although Python's
locks are not fair: cases, retries and runs are finite in number, so each lock
is taken finitely often and its holder always gives it back (`with lock`). Nothing is
assumed, and no liveness stated, for the other services: a request of theirs that
fails has failed, and nobody waits for it.

## Theorems

TLAPS proves every safety invariant and action property that a run checks, for
every value of the constants that satisfies the named assumptions, and for any
number of threads, records, requests, restarts and list elements (the counters
that bound an instance are arbitrary there, and so is `Small`, which is no part
of a specification).

| theorem | states |
|---|---|
| `BatchProofs!TypeCorrect`, `Attended`, `KeyExclusion` | `Spec => []TypeOK`, `[]RunsAttended`, `[]OneRunPerKey` |
| `BatchProofs!ClaimsAreOnce`, `VerdictIsSettled`, `ResultsStay` | `ASSUME Unattended PROVE Spec =>` `[]ClaimedOnce`, `[]FinishedIsSettled`, `SettledStays` |
| `BatchProofs!PromiseIsKept` | the safety part of `KeepsPromise`: an unattended batch implements `BatchPromise`, step by step |
| `RunLifecycleProofs!TypeCorrect`, `VerdictBacked`, `MutationExclusion` | `[]TypeOK`, `[]ResultBacksVerdict`, `[]OneMutationPerAccount` |
| `RunLifecycleProofs!TrafficIsLifecycle`, `CancellationDecides`, `LogsAreLinked` | `WorkloadSpec =>` `Spec`, `[]CancelWins`, `[]LogsInTime` |
| `ScheduleProofs!TypeCorrect`, `RunningHasExecution`, `ReportsAreHonest` | `[]TypeOK`, `[]RunningBacked`, `[]HonestReport` |
| `StoreProofs!ChangesLast`, `StaysDeleted` | `[]ChangesAreDurable`, `[]DeletedStays` |
| `StoreProofs!EditsAreKept`, `InventoryIsBacked`, `SaysWhatThereIs` | `[]EditsKept`, `[]InventoryBacked`, `[]ContextIsHonest` |
| `GraphProofs!AcceptedEditsStay`, `CallsStayCertain`, `GraphStaysWhole` | `[]EditsStay`, `[]CallsAreCertain`, `[]GraphIsWhole` |
| `ScenarioProofs!RowsAreReplaced`, `RowsAreSafe` | `[]RegenerationReplaces`, `[]RowsAreSafeToRun` |
| `ScenarioProofs!ApprovalsStay`, `VariantStaysPinned` | `[]ApprovalStays`, `[]VariantIsPinned` |
| `AgentProofs!AnalysisEndStays`, `KeyFollows`, `TracesTell` | `[]EndIsLast`, `[]KeyFollowsProfile`, `[]TracesAreHonest` |
| `AgentProofs!ResultsAreTraceable`, `SuccessesAreEarned` | `[]CompleteIsTraceable`, `[]SuccessIsEarned` |
| `AgentProofs!ReportsAgree`, `QuietReports`, `CompletePackages` | `[]ReportAgreesWithHistory`, `[]QuietReportIsClean`, `[]CompleteIsWhole` |

**Assumptions.** In `Batch`, `RunLifecycle` and `Schedule` sizes are positive,
the maps have their types, `None` is distinct, and threads of different kinds are
distinct. `Unattended` says of the constants that there is one user and no pause
or cancel among the requests. In `Services` bounds, files and keys are numbers
(`BoundAssumption`, `FilesAssumption`, `SecretAssumption`); there is a node and a
document (`NodeAssumption`, `DocumentAssumption`); the owner of a record is a
record (`RecordsAssumption`); results, graphs, contracts, endpoints and policies
are records of the types the code gives them (`ResultsAssumption`,
`GraphsAssumption`, `ContractAssumption`, `EndpointsAssumption`,
`PoliciesAssumption`); and a variant pins a field at most once, and never the
customer's number (`BodiesAssumption`), which is how `generate_dsl.py` makes them
(1302, 1303 and 1407). TLC evaluates each of them in the runs.

**Batch, runs and schedules.** Each module's proofs rest on an invariant that is
inductive.

- `Batch`: `RunsAttended` says that the worker of an active run holds the lock
  of its key. To keep it, one worker's release must not free another's lock, so
  `JobsKeyed` adds that a job holds the lock of its case from the moment it has
  entered until it returns. `OneRunPerKey` follows: two active runs with one key
  would be two runs of the one worker that holds it.
- An unattended batch has `UInv` besides: `Phases` (what the status and each case
  are at each point of the coordinator), `Locked` (who is between read and save
  has the lock, and its copy is the batch) and `JobsOfCases` (a job's case is
  RUNNING, no other job's, and while the coordinator lives a RUNNING case is a
  job's or is being collected). `PromiseIsKept` maps
  the steps one by one: claims and collected results are steps of the promise,
  everything else stutters.
- `RunLifecycle`: `ResultBacksVerdict` is about the stored record, and the next
  save may write any copy. It is inductive together with `CopiesBacked`, the
  same for every copy held, and `Prepared`, what a thread holds at each of its
  steps. `LockHeld` gives mutual exclusion.
- `RunTraffic`: `CancelInv` follows a cancelled run to its end, with the copies
  its own thread may save on the way; `LogsInv` says that nobody means to label a
  run partial whose logs came in time.
- `Schedule`: `AllSound` says of the stored definition, of every copy and of
  tick's `current` that a RUNNING one has an execution in progress and that a
  reported end is honest. Honesty is about runs, which move on while the copy
  waits; `RunsEndSound` is the lemma that ended runs only get deleted.

**The services.** Each proof begins with two lemmas: the initial states and the
steps of `Services` in which a service runs are those of its module.

- `Catalog` (`CatalogIInv`): `AllRooted` says of memory, of the catalog and of
  every copy on its way to it that nothing is there without its owner, unless it was
  saved late; `Dated` that of one date there is one catalog; `Carried` that the
  last change of a record is in every catalog as new as itself (`Settled`), and
  that there is or will be such a catalog, or the change does not persist (`Reached`).
- `RepositorySync` (`SyncIInv`): `SyncAllNamed` and `SyncKept` say of the set and of
  every copy that will be saved that repositories are those registered, and as the
  user wants them; the try-lock keeps the work to one thread (`SyncExclusion`);
  `SyncFetched` says what was cloned so far, and `SyncComplete` carries it over to
  the status and the inventory.
- `ContextDocuments` (`DocIInv`): a row that says a document can be searched may
  wait in the catalog, in a worker's list and in the manifest. `RowsHonest` says
  of all three that the index and the chunks are there, `DocProcessed` that nobody
  will then rewrite the directory, `DocMade` how far a task has got, `DocAlone`
  that a document has one task, and `Outlived` that a task whose document is gone
  has raced with the deletion. `FreshLists` and `Agreed` carry the agreement of the
  manifest with the rows over the moment between listing and writing.
- `GraphEdges` (`EdgesIInv`): as edges are shared, each list is described by
  identifiers (`EdgesUnique`); `EdgesAsWanted` says of the graph and of
  every list held that an accepted edit is in it, `EdgesEdited` what a request is
  about to store, which is decided when it is alone (`EdgesAlone`). An
  identifier made by hand is new because the code takes the least free number.
- `GraphComposition`: identifiers of nodes are pairs of the kind and the text, so
  nodes of different kinds never meet. `CompOK` says that nodes and edges have
  identifiers of their own and that edges, inputs, transitions and the path are
  among the nodes, stage by stage; that `_edge_id` finds a free suffix is the
  pigeonhole lemma on finitely many identifiers. `CallsIInv` says that no edge
  leads from a call before the responses are read, that each one afterwards is a
  certain call's, and that the rows before `index` have been drawn.
- `ScenarioGeneration`: while requests do not overlap a case has one row, because
  a generation keeps the best draft of each case: that the kept list has each case
  once is a lemma on the ranks of drafts (`SceneIInv`). `SafeIInv` says that rows,
  drafts and copies are safe to run; it rests on lemmas about what
  `ScenarioDrafts` puts into a list of steps, and where: own steps have at most one
  submission, after the inputs, and when there is one beside a trigger the trigger
  posts to another path (`DirectEntryBlocked`).
- `InputProfiles`: `InputIInv` counts the approvals of profiles while one request
  is at work. `PinIInv` says of everything stored, held or run that it is pinned
  to the scenario there is but for the fields typed, or was made for an older one,
  which its version tells.
- `AnalysisRun` (`AnalysisIInv`): the stored record may be any copy of the
  summary, and the summary any publisher's. `AnalysisWatcherOff` says that a
  watcher that was not given up has ended before the request goes on; until then
  everything about to be assigned is in progress (`AnalysisInProgress`),
  afterwards what the request is about to save is whole (`AnalysisEnded`).
- `ModelProfiles` (`ModelIInv`): `ModelHeld` says what the request with the lock
  relies on: nothing was deleted when it creates, the profile is there when it
  updates or deletes, and when it deletes and the vault obeyed, the key is gone
  already. `ModelSame` and `ModelCreated` tie the catalog to memory, and both to
  the one creation.
- `PlanTraces` (`PlanIInv`): what a bounded list keeps is its end, so `PlanSays` is
  about the last event of a workflow, and not about its first.
- `AnalysisPipeline` (`PipeIInv`): `PipeApart` says that a graph is of one
  pipeline, `PipeMade` that what one holds was made of what it holds,
  `PipeThere` and `PipeAlone` that it is still stored when nobody interfered.
- `BrowserExecution` (`BrowserIInv`): an error, a refusal or missing evidence that
  was seen once is in the observations until the verdict (`Witnessed`), which is
  written last.
- `RunReport` (`ReportIInv`): a request has read the stored run or one that had
  not ended (`ReadsRun`), and a report on an ended run was built of the stored one
  (`BuiltOfRun`). A package without remarks was made of a run that had ended, by
  `PackedRun` and `PackageTells`, so that its status is the stored one's; what
  remains is arithmetic on `RunVerdict`'s corrections (`Untroubled`).
- `EvidencePackage` (`EvidenceIInv`): a list that calls itself complete has every
  file (`AllList`), whoever overlaps; which finalization the records are of is
  known while one caller is at work (`OneAtWork`).

Induction over data is out of the prover's reach, so the recursive functions and
folds of earlier versions of `InputRecommendation` and `GraphComposition` were
given closed forms: what a pass over a list leaves is said of all elements at
once, or of each with those before it. Where a proof needs a list's order it takes
the smallest counterexample of a set of numbers (`ListProofs`).

**Model-checked only.** The liveness properties `Completes`, `CancelDrains`,
`PauseQuiesces`, `Ends`, `Reported` and `DueServed`, and the fairness part of
`KeepsPromise`: the prover has no rules for `ENABLED`. The violations are shown by
TLC's traces.

**What the proofs changed.** An attempt that failed was a statement about the model.
`ChangesAreDurable` held in the instances and was false with three writers and
five changes, as long as the changes that do not persist were counted for all
records together: `past.unsaved` is kept per record for that. `CompleteIsWhole`
turned out stronger than it was stated: every file of a complete package is there
even when finalizations overlap, and only the records' origin is excepted.
`VariantIsPinned` needs that a variant pins no field twice, a fact of
`generate_dsl.py` that had been implicit in the instance. `QuietReportIsClean` needs
that a package made before the run has ended lacks the browser's requests
(`evidence_package.py` 314), which is why `RunVerdict` has `network`.

## Not modelled

Texts of verdicts, diagnoses and summaries; how a control is found on a page;
input resolution and version checks of `start_run`, which fail before any state
changes; ownership checks, which fail likewise; deletion of run records inside
`Batch`; the parsers of source analysis and what they find; the pure functions
of cron expressions; HTTP clients; accounts and environments; console, dashboard
and frontend, which show the records. The note of each component in
`PROJECT.json` says what of it is left out.

Details that modules leave out: where a mapping's path is no endpoint's,
`compose_graph` takes the first endpoint whose key or identifier contains the
mapping's (line 957), `GraphComposition!Drawn` the one whose identifier it is;
no identifier of an analysis is taken to be a part of another one. A catalog's
live dictionaries may change while they are written, where `Catalog` reads them
at one moment. `RunReport` has no run that was cancelled and whose result is not
stored yet; that the result is then stored, and with which status, is in
`RunLifecycle`.

## Plan

1. `BatchRuns`: `Batch` composed with the runs of `RunLifecycle` (deletion of a
   run record under a polling worker, cancellations overwritten, resurrection).
2. `Cron`: `cron_matches` and `next_run_at` as operators, checked against a
   direct reading of the five fields over bounded calendars, and the phrases of
   `natural_language_cron` as fields.
3. Environments and accounts with their passwords, which `Catalog` leaves out;
   the choice between model profiles.
