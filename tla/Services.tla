------------------------------- MODULE Services -------------------------------
(***************************************************************************)
(* The services' modules, side by side.  They do not share state: which    *)
(* service is looked at is chosen initially, and the four variables are    *)
(* those of its module.  The threads, requests or workflows that are at    *)
(* work in it are the actors.                                              *)
(***************************************************************************)
EXTENDS Naturals, Sequences, FiniteSets

CONSTANTS
    Service,        \* the services that are looked at
    Actor,          \* threads, requests and workflows
    RecordKey,        \* the records of the store
    RepoRole,       \* the roles of the repositories of a set
    Files,          \* the number of files of an analysis
    Node, Type,     \* the nodes and the types of a graph's edges
    Secret,         \* keys of models
    Control,        \* controls that a scenario expects to see
    Results,        \* results a run may end with
    ProjectGraphs,  \* graphs of which scenarios are generated
    Bodies, Contract, Known, Policies, Overrides,
                    \* what inputs are recommended for, and how
    Case,           \* cases that scenarios may be of
    Screens, Links, Calls, Endpoints, Fields, Events, Rules, Transitions, Words, Cut(_),
                    \* analyses of which a graph is composed
    Document, Csv,  \* documents of a project, and those that are lists of cases
    Bound           \* the bounds of the instances

VARIABLES service, memory, disk, thread, past

vars == <<service, memory, disk, thread, past>>

ASSUME BoundAssumption ==
    Bound \in [{"catalog", "edits", "edges", "edgeEdits", "models", "plan", "events", "driver",
                "criteria", "versions", "reports", "scenarios", "inputs", "pipeline", "items",
                "chunks", "restarts", "modelRestarts"} -> Nat]

Catalog == INSTANCE Catalog WITH
    Writer <- Actor, Key <- RecordKey,
    MaxChanges <- Bound.catalog, MaxRestarts <- Bound.restarts
Sync == INSTANCE RepositorySync WITH
    Syncer <- Actor, Role <- RepoRole,
    MaxEdits <- Bound.edits, MaxRestarts <- Bound.restarts
Analysis == INSTANCE AnalysisRun WITH MaxRestarts <- Bound.restarts
Edges == INSTANCE GraphEdges WITH
    Editor <- Actor, MaxEdges <- Bound.edges, MaxEdits <- Bound.edgeEdits,
    MaxRestarts <- Bound.restarts
Models == INSTANCE ModelProfiles WITH
    MaxChanges <- Bound.models, MaxRestarts <- Bound.modelRestarts
Plans == INSTANCE PlanTraces WITH
    Trace <- Actor, MaxSteps <- Bound.plan, MaxEvents <- Bound.events,
    MaxRestarts <- Bound.restarts
Browser == INSTANCE BrowserExecution WITH
    MaxSteps <- Bound.driver, MaxCriteria <- Bound.criteria
Evidence == INSTANCE EvidencePackage WITH
    Caller <- Actor, MaxVersion <- Bound.versions, MaxRestarts <- Bound.restarts
Report == INSTANCE RunReport WITH Result <- Results, MaxRequests <- Bound.reports
Scenarios == INSTANCE ScenarioGeneration WITH
    Worker <- Actor, Graphs <- ProjectGraphs,
    MaxRequests <- Bound.scenarios, MaxRestarts <- Bound.restarts
Inputs == INSTANCE InputProfiles WITH
    Worker <- Actor, MaxRequests <- Bound.inputs, MaxRestarts <- Bound.restarts
Pipeline == INSTANCE AnalysisPipeline WITH Worker <- Actor, MaxRequests <- Bound.pipeline
Composition == INSTANCE GraphComposition WITH
    Validations <- Rules, MaxItems <- Bound.items
Context == INSTANCE ContextDocuments WITH
    Worker <- Actor, MaxChunks <- Bound.chunks, MaxRestarts <- Bound.restarts

\* The files of an analysis are counted, and keys are numbers.
ASSUME FilesAssumption == Files \in Nat
ASSUME SecretAssumption == Secret \subseteq Nat

\* An edge leads to a node, and there is one.
ASSUME NodeAssumption == Node # {} /\ "none" \notin Node

\* What a run may end with.
ASSUME ResultsAssumption ==
    Results \subseteq
      [status : {"WAITING_FOR_REVIEW", "AUTO_FAILED", "CANCELLED"}, verdict : {"none"},
       blocker : Report!Blocker, criteria : [Report!Check -> Report!Findings],
       direct : BOOLEAN, signal : BOOLEAN, refused : {"no", "named", "business", "http"},
       stopped : {"no", "precondition", "policy"}, network : BOOLEAN]

\* A worker has a document even before it is given one.
ASSUME DocumentAssumption == Document # {}

\* What the store looks up is among the records that are followed.
ASSUME RecordsAssumption ==
    /\ {"project", "scenario"} \subseteq RecordKey
    /\ \A k \in RecordKey : Catalog!Owner(k) \in RecordKey

\* A graph has a list of sources: their routes, what is filled in for one, what
\* is known of its amount, and the evidence there is of it.  Only a route that
\* there is can be closed to all but a POST.
ASSUME GraphsAssumption ==
    ProjectGraphs \subseteq
      [sources : Seq([node : STRING, api : STRING, endpoint : STRING, group : STRING,
                      screen : STRING, entry : STRING, request : STRING,
                      has : SUBSET STRING, fills : Seq({"fill", "select", "amount"}),
                      amount : [min : BOOLEAN, max : {"none", "number", "balance"},
                                required : BOOLEAN, number : BOOLEAN],
                      evidence : Nat, name : Nat]),
       auth : [has : SUBSET {"controls", "markers"}, postOnly : SUBSET (STRING \ {"none"}),
               triggers : SUBSET STRING, openers : SUBSET STRING]]

\* A variant says of a field either its value or how it is computed, and of the
\* customer's number, which is no amount, neither.
ASSUME BodiesAssumption ==
    \A body \in Bodies :
        /\ body.pins \in Seq([field : STRING, value : STRING])
        /\ \A i, j \in DOMAIN body.pins : body.pins[i].field = body.pins[j].field => i = j
        /\ \A i \in DOMAIN body.pins : body.pins[i].field # "customerId"

\* A contract is a list of inputs, of each of which some values are known.
ASSUME ContractAssumption ==
    /\ Contract \in Seq([name : STRING, kind : STRING, required : BOOLEAN, pattern : STRING,
                         tests : SUBSET STRING,
                         rows : SUBSET [value : STRING, approved : BOOLEAN],
                         entries : SUBSET [value : STRING, category : STRING],
                         choice : STRING, suggested : STRING, typed : STRING])
    /\ \A i \in DOMAIN Contract :
         /\ IsFiniteSet(Contract[i].tests)
         /\ IsFiniteSet(Contract[i].rows) /\ IsFiniteSet(Contract[i].entries)

\* An endpoint has a path of segments, and lists of the services it calls and of
\* its response's fields.
ASSUME EndpointsAssumption ==
    \A e \in Endpoints :
        /\ e.services \in Seq(STRING) /\ e.fields \in Seq(STRING)
        /\ e.path.segs \in Seq([text : STRING, kind : {"static", "braced", "other"}])

\* A profile has room for some cases.
ASSUME PoliciesAssumption == Policies \subseteq [unresolved : STRING, budget : Nat]

Init ==
    /\ service \in Service
    /\ \/ service = "catalog" /\ Catalog!Init
       \/ service = "sync" /\ Sync!Init
       \/ service = "analysis" /\ Analysis!Init
       \/ service = "edges" /\ Edges!Init
       \/ service = "models" /\ Models!Init
       \/ service = "plans" /\ Plans!Init
       \/ service = "browser" /\ Browser!Init
       \/ service = "evidence" /\ Evidence!Init
       \/ service = "report" /\ Report!Init
       \/ service = "scenarios" /\ Scenarios!Init
       \/ service = "inputs" /\ Inputs!Init
       \/ service = "pipeline" /\ Pipeline!Init
       \/ service = "composition" /\ Composition!Init
       \/ service = "context" /\ Context!Init

Next ==
    /\ UNCHANGED service
    /\ \/ service = "catalog" /\ Catalog!Next
       \/ service = "sync" /\ Sync!Next
       \/ service = "analysis" /\ Analysis!Next
       \/ service = "edges" /\ Edges!Next
       \/ service = "models" /\ Models!Next
       \/ service = "plans" /\ Plans!Next
       \/ service = "browser" /\ Browser!Next
       \/ service = "evidence" /\ Evidence!Next
       \/ service = "report" /\ Report!Next
       \/ service = "scenarios" /\ Scenarios!Next
       \/ service = "inputs" /\ Inputs!Next
       \/ service = "pipeline" /\ Pipeline!Next
       \/ service = "composition" /\ Composition!Next
       \/ service = "context" /\ Context!Next

Spec == Init /\ [][Next]_vars

-----------------------------------------------------------------------------

\* What was deleted stays deleted: a project with all that belongs to it, and a
\* document of a project.
DeletedStays ==
    /\ service = "catalog" => Catalog!NothingLeftBehind
    /\ service = "context" => Context!DeletedStays

\* A restart finds every record as it was changed last, but for the changes
\* that do not persist and for an older catalog written last.
ChangesAreDurable == service = "catalog" => Catalog!ChangesAreDurable

\* A synchronisation does not undo an edit it could have known of.
EditsKept == service = "sync" => Sync!EditsKept

\* A set that is complete has the inventory of the repositories it names.
InventoryBacked == service = "sync" => Sync!InventoryBacked

\* No progress of an analysis is stored after its end.
EndIsLast == service = "analysis" => Analysis!EndIsLast

\* A graph is whole, as it is composed and as it is edited.
GraphIsWhole ==
    /\ service = "edges" => Edges!IdsAreUnique
    /\ service = "composition" => Composition!GraphIsWhole

\* A call leads to an endpoint exactly when it is the only one that fits.
CallsAreCertain == service = "composition" => Composition!CallsAreCertain

\* An accepted edit of an edge stays, in memory and in the catalog.
EditsStay == service = "edges" => Edges!EditsStay

\* A trace says of its workflow what became of it.
TracesAreHonest == service = "plans" => Plans!TracesAreHonest

\* A model's profile and its key go together.
KeyFollowsProfile == service = "models" => Models!KeyFollowsProfile

\* A run reported as a success has earned it.
SuccessIsEarned == service = "browser" => Browser!SuccessIsEarned

\* A package reported as complete is whole.
CompleteIsWhole == service = "evidence" => Evidence!CompleteIsWhole

\* A report without a word of attention is that of a clean run.
QuietReportIsClean == service = "report" => Report!QuietReportIsClean

\* A report and the history say the same of a run.
ReportAgreesWithHistory == service = "report" => Report!ReportAgreesWithHistory

\* Running a stored scenario submits nothing too early, twice or for nothing.
RowsAreSafeToRun == service = "scenarios" => Scenarios!RowsAreSafeToRun

\* Scenarios that are generated again replace the rows of their cases.
RegenerationReplaces == service = "scenarios" => Scenarios!RegenerationReplaces

\* Nothing is entered instead of what a scenario's variant says.
VariantIsPinned == service = "inputs" => Inputs!VariantIsPinned

\* An approved profile stays approved, and its version tells its approvals.
ApprovalStays == service = "inputs" => Inputs!ApprovalStays

\* What a complete result of the pipeline names belongs together.
CompleteIsTraceable == service = "pipeline" => Pipeline!CompleteIsTraceable

\* The catalog and the manifest say of a project's document what there is.
ContextIsHonest == service = "context" => Context!ContextIsHonest

\* A run that was only partly observed is not shown as a success.
PartIsNoSuccess == service = "report" => Report!PartIsNoSuccess

=============================================================================
