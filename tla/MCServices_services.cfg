SPECIFICATION Spec
CONSTANTS
    w1 = w1
    w2 = w2
    fe = fe
    be = be
    Actor <- Two
    RecordKey <- RecordKey1
    RepoRole <- Roles
    Files = 3
    Node = {"a", "b"}
    Type = {"navigates", "calls"}
    Secret = {1, 2}
    Control = {"pay"}
    Results <- Results1
    ProjectGraphs <- Graphs1
    Bodies <- CaseVariants
    Contract <- Form1
    Known = "none"
    Policies <- Policies1
    Overrides <- Overrides1
    Case = {"a"}
    Screens <- Screens1
    Links <- Links1
    Calls <- Calls1
    Endpoints <- Endpoints1
    Fields <- Fields1
    Events <- Events1
    Rules <- Rules1
    Transitions <- Transitions1
    Words = {"payment"}
    Cut <- Texts
    Document = {"csv", "pptx"}
    Csv = {"csv"}
    Bound <- Bound1
    Service = {"catalog", "sync", "analysis", "edges", "models", "plans", "browser", "evidence",
               "report", "scenarios", "inputs", "pipeline", "composition", "context"}
SYMMETRY Symmetry
INVARIANTS
    DeletedStays
    ChangesAreDurable
    EditsKept
    InventoryBacked
    EndIsLast
    GraphIsWhole
    CallsAreCertain
    EditsStay
    KeyFollowsProfile
    TracesAreHonest
    SuccessIsEarned
    CompleteIsWhole
    QuietReportIsClean
    ReportAgreesWithHistory
    RowsAreSafeToRun
    RegenerationReplaces
    VariantIsPinned
    ApprovalStays
    CompleteIsTraceable
    ContextIsHonest
CONSTRAINT Small
CHECK_DEADLOCK FALSE
