SPECIFICATION WorkloadSpec
CONSTANTS
    k1 = k1
    Run = {r1}
    Account = {k1}
    AccountOf <- MCAccountOf
    Mutating = {r1}
    NumSteps = 1
    User = {u1, u2}
    Ops = {"cancel", "ingest", "external", "delete"}
    MaxRestarts = 1
    None = None
SYMMETRY Symmetry
INVARIANTS
    TypeOK
    ResultBacksVerdict
    CancelWins
    LogsInTime
CHECK_DEADLOCK FALSE
