SPECIFICATION FairSpec
CONSTANTS
    Run = {r1, r2}
    NumScenarios = 2
    User = {u1}
    Tick = Tick
    Ops = {"list", "execute", "create", "cancelRun"}
    MaxRestarts = 0
    None = None
PROPERTIES
    Reported
    DueServed
CHECK_DEADLOCK FALSE
