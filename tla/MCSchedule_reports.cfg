SPECIFICATION Spec
CONSTANTS
    Run = {r1, r2}
    NumScenarios = 2
    User = {u1}
    Tick = Tick
    Ops = {"update", "delete", "deleteRun"}
    MaxRestarts = 1
    None = None
SYMMETRY Symmetry
INVARIANTS
    RunningBacked
    HonestReport
CHECK_DEADLOCK FALSE
