SPECIFICATION Spec
CONSTANTS
    Run = {r1, r2, r3}
    NumScenarios = 1
    User = {u1}
    Tick = Tick
    Ops = {"list"}
    MaxRestarts = 0
    None = None
SYMMETRY Symmetry
INVARIANTS
    OneExecution
CHECK_DEADLOCK FALSE
