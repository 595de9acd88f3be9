SPECIFICATION Spec
CONSTANTS
    k1 = k1
    Run = {r1}
    Account = {k1}
    AccountOf <- MCAccountOf
    Mutating = {}
    NumSteps = 1
    User = {u1}
    Ops = {"cancel"}
    MaxRestarts = 0
    None = None
PROPERTIES
    CancelKept
CHECK_DEADLOCK FALSE
