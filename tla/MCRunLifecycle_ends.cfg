SPECIFICATION QuietSpec
CONSTANTS
    k1 = k1
    Run = {r1, r2}
    Account = {k1}
    AccountOf <- MCAccountOf
    Mutating = {r1, r2}
    NumSteps = 1
    User = {u1}
    Ops = {"cancel", "delete"}
    MaxRestarts = 0
    None = None
INVARIANTS
    OneMutationPerAccount
PROPERTIES
    Ends
CHECK_DEADLOCK FALSE
