SPECIFICATION Spec
CONSTANTS
    NumCases = 2
    k1 = k1
    k2 = k2
    Key = {k1, k2}
    Iso <- MCIso
    Review <- MCReview
    Slot = {s1, s2}
    Run = {r1, r2}
    User = {u1}
    Ops = {"start", "pause", "cancel"}
    InfraRetry = 0
    ProductRetry = 0
    MaxRestarts = 0
    None = None
SYMMETRY Symmetry
INVARIANTS
    TypeOK
    RunsAttended
    OneRunPerKey
CHECK_DEADLOCK FALSE
