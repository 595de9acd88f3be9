SPECIFICATION FairSpec
CONSTANTS
    NumCases = 2
    k1 = k1
    k2 = k2
    Key = {k1, k2}
    Iso <- MCIso
    Review <- MCReview
    Slot = {s1}
    Run = {r1, r2}
    User = {u1}
    Ops = {"start", "pause", "cancel"}
    InfraRetry = 1
    ProductRetry = 0
    MaxRestarts = 1
    None = None
PROPERTIES
    CancelDrains
    PauseQuiesces
CHECK_DEADLOCK FALSE
