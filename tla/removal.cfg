SPECIFICATION FairSpec
CONSTANTS
    Requests = {r1, r2}
    Devices = {d1, d2}
    Calls = {k1, k2}
    NoRow = NoRow
    NoTarget = NoTarget
    ClockSteps = TRUE
    PageSize = 1
    MaxGeneration = 2
    MaxInstant = 2
CONSTRAINT OneTarget
INVARIANTS
    DoneIsTrue
PROPERTIES
    IntentIsDurable
    OnlyAuthorizedIsRevoked
    CallsEnd
CHECK_DEADLOCK FALSE
