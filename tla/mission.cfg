\* Two bodies, one of them claimed twice, or three turns and tasks of two Companions;
\* one source at a time may be silent.
SPECIFICATION Spec
CONSTANTS
    Bodies = {1, 2}
    Companions = {c1, c2}
    MaxClaims = 2
    MaxRows = 3
    MaxTime = 3
    MaxFaults = 1
    TurnPage = 3
    PerScope = 1
    Total = 3
    LaneLimit = 2
    DeviceLimit = 1
    HistoryPage = 1
SYMMETRY Symmetry
CONSTRAINT OneOfBoth
INVARIANTS
    OkIsEarned
    PresenceIsObserved
    ActiveIsDrawn
    HistoryIsWhole
