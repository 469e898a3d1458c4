\* A development Host with a factory code, either window policy at each start,
\* and a clock that may be set back.
\* A stopped daemon that nobody restarts is a legitimate end.
CHECK_DEADLOCK FALSE
SPECIFICATION Spec
CONSTANTS
    Controllers = {c1, c2}
    Links = {l1}
    Nobody = Nobody
    SessionIds = {0, 1, 2}
    MaxEpoch = 1
    PerSecond = 3
    MaxClock = 6
    MaxAttempts = 1
    RecoveryTtl = 1
    Policies = {FALSE, TRUE}
    FactoryCode = TRUE
    DevelopmentMode = TRUE
    ClockSteps = TRUE
SYMMETRY Symmetry
CONSTRAINT Early
ACTION_CONSTRAINT SetBackEarly
INVARIANTS
    ClaimedIffHeld
    OneLiveWindow
    OpenWindowIsAdvertised
    ReplayCoversNoRevocation
    StandingWindow
PROPERTIES
    GrantConsumesWindow
    ImplementsGrants
