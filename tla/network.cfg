\* One change after another, to one of two networks, with a reset or a restart.
SPECIFICATION FairSpec
CONSTANTS
    Ops = {o1, o2}
    Requests = {r1, r2}
    Ssids = {home, cafe}
    NoOp = NoOp
    NoSsid = NoSsid
    MaxEpoch = 1
    MaxRestarts = 1
    DevelopmentMode = TRUE
    o1 = o1
    o2 = o2
    r1 = r1
    r2 = r2
    home = home
    cafe = cafe
CONSTRAINT OneUpset
CHECK_DEADLOCK FALSE
INVARIANTS
    UnguardedNetworkIsConfirmed
    SucceededIsFinal
PROPERTIES
    RequestsAreAnswered
    ChangeSettles
