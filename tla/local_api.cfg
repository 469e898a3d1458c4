SPECIFICATION Spec
CONSTANTS
    Controllers = {c1, c2}
    Tokens = {t1, t2}
    Requests = {r1, r2}
    Inputs = {i1, i2}
    NoToken = NoToken
    NoSession = NoSession
    Nobody = Nobody
    Absent = Absent
    Capacity = 1
    MaxEpoch = 1
    c1 = c1
    c2 = c2
    t1 = t1
    t2 = t2
    r1 = r1
    r2 = r2
    i1 = i1
    i2 = i2
SYMMETRY Symmetry
CONSTRAINT FewAfterReset
CHECK_DEADLOCK FALSE
INVARIANTS
    SetupIsExclusive
    RemovalEndsStanding
PROPERTIES
    SessionsLeaveForAReason
