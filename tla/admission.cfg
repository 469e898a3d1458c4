SPECIFICATION Spec
CONSTANTS
    Enrollments = {e1}
    Controllers = {c1}
    Calls = {k1, k2}
    Operations = {o1}
    Operator = Operator
    OperatorRequest = OperatorRequest
    NoRow = NoRow
    NoDecision = NoDecision
    NoTarget = NoTarget
    MaxOwner = 2
    MaxRevision = 2
INVARIANTS
    AnsweredDecisionHolds
    MountedForItsOwner
PROPERTIES
    DecisionIsDurable
CHECK_DEADLOCK FALSE
