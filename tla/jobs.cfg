\* Two boards on one port, two jobs, monitors and probes, and two browsers
\* that follow a log, with either service.
CHECK_DEADLOCK FALSE
SPECIFICATION Spec
CONSTANTS
    Jobs = {j1, j2}
    Boards = {b1, b2}
    Ports = {p1}
    Sessions = {s1, s2}
    Streams = {q1, q2}
    NoBoard = NoBoard
    NoPort = NoPort
    Free = Free
    NoJob = NoJob
    Services = {"esp32", "mobile"}
    QueueSize = 1
SYMMETRY Symmetry
CONSTRAINT Apart
INVARIANTS
    WorkIsExclusive
    ActiveHasRunner
    NoStreamIsForgotten
PROPERTIES
    SessionKeepsItsPort
    CancelStopsSteps
