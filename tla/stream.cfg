\* Two centrals, two links over the life of a listener.
SPECIFICATION Spec
CONSTANTS
    Centrals = {a, b}
    Links = {1, 2}
    Nobody = Nobody
    Flights = 1
    MaxChunks = 2
    MaxInbox = 2
CONSTRAINT Orderly
INVARIANTS
    OnlyTheCurrentLinkSpeaks
    OneRequestAfterTheEnd
PROPERTIES
    ClosedSessionsEnd
