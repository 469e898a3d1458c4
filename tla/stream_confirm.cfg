\* One central that reconnects while its last session still waits.
SPECIFICATION Spec
CONSTANTS
    Centrals = {a, b}
    Links = {1, 2}
    Nobody = Nobody
    Flights = 1
    MaxChunks = 2
    MaxInbox = 2
CONSTRAINT Orderly
INVARIANT
    ConfirmationIsHeard
