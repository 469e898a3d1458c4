\* Two Companions, two devices, two requests at once, each able to be repeated.
SPECIFICATION Spec
CONSTANTS
    Calls = {k1, k2}
    Companions = {c1, c2}
    Strange = Strange
    Bodies = {b1, b2}
    Nobody = Nobody
    NoBody = NoBody
    Refusing = {404, 409}
    MaxRevision = 3
SYMMETRY Symmetry
CONSTRAINTS Apart FewChanges
ACTION_CONSTRAINT SilentGoesFirst
INVARIANTS
    RefusedWriteIsUnapplied
    OnlyOwnIsReached
PROPERTIES
    OrphansOvertook
