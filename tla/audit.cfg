SPECIFICATION FairSpec
\* a task that could not open its store is over
CHECK_DEADLOCK FALSE
CONSTANTS
    Events = {e1, e2}
    Messages = {m1, m2}
    Malformed = Malformed
    Unpublished = Unpublished
    FetchBatch = 2
    MaxRows = 1
    MaxFailures = 2
    MaxRestarts = 1
INVARIANTS
    AcknowledgedIsIndexed
PROPERTIES
    PruneIsExact
    EventsAreIndexed
    DeadFeedIsReported
