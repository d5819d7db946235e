SPECIFICATION FairSpec
CONSTANTS
    p1 = p1
    p2 = p2
    Producers <- MCProducers
    Scripts <- MCScripts
    Units = 2
    Policies <- MCPolicies
    Modes = {TRUE, FALSE}
    QueueMax = 2
    RetryMax = 1
    BatchSize <- MCBatchSize
INVARIANTS
    EventsAccounted
    FlushSound
PROPERTIES
    SnapshotsAdvance
    EarlyIsEventuallySettled
\* close() ends the writer: the system stops then.
CHECK_DEADLOCK FALSE
