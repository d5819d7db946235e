SPECIFICATION Spec
CONSTANTS
    p1 = p1
    p2 = p2
    Producers <- MCProducers
    Scripts <- MCDropScripts
    Units = 2
    Policies <- MCOldest
    Modes = {TRUE}
    QueueMax = 2
    RetryMax = 1
    BatchSize <- MCBatchSize
INVARIANT
    EveryDropCounted
CHECK_DEADLOCK FALSE
