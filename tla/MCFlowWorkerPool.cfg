SPECIFICATION FairSpec
CONSTANTS
    s1 = s1
    s2 = s2
    Submitters <- MCSubmitters
    Packets <- MCPackets
    Hash <- MCHash
    Policies <- MCPolicies
    Modes = {TRUE, FALSE}
    WorkerCount = 2
    QueueMax = 3
    Jobs = 2
    Traffics <- MCTraffics
INVARIANTS
    JobsAccounted
    FlowOrder
    DrainTrustworthy
PROPERTIES
    ImplementsLossyFifo
    EarlyIsEventuallyDone
\* close() ends the workers: the system stops then.
CHECK_DEADLOCK FALSE
