SPECIFICATION FairSpec
CONSTANTS
    w1 = w1
    w2 = w2
    lifespan = lifespan
    c1 = c1
    Publishers <- MCPublishers
    Lifespan = lifespan
    Lists = {"packet"}
    Latest = {"dashboard"}
    BatchMax = 2
    Scripts <- MCScripts
    Events = 2
    Clients <- MCClients
    ClientQueueMax = 1
    SlowPolicies <- MCPolicies
INVARIANTS
    NothingStranded
    DeliveryAccounted
PROPERTIES
    EventuallyFlushed
\* The publishers stop and close() ends: the system stops then.
CHECK_DEADLOCK FALSE
