SPECIFICATION BusSpec
CONSTANTS
    w1 = w1
    w2 = w2
    lifespan = lifespan
    c1 = c1
    Publishers <- MCPublishers
    Lifespan = lifespan
    Lists = {"packet"}
    Latest = {"dashboard"}
    BatchMax = 2
    Scripts <- MCShutdown
    Events = 2
    Clients <- MCClients
    ClientQueueMax = 1
    SlowPolicies <- MCPolicies
INVARIANT
    ShutdownFlushes
CHECK_DEADLOCK FALSE
