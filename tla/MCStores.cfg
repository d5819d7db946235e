SPECIFICATION StoresSpec
CONSTANTS
    None = None
    host = host
    demo = demo
    t1 = t1
    t2 = t2
    Agents <- MCAgents
    DemoAgents <- MCDemo
    AwayAgents <- MCDemo
    Threads <- MCThreads
    Payloads <- MCPayloads
    Stores <- MCKinds
    OfflineAfter = 0
    Retention = 0
    BackoffCap = 4
    MaxTime = 1
    MaxFaults = 1
    MaxSeeds = 1
    Requests <- MCThreads
    Keys <- MCKeys
    Defaults <- MCDefaults
    Updates <- MCUpdates
    MaxUpdates = 3
    Clients <- MCThreads
    MaxChanges = 3
    Ingesters <- MCThreads
    OwnerOf <- MCOwnerOf
    MaxSize = 2
    BatchSize = 2
    MaxRetries = 1
    MaxPackets = 2
    MaxSaveFaults = 2
    MaxFilterFaults = 2
INVARIANTS
    AckedIsKept
    MemoryAgrees
    InStep
    AnswersKept
    NewestIsStored
PROPERTIES
    ReportsAdvance
    NothingLost
    EveryReportGetsThrough
    EarlyIsEventuallyStored
\* Time, faults and requests are bounded.
CHECK_DEADLOCK FALSE
