SPECIFICATION ViewsSpec
CONSTANTS
    w1 = w1
    w2 = w2
    Workers <- MCWorkers
    Captures <- MCCaptures
    LocalHosts <- MCLocalHosts
    PortProtocols <- MCPortProtocols
    ServiceOf <- MCServiceOf
    OwnerOf <- MCOwnerOf
    Categories <- MCCategories
    Capacity <- MCCapacity
    MaxSamples = 2
    MaxTimeline = 3
    ManyPackets = 2
    ManyBytes = 2
    OutcomeCacheMax = 1
    TTL = 1
    MaxItems = 2
    r1 = r1
    r2 = r2
    Readers = {r1, r2}
    Stories <- MCStories
    PrivateHosts <- MCPrivate
    OwnHosts <- MCOwn
    Day = 2
    HostOf <- MCHostOf
    AuthTargets <- MCAuth
    SensitiveTargets = {}
    Limits <- MCLimits
    MaxRecent = 4
    PageSize = 1
    ListTTL = 2
    DetailTTL = 3
    ListEntries = 2
    DetailEntries = 1
    CleanupEvery = 1
SYMMETRY WorkerSymmetry
INVARIANTS
    TableMatchesLog
    ViewsAgree
    CountersAgree
    ConversationAnswered
    ContextsSound
    ListsSound
PROPERTIES
    RiskFallsOnlyWhenRecognised
\* The traffic and the stories end.
CHECK_DEADLOCK FALSE
