SPECIFICATION HistorySpec
CONSTANTS
    r1 = r1
    r2 = r2
    Readers = {r1, r2}
    Stories <- MCRetention
    PrivateHosts <- MCPrivate
    OwnHosts <- MCOwn
    Day = 2
    HostOf <- MCHostOf
    AuthTargets <- MCAuth
    SensitiveTargets = {}
    Limits <- MCLimits
    MaxRecent = 4
    PageSize = 1
    ListTTL = 2
    DetailTTL = 3
    ListEntries = 2
    DetailEntries = 1
    CleanupEvery = 1
INVARIANT
    RetentionRemovesOld
CHECK_DEADLOCK FALSE
