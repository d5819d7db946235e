SPECIFICATION FairSpec
CONSTANTS
    r1 = r1
    r2 = r2
    lifespan = lifespan
    Requests <- MCRequests
    Lifespan = lifespan
    Sessions = 2
    Packets = 1
    IntakeMax = 1
    Calls = 3
INVARIANTS
    SessionsAccounted
    StopDrains
PROPERTIES
    CallsReturn
\* The service may be closed, or every call made: the system stops then.
CHECK_DEADLOCK FALSE
