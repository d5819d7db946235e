SPECIFICATION AnalysisSpec
CONSTANTS
    w1 = w1
    w2 = w2
    Workers <- MCWorkers
    Spared <- MCSpared
    Engines = {"flood", "syn", "application"}
    Window = 1
    Threshold = 2
    MaxKeys = 1
    Cooldown = 2
    MaxTracked = 1
    Duration = 2
    Traffics <- MCAllTraffics
    Correlators <- MCWorkers
    Evidence <- MCEvidence
    NoHost <- MCNoHost
    Together = 1
    Retention = 2
    MaxOpen = 2
    MaxSignals = 4
    HighAt = 2
    CriticalAt = 4
    MinSeverity = 1
    Horizon = 3
    Ingested = 5
SYMMETRY WorkerSymmetry
INVARIANTS
    CountsSound
    RepeatsOverlap
    SignalsAccounted
    GroupingSound
PROPERTIES
    SeverityNeverFalls
\* The traffic ends.
CHECK_DEADLOCK FALSE
