SPECIFICATION Spec
CONSTANTS
    w1 = w1
    w2 = w2
    Workers <- MCWorkers
    Spared <- MCSpared
    Engines = {"application"}
    Window = 1
    Threshold = 2
    MaxKeys = 1
    Cooldown = 2
    MaxTracked = 1
    Duration = 2
    Traffics <- Alerts
SYMMETRY WorkerSymmetry
INVARIANTS
    SkipsDuplicateBlocks
\* The traffic ends.
CHECK_DEADLOCK FALSE
