SPECIFICATION FairSpec
CONSTANTS
    p1 = p1
    p2 = p2
    Producers <- MCProducers
    Policies <- MCPolicies
    MaxSize = 2
    Offers = 2
INVARIANTS
    PutsAccounted
    DrainedMeansHandled
PROPERTIES
    ImplementsLossyFifo
    QueuedIsEventuallyHandled
\* The capture may end and the worker may exit: the system stops then.
CHECK_DEADLOCK FALSE
