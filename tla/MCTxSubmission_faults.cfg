CONSTANTS
    q1 = q1
    q2 = q2
    h1 = h1
    Queued <- MCOneQueued
    Handled <- MCHandled
    AwaitFinal <- MCAwaitFinal
    Budget = 3
    TimeoutCost = 2
    MaxFaults = 2
SPECIFICATION FairSpec
INVARIANTS
    ResolvedMeansExecuted
    ExecutionsBounded
PROPERTIES
    KeepsOutcomes
    Settles
CHECK_DEADLOCK FALSE
