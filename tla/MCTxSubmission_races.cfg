CONSTANTS
    q1 = q1
    q2 = q2
    h1 = h1
    Queued <- MCQueued
    Handled <- MCHandled
    AwaitFinal <- MCAwaitFinal
    Budget = 3
    TimeoutCost = 2
    MaxFaults = 1
SPECIFICATION Spec
INVARIANTS
    RetriesAreSafe
    NoncesAreDistinct
    NoncesAreContinuous
CHECK_DEADLOCK FALSE
