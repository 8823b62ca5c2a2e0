CONSTANT Last = 3
SPECIFICATION FairSpec
INVARIANTS
    RunningIsComplete
    OrphansExplained
PROPERTIES
    StartsInOrder
    StopEnds
CHECK_DEADLOCK FALSE
