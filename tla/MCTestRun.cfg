CONSTANT Last = 3
SPECIFICATION FairSpec
INVARIANTS
    TestsHaveTheirStack
    ChildrenAreReached
    ConnectionsExplained
PROPERTIES
    RunEnds
CHECK_DEADLOCK FALSE
