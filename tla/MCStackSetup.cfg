CONSTANT MaxRuns = 3
SPECIFICATION FairSpec

    
    
PROPERTIES
    ProvidedInOrder
    ClustersAreReused
    RunEnds
CHECK_DEADLOCK FALSE
