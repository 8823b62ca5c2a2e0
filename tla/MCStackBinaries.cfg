CONSTANTS
    Proc = {p1, p2}
    Asset = {node, chainspec}
    Binary = {node}
    Chunks = 2
    MaxFaults = 1
SPECIFICATION FairSpec
INVARIANTS
    ReadyMeansWhole
    ReadyMeansExecutable
PROPERTIES
    CompleteStays
    Recovers
CHECK_DEADLOCK FALSE
