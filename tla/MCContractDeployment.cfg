CONSTANTS
    Commands = {c1, c2}
    Scripts = {s1}
    MaxFaults = 1
    c1 = c1
    c2 = c2
    s1 = s1
SPECIFICATION FairSpec
INVARIANTS
    CodeComesFirst
    RecordsAreUsable
PROPERTIES
    RecordsKept
    DeploymentEnds
CHECK_DEADLOCK FALSE
