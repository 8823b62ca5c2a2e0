CONSTANT MaxRuns = 3
SPECIFICATION Spec
INVARIANT ReadyMeansComplete
CHECK_DEADLOCK FALSE
