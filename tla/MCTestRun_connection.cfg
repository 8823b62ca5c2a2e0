CONSTANT Last = 3
SPECIFICATION Spec
INVARIANT TeardownIsComplete
CHECK_DEADLOCK FALSE
