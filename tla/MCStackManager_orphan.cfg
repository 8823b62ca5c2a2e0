CONSTANT Last = 3
SPECIFICATION Spec
INVARIANT NoOrphan
CHECK_DEADLOCK FALSE
