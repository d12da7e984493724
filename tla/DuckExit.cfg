SPECIFICATION Spec
INVARIANT ExitLeavesStill
CHECK_DEADLOCK FALSE
