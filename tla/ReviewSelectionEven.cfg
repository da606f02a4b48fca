SPECIFICATION Spec
CONSTANTS
    N = 5
    K = 3
INVARIANTS EvenCoverage
CHECK_DEADLOCK FALSE
