SPECIFICATION Spec
CONSTANTS
    N = 5
    K = 2
INVARIANTS SelectionInv ChoicesRemain
CHECK_DEADLOCK FALSE
