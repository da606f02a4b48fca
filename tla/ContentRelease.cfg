SPECIFICATION Spec
CONSTANTS
    a = a
    b = b
    a1 = a1
    a2 = a2
    b1 = b1
    p1 = p1
    p2 = p2
    Sources = {a, b}
    Enabled = {a, b}
    Releases = {a1, a2, b1}
    SourceOf <- MCSourceOf
    Content <- MCContent
    Paths = {p1, p2}
    Clients = {c1, c2}
    MaxAttempts = 2
    MaxSwaps = 5
    MaxFaults = 1
    Plans <- MCPlans
    None = None
SYMMETRY ClientSymmetry
INVARIANTS
    ContentTypeOK
    PointerIsActive
    ClaimsExact
    ServedOnce
    FrozenAsCounted
    EverySwapInvalidates
PROPERTIES ActivationReplacesBase
CHECK_DEADLOCK FALSE
