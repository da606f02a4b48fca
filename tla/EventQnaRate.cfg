SPECIFICATION Spec
CONSTANTS
    Requests = {r1, r2, r3}
    Window = 2
    Limit = 2
    MaxTime = 3
INVARIANTS ActiveWindowExact
PROPERTIES ActiveDenialMeansFull
