SPECIFICATION Spec
CONSTANTS
    a = a
    b = b
    g = g
    Requests = {r1, r2}
    Authors = {a, b}
    Guests = {g}
    Calls <- ReviewRunCalls
    Required = 2
    Budget = 1
    Window = 1
    MaxTime = 1
SYMMETRY RequestSymmetry
INVARIANTS ProjectTypeOK GradesMatchReviews SubmittedIsCounted VoteBudgetHeld
