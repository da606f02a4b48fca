SPECIFICATION Spec
CONSTANTS
    h1 = h1
    h2 = h2
    Homeworks = {h1, h2}
    Learners = {1, 2}
    Contents <- MCContents
    Workers = {w1, w2}
    MaxAttempts = 2
    Posted <- TwoPosted
    Bounds <- RunBounds
    None = None
SYMMETRY WorkerSymmetry
INVARIANTS CourseTypeOK ScoredExact LeaderboardExact DisabledEarnsNothing
CHECK_DEADLOCK FALSE
