SPECIFICATION FairSpec
CONSTANTS
    h1 = h1
    h2 = h2
    Homeworks = {h1}
    Learners = {1}
    Contents <- MCContents
    Workers = {w1}
    MaxAttempts = 2
    Posted <- OnePosted
    Bounds <- RescoreBounds
    None = None
PROPERTIES RescoreTakesEffect
CHECK_DEADLOCK FALSE
