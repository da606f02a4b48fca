SPECIFICATION FairSpec
CONSTANTS
    a = a
    b = b
    q1 = q1
    q2 = q2
    NoQuestion = none
    Handlers = {h1, h2}
    Pages = {h2}
    Participants = {a, b}
    Questions = {q1}
    Texts = {t1}
    Calls <- LifecycleRunCalls
    EditWindow = 1
    ArchiveDelete = 7
    MaxRevision = 5
    MaxTime = 1
INVARIANTS NamesSatisfiable
PROPERTIES IfMatchHonoured ExpiredRoomCloses
