SPECIFICATION Spec
CONSTANTS
    a = a
    b = b
    q1 = q1
    q2 = q2
    NoQuestion = none
    Handlers = {h1, h2}
    Pages = {}
    Participants = {a, b}
    Questions = {q1}
    Texts = {t1}
    Calls <- VoteRunCalls
    EditWindow = 1
    ArchiveDelete = 7
    MaxRevision = 6
    MaxTime = 1
SYMMETRY HandlerSymmetry
PROPERTIES NoEditAfterOthersVote
