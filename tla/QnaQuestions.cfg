SPECIFICATION Spec
CONSTANTS
    a = a
    b = b
    q1 = q1
    q2 = q2
    NoQuestion = none
    Handlers = {h1, h2}
    Pages = {}
    Participants = {a, b}
    Questions = {q1, q2}
    Texts = {t1}
    Calls <- QuestionRunCalls
    EditWindow = 1
    ArchiveDelete = 7
    MaxRevision = 6
    MaxTime = 1
SYMMETRY HandlerSymmetry
INVARIANTS TypeOK ColumnsExact ReadsConsistent
PROPERTIES OnlyOpenRoomsFill DeletedIsFinal AuthorEditsOwnUnvoted RevisionCoversChange ImplementsRoom
