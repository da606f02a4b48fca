--------------------------- MODULE QnaRefinement ---------------------------
(***************************************************************************)
(* Handlers that read without locks and compare revisions implement the    *)
(* room of QnaRoom: every commit is one of its operations on the current   *)
(* room, everything else stutters.                                         *)
(***************************************************************************)
EXTENDS EventQna

CONSTANT NoQuestion

ASSUME NoQuestionIsNone == NoQuestion \notin Questions

Pinned == {q \in Questions : question[q].pinned}

\* The counters and scores are taken from the columns that hold them.
Told ==
    [questions |-> session.q_total, answered |-> session.q_answered,
     score |-> [q \in Questions |-> question[q].score]]

Room == INSTANCE QnaRoom WITH
    state <- session.state,
    allow <- session.allow_names,
    require <- session.require_names,
    status <- [q \in Questions |-> question[q].status],
    author <- [q \in Questions |-> question[q].author],
    text <- [q \in Questions |-> question[q].text],
    pin <- IF Pinned = {} THEN NoQuestion ELSE CHOOSE q \in Pinned : TRUE,
    votes <- votes,
    board <- Told

\* Every behaviour of the concurrent services is a behaviour of the room whose
\* operations are indivisible.
ImplementsRoom == Room!Spec
=============================================================================
