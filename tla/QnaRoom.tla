------------------------------ MODULE QnaRoom ------------------------------
(***************************************************************************)
(* What a question room promises, each operation one indivisible step on   *)
(* the current room: the contract of event-qna-integration.md as the       *)
(* services of src/event_qna/services.py state it, with no transaction,    *)
(* revision, counter or stale read in sight.  The pin is one slot, a score *)
(* is how many participants vote, and the board shows exactly what the     *)
(* questions and votes are.                                                *)
(***************************************************************************)
EXTENDS Integers, FiniteSets

CONSTANTS Participants, Questions, Texts, NoQuestion

VARIABLES
    state,      \* lifecycle of the room
    allow,      \* names are allowed
    require,    \* names are required
    status,     \* status of every question, "none" before it is asked
    author,     \* who asked it
    text,       \* what it says
    pin,        \* the pinned question or NoQuestion
    votes,      \* <<question, participant>>
    board       \* what readers are told: scores and counters

vars == <<state, allow, require, status, author, text, pin, votes, board>>
content == <<status, author, text, pin, votes, board>>

Lifecycle == [draft |-> {"open", "archived"}, open |-> {"closed", "archived"},
              closed |-> {"open", "archived"}, archived |-> {"open", "closed"}]
Shown == {"visible", "answered"}

VotersOf(v, q) == {w \in Participants : <<q, w>> \in v}

Board(st, v) ==
    [questions |-> Cardinality({q \in Questions : st[q] \in Shown}),
     answered |-> Cardinality({q \in Questions : st[q] = "answered"}),
     score |-> [q \in Questions |-> Cardinality(VotersOf(v, q))]]

ShowBoard == board' = Board(status', votes')

Init ==
    /\ state = "draft" /\ allow = TRUE /\ require = FALSE
    /\ status = [q \in Questions |-> "none"]
    /\ author \in [Questions -> Participants]
    /\ text \in [Questions -> Texts]
    /\ pin = NoQuestion /\ votes = {}
    /\ board = Board(status, votes)

Ask(q, w, t) ==
    /\ state = "open" /\ status[q] = "none"
    /\ status' = [status EXCEPT ![q] = "visible"]
    /\ author' = [author EXCEPT ![q] = w]
    /\ text' = [text EXCEPT ![q] = t]
    /\ votes' = votes \cup {<<q, w>>}
    /\ ShowBoard
    /\ UNCHANGED <<state, allow, require, pin>>

Vote(q, w) ==
    /\ state = "open" /\ status[q] \in Shown
    /\ votes' \in {votes \cup {<<q, w>>}, votes \ {<<q, w>>}}
    /\ ShowBoard
    /\ UNCHANGED <<state, allow, require, status, author, text, pin>>

Rewrite(q) == \E t \in Texts : text' = [text EXCEPT ![q] = t]

\* An author or a moderator corrects, answers, takes the answer back, deletes,
\* pins or unpins in one step; who may do which of these is EventQna's matter.
\* Only a question that is listed afterwards is pinned, and a change to one
\* question moves another's pin only onto itself.
Edit(q) ==
    /\ state # "archived" /\ status[q] \in Shown
    /\ Rewrite(q)
    /\ \E s \in {"visible", "answered", "deleted"} :
            status' = [status EXCEPT ![q] = s]
    /\ pin' \in {pin, q, NoQuestion}
    /\ pin' = q => status'[q] \in Shown
    /\ pin # q /\ pin' = NoQuestion => pin = NoQuestion
    /\ ShowBoard
    /\ UNCHANGED <<state, allow, require, author, votes>>

\* Settings and lifecycle, in one step; the last move is the one that counts.
Configure ==
    /\ state' \in {state} \cup Lifecycle[state]
                  \cup (IF state = "open" THEN {"open"} \cup Lifecycle["closed"] ELSE {})
    /\ allow' \in BOOLEAN /\ require' \in BOOLEAN
    /\ allow' \/ ~require'
    /\ state = "archived" => UNCHANGED <<allow, require>>
    /\ UNCHANGED content

Next ==
    \/ \E q \in Questions :
        \/ \E w \in Participants, t \in Texts : Ask(q, w, t)
        \/ \E w \in Participants : Vote(q, w)
        \/ Edit(q)
    \/ Configure

Spec == Init /\ [][Next]_vars
=============================================================================
