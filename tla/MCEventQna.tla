---------------------------- MODULE MCEventQna ----------------------------
(* Calls for the TLC runs over EventQna. *)
EXTENDS QnaRefinement, TLC

CONSTANTS a, b, q1, q2

Ask(w) == [kind |-> "submit", who |-> w, text |-> CHOOSE t \in Texts : TRUE, named |-> FALSE]
Vote(w, q, add) == [kind |-> "vote", who |-> w, q |-> q, add |-> add]
Patch(w, moderator, q, text, status, pinned) ==
    [kind |-> "patch", who |-> w, moderator |-> moderator, q |-> q,
     text |-> text, status |-> status, pinned |-> pinned]
Mod(q, text, status, pinned) == Patch(b, TRUE, q, text, status, pinned)
Go(target) == [kind |-> "transition", target |-> target]
Set(allow, require, other, expires, target) ==
    [kind |-> "settings", allow |-> allow, require |-> require, other |-> other,
     expires |-> expires, target |-> target]
List == [kind |-> "list"]
SomeText == CHOOSE t \in Texts : TRUE

\* Votes for one question race its author's edits, its moderation and the
\* closing of the room.
VoteRunCalls ==
    {List, Ask(a), Go("open"), Go("closed")}
        \cup {Vote(w, q1, add) : w \in {a, b}, add \in BOOLEAN}
        \cup {Patch(a, FALSE, q1, SomeText, "keep", "keep"),
              Patch(a, FALSE, q1, "keep", "deleted", "keep"),
              Mod(q1, "keep", "answered", "keep"),
              Mod(q1, "keep", "deleted", "keep")}

\* Votes, the author's withdrawal, moderation and pins of two questions, from
\* loaded forms or not, while the room opens and closes.
QuestionRunCalls ==
    {List, Ask(a), Go("open"), Go("closed")}
        \cup {Vote(w, q1, add) : w \in {a, b}, add \in BOOLEAN}
        \cup {Patch(a, FALSE, q1, SomeText, "deleted", "keep"),
              Mod(q1, "keep", "answered", "keep"), Mod(q1, "keep", "visible", "keep"),
              Mod(q1, "keep", "keep", "unpin"), Mod(q1, "keep", "keep", "pin"),
              Mod(q2, "keep", "deleted", "keep"), Mod(q2, "keep", "keep", "pin")}

\* Settings forms, expiry, the archive and polls, with a question in between
\* that a moderator answers while the room expires.
LifecycleRunCalls ==
    {List, [Ask(a) EXCEPT !.named = TRUE], Ask(b), Mod(q1, "keep", "answered", "keep")}
        \cup {Go(target) : target \in {"open", "closed", "archived"}}
        \cup {Set("off", "keep", FALSE, Unset, "keep"),
              Set("keep", "on", FALSE, Unset, "keep"),
              Set("on", "off", FALSE, Null, "open"),
              Set("keep", "keep", TRUE, 1, "open"),
              Set("keep", "keep", FALSE, Unset, "archived")}

HandlerSymmetry == Permutations(Handlers)
=============================================================================
