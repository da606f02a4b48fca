--------------------------- MODULE MCProjectReview ---------------------------
(* Requests for the TLC runs over ProjectReview. *)
EXTENDS ProjectReview, TLC

CONSTANTS a, b, g

Submit(x) == [kind |-> "submit", review |-> x]
Edit(state, due) == [kind |-> "patch", state |-> state, due |-> due]
OptionalReview == [reviewer |-> g, target |-> a, by |-> "optional"]

\* The mandatory reviews of one author.
Own == {x \in Mandatory : x.reviewer = a /\ x.target # a}

\* Two operators assign, first with too few submissions, a reviewer submits, a
\* guest adds and deletes an optional review, a learner votes for everything;
\* staff end the window or set the state back to peer review, each with the row
\* they read before; scoring at any time.
ReviewRunCalls ==
    {[kind |-> "assign"], [kind |-> "score"], Submit(OptionalReview),
     [kind |-> "add", who |-> g, target |-> a]}
        \cup {Submit(x) : x \in Own}
        \cup {[kind |-> "delete", review |-> OptionalReview]}
        \cup {Edit("keep", "past"), Edit("PR", "keep")}
        \cup [kind: {"vote"}, who: {a}, target: Authors]
        \cup [kind: {"unvote"}, who: {a}, target: {b}]

RequestSymmetry == Permutations(Requests)
=============================================================================
