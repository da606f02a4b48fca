-------------------------- MODULE MCCourseScoring --------------------------
(* Contents, posts and bounds for the TLC runs over CourseScoring. *)
EXTENDS CourseScoring, FiniteSetsExt, TLC

CONSTANTS h1, h2

\* A point for answers, or one for a link.
Answers == [q |-> 1, lip |-> 0]
Links == [q |-> 0, lip |-> 1]

MCContents == {Answers, Links}

\* Two learners, one of them with both homeworks posted.
TwoPosted == {<< h1 :> Links @@ h2 :> Answers, h1 :> Answers @@ h2 :> None >>}

\* Requests that overlap, posts that overlap with them, and jobs that fail.
RunBounds ==
    {[posts |-> 0, requests |-> 4, faults |-> 0],
     [posts |-> 2, requests |-> 3, faults |-> 0],
     [posts |-> 0, requests |-> 3, faults |-> 2]}

OnePosted == {<< h1 :> Answers >>}

\* Staff press "score" and "re-score" on a platform where nothing fails.
RescoreBounds == {[posts |-> 0, requests |-> 4, faults |-> 0]}

\* Counting points is adding them up.
ASSUME PointsAddUp ==
    \A earned \in [Homeworks -> 0..3] : Points(earned) = MapThenSumSet(LAMBDA h : earned[h], Homeworks)

WorkerSymmetry == Permutations(Workers)
=============================================================================
