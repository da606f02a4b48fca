--------------------------- MODULE ReviewSelection ---------------------------
(***************************************************************************)
(* Which submissions each submitter reviews:                               *)
(* select_random_assignment of src/courses/project_assignment_selection.py *)
(* for N submissions and K reviews each.  One step is one slot of one      *)
(* reviewer; random.choice, whatever the seed, is a choice from the list   *)
(* it is given.                                                            *)
(***************************************************************************)
EXTENDS Integers, FiniteSets

CONSTANTS
    N,      \* len(submissions)
    K       \* num_projects_to_review

\* _validate_peer_review_assignment_size
ASSUME EnoughSubmissions == N \in Nat /\ K \in Nat \ {0} /\ N > K

Submissions == 0 .. N - 1
Slots == 0 .. K - 1

VARIABLES
    reviewer,   \* reviewer_idx, N when all have been served
    slot,       \* the slot of this reviewer that is filled next
    selected,   \* the reviewer and what they have been given
    pool,       \* projects_pool: per slot, the submissions not yet taken from it
    assigned    \* the reviews made: <<reviewer, slot, submission>>

vars == <<reviewer, slot, selected, pool, assigned>>

Init ==
    /\ reviewer = 0 /\ slot = 0
    /\ selected = {0}
    /\ pool = [s \in Slots |-> Submissions]
    /\ assigned = {}

\* Mutant of Excluded: reviewers may draw themselves.
ExcludedOnlyGiven == selected \ {reviewer}

\* What _available_review_projects and _fallback_review_projects leave out.
Excluded == selected

\* Mutant of Fallback: there is none.
FallbackNone == {}

\* _fallback_review_projects, when the slot's pool has nothing to offer.
Fallback == Submissions \ Excluded

\* _select_project_for_review
Choices == IF pool[slot] \ Excluded # {} THEN pool[slot] \ Excluded ELSE Fallback

\* _remove_project_from_slot_pool
PoolWithout(p) == [pool EXCEPT ![slot] = @ \ {p}]

Select ==
    /\ reviewer < N
    /\ \E p \in Choices :
        /\ assigned' = assigned \cup {<<reviewer, slot, p>>}
        /\ pool' = PoolWithout(p)
        /\ \/ /\ slot + 1 < K
              /\ slot' = slot + 1 /\ reviewer' = reviewer
              /\ selected' = selected \cup {p}
           \/ /\ slot + 1 = K
              /\ slot' = 0 /\ reviewer' = reviewer + 1
              /\ selected' = {reviewer + 1}

Next == Select

Spec == Init /\ [][Next]_vars

---------------------------------------------------------------------------
GivenIn(reviews, r) == {p \in Submissions : \E s \in Slots : <<r, s, p>> \in reviews}
Given(r) == GivenIn(assigned, r)
Received(p) == Cardinality({a \in assigned : a[3] = p})

\* The indices that select_random_assignment chooses are indices of submissions.
SelectionTypeOK ==
    /\ reviewer \in 0 .. N
    /\ slot \in Slots
    /\ selected \subseteq 0 .. N
    /\ pool \in [Slots -> SUBSET Submissions]
    /\ assigned \subseteq Submissions \X Slots \X Submissions

\* random.choice is never given an empty list (it would raise IndexError and
\* roll the assignment back), although the pools run dry.
ChoicesRemain == reviewer < N => Choices # {}

\* Every reviewer that has been served has exactly K different submissions to
\* review, none of them their own: this is what reviewed_enough_peers asks for.
ReviewersServed ==
    \A r \in 0 .. reviewer - 1 : Cardinality(Given(r)) = K /\ r \notin Given(r)

\* A submission goes short of a review only for a slot whose pool still holds
\* it: every submission has been taken out of a pool by a review of that slot.
PoolsAccounted ==
    \A p \in Submissions, s \in Slots :
        p \in pool[s] \/ \E r \in Submissions : <<r, s, p>> \in assigned

\* What has been assigned so far belongs to served reviewers and filled slots,
\* and selected is the current reviewer with what they were given.
InOrder ==
    /\ \A t \in assigned : t[1] < reviewer \/ (t[1] = reviewer /\ t[2] < slot)
    /\ reviewer = N => slot = 0
    /\ reviewer < N => /\ selected = {reviewer} \cup Given(reviewer)
                       /\ reviewer \notin Given(reviewer)
                       /\ Cardinality(Given(reviewer)) = slot

\* While select_random_assignment runs, every served reviewer has K different
\* submissions of others, the one being served has one for each filled slot, and
\* a submission that left a slot's pool was given to somebody in that slot.
SelectionInv == SelectionTypeOK /\ InOrder /\ ReviewersServed /\ PoolsAccounted

\* "self.assertEqual(count, num_projects_to_review)"
\* (src/courses/tests/test_unit_projects.py:85): in the end every submission
\* has as many reviews as it gives.
EvenCoverage == reviewer = N => \A p \in Submissions : Received(p) = K
=============================================================================
