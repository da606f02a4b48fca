------------------------ MODULE ReviewSelectionProofs ------------------------
(***************************************************************************)
(* The selection of reviews is right for every number of submissions and   *)
(* of reviews, and for every seed: it never runs out of choices, and every *)
(* reviewer is given K different submissions of others.                    *)
(***************************************************************************)
EXTENDS ReviewSelection, FiniteSetTheorems, TLAPS

\* Finiteness of what Cardinality is applied to.
LEMMA SubmissionsFinite == IsFiniteSet(Submissions) /\ Cardinality(Submissions) = N
<1>1. 0 \in Int /\ N - 1 \in Int
  BY EnoughSubmissions
<1>2. IsFiniteSet(0 .. N - 1) /\ Cardinality(0 .. N - 1) = IF 0 > N - 1 THEN 0 ELSE (N - 1) - 0 + 1
  BY <1>1, FS_Interval
<1> QED
  BY <1>2, EnoughSubmissions DEF Submissions

\* A set of submissions with fewer than N members leaves some submission out.
LEMMA SomeoneLeft ==
    ASSUME NEW S \in SUBSET Submissions, Cardinality(S) < N
    PROVE  Submissions \ S # {}
<1>1. SUFFICES ASSUME Submissions \ S = {} PROVE FALSE
  OBVIOUS
<1>2. S = Submissions
  BY <1>1
<1>3. Cardinality(S) = N
  BY <1>2, SubmissionsFinite
<1>4. N < N
  BY <1>3
<1> QED
  BY <1>4, EnoughSubmissions

\* The current reviewer and what they were given are fewer than all of them.
LEMMA SelectedCount ==
    ASSUME SelectionTypeOK, InOrder, reviewer < N
    PROVE  /\ selected \subseteq Submissions
           /\ IsFiniteSet(selected)
           /\ Cardinality(selected) = slot + 1
           /\ Cardinality(selected) < N
<1>1. reviewer \in Submissions /\ Given(reviewer) \subseteq Submissions
  BY EnoughSubmissions DEF SelectionTypeOK, Submissions, Given, GivenIn
<1>2. IsFiniteSet(Given(reviewer))
  BY <1>1, SubmissionsFinite, FS_Subset
<1>3. selected = Given(reviewer) \cup {reviewer} /\ reviewer \notin Given(reviewer)
  BY DEF InOrder
<1>4. IsFiniteSet(selected) /\ Cardinality(selected) = Cardinality(Given(reviewer)) + 1
  BY <1>2, <1>3, FS_AddElement
<1>5. Cardinality(selected) = slot + 1
  BY <1>4 DEF InOrder
<1>6. slot + 1 < N
  BY EnoughSubmissions DEF SelectionTypeOK, Slots
<1> QED
  BY <1>1, <1>3, <1>4, <1>5, <1>6

\* What is drawn is a submission that this reviewer does not have yet.
LEMMA ChoiceIsNew ==
    ASSUME SelectionTypeOK, InOrder, reviewer < N
    PROVE  /\ Choices # {}
           /\ \A p \in Choices : p \in Submissions /\ p \notin selected
<1>1. Submissions \ selected # {}
  BY SelectedCount, SomeoneLeft
<1>2. pool[slot] \subseteq Submissions
  BY DEF SelectionTypeOK
<1> QED
  BY <1>1, <1>2 DEF Choices, Fallback, Excluded

\* The start: nobody is served and every pool is full.
LEMMA SelectionInit == Init => SelectionInv
<1> SUFFICES ASSUME Init PROVE SelectionInv
  OBVIOUS
<1>1. SelectionTypeOK
  BY EnoughSubmissions DEF Init, SelectionTypeOK, Slots, Submissions
<1>2. \A r : Given(r) = {}
  BY DEF Init, Given, GivenIn
<1>3. Cardinality({}) = 0
  BY FS_EmptySet
<1>4. InOrder
  BY <1>2, <1>3, EnoughSubmissions DEF Init, InOrder
<1>5. ReviewersServed
  BY DEF Init, ReviewersServed
<1>6. PoolsAccounted
  BY DEF Init, PoolsAccounted
<1> QED
  BY <1>1, <1>4, <1>5, <1>6 DEF SelectionInv

\* One slot of one reviewer.
LEMMA SelectionStep ==
    ASSUME SelectionInv, Select
    PROVE  SelectionInv'
<1> USE EnoughSubmissions
<1>0. SelectionTypeOK /\ InOrder /\ ReviewersServed /\ PoolsAccounted /\ reviewer < N
  BY DEF SelectionInv, Select
<1>1. PICK p \in Choices :
        /\ assigned' = assigned \cup {<<reviewer, slot, p>>}
        /\ pool' = [pool EXCEPT ![slot] = @ \ {p}]
        /\ \/ /\ slot + 1 < K
              /\ slot' = slot + 1 /\ reviewer' = reviewer
              /\ selected' = selected \cup {p}
           \/ /\ slot + 1 = K
              /\ slot' = 0 /\ reviewer' = reviewer + 1
              /\ selected' = {reviewer + 1}
  BY DEF Select, PoolWithout
<1>2. p \in Submissions /\ p \notin selected
  BY <1>0, ChoiceIsNew
<1>3. reviewer \in Submissions /\ slot \in Slots /\ reviewer \in 0 .. N - 1
  BY <1>0 DEF SelectionTypeOK, Submissions
<1>4. SelectionTypeOK'
  <2>1. assigned' \subseteq Submissions \X Slots \X Submissions
    BY <1>0, <1>1, <1>2, <1>3 DEF SelectionTypeOK
  <2>2. pool' \in [Slots -> SUBSET Submissions]
    BY <1>0, <1>1 DEF SelectionTypeOK
  <2>3. reviewer' \in 0 .. N /\ slot' \in Slots
    BY <1>0, <1>1, <1>3 DEF SelectionTypeOK, Slots
  <2>4. selected' \subseteq 0 .. N
    <3>1. p \in 0 .. N /\ reviewer + 1 \in 0 .. N
      BY <1>2, <1>3 DEF Submissions
    <3>2. selected \subseteq 0 .. N
      BY <1>0 DEF SelectionTypeOK
    <3> QED
      BY <1>1, <3>1, <3>2, Zenon
  <2> QED
    BY <2>1, <2>2, <2>3, <2>4 DEF SelectionTypeOK
<1>5. /\ GivenIn(assigned', reviewer) = Given(reviewer) \cup {p}
      /\ \A r : r # reviewer => GivenIn(assigned', r) = Given(r)
  BY <1>1, <1>2, <1>3 DEF Given, GivenIn
<1>6. /\ reviewer \notin Given(reviewer) /\ p \notin Given(reviewer) /\ p # reviewer
      /\ selected = {reviewer} \cup Given(reviewer)
      /\ Cardinality(Given(reviewer)) = slot
  BY <1>0, <1>2 DEF InOrder
<1>7. IsFiniteSet(Given(reviewer))
  <2>1. Given(reviewer) \subseteq Submissions
    BY DEF Given, GivenIn
  <2> QED
    BY <2>1, SubmissionsFinite, FS_Subset
<1>8. Cardinality(Given(reviewer) \cup {p}) = slot + 1
  BY <1>6, <1>7, FS_AddElement
<1>9. \A t \in assigned' :
        t[1] \in Int /\ t[2] \in Int
        /\ (t[1] < reviewer \/ (t[1] = reviewer /\ t[2] < slot + 1))
  BY <1>0, <1>1, <1>3 DEF InOrder, SelectionTypeOK, Submissions, Slots
<1>10. GivenIn(assigned', reviewer + 1) = {}
  <2>1. SUFFICES ASSUME NEW q \in Submissions, NEW s \in Slots,
                        <<reviewer + 1, s, q>> \in assigned'
                 PROVE  FALSE
    BY DEF GivenIn
  <2>2. reviewer + 1 < reviewer \/ reviewer + 1 = reviewer
    BY <1>9, <2>1
  <2> QED
    BY <2>2, <1>3
<1>11. InOrder'
  <2>1. CASE slot + 1 < K
    <3>1. reviewer' = reviewer /\ slot' = slot + 1 /\ selected' = selected \cup {p}
      BY <1>1, <2>1, <1>3 DEF Slots
    <3>2. Given(reviewer)' = Given(reviewer) \cup {p}
      BY <1>5, <3>1 DEF Given
    <3>3. \A t \in assigned' : t[1] < reviewer' \/ (t[1] = reviewer' /\ t[2] < slot')
      BY <1>9, <3>1
    <3>4. reviewer' # N
      BY <1>3, <3>1
    <3>5. /\ selected' = {reviewer'} \cup Given(reviewer)'
          /\ reviewer' \notin Given(reviewer)'
          /\ Cardinality(Given(reviewer)') = slot'
      BY <3>1, <3>2, <1>6, <1>8
    <3> QED
      BY <3>3, <3>4, <3>5 DEF InOrder
  <2>2. CASE slot + 1 = K
    <3>1. reviewer' = reviewer + 1 /\ slot' = 0 /\ selected' = {reviewer + 1}
      BY <1>1, <2>2, <1>3 DEF Slots
    <3>2. Given(reviewer)' = {}
      BY <1>10, <3>1 DEF Given
    <3>3. Cardinality({}) = 0
      BY FS_EmptySet
    <3>4. \A t \in assigned' : t[1] < reviewer' \/ (t[1] = reviewer' /\ t[2] < slot')
      BY <1>9, <3>1, <1>3
    <3> QED
      BY <3>1, <3>2, <3>3, <3>4 DEF InOrder
  <2> QED
    BY <1>1, <2>1, <2>2
<1>12. ReviewersServed'
  <2>1. SUFFICES ASSUME NEW r \in 0 .. reviewer' - 1
                 PROVE  /\ Cardinality(GivenIn(assigned', r)) = K
                        /\ r \notin GivenIn(assigned', r)
    BY DEF ReviewersServed, Given
  <2>2. CASE r = reviewer
    <3>1. slot + 1 = K
      BY <1>1, <1>3, <2>1, <2>2
    <3> QED
      BY <3>1, <2>2, <1>5, <1>6, <1>8
  <2>3. CASE r # reviewer
    <3>1. r \in 0 .. reviewer - 1
      BY <1>1, <1>3, <2>1, <2>3
    <3> QED
      BY <3>1, <2>3, <1>0, <1>5 DEF ReviewersServed
  <2> QED
    BY <2>2, <2>3
<1>13. PoolsAccounted'
  <2>1. SUFFICES ASSUME NEW q \in Submissions, NEW s \in Slots, q \notin pool'[s]
                 PROVE  \E r \in Submissions : <<r, s, q>> \in assigned'
    BY DEF PoolsAccounted
  <2>2. CASE q \notin pool[s]
    BY <1>0, <1>1, <2>2 DEF PoolsAccounted
  <2>3. CASE q \in pool[s]
    <3>1. s = slot /\ q = p
      BY <1>0, <1>1, <2>1, <2>3 DEF SelectionTypeOK
    <3> QED
      BY <3>1, <1>1, <1>3
  <2> QED
    BY <2>2, <2>3
<1> QED
  BY <1>4, <1>11, <1>12, <1>13 DEF SelectionInv

\* The inductive invariant holds throughout, for every N > K.
THEOREM SelectionInvariant == Spec => []SelectionInv
<1>1. SelectionInv /\ [Next]_vars => SelectionInv'
  <2> SUFFICES ASSUME SelectionInv, [Next]_vars PROVE SelectionInv'
    OBVIOUS
  <2>1. CASE Next
    BY <2>1, SelectionStep DEF Next
  <2>2. CASE UNCHANGED vars
    BY <2>2 DEF vars, SelectionInv, SelectionTypeOK, InOrder, ReviewersServed,
                PoolsAccounted, Given, GivenIn
  <2> QED
    BY <2>1, <2>2
<1> QED
  BY <1>1, SelectionInit, PTL DEF Spec

\* select_random_assignment never calls random.choice on an empty list.
THEOREM NeverOutOfChoices == Spec => []ChoicesRemain
<1>1. SelectionInv => ChoicesRemain
  BY ChoiceIsNew DEF SelectionInv, ChoicesRemain
<1> QED
  BY <1>1, SelectionInvariant, PTL

\* Every reviewer who has been served reviews K different submissions of others.
THEOREM EveryReviewerServed == Spec => []ReviewersServed
<1>1. SelectionInv => ReviewersServed
  BY DEF SelectionInv
<1> QED
  BY <1>1, SelectionInvariant, PTL

\* A submission misses a review of a slot only while that slot's pool holds it.
THEOREM PoolsAccountedFor == Spec => []PoolsAccounted
<1>1. SelectionInv => PoolsAccounted
  BY DEF SelectionInv
<1> QED
  BY <1>1, SelectionInvariant, PTL
=============================================================================
