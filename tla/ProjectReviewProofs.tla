------------------------ MODULE ProjectReviewProofs ------------------------
(***************************************************************************)
(* Proofs about ProjectReview, for any learners, requests, calls, number   *)
(* of reviews and vote budget.  What carries the argument is the lock of   *)
(* the project row (Exclusive): what scoring and a vote have read under it *)
(* still holds when they write (UnderLock).  Assignments and PATCHes do    *)
(* not take the lock and may write an old project over a new one; but they *)
(* cannot do so between the reads and the writes of a scoring, and once a  *)
(* project has left "CO" its scores are not out any more (OutWhileDone).   *)
(***************************************************************************)
EXTENDS ProjectReview, FiniteSetTheorems, TLAPS

Doing == {"idle", "begun", "picked", "locked", "read", "counted"}
Locking == {"locked", "read", "counted"}

\* At most one request holds the project row.
Exclusive ==
    \A r, s \in Requests : pc[r] \in Locking /\ pc[s] \in Locking => r = s

\* Only a vote counts votes.
Serving == \A r \in Requests : pc[r] = "counted" => call[r].kind = "vote"

\* The reviews t that scoring has read, against the table u: the mandatory ones
\* are as they were, and every submitted one was submitted already.
StillRead(t, u) ==
    /\ \A x \in Mandatory : t[x] = u[x]
    /\ Submitted(u) \subseteq Submitted(t)

\* What was read under the lock still holds.
UnderLock ==
    \A r \in Requests :
        /\ pc[r] = "read" => StillRead(seen[r], review)
        /\ pc[r] = "counted" => Cardinality(VotesOf(call[r].who)) < Budget

\* Scores are out only while the project is completed.
OutWhileDone == basis # NoReviews => project.state = "CO"

\* The inductive invariant.
ProjectInv ==
    /\ ProjectTypeOK
    /\ picked \in [Requests -> SUBSET Mandatory]
    /\ IsFiniteSet(votes)
    /\ Exclusive /\ Serving /\ UnderLock /\ OutWhileDone
    /\ GradesMatchReviews /\ SubmittedIsCounted /\ VoteBudgetHeld

\* Its parts about the tables alone.
TablesInv ==
    /\ IsFiniteSet(votes) /\ OutWhileDone
    /\ GradesMatchReviews /\ SubmittedIsCounted /\ VoteBudgetHeld

---------------------------------------------------------------------------
\* A vote names a learner and a submission.
LEMMA CallKinds ==
  ASSUME NEW c \in AllCalls \cup {NoCall}, c.kind = "vote"
  PROVE  c.who \in Learners /\ c.target \in Authors
  BY DEF AllCalls, NoCall

\* A learner's votes are some of all votes.
LEMMA VotesFinite ==
  ASSUME IsFiniteSet(votes), NEW l
  PROVE  IsFiniteSet(VotesOf(l)) /\ Cardinality(VotesOf(l)) \in Nat
  BY FS_Subset, FS_CardinalityType DEF VotesOf

\* Only the mandatory part of the table decides who reviewed enough.
LEMMA DoneBySame ==
  ASSUME NEW t, NEW u, \A x \in Mandatory : t[x] = u[x], NEW l
  PROVE  DoneBy(t, l) = DoneBy(u, l)
  BY DEF DoneBy

\* Nobody is to be reviewed in an empty table.
LEMMA NothingReviewed == NoReviews \in Tables /\ Reviewed(NoReviews) = {}
  BY DEF NoReviews, Tables, Reviewed

\* With no scores out there is nothing for the tables to agree with.
LEMMA NothingOut ==
  ASSUME basis = NoReviews
  PROVE  OutWhileDone /\ GradesMatchReviews /\ SubmittedIsCounted
  BY NothingReviewed DEF OutWhileDone, GradesMatchReviews, SubmittedIsCounted

\* What the tables promise depends on the tables only.
LEMMA TablesSame ==
  ASSUME TablesInv, UNCHANGED <<project, review, votes, enough, basis>>
  PROVE  TablesInv'
  <1>1. GradesMatchReviews'
    BY DEF TablesInv, GradesMatchReviews, Reviewed, DoneBy
  <1>2. SubmittedIsCounted'
    BY DEF TablesInv, SubmittedIsCounted, Submitted
  <1>3. VoteBudgetHeld' /\ IsFiniteSet(votes') /\ OutWhileDone'
    BY DEF TablesInv, VoteBudgetHeld, VotesOf, OutWhileDone
  <1> QED
    BY <1>1, <1>2, <1>3 DEF TablesInv

\* Nothing has happened yet.
LEMMA ProjectInit == Init => ProjectInv
  <1> SUFFICES ASSUME Init PROVE ProjectInv
    OBVIOUS
  <1>1. NewProject \in ProjectRows
    BY DEF NewProject, ProjectRows, States
  <1>2. ProjectTypeOK /\ picked \in [Requests -> SUBSET Mandatory]
    BY <1>1, NothingReviewed DEF Init, ProjectTypeOK, Learners
  <1>3. IsFiniteSet(votes) /\ Cardinality({}) = 0
    BY FS_EmptySet DEF Init
  <1>4. \A l : VotesOf(l) = {}
    BY DEF Init, VotesOf
  <1>5. VoteBudgetHeld
    BY <1>3, <1>4, ProjectArguments DEF VoteBudgetHeld
  <1>6. Exclusive /\ Serving /\ UnderLock
    BY DEF Init, Exclusive, Serving, UnderLock, Locking
  <1>7. OutWhileDone /\ GradesMatchReviews /\ SubmittedIsCounted
    BY NothingOut DEF Init
  <1> QED
    BY <1>2, <1>3, <1>5, <1>6, <1>7 DEF ProjectInv

\* A request that answers gives up the lock and what it held.
LEMMA AnswerTypes ==
  ASSUME ProjectInv, NEW r \in Requests, Answer(r)
  PROVE  /\ pc' = [pc EXCEPT ![r] = "idle"] /\ pc' \in [Requests -> Doing]
         /\ call' = [call EXCEPT ![r] = NoCall] /\ call' \in [Requests -> AllCalls \cup {NoCall}]
         /\ held' \in [Requests -> ProjectRows]
         /\ picked' = [picked EXCEPT ![r] = {}] /\ picked' \in [Requests -> SUBSET Mandatory]
         /\ seen' = [seen EXCEPT ![r] = NoReviews] /\ seen' \in [Requests -> Tables]
         /\ now' = now /\ now \in Nat
         /\ \A s \in Requests : picked'[s] \subseteq {x \in Mandatory : x.reviewer # x.target}
         /\ Exclusive' /\ Serving'
         /\ pc[r] \in Locking => \A s \in Requests : pc'[s] \notin Locking
  <1>1. NoReviews \in Tables /\ NewProject \in ProjectRows
    BY NothingReviewed DEF NewProject, ProjectRows, States
  <1>2. /\ pc \in [Requests -> Doing]
        /\ call \in [Requests -> AllCalls \cup {NoCall}] /\ seen \in [Requests -> Tables]
        /\ held \in [Requests -> ProjectRows] /\ now \in Nat
        /\ picked \in [Requests -> SUBSET Mandatory] /\ Exclusive /\ Serving
        /\ \A s \in Requests : picked[s] \subseteq {x \in Mandatory : x.reviewer # x.target}
    BY DEF ProjectInv, ProjectTypeOK, Doing
  <1>3. /\ pc' = [pc EXCEPT ![r] = "idle"] /\ call' = [call EXCEPT ![r] = NoCall]
        /\ held' = [held EXCEPT ![r] = NewProject] /\ now' = now
        /\ picked' = [picked EXCEPT ![r] = {}] /\ seen' = [seen EXCEPT ![r] = NoReviews]
    BY DEF Answer, Goto
  <1>4. Exclusive' /\ Serving'
    BY <1>2, <1>3 DEF Exclusive, Serving, Locking
  <1>5. pc[r] \in Locking => \A s \in Requests : pc'[s] \notin Locking
    BY <1>2, <1>3 DEF Exclusive, Locking
  <1> QED
    BY <1>1, <1>2, <1>3, <1>4, <1>5 DEF Doing

\* A request that answers keeps the invariant when what it writes is of its
\* type, nobody else has read under the lock what it changes, and the tables
\* still agree.
LEMMA AnswerKeeps ==
  ASSUME ProjectInv, NEW r \in Requests, Answer(r), TablesInv',
         project' \in ProjectRows, entered' \subseteq Learners, review' \in Tables,
         votes' \subseteq Learners \X Authors, enough' \subseteq Learners, basis' \in Tables,
         \/ UNCHANGED <<review, votes>>
         \/ \A s \in Requests : pc'[s] \notin Locking
  PROVE  ProjectInv'
  <1>1. ProjectTypeOK' /\ picked' \in [Requests -> SUBSET Mandatory] /\ Exclusive' /\ Serving'
    BY AnswerTypes DEF ProjectTypeOK, Doing
  <1>2. UnderLock'
    <2>1. CASE \A s \in Requests : pc'[s] \notin Locking
      BY <2>1 DEF UnderLock, Locking
    <2>2. CASE UNCHANGED <<review, votes>>
      <3>1. \A s \in Requests : pc'[s] \in Locking =>
              pc'[s] = pc[s] /\ call'[s] = call[s] /\ seen'[s] = seen[s]
        BY AnswerTypes DEF ProjectInv, ProjectTypeOK, Locking
      <3>2. \A l : VotesOf(l)' = VotesOf(l)
        BY <2>2 DEF VotesOf
      <3> QED
        BY <2>2, <3>1, <3>2 DEF ProjectInv, UnderLock, Locking
    <2> QED
      BY <2>1, <2>2
  <1> QED
    BY <1>1, <1>2 DEF ProjectInv, TablesInv

\* A request that answers and has changed nothing (a refusal, a crash).
LEMMA QuietKeeps ==
  ASSUME ProjectInv, NEW r \in Requests, Answer(r), UNCHANGED <<tables, basis>>
  PROVE  ProjectInv'
  <1>1. UNCHANGED <<project, entered, review, votes, enough, basis>>
    BY DEF tables
  <1>2. TablesInv'
    BY <1>1, TablesSame DEF ProjectInv, TablesInv
  <1> QED
    BY <1>1, <1>2, AnswerKeeps DEF ProjectInv, ProjectTypeOK

\* A request that goes on to a step outside the lock, or to one under it when
\* nobody has it, and has changed no table.
LEMMA GoOnKeeps ==
  ASSUME ProjectInv, NEW r \in Requests, NEW step \in Doing \ {"read", "counted"},
         UNCHANGED <<tables, now, basis, seen>>,
         pc' = [pc EXCEPT ![r] = step], pc[r] \in {"idle", "begun"},
         step = "locked" => \A s \in Requests : pc[s] \notin Locking,
         call' \in [Requests -> AllCalls \cup {NoCall}],
         \A s \in Requests \ {r} : call'[s] = call[s],
         held' \in [Requests -> ProjectRows],
         picked' \in [Requests -> SUBSET Mandatory],
         \A s \in Requests : picked'[s] \subseteq {x \in Mandatory : x.reviewer # x.target}
  PROVE  ProjectInv'
  <1>1. UNCHANGED <<project, entered, review, votes, enough, basis>>
    BY DEF tables
  <1>2. TablesInv'
    BY <1>1, TablesSame DEF ProjectInv, TablesInv
  <1>3. pc \in [Requests -> Doing] /\ Exclusive /\ Serving /\ UnderLock
    BY DEF ProjectInv, ProjectTypeOK, Doing
  <1>4. ProjectTypeOK'
    BY <1>1, <1>3 DEF ProjectInv, ProjectTypeOK, Doing
  <1>5. Exclusive' /\ Serving'
    BY <1>3 DEF Exclusive, Serving, Locking, Doing
  <1>6. UnderLock'
    <2>1. \A s \in Requests : pc'[s] \in {"read", "counted"} =>
            s # r /\ pc'[s] = pc[s] /\ call'[s] = call[s] /\ seen'[s] = seen[s]
      BY <1>3
    <2>2. \A l : VotesOf(l)' = VotesOf(l)
      BY <1>1 DEF VotesOf
    <2> QED
      BY <1>1, <1>3, <2>1, <2>2 DEF UnderLock
  <1> QED
    BY <1>2, <1>4, <1>5, <1>6 DEF ProjectInv, TablesInv

\* A view reads what it is asked about.
LEMMA BeginKeeps ==
  ASSUME ProjectInv, NEW r \in Requests, NEW c \in Calls, Begin(r, c)
  PROVE  ProjectInv'
  <1>1. /\ call \in [Requests -> AllCalls \cup {NoCall}] /\ project \in ProjectRows
        /\ held \in [Requests -> ProjectRows] /\ c \in AllCalls
        /\ picked \in [Requests -> SUBSET Mandatory]
        /\ \A s \in Requests : picked[s] \subseteq {x \in Mandatory : x.reviewer # x.target}
    BY ProjectCalls DEF ProjectInv, ProjectTypeOK
  <1>2. /\ UNCHANGED <<tables, now, basis, seen>> /\ picked' = picked
        /\ pc[r] = "idle" /\ pc' = [pc EXCEPT ![r] = "begun"]
        /\ call' = [call EXCEPT ![r] = c]
        /\ held' = [held EXCEPT ![r] = IF c.kind = "patch" THEN project ELSE @]
    BY DEF Begin, Goto
  <1>3. /\ call' \in [Requests -> AllCalls \cup {NoCall}] /\ held' \in [Requests -> ProjectRows]
        /\ \A s \in Requests \ {r} : call'[s] = call[s]
    BY <1>1, <1>2
  <1>4. "begun" \in Doing \ {"read", "counted"} /\ "begun" # "locked"
    BY DEF Doing
  <1> QED
    BY <1>1, <1>2, <1>3, <1>4, GoOnKeeps

\* select_for_update admits one request at a time.
LEMMA LockKeeps ==
  ASSUME ProjectInv, NEW r \in Requests, Lock(r)
  PROVE  ProjectInv'
  <1>1. /\ UNCHANGED <<tables, now, basis, seen>> /\ UNCHANGED <<call, held, picked>>
        /\ pc[r] = "begun" /\ pc' = [pc EXCEPT ![r] = "locked"]
        /\ \A s \in Requests : pc[s] \notin Locking
    BY DEF Lock, At, Goto, LockFree, Locking
  <1>2. /\ call \in [Requests -> AllCalls \cup {NoCall}] /\ held \in [Requests -> ProjectRows]
        /\ picked \in [Requests -> SUBSET Mandatory]
        /\ \A s \in Requests : picked[s] \subseteq {x \in Mandatory : x.reviewer # x.target}
    BY DEF ProjectInv, ProjectTypeOK
  <1>3. "locked" \in Doing \ {"read", "counted"}
    BY DEF Doing
  <1> QED
    BY <1>1, <1>2, <1>3, GoOnKeeps

\* An assignment has chosen its reviews, nobody's own, or finds too few
\* submissions.
LEMMA AssignSelectKeeps ==
  ASSUME ProjectInv, NEW r \in Requests, AssignSelect(r)
  PROVE  ProjectInv'
  <1>1. CASE Answer(r)
    BY <1>1, QuietKeeps DEF AssignSelect
  <1>2. CASE ~Answer(r)
    <2>1. PICK s \in Selections(r) : picked' = [picked EXCEPT ![r] = s]
      BY <1>2 DEF AssignSelect
    <2>2. /\ UNCHANGED <<tables, now, basis, seen>> /\ UNCHANGED <<call, held>>
          /\ pc[r] = "begun" /\ pc' = [pc EXCEPT ![r] = "picked"]
      BY <1>2 DEF AssignSelect, At, Goto
    <2>3. s \subseteq {x \in Mandatory : x.reviewer # x.target}
      BY DEF Selections, Peers
    <2>4. /\ call \in [Requests -> AllCalls \cup {NoCall}] /\ held \in [Requests -> ProjectRows]
          /\ picked \in [Requests -> SUBSET Mandatory]
          /\ \A q \in Requests : picked[q] \subseteq {x \in Mandatory : x.reviewer # x.target}
      BY DEF ProjectInv, ProjectTypeOK
    <2>5. picked' \in [Requests -> SUBSET Mandatory]
      BY <2>1, <2>3, <2>4
    <2>6. \A q \in Requests : picked'[q] \subseteq {x \in Mandatory : x.reviewer # x.target}
      BY <2>1, <2>3, <2>4
    <2>7. "picked" \in Doing \ {"read", "counted"} /\ "picked" # "locked"
      BY DEF Doing
    <2> QED
      BY <2>2, <2>4, <2>5, <2>6, <2>7, GoOnKeeps
  <1> QED
    BY <1>1, <1>2

\* The assignment opens the window: no scores are out afterwards, and it waits
\* for a scoring that holds the project.
LEMMA AssignSaveKeeps ==
  ASSUME ProjectInv, NEW r \in Requests, AssignSave(r)
  PROVE  ProjectInv'
  <1>1. /\ UNCHANGED <<entered, votes, enough>> /\ Answer(r) /\ basis' = NoReviews
        /\ project' = [state |-> "PR", due |-> now + Window]
        /\ review' = [x \in Reviews |-> IF x \in picked[r] THEN "to_review" ELSE review[x]]
        /\ \A s \in Requests : pc[s] \notin Locking
    BY DEF AssignSave, LockFree, Locking
  <1>2. review \in Tables /\ now \in Nat /\ pc \in [Requests -> Doing]
    BY DEF ProjectInv, ProjectTypeOK, Doing
  <1>3. project' \in ProjectRows /\ review' \in Tables
    BY <1>1, <1>2, ProjectArguments DEF ProjectRows, States, Tables
  <1>4. \A s \in Requests : pc'[s] \notin Locking
    BY <1>1, <1>2, AnswerTypes DEF Locking
  <1>5. OutWhileDone' /\ GradesMatchReviews' /\ SubmittedIsCounted'
    BY <1>1, NothingReviewed DEF OutWhileDone, GradesMatchReviews, SubmittedIsCounted
  <1>6. TablesInv'
    BY <1>1, <1>5 DEF ProjectInv, TablesInv, VoteBudgetHeld, VotesOf
  <1> QED
    BY <1>1, <1>3, <1>4, <1>6, NothingReviewed, AnswerKeeps DEF ProjectInv, ProjectTypeOK

\* A PATCH may write any state, an old one too: the scores are out afterwards
\* only if they were and the project is completed still.
LEMMA PatchSaveKeeps ==
  ASSUME ProjectInv, NEW r \in Requests, PatchSave(r)
  PROVE  ProjectInv'
  <1>1. /\ UNCHANGED <<entered, review, votes, enough>> /\ Answer(r)
        /\ project' = PatchedRow(r) /\ call[r].kind = "patch"
        /\ basis' = IF project'.state = "CO" THEN basis ELSE NoReviews
    BY DEF PatchSave, At
  <1>2. /\ call[r] \in AllCalls \cup {NoCall} /\ held[r] \in ProjectRows /\ now \in Nat
        /\ basis \in Tables
    BY DEF ProjectInv, ProjectTypeOK
  <1>3. call[r].state \in States \cup {"keep"} /\ call[r].due \in {"past", "future", "keep"}
    BY <1>1, <1>2 DEF AllCalls, NoCall
  <1>4. project' \in ProjectRows
    <2>1. PatchedRow(r).state \in States
      BY <1>2, <1>3 DEF PatchedRow, ProjectRows
    <2>2. PatchedRow(r).due \in Nat
      BY <1>2, <1>3 DEF PatchedRow, ProjectRows
    <2> QED
      BY <1>1, <2>1, <2>2 DEF PatchedRow, ProjectRows
  <1>5. OutWhileDone'
    BY <1>1 DEF OutWhileDone
  <1>6. CASE project'.state = "CO"
    <2>1. GradesMatchReviews'
      BY <1>1, <1>6 DEF ProjectInv, GradesMatchReviews, Reviewed, DoneBy
    <2>2. SubmittedIsCounted'
      BY <1>1, <1>6 DEF ProjectInv, SubmittedIsCounted, Submitted
    <2>3. TablesInv'
      BY <1>1, <1>5, <2>1, <2>2 DEF ProjectInv, TablesInv, VoteBudgetHeld, VotesOf
    <2> QED
      BY <1>1, <1>2, <1>4, <1>6, <2>3, AnswerKeeps DEF ProjectInv, ProjectTypeOK
  <1>7. CASE project'.state # "CO"
    <2>1. GradesMatchReviews' /\ SubmittedIsCounted'
      BY <1>1, <1>7, NothingReviewed DEF GradesMatchReviews, SubmittedIsCounted
    <2>2. TablesInv'
      BY <1>1, <1>5, <2>1 DEF ProjectInv, TablesInv, VoteBudgetHeld, VotesOf
    <2> QED
      BY <1>1, <1>4, <1>7, <2>2, NothingReviewed, AnswerKeeps DEF ProjectInv, ProjectTypeOK
  <1> QED
    BY <1>6, <1>7

\* Adding or deleting an optional review leaves every mandatory one alone and
\* submits none, so scoring that is under way, or over, is not disturbed.
LEMMA OptionalKeeps ==
  ASSUME ProjectInv, NEW c \in Calls,
         (c.kind = "add" /\ AddOptional(c)) \/ (c.kind = "delete" /\ DeleteOptional(c))
  PROVE  ProjectInv'
  <1>1. c \in AllCalls
    BY ProjectCalls
  <1>2. PICK x \in Reviews, how \in {"absent", "to_review"} :
          x \notin Mandatory /\ review' = [review EXCEPT ![x] = how]
    <2>1. CASE c.kind = "add" /\ AddOptional(c)
      <3>1. c.who \in Learners /\ c.target \in Learners
        BY <1>1, <2>1 DEF AllCalls, Learners
      <3>2. [reviewer |-> c.who, target |-> c.target, by |-> "optional"] \in Reviews \ Mandatory
        BY <3>1 DEF Reviews, Mandatory
      <3> QED
        BY <2>1, <3>2 DEF AddOptional
    <2>2. CASE c.kind = "delete" /\ DeleteOptional(c)
      <3>1. c.review \in Reviews
        BY <1>1, <2>2 DEF AllCalls
      <3>2. c.review \notin Mandatory
        BY <2>2 DEF DeleteOptional, Mandatory
      <3> QED
        BY <2>2, <3>1, <3>2 DEF DeleteOptional
    <2> QED
      BY <2>1, <2>2
  <1>3. /\ UNCHANGED <<project, now, votes, enough, basis, pc, call, held, picked, seen>>
        /\ entered' \subseteq Learners /\ review \in [Reviews -> {"absent", "to_review", "submitted"}]
    BY <1>1 DEF AddOptional, DeleteOptional, ProjectInv, ProjectTypeOK, AllCalls, Tables
  <1>4. /\ review' \in Tables
        /\ \A y \in Mandatory : review'[y] = review[y]
        /\ Submitted(review') \subseteq Submitted(review)
    BY <1>2, <1>3 DEF Tables, Mandatory, Submitted
  <1>5. ProjectTypeOK'
    BY <1>3, <1>4 DEF ProjectInv, ProjectTypeOK
  <1>6. Exclusive' /\ Serving' /\ OutWhileDone' /\ VoteBudgetHeld' /\ IsFiniteSet(votes')
    BY <1>3 DEF ProjectInv, Exclusive, Serving, OutWhileDone, VoteBudgetHeld, VotesOf
  <1>7. UnderLock'
    <2>1. \A r \in Requests : pc[r] = "read" =>
            StillRead(seen[r], review')
      BY <1>4 DEF ProjectInv, UnderLock, StillRead
    <2> QED
      BY <1>3, <2>1 DEF ProjectInv, UnderLock, VotesOf
  <1>8. GradesMatchReviews'
    <2>1. \A l : DoneBy(review', l) = DoneBy(review, l)
      BY <1>4, DoneBySame
    <2> QED
      BY <1>3, <2>1 DEF ProjectInv, GradesMatchReviews
  <1>9. SubmittedIsCounted'
    BY <1>3, <1>4 DEF ProjectInv, SubmittedIsCounted
  <1> QED
    BY <1>3, <1>5, <1>6, <1>7, <1>8, <1>9 DEF ProjectInv

\* A form writes only while reviews are open: then no scores are out, and it is
\* the form that has the lock.
LEMMA SubmitReviewKeeps ==
  ASSUME ProjectInv, NEW r \in Requests, SubmitReview(r)
  PROVE  ProjectInv'
  <1>1. /\ UNCHANGED <<project, entered, votes, enough, basis>> /\ Answer(r)
        /\ pc[r] \in Locking
        /\ review' = IF FormOpen THEN [review EXCEPT ![call[r].review] = "submitted"] ELSE review
    BY DEF SubmitReview, At, Locking
  <1>2. CASE ~FormOpen
    BY <1>1, <1>2, QuietKeeps DEF tables
  <1>3. CASE FormOpen
    <2>1. basis = NoReviews
      BY <1>3 DEF ProjectInv, OutWhileDone, FormOpen
    <2>2. review' \in Tables
      BY <1>1, <1>3 DEF ProjectInv, ProjectTypeOK, Tables
    <2>3. \A s \in Requests : pc'[s] \notin Locking
      BY <1>1, AnswerTypes
    <2>4. OutWhileDone' /\ GradesMatchReviews' /\ SubmittedIsCounted'
      BY <1>1, <2>1, NothingReviewed DEF OutWhileDone, GradesMatchReviews, SubmittedIsCounted
    <2>5. TablesInv'
      BY <1>1, <2>4 DEF ProjectInv, TablesInv, VoteBudgetHeld, VotesOf
    <2> QED
      BY <1>1, <2>2, <2>3, <2>5, AnswerKeeps DEF ProjectInv, ProjectTypeOK
  <1> QED
    BY <1>2, <1>3

\* Scoring reads the table under the lock, or refuses.
LEMMA ScoreReadKeeps ==
  ASSUME ProjectInv, NEW r \in Requests, ScoreRead(r)
  PROVE  ProjectInv'
  <1>1. CASE Answer(r)
    BY <1>1, QuietKeeps DEF ScoreRead
  <1>2. CASE ~Answer(r)
    <2>1. /\ UNCHANGED <<project, entered, review, votes, enough, basis, now, call, held, picked>>
          /\ pc[r] = "locked"
          /\ pc' = [pc EXCEPT ![r] = "read"] /\ seen' = [seen EXCEPT ![r] = review]
      BY <1>2 DEF ScoreRead, Goto, At, tables
    <2>2. pc \in [Requests -> Doing] /\ seen \in [Requests -> Tables] /\ review \in Tables
      BY DEF ProjectInv, ProjectTypeOK, Doing
    <2>3. ProjectTypeOK'
      BY <2>1, <2>2 DEF ProjectInv, ProjectTypeOK, Doing
    <2>4. Exclusive' /\ Serving'
      BY <2>1, <2>2 DEF ProjectInv, Exclusive, Serving, Locking
    <2>5. UnderLock'
      BY <2>1, <2>2 DEF ProjectInv, UnderLock, StillRead, Submitted, VotesOf
    <2>6. TablesInv'
      BY <2>1, TablesSame DEF ProjectInv, TablesInv
    <2> QED
      BY <2>1, <2>3, <2>4, <2>5, <2>6 DEF ProjectInv, TablesInv
  <1> QED
    BY <1>1, <1>2

\* The scores that are written are those of the reviews as they still are.
LEMMA ScoreSaveKeeps ==
  ASSUME ProjectInv, NEW r \in Requests, ScoreSave(r)
  PROVE  ProjectInv'
  <1>1. /\ UNCHANGED <<entered, review, votes>> /\ Answer(r) /\ pc[r] = "read"
        /\ project' = [project EXCEPT !.state = "CO"] /\ basis' = seen[r]
        /\ enough' = (enough \ Reviewed(seen[r])) \cup EnoughIn(seen[r])
    BY DEF ScoreSave
  <1>2. /\ project \in ProjectRows /\ seen[r] \in Tables /\ enough \subseteq Learners
        /\ StillRead(seen[r], review)
    BY <1>1 DEF ProjectInv, ProjectTypeOK, UnderLock
  <1>3. project' \in ProjectRows /\ project'.state = "CO"
    BY <1>1, <1>2 DEF ProjectRows, States
  <1>4. enough' \subseteq Learners
    BY <1>1, <1>2 DEF EnoughIn, Reviewed, Reviews
  <1>5. GradesMatchReviews'
    <2>1. \A l : DoneBy(seen[r], l) = DoneBy(review, l)
      BY <1>2, DoneBySame DEF StillRead
    <2>2. \A l \in Reviewed(seen[r]) :
            l \in enough' <=> Cardinality(DoneBy(seen[r], l)) >= Required
      BY <1>1 DEF EnoughIn
    <2> QED
      BY <1>1, <2>1, <2>2 DEF GradesMatchReviews
  <1>6. SubmittedIsCounted'
    BY <1>1, <1>2 DEF SubmittedIsCounted, StillRead
  <1>7. TablesInv'
    BY <1>1, <1>3, <1>5, <1>6
       DEF ProjectInv, TablesInv, OutWhileDone, VoteBudgetHeld, VotesOf
  <1> QED
    BY <1>1, <1>2, <1>3, <1>4, <1>7, AnswerKeeps DEF ProjectInv, ProjectTypeOK

\* A vote is counted under the lock, or refused.
LEMMA VoteCountKeeps ==
  ASSUME ProjectInv, NEW r \in Requests, VoteCount(r)
  PROVE  ProjectInv'
  <1>1. CASE Answer(r)
    BY <1>1, QuietKeeps DEF VoteCount
  <1>2. CASE ~Answer(r)
    <2>1. /\ UNCHANGED <<project, entered, review, votes, enough, basis, now,
                         call, held, picked, seen>>
          /\ ~(Cardinality(VotesOf(call[r].who)) >= Budget)
          /\ pc[r] = "locked" /\ call[r].kind = "vote" /\ pc' = [pc EXCEPT ![r] = "counted"]
      BY <1>2 DEF VoteCount, Goto, At, tables
    <2>2. pc \in [Requests -> Doing] /\ Cardinality(VotesOf(call[r].who)) < Budget
      BY <2>1, VotesFinite, ProjectArguments DEF ProjectInv, ProjectTypeOK, Doing
    <2>3. ProjectTypeOK'
      BY <2>1, <2>2 DEF ProjectInv, ProjectTypeOK, Doing
    <2>4. Exclusive' /\ Serving'
      BY <2>1, <2>2 DEF ProjectInv, Exclusive, Serving, Locking
    <2>5. UnderLock'
      BY <2>1, <2>2 DEF ProjectInv, UnderLock, StillRead, Submitted, VotesOf
    <2>6. TablesInv'
      BY <2>1, TablesSame DEF ProjectInv, TablesInv
    <2> QED
      BY <2>1, <2>3, <2>4, <2>5, <2>6 DEF ProjectInv, TablesInv
  <1> QED
    BY <1>1, <1>2

\* A request that changes the votes only, and keeps them within the budget.
LEMMA VotesKeep ==
  ASSUME ProjectInv, NEW r \in Requests, Answer(r), pc[r] \in Locking,
         UNCHANGED <<project, entered, review, enough, basis>>,
         votes' \subseteq Learners \X Authors, IsFiniteSet(votes'), VoteBudgetHeld'
  PROVE  ProjectInv'
  <1>1. \A s \in Requests : pc'[s] \notin Locking
    BY AnswerTypes
  <1>2. GradesMatchReviews'
    BY DEF ProjectInv, GradesMatchReviews, Reviewed, DoneBy
  <1>3. SubmittedIsCounted' /\ OutWhileDone'
    BY DEF ProjectInv, SubmittedIsCounted, Submitted, OutWhileDone
  <1>4. TablesInv'
    BY <1>2, <1>3 DEF TablesInv
  <1> QED
    BY <1>1, <1>4, AnswerKeeps DEF ProjectInv, ProjectTypeOK

\* The count is still that of the table when the vote is inserted.
LEMMA VoteInsertKeeps ==
  ASSUME ProjectInv, NEW r \in Requests, VoteInsert(r)
  PROVE  ProjectInv'
  <1> DEFINE w == call[r].who
             v == <<call[r].who, call[r].target>>
  <1>1. /\ UNCHANGED <<project, entered, review, enough, basis>> /\ Answer(r)
        /\ pc[r] = "counted" /\ votes' = votes \cup {v}
    BY DEF VoteInsert
  <1>2. /\ call \in [Requests -> AllCalls \cup {NoCall}] /\ votes \subseteq Learners \X Authors
        /\ IsFiniteSet(votes) /\ VoteBudgetHeld
        /\ call[r].kind = "vote" /\ Cardinality(VotesOf(w)) < Budget
    BY <1>1 DEF ProjectInv, ProjectTypeOK, Serving, UnderLock
  <1>3. w \in Learners /\ call[r].target \in Authors
    BY <1>2, CallKinds
  <1>4. votes' \subseteq Learners \X Authors /\ IsFiniteSet(votes')
    <2>1. v \in Learners \X Authors
      BY <1>3
    <2>2. IsFiniteSet(votes \cup {v})
      BY <1>2, FS_AddElement
    <2> HIDE DEF v
    <2> QED
      BY <1>1, <1>2, <2>1, <2>2
  <1>5. VoteBudgetHeld'
    <2> SUFFICES ASSUME NEW l \in Learners PROVE Cardinality(VotesOf(l)') <= Budget
      BY DEF VoteBudgetHeld, VotesOf
    <2>1. CASE l = w
      <3>1. VotesOf(l)' = VotesOf(w) \cup {v}
        BY <1>1, <2>1 DEF VotesOf
      <3>2. IsFiniteSet(VotesOf(w)) /\ Cardinality(VotesOf(w)) \in Nat
        BY <1>2, VotesFinite
      <3>3. \/ Cardinality(VotesOf(w) \cup {v}) = Cardinality(VotesOf(w))
            \/ Cardinality(VotesOf(w) \cup {v}) = Cardinality(VotesOf(w)) + 1
        BY <3>2, FS_AddElement
      <3> HIDE DEF w, v
      <3> QED
        BY <1>2, <3>1, <3>2, <3>3, ProjectArguments
    <2>2. CASE l # w
      <3>1. VotesOf(l)' = VotesOf(l)
        BY <1>1, <2>2 DEF VotesOf
      <3> QED
        BY <1>2, <3>1 DEF VoteBudgetHeld
    <2> QED
      BY <2>1, <2>2
  <1> QED
    BY <1>1, <1>4, <1>5, VotesKeep DEF Locking

\* Taking a vote back leaves fewer.
LEMMA VoteRemoveKeeps ==
  ASSUME ProjectInv, NEW r \in Requests, VoteRemove(r)
  PROVE  ProjectInv'
  <1>1. /\ UNCHANGED <<project, entered, review, enough, basis>> /\ Answer(r)
        /\ pc[r] = "locked" /\ votes' \subseteq votes
    BY DEF VoteRemove, At
  <1>2. votes \subseteq Learners \X Authors /\ IsFiniteSet(votes) /\ VoteBudgetHeld
    BY DEF ProjectInv, ProjectTypeOK
  <1>3. votes' \subseteq Learners \X Authors /\ IsFiniteSet(votes')
    BY <1>1, <1>2, FS_Subset
  <1>4. VoteBudgetHeld'
    <2> SUFFICES ASSUME NEW l \in Learners PROVE Cardinality(VotesOf(l)') <= Budget
      BY DEF VoteBudgetHeld, VotesOf
    <2>1. VotesOf(l)' \subseteq VotesOf(l)
      BY <1>1 DEF VotesOf
    <2>2. IsFiniteSet(VotesOf(l)) /\ Cardinality(VotesOf(l)) \in Nat
      BY <1>2, VotesFinite
    <2>3. Cardinality(VotesOf(l)') <= Cardinality(VotesOf(l)) /\ Cardinality(VotesOf(l)') \in Nat
      BY <2>1, <2>2, FS_Subset, FS_CardinalityType
    <2>4. Cardinality(VotesOf(l)) <= Budget
      BY <1>2 DEF VoteBudgetHeld
    <2> QED
      BY <2>2, <2>3, <2>4, ProjectArguments
  <1> QED
    BY <1>1, <1>3, <1>4, VotesKeep DEF Locking

\* The passing of time, and a step that changes nothing at all.
LEMMA ElseKeeps ==
  ASSUME ProjectInv, now' \in Nat, UNCHANGED <<tables, basis, pc, call, held, picked, seen>>
  PROVE  ProjectInv'
  <1>1. UNCHANGED <<project, entered, review, votes, enough, basis, pc, call, held, picked, seen>>
    BY DEF tables
  <1>2. ProjectTypeOK' /\ Exclusive' /\ Serving'
    BY <1>1 DEF ProjectInv, ProjectTypeOK, Exclusive, Serving
  <1>3. UnderLock'
    BY <1>1 DEF ProjectInv, UnderLock, VotesOf
  <1>4. TablesInv'
    BY <1>1, TablesSame DEF ProjectInv, TablesInv
  <1> QED
    BY <1>1, <1>2, <1>3, <1>4 DEF ProjectInv, TablesInv

---------------------------------------------------------------------------
\* Every step of the next-state relation keeps the invariant.
LEMMA ProjectStep ==
  ASSUME ProjectInv, [Next]_vars
  PROVE  ProjectInv'
  <1>0. now \in Nat
    BY DEF ProjectInv, ProjectTypeOK
  <1>1. CASE UNCHANGED vars
    BY <1>0, <1>1, ElseKeeps DEF vars
  <1>2. CASE Tick
    BY <1>0, <1>2, ElseKeeps DEF Tick
  <1>3. ASSUME NEW r \in Requests, Crash(r) \/ \E c \in Calls : Begin(r, c)
        PROVE  ProjectInv'
    BY <1>3, QuietKeeps, BeginKeeps DEF Crash
  <1>4. ASSUME NEW r \in Requests, Step(r)
        PROVE  ProjectInv'
    BY <1>4, LockKeeps, PatchSaveKeeps, AssignSelectKeeps, AssignSaveKeeps,
       SubmitReviewKeeps, ScoreReadKeeps, ScoreSaveKeeps, VoteCountKeeps,
       VoteInsertKeeps, VoteRemoveKeeps DEF Step
  <1>5. ASSUME NEW c \in Calls,
               (c.kind = "add" /\ AddOptional(c)) \/ (c.kind = "delete" /\ DeleteOptional(c))
        PROVE  ProjectInv'
    BY <1>5, OptionalKeeps
  <1> QED
    BY <1>1, <1>2, <1>3, <1>4, <1>5 DEF Next

\* The invariant holds always.
THEOREM ProjectInvariant == Spec => []ProjectInv
  <1>1. ProjectInv /\ [Next]_vars => ProjectInv'
    BY ProjectStep
  <1> QED
    BY <1>1, ProjectInit, PTL DEF Spec

\* Rows and requests are of their types and nobody is assigned their own
\* submission.
THEOREM ProjectTypeCorrect == Spec => []ProjectTypeOK
  <1>1. ProjectInv => ProjectTypeOK
    BY DEF ProjectInv
  <1> QED
    BY <1>1, ProjectInvariant, PTL

\* score_project and the review form exclude each other: the published
\* reviewed_enough_peers agrees with the mandatory reviews on record, also when
\* staff reopened the project or an assignment wrote an old state back before.
THEOREM GradesCorrect == Spec => []GradesMatchReviews
  <1>1. ProjectInv => GradesMatchReviews
    BY DEF ProjectInv
  <1> QED
    BY <1>1, ProjectInvariant, PTL

\* Every review that stands as submitted, an optional one too, went into the
\* scores that are out.
THEOREM SubmissionsCounted == Spec => []SubmittedIsCounted
  <1>1. ProjectInv => SubmittedIsCounted
    BY DEF ProjectInv
  <1> QED
    BY <1>1, ProjectInvariant, PTL

\* update_project_vote keeps every learner within the budget, whatever runs at
\* once.
THEOREM BudgetHeld == Spec => []VoteBudgetHeld
  <1>1. ProjectInv => VoteBudgetHeld
    BY DEF ProjectInv
  <1> QED
    BY <1>1, ProjectInvariant, PTL
=============================================================================
