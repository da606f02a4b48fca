-------------------------- MODULE EventQnaProofs --------------------------
(***************************************************************************)
(* Proofs about EventQna for any handlers, participants, questions, calls  *)
(* and bounds.                                                             *)
(***************************************************************************)
EXTENDS EventQna, FiniteSetTheorems, TLAPS

---------------------------------------------------------------------------
(* Types of the pure operators. *)

\* The initial rows have the types of rows.
LEMMA InitialRows == NewSession \in Sessions /\ NoRow \in Rows /\ NoCall \in AllCalls
  <1>1. (CHOOSE w \in Participants : TRUE) \in Participants
    BY SomebodyAndSomething
  <1>2. (CHOOSE t \in Texts : TRUE) \in Texts
    BY SomebodyAndSomething
  <1> QED
    BY <1>1, <1>2 DEF NewSession, Sessions, States, Times, Null, NoRow, Rows, Statuses,
        Listed, NoCall, AllCalls, ListCalls

\* A call of a given kind has the fields of that kind.
LEMMA CallFields ==
  ASSUME NEW c \in AllCalls
  PROVE  /\ c.kind = "submit" => c \in SubmitCalls
         /\ c.kind = "vote" => c \in VoteCalls
         /\ c.kind = "patch" => c \in PatchCalls
         /\ c.kind = "transition" => c \in TransitionCalls
         /\ c.kind = "settings" => c \in SettingsCalls
  BY DEF AllCalls, SubmitCalls, VoteCalls, PatchCalls, TransitionCalls, SettingsCalls, ListCalls

\* _bump_session keeps the columns typed.
LEMMA BumpType ==
  ASSUME NEW s \in Sessions
  PROVE  Bump(s) \in Sessions
  BY DEF Bump, Sessions

\* _transition_locked keeps the columns typed.
LEMMA MoveType ==
  ASSUME NEW s \in Sessions, NEW t \in States, now \in Nat
  PROVE  Move(s, t) \in Sessions
  <1> DEFINE deadline == IF t = "archived" THEN now + ArchiveDelete ELSE Null
  <1>1. deadline \in Times
    BY BoundsAreNat DEF Times
  <1> HIDE DEF deadline
  <1>2. [s EXCEPT !.state = t, !.archive_delete_at = deadline] \in Sessions
    BY <1>1 DEF Sessions
  <1> QED
    BY <1>2, BumpType DEF Move, deadline

\* _refresh_expiry returns a session.
LEMMA RefreshType ==
  ASSUME NEW s \in Sessions, now \in Nat
  PROVE  RefreshExpiry(s) \in Sessions
  BY MoveType DEF RefreshExpiry, States

\* update_session computes a session.
LEMMA ConfiguredType ==
  ASSUME NEW s \in Sessions, NEW c \in SettingsCalls, now \in Nat
  PROVE  Configured(s, c) \in Sessions
  <1>1. RefreshExpiry(s) \in Sessions
    BY RefreshType
  <1>2. ASSUME NEW t \in Sessions
        PROVE  WithFields(t, c) \in Sessions
    <2> DEFINE a == Switch(c.allow, t.allow_names)
               r == Switch(c.require, t.require_names)
               e == IF c.expires = Unset THEN t.expires_at ELSE c.expires
    <2>1. a \in BOOLEAN /\ r \in BOOLEAN
      BY DEF Switch, Sessions
    <2>2. e \in Times
      BY DEF Sessions, SettingsCalls, Times, Unset
    <2> HIDE DEF a, r, e
    <2>3. [t EXCEPT !.allow_names = a, !.require_names = r, !.expires_at = e] \in Sessions
      BY <2>1, <2>2 DEF Sessions
    <2> QED
      BY <2>3, BumpType DEF WithFields, a, r, e
  <1>3. ASSUME NEW t \in Sessions
        PROVE  WithState(t, c) \in Sessions
    BY MoveType DEF WithState, SettingsCalls, States
  <1> QED
    BY <1>1, <1>2, <1>3 DEF Configured

(* update_question keeps the instances and the table typed. *)

Units == [session: Sessions, row: Rows, rows: [Questions -> Rows]]

\* Saving the text leaves a unit of work in shape.
LEMMA SaveTextType ==
  ASSUME NEW u \in Units, NEW c \in PatchCalls
  PROVE  SaveText(u, c) \in Units
  <1>1. c.text # "keep" => /\ [u.row EXCEPT !.text = c.text] \in Rows
                           /\ [u.rows EXCEPT ![c.q].text = c.text] \in [Questions -> Rows]
    BY DEF Units, PatchCalls, Rows
  <1> QED
    BY <1>1, BumpType DEF SaveText, Units

\* _set_status_locked leaves a unit of work in shape; its counters do not go below 0.
LEMMA SetStatusType ==
  ASSUME NEW u \in Units, NEW c \in PatchCalls
  PROVE  SetStatus(u, c) \in Units
  <1> DEFINE pin == u.row.pinned /\ c.status = "visible"
             left == IF u.row.status = "answered" /\ u.session.q_answered > 0 THEN 1 ELSE 0
             joined == IF c.status = "answered" THEN 1 ELSE 0
             gone == IF c.status = "deleted" /\ u.session.q_total > 0 THEN 1 ELSE 0
  <1> SUFFICES ASSUME c.status \notin {"keep", u.row.status}
               PROVE  SetStatus(u, c) \in Units
    BY DEF SetStatus
  <1>1. pin \in BOOLEAN /\ c.status \in Statuses
    BY DEF PatchCalls
  <1>2. u.session.q_answered - left + joined \in Nat /\ u.session.q_total - gone \in Nat
    BY DEF Units, Sessions
  <1> HIDE DEF pin, left, joined, gone
  <1>3. [u.session EXCEPT !.q_answered = @ - left + joined, !.q_total = @ - gone] \in Sessions
    BY <1>2 DEF Units, Sessions
  <1>4. [u.row EXCEPT !.status = c.status, !.pinned = pin] \in Rows
    BY <1>1 DEF Units, Rows
  <1>5. [u.rows EXCEPT ![c.q].status = c.status, ![c.q].pinned = pin] \in [Questions -> Rows]
    BY <1>1 DEF Units, Rows, PatchCalls
  <1> QED
    BY <1>3, <1>4, <1>5, BumpType DEF SetStatus, Units, pin, left, joined, gone

\* _set_pin_locked leaves a unit of work in shape.
LEMMA SetPinType ==
  ASSUME NEW u \in Units, NEW c \in PatchCalls
  PROVE  SetPin(u, c) \in Units
  <1>1. ASSUME NEW r \in Rows, NEW b \in BOOLEAN
        PROVE  [r EXCEPT !.pinned = b] \in Rows
    BY DEF Rows
  <1>2. [u.row EXCEPT !.pinned = c.pinned = "pin"] \in Rows
    BY <1>1 DEF Units
  <1>3. ASSUME NEW q \in Questions
        PROVE  [u.rows[q] EXCEPT !.pinned = IF q = c.q THEN c.pinned = "pin"
                                            ELSE @ /\ c.pinned # "pin"] \in Rows
    BY <1>1 DEF Units, Rows
  <1> QED
    BY <1>2, <1>3, BumpType DEF SetPin, Units

\* update_question leaves a unit of work in shape.
LEMMA PatchedType ==
  ASSUME NEW u \in Units, NEW c \in PatchCalls
  PROVE  Patched(u, c) \in Units
  BY SaveTextType, SetStatusType, SetPinType DEF Patched

---------------------------------------------------------------------------
\* A handler that ends leaves well-typed instances behind.
LEMMA FinishType ==
  ASSUME TypeOK, NEW h \in Handlers, Finish(h)
  PROVE  /\ now' \in Nat
         /\ pc' \in [Handlers -> {"idle", "form", "session", "question", "vote"}]
         /\ call' \in [Handlers -> AllCalls]
         /\ expected' \in [Handlers -> Nat]
         /\ seen' \in [Handlers -> Sessions]
         /\ row' \in [Handlers -> Rows]
         /\ voted' \in [Handlers -> BOOLEAN]
  BY InitialRows DEF TypeOK, Finish

\* The instances update_question starts from.
LEMMA PatchUnitType ==
  ASSUME TypeOK, NEW h \in Handlers, call[h].kind = "patch"
  PROVE  call[h] \in PatchCalls /\ PatchUnit(h) \in Units
  <1>1. call[h] \in PatchCalls
    BY CallFields DEF TypeOK
  <1>2. [session |-> seen[h], row |-> row[h], rows |-> question] \in Units
    BY DEF TypeOK, Units
  <1> QED
    BY <1>1, <1>2, PatchedType DEF PatchUnit

\* The session instance a lifecycle call or a poll ends with.
LEMMA SessionResultType ==
  ASSUME TypeOK, NEW h \in Handlers, call[h].kind \in {"transition", "settings", "list"}
  PROVE  SessionResult(h) \in Sessions
  <1>1. now \in Nat /\ seen[h] \in Sessions /\ call[h] \in AllCalls
    BY DEF TypeOK
  <1>2. CASE call[h].kind = "transition"
    <2>1. call[h].target \in States
      BY <1>1, <1>2, CallFields DEF TransitionCalls
    <2>2. SessionResult(h) = Move(seen[h], call[h].target)
      BY <1>2 DEF SessionResult
    <2> QED
      BY <1>1, <2>1, <2>2, MoveType
  <1>3. CASE call[h].kind = "settings"
    <2>1. call[h] \in SettingsCalls
      BY <1>1, <1>3, CallFields
    <2>2. SessionResult(h) = Configured(seen[h], call[h])
      BY <1>3 DEF SessionResult
    <2> QED
      BY <1>1, <2>1, <2>2, ConfiguredType
  <1>4. CASE call[h].kind = "list"
    <2>1. SessionResult(h) = RefreshExpiry(seen[h])
      BY <1>4 DEF SessionResult
    <2> QED
      BY <1>1, <2>1, RefreshType
  <1> QED
    BY <1>2, <1>3, <1>4

\* Every step keeps rows and instances typed.
LEMMA TypeStep == TypeOK /\ [Next]_vars => TypeOK'
  <1> SUFFICES ASSUME TypeOK, [Next]_vars PROVE TypeOK'
    OBVIOUS
  <1>1. ASSUME NEW h \in Handlers, LoadForm(h) PROVE TypeOK'
    BY <1>1 DEF TypeOK, LoadForm, Sessions
  <1>2. ASSUME NEW h \in Handlers, NEW c \in Calls, Begin(h, c) PROVE TypeOK'
    <2>1. c \in AllCalls
      BY CallsAreCalls
    <2> QED
      BY <1>2, <2>1 DEF TypeOK, Begin
  <1>3. ASSUME NEW h \in Handlers, Finish(h), UNCHANGED db PROVE TypeOK'
    BY <1>3, FinishType DEF TypeOK, db
  <1>4. ASSUME NEW h \in Handlers, ReadQuestion(h) PROVE TypeOK'
    <2>1. call[h].q \in Questions
      BY <1>4, CallFields DEF TypeOK, ReadQuestion, Active, VoteCalls, PatchCalls
    <2>2. CASE Finish(h)
      BY <1>4, <2>2, <1>3 DEF ReadQuestion
    <2>3. CASE ~Finish(h)
      BY <1>4, <2>1, <2>3 DEF ReadQuestion, TypeOK, db
    <2> QED
      BY <2>2, <2>3
  <1>5. ASSUME NEW h \in Handlers, ReadVote(h) PROVE TypeOK'
    BY <1>5 DEF ReadVote, TypeOK
  <1>6. ASSUME NEW h \in Handlers, CommitSubmit(h) PROVE TypeOK'
    <2>1. call[h].who \in Participants /\ call[h].text \in Texts
      BY <1>6, CallFields DEF TypeOK, CommitSubmit, Active, SubmitCalls
    <2>2. Finish(h)
      BY <1>6 DEF CommitSubmit
    <2>3. session' \in Sessions
      <3>1. session' = [session EXCEPT !.q_total = seen[h].q_total + 1,
                                       !.revision = seen[h].revision + 1]
        BY <1>6 DEF CommitSubmit
      <3>2. session \in Sessions /\ seen[h] \in Sessions
        BY DEF TypeOK
      <3>3. seen[h].q_total + 1 \in Nat /\ seen[h].revision + 1 \in Nat
        BY <3>2 DEF Sessions
      <3>4. ASSUME NEW n \in Nat, NEW m \in Nat
            PROVE  [session EXCEPT !.q_total = n, !.revision = m] \in Sessions
        BY <3>2 DEF Sessions
      <3> QED
        BY <3>1, <3>3, <3>4
    <2>4. PICK q \in Questions :
            /\ question' = [question EXCEPT ![q] =
                  [status |-> "visible", author |-> call[h].who, text |-> call[h].text,
                   score |-> 1, pinned |-> FALSE, created_at |-> now]]
            /\ votes' = votes \cup {<<q, call[h].who>>}
      BY <1>6 DEF CommitSubmit
    <2>5. question' \in [Questions -> Rows]
      BY <2>1, <2>4 DEF TypeOK, Rows, Statuses, Listed
    <2>6. votes' \subseteq Questions \X Participants
      BY <2>1, <2>4 DEF TypeOK
    <2> QED
      BY <2>2, <2>3, <2>5, <2>6, FinishType DEF TypeOK
  <1>7. ASSUME NEW h \in Handlers, CommitVote(h) PROVE TypeOK'
    <2>1. Finish(h)
      BY <1>7 DEF CommitVote
    <2>2. CASE UNCHANGED db
      BY <2>1, <2>2, <1>3
    <2>3. CASE ~UNCHANGED db
      <3>1. call[h].who \in Participants /\ call[h].q \in Questions
        BY <1>7, CallFields DEF TypeOK, CommitVote, Active, VoteCalls
      <3>2. VotedScore(h) \in Nat
        BY <3>1 DEF TypeOK, Rows, VotedScore
      <3>3. question' \in [Questions -> Rows]
        <4>1. question' = [question EXCEPT ![call[h].q].score = VotedScore(h)]
          BY <1>7, <2>3 DEF CommitVote
        <4>2. question \in [Questions -> Rows]
          BY DEF TypeOK
        <4> QED
          BY <3>1, <3>2, <4>1, <4>2 DEF Rows
      <3>4. votes' \subseteq Questions \X Participants
        BY <1>7, <2>3, <3>1 DEF CommitVote, TypeOK
      <3>5. session' \in Sessions
        BY <1>7, <2>3 DEF CommitVote, TypeOK, Sessions
      <3> QED
        BY <2>1, <3>3, <3>4, <3>5, FinishType DEF TypeOK
    <2> QED
      BY <2>2, <2>3
  <1>8. ASSUME NEW h \in Handlers, CommitPatch(h) PROVE TypeOK'
    <2>1. Finish(h) /\ votes' = votes /\ call[h].kind = "patch"
      BY <1>8 DEF CommitPatch, Active
    <2>2. PatchUnit(h).session \in Sessions /\ PatchUnit(h).rows \in [Questions -> Rows]
      BY <2>1, PatchUnitType DEF Units
    <2>3. session' \in Sessions /\ question' \in [Questions -> Rows]
      BY <1>8, <2>2 DEF CommitPatch, TypeOK, Sessions
    <2> QED
      BY <2>1, <2>3, FinishType DEF TypeOK
  <1>9. ASSUME NEW h \in Handlers, CommitSession(h) PROVE TypeOK'
    <2>1. Finish(h) /\ UNCHANGED <<question, votes>>
      BY <1>9 DEF CommitSession
    <2>2. SessionResult(h) \in Sessions
      BY <1>9, SessionResultType DEF CommitSession, Active
    <2>3. session' \in Sessions
      BY <1>9, <2>2 DEF CommitSession, TypeOK, Sessions
    <2> QED
      BY <2>1, <2>3, FinishType DEF TypeOK
  <1>10. CASE Tick
    BY <1>10 DEF Tick, TypeOK
  <1>11. CASE UNCHANGED vars
    BY <1>11 DEF vars, TypeOK
  <1> QED
    BY <1>1, <1>2, <1>3, <1>4, <1>5, <1>6, <1>7, <1>8, <1>9, <1>10, <1>11
       DEF Next, Step, Commit, RefuseStale, Conflict, Crash

\* Rows, instances and votes are always well typed: in particular no counter
\* and no score is ever driven below zero (PositiveIntegerField).
THEOREM TypeCorrect == Spec => []TypeOK
  <1>1. Init => TypeOK
    BY InitialRows DEF Init, TypeOK
  <1>2. TypeOK /\ [Next]_vars => TypeOK'
    BY TypeStep
  <1> QED
    BY <1>1, <1>2, PTL DEF Spec

---------------------------------------------------------------------------
(* Reads: ReadsConsistent and ChecksRemembered.                             *)

\* A handler that ends, having changed nothing or raised the revision, leaves
\* the others either with current rows or with a revision that has passed.
LEMMA FinishReads ==
  ASSUME TypeOK, ReadsConsistent, ChecksRemembered, NEW h \in Handlers, Finish(h),
         UNCHANGED db \/ (session'.revision > session.revision /\ session'.revision \in Nat)
  PROVE  ReadsConsistent' /\ ChecksRemembered'
  <1>1. ASSUME NEW k \in Handlers, pc'[k] \in InTransaction
        PROVE  /\ k # h /\ pc[k] \in InTransaction
               /\ pc'[k] = pc[k] /\ call'[k] = call[k] /\ expected'[k] = expected[k]
               /\ seen'[k] = seen[k] /\ row'[k] = row[k] /\ voted'[k] = voted[k]
    BY <1>1 DEF Finish, TypeOK, InTransaction
  <1>2. ChecksRemembered'
    BY <1>1 DEF ChecksRemembered, PatchFits, OwnUnvoted
  <1>3. CASE UNCHANGED db
    BY <1>1, <1>2, <1>3 DEF ReadsConsistent, CasHolds, db
  <1>4. CASE session'.revision > session.revision /\ session'.revision \in Nat
    <2> SUFFICES ASSUME NEW k \in Handlers, pc'[k] \in InTransaction
                 PROVE  seen'[k].revision <= session'.revision /\ ~CasHolds(k)'
      BY <1>2 DEF ReadsConsistent
    <2>1. seen[k].revision <= session.revision /\ seen'[k] = seen[k]
      BY <1>1 DEF ReadsConsistent
    <2>2. seen[k].revision \in Nat /\ session.revision \in Nat
      BY DEF TypeOK, Sessions
    <2> QED
      BY <1>4, <2>1, <2>2 DEF CasHolds
  <1> QED
    BY <1>3, <1>4

\* The steps that read, or fail, keep the reads consistent.
LEMMA ReadSteps ==
  ASSUME TypeOK, ReadsConsistent, ChecksRemembered, NEW h \in Handlers
  PROVE  /\ LoadForm(h) => ReadsConsistent' /\ ChecksRemembered'
         /\ \A c \in Calls : Begin(h, c) => ReadsConsistent' /\ ChecksRemembered'
         /\ ReadQuestion(h) => ReadsConsistent' /\ ChecksRemembered'
         /\ ReadVote(h) => ReadsConsistent' /\ ChecksRemembered'
  <1> USE DEF InTransaction
  <1>1. ASSUME LoadForm(h) PROVE ReadsConsistent' /\ ChecksRemembered'
    BY <1>1 DEF LoadForm, TypeOK, ReadsConsistent, ChecksRemembered, CasHolds
  <1>2. ASSUME NEW c \in Calls, Begin(h, c) PROVE ReadsConsistent' /\ ChecksRemembered'
    <2>1. session.revision \in Nat /\ c \in AllCalls
      BY CallsAreCalls DEF TypeOK, Sessions
    <2>2. c.kind \in {"submit", "vote"} => session.state = "open"
      BY <1>2 DEF Begin, SessionAccepts
    <2>3. expected[h] # 0 => expected[h] = session.revision
      BY <1>2 DEF Begin, RevisionExpected
    <2>4. /\ pc'[h] = "session" /\ call'[h] = c /\ seen'[h] = session
          /\ UNCHANGED <<session, question, votes, now, expected, row, voted>>
      BY <1>2 DEF Begin, TypeOK
    <2>5. \A k \in Handlers \ {h} : pc'[k] = pc[k] /\ call'[k] = call[k] /\ seen'[k] = seen[k]
      BY <1>2 DEF Begin, TypeOK
    <2>6. ReadsConsistent'
      BY <2>1, <2>4, <2>5 DEF ReadsConsistent, CasHolds
    <2>7. ChecksRemembered'
      BY <2>2, <2>3, <2>4, <2>5 DEF ChecksRemembered
    <2> QED
      BY <2>6, <2>7
  <1>3. ASSUME ReadQuestion(h) PROVE ReadsConsistent' /\ ChecksRemembered'
    <2>1. CASE Finish(h)
      BY <1>3, <2>1, FinishReads DEF ReadQuestion
    <2>2. CASE ~Finish(h)
      <3>1. /\ pc[h] = "session" /\ pc'[h] = "question" /\ call[h].kind \in {"vote", "patch"}
            /\ row'[h] = question[call[h].q]
            /\ UNCHANGED <<session, question, votes, call, expected, seen, voted>>
            /\ \A k \in Handlers \ {h} : pc'[k] = pc[k] /\ row'[k] = row[k]
        BY <1>3, <2>2 DEF ReadQuestion, Active, TypeOK, db
      <3>2. /\ call[h].kind = "vote" => row'[h].status \in Listed
            /\ call[h].kind = "patch" => PatchFits(row'[h], call[h])
        BY <1>3, <2>2, <3>1 DEF ReadQuestion, PatchAccepted
      <3>3. ReadsConsistent'
        BY <3>1 DEF ReadsConsistent, CasHolds
      <3>4. ChecksRemembered'
        BY <3>1, <3>2 DEF ChecksRemembered
      <3> QED
        BY <3>3, <3>4
    <2> QED
      BY <2>1, <2>2
  <1>4. ASSUME ReadVote(h) PROVE ReadsConsistent' /\ ChecksRemembered'
    <2>1. /\ pc[h] = "question" /\ pc'[h] = "vote" /\ call[h].kind = "vote"
          /\ voted'[h] = (<<call[h].q, call[h].who>> \in votes)
          /\ UNCHANGED <<session, question, votes, call, expected, seen, row>>
          /\ \A k \in Handlers \ {h} : pc'[k] = pc[k] /\ voted'[k] = voted[k]
      BY <1>4 DEF ReadVote, Active, TypeOK
    <2>2. ReadsConsistent'
      BY <2>1 DEF ReadsConsistent, CasHolds
    <2>3. ChecksRemembered'
      BY <2>1 DEF ChecksRemembered
    <2> QED
      BY <2>2, <2>3
  <1> QED
    BY <1>1, <1>2, <1>3, <1>4

---------------------------------------------------------------------------
(* update_question on consistent instances.                                 *)

\* u is what a transaction holds whose reads are current.
UnitOK(u, q) ==
    /\ u \in Units /\ u.row = u.rows[q]
    /\ Counted(u.session, u.rows) /\ OnePinned(u.rows)

\* What no part of update_question touches, from u to v.
Keeps(u, v) ==
    /\ v = u \/ v.session.revision > u.session.revision
    /\ \A q \in Questions :
        /\ v.rows[q].score = u.rows[q].score
        /\ (v.rows[q].status = "none") <=> (u.rows[q].status = "none")
        /\ u.rows[q].status = "deleted" => v.rows[q] = u.rows[q]

\* What two writes of one patch keep, both together keep.
LEMMA KeepsTransitive ==
  ASSUME NEW u \in Units, NEW v \in Units, NEW w \in Units, Keeps(u, v), Keeps(v, w)
  PROVE  Keeps(u, w)
  <1>1. u.session.revision \in Nat /\ v.session.revision \in Nat /\ w.session.revision \in Nat
    BY DEF Units, Sessions
  <1>2. w = u \/ w.session.revision > u.session.revision
    BY <1>1 DEF Keeps
  <1> QED
    BY <1>2 DEF Keeps

\* The questions of given statuses are finitely many, and one more or one less
\* changes their number by one.
LEMMA WithCardinality ==
  ASSUME NEW rows, NEW S, NEW q \in Questions
  PROVE  /\ IsFiniteSet(With(rows, S)) /\ Cardinality(With(rows, S)) \in Nat
         /\ q \notin With(rows, S) =>
                Cardinality(With(rows, S) \cup {q}) = Cardinality(With(rows, S)) + 1
         /\ q \in With(rows, S) =>
                /\ Cardinality(With(rows, S)) > 0
                /\ Cardinality(With(rows, S) \ {q}) = Cardinality(With(rows, S)) - 1
  <1>1. IsFiniteSet(With(rows, S))
    BY QuestionsFinite, FS_Subset DEF With
  <1>2. Cardinality(With(rows, S)) \in Nat
    BY <1>1, FS_CardinalityType
  <1>3. q \notin With(rows, S) =>
            Cardinality(With(rows, S) \cup {q}) = Cardinality(With(rows, S)) + 1
    BY <1>1, FS_AddElement
  <1>4. q \in With(rows, S) =>
            /\ Cardinality(With(rows, S) \ {q}) = Cardinality(With(rows, S)) - 1
            /\ Cardinality(With(rows, S) \ {q}) \in Nat
    BY <1>1, FS_RemoveElement, FS_CardinalityType
  <1> QED
    BY <1>1, <1>2, <1>3, <1>4

\* Saving the text keeps counters, scores and the pin right.
LEMMA SaveTextKeeps ==
  ASSUME NEW c \in PatchCalls, NEW u, UnitOK(u, c.q),
         c.text = "keep" \/ u.row.status \in Listed
  PROVE  /\ UnitOK(SaveText(u, c), c.q) /\ Keeps(u, SaveText(u, c))
         /\ SaveText(u, c).row.status = u.row.status
  <1> DEFINE v == SaveText(u, c)
  <1>1. CASE c.text = "keep"
    BY <1>1 DEF SaveText, Keeps
  <1>2. CASE c.text # "keep"
    <2>1. u \in Units /\ v \in Units /\ c.q \in Questions
      BY SaveTextType DEF UnitOK, PatchCalls
    <2>2. /\ v.session = Bump(u.session)
          /\ v.row = [u.row EXCEPT !.text = c.text]
          /\ v.rows = [u.rows EXCEPT ![c.q].text = c.text]
      BY <1>2 DEF SaveText
    <2> HIDE DEF v
    <2>3. \A q \in Questions : /\ v.rows[q].status = u.rows[q].status
                               /\ v.rows[q].pinned = u.rows[q].pinned
                               /\ v.rows[q].score = u.rows[q].score
                               /\ q # c.q => v.rows[q] = u.rows[q]
      BY <2>1, <2>2 DEF Units, Rows
    <2>4. v.row = v.rows[c.q] /\ v.row.status = u.row.status
      BY <2>1, <2>2 DEF Units, Rows, UnitOK
    <2>5. /\ v.session.q_total = u.session.q_total
          /\ v.session.q_answered = u.session.q_answered
          /\ v.session.revision > u.session.revision
      BY <2>1, <2>2 DEF Units, Sessions, Bump
    <2>6. \A S : With(v.rows, S) = With(u.rows, S)
      BY <2>3 DEF With
    <2>7. Counted(v.session, v.rows)
      BY <2>5, <2>6 DEF UnitOK, Counted
    <2>8. OnePinned(v.rows)
      BY <2>3 DEF UnitOK, OnePinned
    <2>9. Keeps(u, v)
      BY <1>2, <2>3, <2>4, <2>5 DEF Keeps, UnitOK, Listed
    <2> QED
      BY <2>1, <2>4, <2>7, <2>8, <2>9 DEF UnitOK, v
  <1> QED
    BY <1>1, <1>2

\* _set_pin_locked keeps counters and scores and leaves one pin.
LEMMA SetPinKeeps ==
  ASSUME NEW c \in PatchCalls, NEW u, UnitOK(u, c.q),
         c.pinned = "keep" \/ u.row.status \in Listed
  PROVE  UnitOK(SetPin(u, c), c.q) /\ Keeps(u, SetPin(u, c))
  <1> DEFINE v == SetPin(u, c)
  <1>1. CASE c.pinned = "keep"
    BY <1>1 DEF SetPin, Keeps
  <1>2. CASE c.pinned # "keep"
    <2> DEFINE p == (c.pinned = "pin")
    <2>1. u \in Units /\ v \in Units /\ c.q \in Questions
      BY SetPinType DEF UnitOK, PatchCalls
    <2>2. /\ v.session = Bump(u.session)
          /\ v.row = [u.row EXCEPT !.pinned = p]
          /\ v.rows = [q \in Questions |->
                         [u.rows[q] EXCEPT !.pinned = IF q = c.q THEN p ELSE @ /\ ~p]]
      BY <1>2 DEF SetPin
    <2>3. p \in BOOLEAN
      OBVIOUS
    <2> HIDE DEF v, p
    <2>4. \A q \in Questions : v.rows[q].status = u.rows[q].status
                              /\ v.rows[q].score = u.rows[q].score
      BY <2>1, <2>2 DEF Units, Rows
    <2>5. v.rows[c.q] = [u.rows[c.q] EXCEPT !.pinned = p]
      BY <2>1, <2>2 DEF Units, Rows
    <2>6. ASSUME NEW q \in Questions, q # c.q
          PROVE  v.rows[q] = [u.rows[q] EXCEPT !.pinned = u.rows[q].pinned /\ ~p]
      BY <2>2, <2>6
    <2>7. v.row = v.rows[c.q]
      BY <2>2, <2>5 DEF UnitOK
    <2>8. /\ v.session.q_total = u.session.q_total
          /\ v.session.q_answered = u.session.q_answered
          /\ v.session.revision > u.session.revision
      BY <2>1, <2>2 DEF Units, Sessions, Bump
    <2>9. \A S : With(v.rows, S) = With(u.rows, S)
      BY <2>4 DEF With
    <2>10. Counted(v.session, v.rows)
      BY <2>8, <2>9 DEF UnitOK, Counted
    <2>11. v.rows[c.q].pinned = p
      BY <2>1, <2>3, <2>5 DEF Units, Rows
    <2>12. ASSUME NEW q \in Questions, q # c.q
           PROVE  v.rows[q].pinned = (u.rows[q].pinned /\ ~p)
      BY <2>1, <2>3, <2>6, <2>12 DEF Units, Rows
    <2>13. OnePinned(v.rows)
      BY <1>2, <2>1, <2>4, <2>11, <2>12 DEF UnitOK, OnePinned
    <2>14. ASSUME NEW q \in Questions, u.rows[q].status = "deleted"
           PROVE  v.rows[q] = u.rows[q]
      <3>1. q # c.q /\ u.rows[q].pinned = FALSE
        BY <1>2, <2>1, <2>14 DEF UnitOK, OnePinned, Listed, Units, Rows
      <3> QED
        BY <2>1, <2>6, <3>1 DEF Units, Rows
    <2>15. Keeps(u, v)
      BY <2>4, <2>8, <2>14 DEF Keeps
    <2> QED
      BY <2>1, <2>7, <2>10, <2>13, <2>15 DEF UnitOK, v
  <1> QED
    BY <1>1, <1>2

\* _set_status_locked moves the counters with the question.
LEMMA SetStatusKeeps ==
  ASSUME NEW c \in PatchCalls, NEW u, UnitOK(u, c.q),
         c.status \in {"keep", u.row.status} \/ u.row.status \in Listed
  PROVE  /\ UnitOK(SetStatus(u, c), c.q) /\ Keeps(u, SetStatus(u, c))
         /\ SetStatus(u, c).row.status = IF c.status = "keep" THEN u.row.status ELSE c.status
  <1> DEFINE v == SetStatus(u, c)
  <1>1. CASE c.status \in {"keep", u.row.status}
    BY <1>1 DEF SetStatus, Keeps
  <1>2. CASE c.status \notin {"keep", u.row.status}
    <2> DEFINE pin == u.row.pinned /\ c.status = "visible"
               left == IF u.row.status = "answered" /\ u.session.q_answered > 0 THEN 1 ELSE 0
               joined == IF c.status = "answered" THEN 1 ELSE 0
               gone == IF c.status = "deleted" /\ u.session.q_total > 0 THEN 1 ELSE 0
    <2>1. u \in Units /\ v \in Units /\ c.q \in Questions
      BY SetStatusType DEF UnitOK, PatchCalls
    <2>2. /\ v.session = Bump([u.session EXCEPT !.q_answered = @ - left + joined,
                                                !.q_total = @ - gone])
          /\ v.row = [u.row EXCEPT !.status = c.status, !.pinned = pin]
          /\ v.rows = [u.rows EXCEPT ![c.q].status = c.status, ![c.q].pinned = pin]
      BY <1>2 DEF SetStatus
    <2>3. u.row.status \in Listed /\ c.status \in Statuses /\ pin \in BOOLEAN
      BY <1>2 DEF PatchCalls
    <2> HIDE DEF v
    <2>4. /\ v.rows[c.q] = [u.rows[c.q] EXCEPT !.status = c.status, !.pinned = pin]
          /\ \A q \in Questions \ {c.q} : v.rows[q] = u.rows[q]
      <3> HIDE DEF pin
      <3> QED
        BY <2>1, <2>2 DEF Units, Rows
    <2>5. /\ v.rows[c.q].status = c.status /\ v.rows[c.q].pinned = pin
          /\ v.rows[c.q].score = u.rows[c.q].score
      <3> HIDE DEF pin
      <3> QED
        BY <2>1, <2>3, <2>4 DEF Units, Rows
    <2>6. v.row = v.rows[c.q] /\ v.row.status = c.status
      BY <2>2, <2>4, <2>5 DEF UnitOK
    <2>7. /\ v.session.q_answered = u.session.q_answered - left + joined
          /\ v.session.q_total = u.session.q_total - gone
          /\ v.session.revision > u.session.revision
      <3> HIDE DEF left, joined, gone
      <3> QED
        BY <2>1, <2>2 DEF Units, Sessions, Bump
    <2>8. Counted(v.session, v.rows)
      <3> DEFINE T == With(u.rows, Listed)
                 A == With(u.rows, {"answered"})
      <3>1. u.session.q_total = Cardinality(T) /\ u.session.q_answered = Cardinality(A)
        BY DEF UnitOK, Counted
      <3>2. c.q \in T
        BY <2>1, <2>3 DEF UnitOK, With
      <3>3. u.row.status = "answered" <=> c.q \in A
        BY <2>1 DEF UnitOK, With
      <3>4. v.session.q_total = Cardinality(With(v.rows, Listed))
        <4>1. CASE c.status = "deleted"
          <5>1. With(v.rows, Listed) = T \ {c.q}
            BY <2>1, <2>4, <2>5, <4>1 DEF With, Listed
          <5> QED
            BY <2>1, <2>7, <3>1, <3>2, <4>1, <5>1, WithCardinality
        <4>2. CASE c.status # "deleted"
          <5>1. With(v.rows, Listed) = T
            BY <2>1, <2>3, <2>4, <2>5, <3>2, <4>2 DEF With, Statuses
          <5>2. u.session.q_total \in Nat
            BY <2>1 DEF Units, Sessions
          <5> QED
            BY <2>7, <3>1, <4>2, <5>1, <5>2
        <4> QED
          BY <4>1, <4>2
      <3>5. v.session.q_answered = Cardinality(With(v.rows, {"answered"}))
        <4>1. u.session.q_answered \in Nat
          BY <2>1 DEF Units, Sessions
        <4>2. CASE u.row.status = "answered"
          <5>1. With(v.rows, {"answered"}) = A \ {c.q} /\ joined = 0
            BY <1>2, <2>1, <2>4, <2>5, <4>2 DEF With
          <5>2. Cardinality(A) > 0 /\ Cardinality(A \ {c.q}) = Cardinality(A) - 1
            BY <2>1, <3>3, <4>2, WithCardinality
          <5>3. left = 1 /\ v.session.q_answered = u.session.q_answered - left + joined
            BY <2>7, <3>1, <4>2, <5>2
          <5>4. Cardinality(With(v.rows, {"answered"})) = Cardinality(A) - 1
            BY <5>1, <5>2, Zenon
          <5> HIDE DEF left, joined, A
          <5> QED
            BY <3>1, <4>1, <5>1, <5>3, <5>4
        <4>3. CASE u.row.status # "answered" /\ c.status = "answered"
          <5>1. With(v.rows, {"answered"}) = A \cup {c.q}
            BY <2>1, <2>4, <2>5, <4>3 DEF With
          <5>2. Cardinality(A \cup {c.q}) = Cardinality(A) + 1
            BY <2>1, <3>3, <4>3, WithCardinality
          <5>3. /\ left = 0 /\ joined = 1
                /\ v.session.q_answered = u.session.q_answered - left + joined
            BY <2>7, <4>3
          <5>4. Cardinality(With(v.rows, {"answered"})) = Cardinality(A) + 1
            BY <5>1, <5>2, Zenon
          <5> HIDE DEF left, joined, A
          <5> QED
            BY <3>1, <4>1, <5>3, <5>4
        <4>4. CASE u.row.status # "answered" /\ c.status # "answered"
          <5>1. With(v.rows, {"answered"}) = A
            BY <2>1, <2>4, <2>5, <3>3, <4>4 DEF With
          <5> QED
            BY <2>7, <3>1, <4>1, <4>4, <5>1
        <4> QED
          BY <4>2, <4>3, <4>4
      <3> QED
        BY <3>4, <3>5 DEF Counted
    <2>9. OnePinned(v.rows)
      <3>1. pin => u.rows[c.q].pinned /\ c.status \in Listed
        BY DEF UnitOK, Listed
      <3> HIDE DEF pin
      <3> QED
        BY <2>1, <2>4, <2>5, <3>1 DEF UnitOK, OnePinned
    <2>10. Keeps(u, v)
      BY <2>3, <2>4, <2>5, <2>7 DEF Keeps, UnitOK, Listed, Statuses
    <2> QED
      BY <1>2, <2>1, <2>6, <2>8, <2>9, <2>10 DEF UnitOK, v
  <1> QED
    BY <1>1, <1>2

\* update_question as a whole, for a call its checks let through.
LEMMA PatchedKeeps ==
  ASSUME NEW c \in PatchCalls, NEW u, UnitOK(u, c.q), PatchFits(u.row, c)
  PROVE  UnitOK(Patched(u, c), c.q) /\ Keeps(u, Patched(u, c))
  <1> DEFINE v == SaveText(u, c)
             w == SetStatus(v, c)
             x == SetPin(w, c)
  <1>1. u.row.status \in Listed \cup {"deleted"}
    BY DEF UnitOK, Units, Rows, Statuses, PatchFits
  <1>2. UnitOK(v, c.q) /\ Keeps(u, v) /\ v.row.status = u.row.status
    BY <1>1, SaveTextKeeps DEF PatchFits
  <1> HIDE DEF v
  <1>3. c.status \in {"keep", v.row.status} \/ v.row.status \in Listed
    BY <1>1, <1>2 DEF PatchFits
  <1>4. /\ UnitOK(w, c.q) /\ Keeps(v, w)
        /\ w.row.status = IF c.status = "keep" THEN v.row.status ELSE c.status
    BY <1>2, <1>3, SetStatusKeeps
  <1> HIDE DEF w
  <1>5. c.pinned = "keep" \/ w.row.status \in Listed
    BY <1>1, <1>2, <1>4 DEF PatchFits, PatchCalls, Statuses
  <1>6. UnitOK(x, c.q) /\ Keeps(w, x)
    BY <1>4, <1>5, SetPinKeeps
  <1> HIDE DEF x
  <1>7. Keeps(u, w)
    BY <1>2, <1>4, KeepsTransitive DEF UnitOK
  <1>8. Keeps(u, x)
    BY <1>4, <1>6, <1>7, KeepsTransitive DEF UnitOK
  <1> QED
    BY <1>6, <1>8 DEF Patched, v, w, x

---------------------------------------------------------------------------
(* Lifecycle and settings.                                                  *)

\* s becomes t with its names and counters kept and, unless it is the same
\* instance, a higher revision.
Advances(s, t) ==
    /\ t = s \/ t.revision > s.revision
    /\ t.q_total = s.q_total /\ t.q_answered = s.q_answered

\* _transition_locked raises the revision of a session it changes.
LEMMA MoveAdvances ==
  ASSUME NEW s \in Sessions, NEW t \in States
  PROVE  /\ Advances(s, Move(s, t))
         /\ Move(s, t).allow_names = s.allow_names /\ Move(s, t).require_names = s.require_names
  <1> DEFINE deadline == IF t = "archived" THEN now + ArchiveDelete ELSE Null
  <1>1. CASE t = s.state
    BY <1>1 DEF Move, Advances
  <1>2. CASE t # s.state
    <2>1. Move(s, t) = Bump([s EXCEPT !.state = t, !.archive_delete_at = deadline])
      BY <1>2 DEF Move
    <2> HIDE DEF deadline
    <2> QED
      BY <2>1 DEF Bump, Sessions, Advances
  <1> QED
    BY <1>1, <1>2

\* _refresh_expiry raises the revision of a session it changes.
LEMMA RefreshAdvances ==
  ASSUME NEW s \in Sessions
  PROVE  /\ Advances(s, RefreshExpiry(s))
         /\ RefreshExpiry(s).allow_names = s.allow_names
         /\ RefreshExpiry(s).require_names = s.require_names
  BY MoveAdvances DEF RefreshExpiry, States, Advances

\* Two such writes one after the other raise it as well.
LEMMA AdvancesTransitive ==
  ASSUME NEW s \in Sessions, NEW t \in Sessions, NEW r \in Sessions,
         Advances(s, t), Advances(t, r)
  PROVE  Advances(s, r)
  BY DEF Advances, Sessions

\* update_session raises the revision by what it writes and leaves a name that
\* the room accepts, given a row that has one.
LEMMA ConfiguredKeeps ==
  ASSUME NEW s \in Sessions, NEW c \in SettingsCalls, now \in Nat,
         SettingsAccepted(s, c), s.allow_names \/ ~s.require_names
  PROVE  /\ Advances(s, Configured(s, c))
         /\ Configured(s, c).allow_names \/ ~Configured(s, c).require_names
  <1> DEFINE t == RefreshExpiry(s)
             r == WithFields(t, c)
  <1>1. t \in Sessions /\ Advances(s, t) /\ (t.allow_names \/ ~t.require_names)
    BY RefreshType, RefreshAdvances
  <1>2. ChangesSettings(c) => r.allow_names \/ ~r.require_names
    BY DEF SettingsAccepted
  <1> HIDE DEF t
  <1>3. r \in Sessions /\ Advances(t, r) /\ (r.allow_names \/ ~r.require_names)
    <2> DEFINE a == Switch(c.allow, t.allow_names)
               q == Switch(c.require, t.require_names)
               e == IF c.expires = Unset THEN t.expires_at ELSE c.expires
    <2>1. CASE ~ChangesFields(c)
      BY <1>1, <2>1 DEF WithFields, Advances
    <2>2. CASE ChangesFields(c)
      <3>1. r = Bump([t EXCEPT !.allow_names = a, !.require_names = q, !.expires_at = e])
        BY <2>2 DEF WithFields
      <3>2. a \in BOOLEAN /\ q \in BOOLEAN /\ e \in Times
        BY <1>1 DEF Switch, Sessions, SettingsCalls, Times, Unset
      <3>3. ~ChangesSettings(c) => a = t.allow_names /\ q = t.require_names
        BY DEF ChangesSettings, Switch
      <3> HIDE DEF a, q, e, r
      <3>4. /\ r \in Sessions /\ r.revision > t.revision
            /\ r.q_total = t.q_total /\ r.q_answered = t.q_answered
            /\ r.allow_names = a /\ r.require_names = q
        <4> DEFINE x == [t EXCEPT !.allow_names = a, !.require_names = q, !.expires_at = e]
        <4>1. /\ x \in Sessions /\ x.revision = t.revision
              /\ x.q_total = t.q_total /\ x.q_answered = t.q_answered
              /\ x.allow_names = a /\ x.require_names = q
          BY <1>1, <3>2 DEF Sessions
        <4>2. r = Bump(x)
          BY <3>1
        <4> HIDE DEF x
        <4> QED
          BY <4>1, <4>2 DEF Bump, Sessions
      <3>5. r.allow_names \/ ~r.require_names
        BY <1>1, <1>2, <3>3, <3>4, Zenon DEF r
      <3> QED
        BY <3>4, <3>5 DEF Advances
    <2> QED
      BY <2>1, <2>2
  <1> HIDE DEF r
  <1>4. CASE c.target = "keep"
    <2>1. Configured(s, c) = r
      BY <1>4 DEF Configured, WithState, r, t
    <2> QED
      BY <1>1, <1>3, <2>1, AdvancesTransitive
  <1>5. CASE c.target # "keep"
    <2>1. Configured(s, c) = Move(r, c.target) /\ c.target \in States
      BY <1>5 DEF Configured, WithState, r, t, SettingsCalls
    <2>2. /\ Move(r, c.target) \in Sessions /\ Advances(r, Move(r, c.target))
          /\ Move(r, c.target).allow_names = r.allow_names
          /\ Move(r, c.target).require_names = r.require_names
      BY <1>3, <2>1, MoveAdvances, MoveType
    <2>3. Advances(s, r)
      BY <1>1, <1>3, AdvancesTransitive
    <2>4. Advances(s, Move(r, c.target))
      BY <1>3, <2>2, <2>3, AdvancesTransitive
    <2> QED
      BY <1>3, <2>1, <2>2, <2>4
  <1> QED
    BY <1>4, <1>5

\* What a session call writes keeps some name acceptable and raises the revision.
LEMMA SessionResultKeeps ==
  ASSUME TypeOK, NEW h \in Handlers, call[h].kind \in {"transition", "settings", "list"},
         SessionAccepted(h), seen[h].allow_names \/ ~seen[h].require_names
  PROVE  /\ Advances(seen[h], SessionResult(h))
         /\ SessionResult(h).allow_names \/ ~SessionResult(h).require_names
  <1>1. now \in Nat /\ seen[h] \in Sessions /\ call[h] \in AllCalls
    BY DEF TypeOK
  <1>2. CASE call[h].kind = "transition"
    <2>1. call[h].target \in States
      BY <1>1, <1>2, CallFields DEF TransitionCalls
    <2>2. SessionResult(h) = Move(seen[h], call[h].target)
      BY <1>2 DEF SessionResult
    <2> QED
      BY <1>1, <2>1, <2>2, MoveAdvances
  <1>3. CASE call[h].kind = "settings"
    <2>1. call[h] \in SettingsCalls
      BY <1>1, <1>3, CallFields
    <2>2. SessionResult(h) = Configured(seen[h], call[h]) /\ SettingsAccepted(seen[h], call[h])
      BY <1>3 DEF SessionResult, SessionAccepted
    <2> QED
      BY <1>1, <2>1, <2>2, ConfiguredKeeps
  <1>4. CASE call[h].kind = "list"
    <2>1. SessionResult(h) = RefreshExpiry(seen[h])
      BY <1>4 DEF SessionResult
    <2> QED
      BY <1>1, <2>1, RefreshAdvances
  <1> QED
    BY <1>2, <1>3, <1>4

---------------------------------------------------------------------------
(* Commits.  A commit that writes has passed the compare-and-set, so by      *)
(* ReadsConsistent its instances are the current rows.                       *)

RoomInv ==
    UnaskedUnvoted /\ CountersExact /\ ScoresExact /\ SinglePin /\ NamesSatisfiable

Raised == session'.revision > session.revision /\ session'.revision \in Nat

\* A vote more or a vote less changes the number of voters by one.
LEMMA VotersCardinality ==
  ASSUME NEW q \in Questions, NEW w \in Participants
  PROVE  /\ Cardinality(Voters(q)) \in Nat
         /\ w \notin Voters(q) => Cardinality(Voters(q) \cup {w}) = Cardinality(Voters(q)) + 1
         /\ w \in Voters(q) => /\ Cardinality(Voters(q)) > 0
                               /\ Cardinality(Voters(q) \ {w}) = Cardinality(Voters(q)) - 1
  <1>1. IsFiniteSet(Voters(q))
    BY ParticipantsFinite, FS_Subset DEF Voters
  <1>2. Cardinality(Voters(q)) \in Nat
    BY <1>1, FS_CardinalityType
  <1>3. w \notin Voters(q) => Cardinality(Voters(q) \cup {w}) = Cardinality(Voters(q)) + 1
    BY <1>1, FS_AddElement
  <1>4. w \in Voters(q) => /\ Cardinality(Voters(q) \ {w}) = Cardinality(Voters(q)) - 1
                          /\ Cardinality(Voters(q) \ {w}) \in Nat
    BY <1>1, FS_RemoveElement, FS_CardinalityType
  <1> QED
    BY <1>2, <1>3, <1>4

\* The commit of submit_question preserves the room invariant.
LEMMA SubmitCommit ==
  ASSUME IndInv, NEW h \in Handlers, CommitSubmit(h)
  PROVE  /\ RoomInv' /\ Raised
         /\ session.state = "open" /\ session'.state = "open"
         /\ \A o \in Questions : question[o].status = "deleted" =>
                question'[o] = question[o] /\ Voters(o)' = Voters(o)
  <1>1. PICK q \in Questions :
          /\ question[q].status = "none"
          /\ question' = [question EXCEPT ![q] =
                [status |-> "visible", author |-> call[h].who, text |-> call[h].text,
                 score |-> 1, pinned |-> FALSE, created_at |-> now]]
          /\ votes' = votes \cup {<<q, call[h].who>>}
    BY DEF CommitSubmit
  <1>2. call[h].who \in Participants /\ session \in Sessions /\ question \in [Questions -> Rows]
    BY CallFields DEF IndInv, TypeOK, CommitSubmit, Active, SubmitCalls
  <1>3. seen[h] = session
    BY DEF IndInv, ReadsConsistent, CommitSubmit, Active, InTransaction
  <1>4. session' = [session EXCEPT !.q_total = session.q_total + 1,
                                   !.revision = session.revision + 1]
    BY <1>3 DEF CommitSubmit
  <1>5. /\ session'.q_total = session.q_total + 1 /\ session'.q_answered = session.q_answered
        /\ session'.revision = session.revision + 1 /\ session.revision \in Nat
        /\ session'.allow_names = session.allow_names
        /\ session'.require_names = session.require_names /\ session'.state = session.state
    BY <1>2, <1>4 DEF Sessions
  <1>6. /\ question'[q].status = "visible" /\ question'[q].score = 1 /\ question'[q].pinned = FALSE
        /\ \A o \in Questions \ {q} : question'[o] = question[o]
    BY <1>1, <1>2
  <1>7. /\ Voters(q)' = Voters(q) \cup {call[h].who}
        /\ \A o \in Questions \ {q} : Voters(o)' = Voters(o)
    BY <1>1, <1>2 DEF Voters
  <1>8. Raised
    BY <1>5 DEF Raised
  <1>9. CountersExact'
    <2>1. q \notin With(question, Listed)
      BY <1>1 DEF With, Listed
    <2>2. With(question', Listed) = With(question, Listed) \cup {q}
      BY <1>6 DEF With, Listed
    <2>3. Cardinality(With(question', Listed)) = Cardinality(With(question, Listed)) + 1
      BY <2>1, <2>2, WithCardinality, Zenon
    <2>4. With(question', {"answered"}) = With(question, {"answered"})
      BY <1>1, <1>6 DEF With
    <2> QED
      BY <1>5, <2>3, <2>4 DEF IndInv, CountersExact, Counted
  <1>10. ScoresExact'
    <2>1. Voters(q) = {}
      BY <1>1 DEF IndInv, UnaskedUnvoted
    <2>2. Cardinality(Voters(q)') = 1
      <3>1. Cardinality(Voters(q)') = Cardinality({call[h].who})
        BY <1>7, <2>1
      <3> QED
        BY <3>1, FS_Singleton
    <2> QED
      BY <1>6, <1>7, <2>2 DEF IndInv, ScoresExact
  <1>11. SinglePin'
    BY <1>1, <1>6 DEF IndInv, SinglePin, OnePinned, Listed
  <1>12. UnaskedUnvoted' /\ NamesSatisfiable'
    BY <1>5, <1>6, <1>7 DEF IndInv, UnaskedUnvoted, NamesSatisfiable
  <1>13. session.state = "open"
    BY <1>3 DEF IndInv, ChecksRemembered, CommitSubmit, Active, InTransaction
  <1> QED
    BY <1>1, <1>5, <1>6, <1>7, <1>8, <1>9, <1>10, <1>11, <1>12, <1>13 DEF RoomInv

\* The commit of vote_question preserves the room invariant.
LEMMA VoteCommit ==
  ASSUME IndInv, NEW h \in Handlers, CommitVote(h), ~UNCHANGED db
  PROVE  /\ RoomInv' /\ Raised
         /\ session.state = "open" /\ session'.state = "open"
         /\ \A o \in Questions : question[o].status = "deleted" =>
                question'[o] = question[o] /\ Voters(o)' = Voters(o)
  <1>0. call[h].q \in Questions /\ call[h].who \in Participants /\ call[h].add \in BOOLEAN
    BY CallFields DEF IndInv, TypeOK, CommitVote, Active, VoteCalls
  <1> PICK q \in Questions, w \in Participants : q = call[h].q /\ w = call[h].who
    BY <1>0
  <1>1. /\ q \in Questions /\ w \in Participants /\ call[h].add \in BOOLEAN
        /\ session \in Sessions /\ question \in [Questions -> Rows]
        /\ votes \subseteq Questions \X Participants
    BY <1>0 DEF IndInv, TypeOK
  <1>2. /\ VoteChanges(h) /\ CasHolds(h)
        /\ votes' = IF call[h].add THEN votes \cup {<<q, w>>} ELSE votes \ {<<q, w>>}
        /\ question' = [question EXCEPT ![q].score = VotedScore(h)]
        /\ session' = [session EXCEPT !.revision = seen[h].revision + 1]
        /\ pc[h] = "vote" /\ call[h].kind = "vote"
    BY DEF CommitVote, Active
  <1>3. seen[h] = session /\ row[h] = question[q] /\ voted[h] = (<<q, w>> \in votes)
    BY <1>2 DEF IndInv, ReadsConsistent, InTransaction
  <1>4. question[q].status \in Listed
    BY <1>2, <1>3 DEF IndInv, ChecksRemembered, InTransaction
  <1>5. call[h].add <=> w \notin Voters(q)
    BY <1>1, <1>2, <1>3 DEF VoteChanges, Voters
  <1>6. /\ question[q].score = Cardinality(Voters(q))
        /\ VotedScore(h) = IF call[h].add THEN Cardinality(Voters(q)) + 1
                           ELSE Cardinality(Voters(q)) - 1
    BY <1>1, <1>3, <1>5, VotersCardinality DEF VotedScore, IndInv, ScoresExact
  <1>7. /\ Voters(q)' = IF call[h].add THEN Voters(q) \cup {w} ELSE Voters(q) \ {w}
        /\ \A o \in Questions \ {q} : Voters(o)' = Voters(o)
    <2>1. CASE call[h].add
      <3>1. votes' = votes \cup {<<q, w>>}
        BY <1>2, <2>1
      <3>2. Voters(q)' = Voters(q) \cup {w}
        BY <1>1, <3>1 DEF Voters
      <3>3. \A o \in Questions \ {q} : Voters(o)' = Voters(o)
        BY <1>1, <3>1 DEF Voters
      <3> QED
        BY <2>1, <3>2, <3>3, Zenon
    <2>2. CASE ~call[h].add
      <3>1. votes' = votes \ {<<q, w>>}
        BY <1>2, <2>2
      <3>2. Voters(q)' = Voters(q) \ {w}
        BY <1>1, <3>1 DEF Voters
      <3>3. \A o \in Questions \ {q} : Voters(o)' = Voters(o)
        BY <1>1, <3>1 DEF Voters
      <3> QED
        BY <2>2, <3>2, <3>3, Zenon
    <2> QED
      BY <2>1, <2>2
  <1>8. Cardinality(Voters(q)') = VotedScore(h)
    <2>1. CASE call[h].add
      <3>1. Voters(q)' = Voters(q) \cup {w} /\ w \notin Voters(q)
        BY <1>5, <1>7, <2>1
      <3>2. Cardinality(Voters(q)') = Cardinality(Voters(q)) + 1
        BY <1>1, <3>1, VotersCardinality, Zenon
      <3> QED
        BY <1>6, <2>1, <3>2
    <2>2. CASE ~call[h].add
      <3>1. Voters(q)' = Voters(q) \ {w} /\ w \in Voters(q)
        BY <1>5, <1>7, <2>2
      <3>2. Cardinality(Voters(q)') = Cardinality(Voters(q)) - 1
        BY <1>1, <3>1, VotersCardinality, Zenon
      <3> QED
        BY <1>6, <2>2, <3>2
    <2> QED
      BY <2>1, <2>2
  <1>9. VotedScore(h) \in Nat
    <2>1. /\ Cardinality(Voters(q)) \in Nat
          /\ ~call[h].add => Cardinality(Voters(q)) > 0
      BY <1>1, <1>5, VotersCardinality
    <2> QED
      BY <1>6, <2>1
  <1>10. /\ question'[q].score = VotedScore(h)
         /\ \A o \in Questions : /\ question'[o].status = question[o].status
                                 /\ question'[o].pinned = question[o].pinned
                                 /\ o # q => question'[o] = question[o]
    BY <1>1, <1>2, <1>9 DEF Rows
  <1>11. /\ session'.revision = session.revision + 1 /\ session.revision \in Nat
         /\ session'.q_total = session.q_total /\ session'.q_answered = session.q_answered
         /\ session'.allow_names = session.allow_names
         /\ session'.require_names = session.require_names /\ session'.state = session.state
    BY <1>1, <1>2, <1>3 DEF Sessions
  <1>12. Raised
    BY <1>11 DEF Raised
  <1>13. CountersExact'
    <2>1. \A S : With(question', S) = With(question, S)
      BY <1>10 DEF With
    <2> QED
      BY <1>11, <2>1 DEF IndInv, CountersExact, Counted
  <1>14. ScoresExact'
    <2>1. question'[q].score = Cardinality(Voters(q)')
      BY <1>8, <1>10
    <2>2. ASSUME NEW o \in Questions, o # q
          PROVE  question'[o].score = Cardinality(Voters(o)')
      <3>1. question'[o] = question[o] /\ Voters(o)' = Voters(o)
        BY <1>7, <1>10, <2>2
      <3> QED
        BY <3>1 DEF IndInv, ScoresExact
    <2> QED
      BY <2>1, <2>2, Zenon DEF ScoresExact
  <1>15. SinglePin'
    BY <1>10 DEF IndInv, SinglePin, OnePinned
  <1>16. UnaskedUnvoted' /\ NamesSatisfiable'
    BY <1>4, <1>7, <1>10, <1>11 DEF IndInv, UnaskedUnvoted, NamesSatisfiable, Listed
  <1>17. session.state = "open"
    BY <1>2, <1>3 DEF IndInv, ChecksRemembered, InTransaction
  <1>18. ASSUME NEW o \in Questions, question[o].status = "deleted"
         PROVE  question'[o] = question[o] /\ Voters(o)' = Voters(o)
    BY <1>4, <1>7, <1>10, <1>18 DEF Listed
  <1> QED
    BY <1>11, <1>12, <1>13, <1>14, <1>15, <1>16, <1>17, <1>18 DEF RoomInv

\* The commit of update_question preserves the room invariant.
LEMMA PatchCommit ==
  ASSUME IndInv, NEW h \in Handlers, CommitPatch(h), ~UNCHANGED db
  PROVE  /\ RoomInv' /\ Raised
         /\ votes' = votes /\ CasHolds(h)
         /\ PatchFits(question[call[h].q], call[h])
         /\ \A q \in Questions : /\ question[q].status = "deleted" => question'[q] = question[q]
                                 /\ (question'[q].status = "none") <=> (question[q].status = "none")
  <1> DEFINE u == [session |-> session, row |-> question[call[h].q], rows |-> question]
             v == PatchUnit(h)
  <1>1. /\ CasHolds(h) /\ v.session # seen[h] /\ question' = v.rows /\ votes' = votes
        /\ session' = [session EXCEPT !.q_total = v.session.q_total,
                                      !.q_answered = v.session.q_answered,
                                      !.revision = v.session.revision]
        /\ pc[h] = "question" /\ call[h].kind = "patch"
    BY DEF CommitPatch, Active, db
  <1>2. call[h] \in PatchCalls /\ call[h].q \in Questions
    BY <1>1, CallFields DEF IndInv, TypeOK, PatchCalls
  <1>3. seen[h] = session /\ row[h] = question[call[h].q]
    BY <1>1 DEF IndInv, ReadsConsistent, InTransaction
  <1>4. PatchFits(question[call[h].q], call[h])
    BY <1>1, <1>3 DEF IndInv, ChecksRemembered, InTransaction
  <1>5. UnitOK(u, call[h].q)
    BY <1>2 DEF UnitOK, Units, IndInv, TypeOK, CountersExact, SinglePin
  <1>6. v = Patched(u, call[h])
    BY <1>3 DEF PatchUnit
  <1>7. UnitOK(v, call[h].q) /\ Keeps(u, v)
    BY <1>2, <1>4, <1>5, <1>6, PatchedKeeps
  <1> HIDE DEF v
  <1>8. /\ v.session.revision > session.revision
        /\ \A q \in Questions :
            /\ question'[q].score = question[q].score
            /\ (question'[q].status = "none") <=> (question[q].status = "none")
            /\ question[q].status = "deleted" => question'[q] = question[q]
    BY <1>1, <1>3, <1>7 DEF Keeps
  <1>9. v.session \in Sessions /\ session \in Sessions
    BY <1>7 DEF UnitOK, Units, IndInv, TypeOK
  <1>10. /\ session'.revision = v.session.revision
         /\ session'.q_total = v.session.q_total /\ session'.q_answered = v.session.q_answered
         /\ session'.allow_names = session.allow_names
         /\ session'.require_names = session.require_names
    BY <1>1, <1>9 DEF Sessions
  <1>11. Raised
    BY <1>8, <1>9, <1>10 DEF Raised, Sessions
  <1>12. CountersExact' /\ SinglePin'
    BY <1>1, <1>7, <1>10 DEF UnitOK, CountersExact, Counted, SinglePin
  <1>13. \A q \in Questions : Voters(q)' = Voters(q)
    BY <1>1 DEF Voters
  <1>14. ScoresExact' /\ UnaskedUnvoted' /\ NamesSatisfiable'
    BY <1>8, <1>10, <1>13 DEF IndInv, ScoresExact, UnaskedUnvoted, NamesSatisfiable
  <1> QED
    BY <1>1, <1>4, <1>8, <1>11, <1>12, <1>14 DEF RoomInv

\* The commit of transition_session, update_session or a poll preserves it.
LEMMA SessionCommit ==
  ASSUME IndInv, NEW h \in Handlers, CommitSession(h), ~UNCHANGED db
  PROVE  RoomInv' /\ Raised
  <1> DEFINE r == SessionResult(h)
  <1>1. /\ SessionAccepted(h) /\ r # seen[h] /\ CasHolds(h) /\ UNCHANGED <<question, votes>>
        /\ session' = [r EXCEPT !.q_total = session.q_total, !.q_answered = session.q_answered]
        /\ pc[h] = "session" /\ call[h].kind \in {"transition", "settings", "list"}
    BY DEF CommitSession, Active, db
  <1>2. seen[h] = session
    BY <1>1 DEF IndInv, ReadsConsistent, InTransaction
  <1>3. session \in Sessions /\ r \in Sessions
    BY <1>1, SessionResultType DEF IndInv, TypeOK
  <1>4. Advances(session, r) /\ (r.allow_names \/ ~r.require_names)
    BY <1>1, <1>2, SessionResultKeeps DEF IndInv, NamesSatisfiable
  <1> HIDE DEF r
  <1>5. /\ session'.revision = r.revision /\ session'.allow_names = r.allow_names
        /\ session'.require_names = r.require_names
        /\ session'.q_total = session.q_total /\ session'.q_answered = session.q_answered
    BY <1>1, <1>3 DEF Sessions
  <1>6. Raised
    BY <1>1, <1>2, <1>3, <1>4, <1>5 DEF Raised, Advances, Sessions
  <1>7. CountersExact' /\ NamesSatisfiable'
    BY <1>1, <1>4, <1>5 DEF IndInv, CountersExact, Counted, NamesSatisfiable, With
  <1>8. ScoresExact' /\ SinglePin' /\ UnaskedUnvoted'
    BY <1>1 DEF IndInv, ScoresExact, SinglePin, OnePinned, UnaskedUnvoted, Voters
  <1> QED
    BY <1>6, <1>7, <1>8 DEF RoomInv

---------------------------------------------------------------------------
\* No committed row changes but by a commit, which raises the revision.
LEMMA StepRoom ==
  ASSUME IndInv, [Next]_vars
  PROVE  RoomInv' /\ (UNCHANGED db \/ Raised)
  <1>1. ASSUME UNCHANGED db PROVE RoomInv'
    BY <1>1 DEF db, RoomInv, IndInv, UnaskedUnvoted, CountersExact, Counted, With, ScoresExact,
        SinglePin, OnePinned, NamesSatisfiable, Voters
  <1>2. ASSUME NEW h \in Handlers, Commit(h) PROVE RoomInv' /\ (UNCHANGED db \/ Raised)
    <2>1. CASE UNCHANGED db
      BY <1>1, <2>1
    <2>2. CASE ~UNCHANGED db
      BY <1>2, <2>2, SubmitCommit, VoteCommit, PatchCommit, SessionCommit DEF Commit
    <2> QED
      BY <2>1, <2>2
  <1>3. CASE UNCHANGED db
    BY <1>1, <1>3
  <1>4. CASE ~UNCHANGED db
    <2>1. \E h \in Handlers : Commit(h)
      BY <1>4 DEF Next, Step, LoadForm, RefuseStale, ReadQuestion, ReadVote, Conflict, Crash,
          Begin, Tick, vars, db
    <2> QED
      BY <1>2, <2>1
  <1> QED
    BY <1>3, <1>4

\* Every step keeps the reads of the running handlers good.
LEMMA StepReads ==
  ASSUME IndInv, [Next]_vars
  PROVE  ReadsConsistent' /\ ChecksRemembered'
  <1> USE DEF IndInv
  <1>1. UNCHANGED db \/ Raised
    BY StepRoom
  <1>2. ASSUME NEW h \in Handlers, Finish(h) PROVE ReadsConsistent' /\ ChecksRemembered'
    BY <1>1, <1>2, FinishReads DEF Raised
  <1>3. ASSUME NEW h \in Handlers,
               LoadForm(h) \/ ReadQuestion(h) \/ ReadVote(h) \/ \E c \in Calls : Begin(h, c)
        PROVE  ReadsConsistent' /\ ChecksRemembered'
    BY <1>3, ReadSteps
  <1>4. CASE Tick \/ UNCHANGED vars
    BY <1>4 DEF Tick, vars, ReadsConsistent, ChecksRemembered, CasHolds
  <1>5. ASSUME NEW h \in Handlers,
               RefuseStale(h) \/ Conflict(h) \/ Crash(h) \/ Commit(h)
        PROVE  Finish(h)
    BY <1>5 DEF RefuseStale, Conflict, Crash, Commit, CommitSubmit, CommitVote, CommitPatch,
        CommitSession
  <1> QED
    BY <1>2, <1>3, <1>4, <1>5 DEF Next, Step

\* Along every behaviour a handler whose compare-and-set would succeed holds
\* the current rows, and the counters, scores, pin and names are consistent.
THEOREM RoomInvariant == Spec => []IndInv
  <1>1. Init => IndInv
    <2> SUFFICES ASSUME Init PROVE IndInv
      OBVIOUS
    <2>1. TypeOK
      BY InitialRows DEF Init, TypeOK
    <2>2. ReadsConsistent /\ ChecksRemembered
      BY DEF Init, ReadsConsistent, ChecksRemembered, InTransaction
    <2>3. \A q \in Questions : Voters(q) = {} /\ question[q] = NoRow
      BY DEF Init, Voters
    <2> DEFINE none == NoRow
    <2>4. none.status = "none" /\ none.score = 0 /\ none.pinned = FALSE
      BY DEF NoRow
    <2> HIDE DEF none
    <2>5. \A q \in Questions : question[q] = none
      BY <2>3 DEF none
    <2>6. With(question, Listed) = {} /\ With(question, {"answered"}) = {}
      BY <2>4, <2>5 DEF With, Listed
    <2>7. CountersExact
      BY <2>6, FS_EmptySet DEF CountersExact, Counted, Init, NewSession
    <2>8. ScoresExact
      <3>1. \A q \in Questions : Cardinality(Voters(q)) = 0
        BY <2>3, FS_EmptySet, Zenon
      <3> QED
        BY <2>4, <2>5, <3>1 DEF ScoresExact
    <2>9. SinglePin /\ UnaskedUnvoted /\ NamesSatisfiable
      BY <2>3, <2>4, <2>5 DEF SinglePin, OnePinned, UnaskedUnvoted, NamesSatisfiable, Init,
          NewSession
    <2> QED
      BY <2>1, <2>2, <2>7, <2>8, <2>9 DEF IndInv
  <1>2. IndInv /\ [Next]_vars => IndInv'
    BY StepRoom, StepReads, TypeStep DEF IndInv, RoomInv
  <1> QED
    BY <1>1, <1>2, PTL DEF Spec

\* The optimistic protocol: a compare-and-set that will succeed vouches for
\* everything the handler read, whenever it read it.
THEOREM OptimisticReads == Spec => []ReadsConsistent
  <1>1. IndInv => ReadsConsistent
    BY DEF IndInv
  <1> QED
    BY <1>1, RoomInvariant, PTL

\* q_total and q_answered are the numbers they stand for, the score of every
\* question is the number of its votes, and at most one question is pinned.
THEOREM ExactColumns == Spec => []ColumnsExact
  <1>1. IndInv => ColumnsExact
    BY DEF IndInv, ColumnsExact
  <1> QED
    BY <1>1, RoomInvariant, PTL

\* Concurrent settings forms never leave a room that accepts no question.
THEOREM SatisfiableNames == Spec => []NamesSatisfiable
  <1>1. IndInv => NamesSatisfiable
    BY DEF IndInv
  <1> QED
    BY <1>1, RoomInvariant, PTL

\* Every change of the room raises its revision.
THEOREM RevisionTracksRoom == Spec => RevisionCoversChange
  <1>1. IndInv /\ [Next]_vars => [db' # db => session'.revision > session.revision]_vars
    BY StepRoom DEF Raised, db
  <1> QED
    BY <1>1, RoomInvariant, PTL DEF Spec, RevisionCoversChange

\* A change of the room is the commit of one handler, which then ends.
LEMMA ChangesCommit ==
  ASSUME TypeOK, [Next]_vars, db' # db
  PROVE  \E h \in Handlers : Commit(h) /\ CasHolds(h) /\ \A k \in Handlers \ {h} : pc'[k] = pc[k]
  <1>1. PICK h \in Handlers : Commit(h)
    BY DEF Next, Step, LoadForm, RefuseStale, ReadQuestion, ReadVote, Conflict, Crash, Begin,
        Tick, vars, db
  <1>2. Finish(h)
    BY <1>1 DEF Commit, CommitSubmit, CommitVote, CommitPatch, CommitSession
  <1>3. CasHolds(h)
    BY <1>1 DEF Commit, CommitSubmit, CommitVote, CommitPatch, CommitSession, db
  <1>4. \A k \in Handlers \ {h} : pc'[k] = pc[k]
    BY <1>2 DEF Finish, TypeOK
  <1> QED
    BY <1>1, <1>3, <1>4

\* A deleted question and its votes never change again.
THEOREM DeletionIsTerminal == Spec => DeletedIsFinal
  <1> DEFINE Final == \A q \in Questions : question[q].status = "deleted" =>
                         question'[q] = question[q] /\ Voters(q)' = Voters(q)
  <1>1. IndInv /\ [Next]_vars => Final
    <2> SUFFICES ASSUME IndInv, [Next]_vars PROVE Final
      OBVIOUS
    <2>1. CASE db' = db
      BY <2>1 DEF db, Voters
    <2>2. CASE db' # db
      <3>1. PICK h \in Handlers : Commit(h)
        BY <2>2, ChangesCommit DEF IndInv
      <3>2. CASE CommitSubmit(h)
        BY <3>2, SubmitCommit
      <3>3. CASE CommitVote(h)
        BY <2>2, <3>3, VoteCommit DEF db
      <3>4. CASE CommitPatch(h)
        BY <2>2, <3>4, PatchCommit DEF db, Voters
      <3>5. CASE CommitSession(h)
        BY <3>5 DEF CommitSession, Voters
      <3> QED
        BY <3>1, <3>2, <3>3, <3>4, <3>5 DEF Commit
    <2> QED
      BY <2>1, <2>2
  <1> QED
    BY <1>1, RoomInvariant, PTL DEF Spec, DeletedIsFinal

\* Questions and votes arrive only while the room is open.
THEOREM ClosedRoomsDoNotFill == Spec => OnlyOpenRoomsFill
  <1> DEFINE Fills == votes' # votes \/ (\E q \in Questions : /\ question[q].status = "none"
                                                              /\ question'[q].status # "none")
             Open == session.state = "open" /\ session'.state = "open"
  <1>1. IndInv /\ [Next]_vars => (Fills => Open)
    <2> SUFFICES ASSUME IndInv, [Next]_vars, Fills PROVE Open
      OBVIOUS
    <2>1. db' # db
      BY DEF db
    <2>2. PICK h \in Handlers : Commit(h)
      BY <2>1, ChangesCommit DEF IndInv
    <2>3. CASE CommitSubmit(h)
      BY <2>3, SubmitCommit
    <2>4. CASE CommitVote(h)
      BY <2>1, <2>4, VoteCommit DEF db
    <2>5. CASE CommitPatch(h)
      BY <2>1, <2>5, PatchCommit DEF db
    <2>6. CASE CommitSession(h)
      BY <2>6 DEF CommitSession
    <2> QED
      BY <2>2, <2>3, <2>4, <2>5, <2>6 DEF Commit
  <1> QED
    BY <1>1, RoomInvariant, PTL DEF Spec, OnlyOpenRoomsFill

\* A change that h commits is h's own commit, on the revision h read.
LEMMA OwnCommit ==
  ASSUME IndInv, [Next]_vars, NEW h \in Handlers, Commits(h)
  PROVE  Commit(h) /\ CasHolds(h) /\ db' # db
  BY ChangesCommit DEF Commits, IndInv

\* An author's change finds the question visible, theirs and without a second
\* vote at the moment it commits.
THEOREM AuthorRight == Spec => AuthorEditsOwnUnvoted
  <1> DEFINE Right == \A h \in Handlers :
                Commits(h) /\ call[h].kind = "patch" /\ ~call[h].moderator =>
                    LET r == question[call[h].q]
                    IN  r.author = call[h].who /\ r.status = "visible" /\ r.score <= 1
  <1>1. IndInv /\ [Next]_vars => Right
    <2> SUFFICES ASSUME IndInv, [Next]_vars, NEW h \in Handlers, Commits(h),
                        call[h].kind = "patch", ~call[h].moderator
                 PROVE  OwnUnvoted(question[call[h].q], call[h].who)
      BY DEF OwnUnvoted
    <2>1. CommitPatch(h) /\ db' # db
      BY OwnCommit DEF Commit, CommitSubmit, CommitVote, CommitSession, Active
    <2> QED
      BY <2>1, PatchCommit DEF PatchFits, db
  <1> QED
    BY <1>1, RoomInvariant, PTL DEF Spec, AuthorEditsOwnUnvoted

\* A form is applied to the revision it was loaded from, or not at all.
THEOREM FormsAreCurrent == Spec => IfMatchHonoured
  <1> DEFINE Current == \A h \in Handlers :
                Commits(h) /\ expected[h] # 0 => session.revision = expected[h]
  <1>1. IndInv /\ [Next]_vars => Current
    <2> SUFFICES ASSUME IndInv, [Next]_vars, NEW h \in Handlers, Commits(h), expected[h] # 0
                 PROVE  session.revision = expected[h]
      OBVIOUS
    <2>1. Commit(h) /\ CasHolds(h)
      BY OwnCommit
    <2>2. pc[h] \in InTransaction
      BY <2>1 DEF Commit, CommitSubmit, CommitVote, CommitPatch, CommitSession, Active,
          InTransaction
    <2> QED
      BY <2>1, <2>2 DEF IndInv, ChecksRemembered, CasHolds
  <1> QED
    BY <1>1, RoomInvariant, PTL DEF Spec, IfMatchHonoured
=============================================================================
