------------------------ MODULE QnaRefinementProofs ------------------------
(***************************************************************************)
(* Every behaviour of EventQna is one of QnaRoom under the mapping of      *)
(* QnaRefinement.  A step that leaves the committed rows alone stutters; a *)
(* commit is the room's Ask, Vote, Edit or Configure.  The inductive       *)
(* invariant of EventQnaProofs makes the board exact before and after, and *)
(* the rows a handler holds the current ones.                              *)
(***************************************************************************)
EXTENDS QnaRefinement, EventQnaProofs

\* The board and the pin of the mapping, as functions of the rows.
ToldOf(s, rows) ==
    [questions |-> s.q_total, answered |-> s.q_answered,
     score |-> [q \in Questions |-> rows[q].score]]

StatusOf(rows) == [q \in Questions |-> rows[q].status]
AuthorOf(rows) == [q \in Questions |-> rows[q].author]
TextOf(rows) == [q \in Questions |-> rows[q].text]

PinnedIn(rows) == {q \in Questions : rows[q].pinned}
PinOf(rows) == IF PinnedIn(rows) = {} THEN NoQuestion ELSE CHOOSE q \in PinnedIn(rows) : TRUE

VotersIn(v, q) == {w \in Participants : <<q, w>> \in v}

\* The instance counts as the module does.
LEMMA RoomCounts == \A S : Room!Cardinality(S) = Cardinality(S)
  BY DEF Room!Cardinality, Cardinality, Room!IsFiniteSet, IsFiniteSet

\* Rows whose counters and scores are exact make the board of the room.
LEMMA BoardIsExact ==
  ASSUME NEW s, NEW rows, NEW v, Counted(s, rows),
         \A q \in Questions : rows[q].score = Cardinality(VotersIn(v, q))
  PROVE  ToldOf(s, rows) = Room!Board(StatusOf(rows), v)
  <1>1. {q \in Questions : StatusOf(rows)[q] \in Room!Shown} = With(rows, Listed)
    BY DEF StatusOf, With, Room!Shown, Listed
  <1>2. {q \in Questions : StatusOf(rows)[q] = "answered"} = With(rows, {"answered"})
    BY DEF StatusOf, With
  <1>3. \A q \in Questions : Room!VotersOf(v, q) = VotersIn(v, q)
    BY DEF Room!VotersOf, VotersIn
  <1>4. [q \in Questions |-> rows[q].score] =
            [q \in Questions |-> Cardinality(Room!VotersOf(v, q))]
    BY <1>3
  <1>5. Room!Board(StatusOf(rows), v) =
            [questions |-> Cardinality(With(rows, Listed)),
             answered |-> Cardinality(With(rows, {"answered"})),
             score |-> [q \in Questions |-> Cardinality(Room!VotersOf(v, q))]]
    BY <1>1, <1>2, RoomCounts, Zenon DEF Room!Board
  <1> QED
    BY <1>4, <1>5 DEF ToldOf, Counted

\* With at most one pin, the room's slot holds exactly the pinned question.
LEMMA PinIsSlot ==
  ASSUME NEW rows, OnePinned(rows)
  PROVE  /\ PinOf(rows) \in Questions \cup {NoQuestion}
         /\ \A q \in Questions : rows[q].pinned <=> PinOf(rows) = q
  <1>1. CASE PinnedIn(rows) = {}
    BY <1>1, NoQuestionIsNone DEF PinOf, PinnedIn
  <1>2. CASE PinnedIn(rows) # {}
    <2>1. PinOf(rows) \in PinnedIn(rows)
      BY <1>2 DEF PinOf
    <2> QED
      BY <2>1 DEF PinnedIn, OnePinned
  <1> QED
    BY <1>1, <1>2

\* Rows that pin the same questions fill the slot alike.
LEMMA SamePins ==
  ASSUME NEW rows, NEW other, \A q \in Questions : rows[q].pinned <=> other[q].pinned
  PROVE  PinOf(rows) = PinOf(other)
  <1>1. PinnedIn(rows) = PinnedIn(other)
    BY DEF PinnedIn
  <1> QED
    BY <1>1 DEF PinOf

---------------------------------------------------------------------------
(* update_question as the room sees it.                                     *)

\* From u to v only question q changes, but for the pin that moves onto it.
Edits(u, v, q) ==
    /\ v.rows[q].author = u.rows[q].author
    /\ \A o \in Questions \ {q} :
        /\ v.rows[o].status = u.rows[o].status
        /\ v.rows[o].author = u.rows[o].author
        /\ v.rows[o].text = u.rows[o].text
        /\ v.rows[o].pinned = u.rows[o].pinned \/ (v.rows[q].pinned /\ ~v.rows[o].pinned)

\* Text and status touch the row of q alone.
LEMMA TextAndStatusEdit ==
  ASSUME NEW c \in PatchCalls, NEW u \in Units
  PROVE  LET v == SetStatus(SaveText(u, c), c) IN
         /\ v \in Units
         /\ v.rows[c.q].author = u.rows[c.q].author
         /\ \A o \in Questions \ {c.q} : v.rows[o] = u.rows[o]
  <1> DEFINE t == SaveText(u, c)
             v == SetStatus(t, c)
  <1>1. c.q \in Questions
    BY DEF PatchCalls
  <1>2. /\ t \in Units /\ t.rows[c.q].author = u.rows[c.q].author
        /\ \A o \in Questions \ {c.q} : t.rows[o] = u.rows[o]
    <2>1. t \in Units
      BY SaveTextType
    <2> QED
      BY <1>1, <2>1 DEF SaveText, Units, Rows
  <1> HIDE DEF t
  <1>3. /\ v \in Units /\ v.rows[c.q].author = t.rows[c.q].author
        /\ \A o \in Questions \ {c.q} : v.rows[o] = t.rows[o]
    <2>1. v \in Units
      BY <1>2, SetStatusType
    <2>2. CASE c.status \in {"keep", t.row.status}
      BY <2>1, <2>2 DEF SetStatus
    <2>3. CASE c.status \notin {"keep", t.row.status}
      <3> DEFINE pin == t.row.pinned /\ c.status = "visible"
      <3>1. v.rows = [t.rows EXCEPT ![c.q].status = c.status, ![c.q].pinned = pin]
        BY <2>3 DEF SetStatus
      <3> HIDE DEF v, pin
      <3> QED
        BY <1>1, <1>2, <2>1, <3>1 DEF Units, Rows
    <2> QED
      BY <2>2, <2>3
  <1> HIDE DEF v
  <1>4. v.rows[c.q].author = u.rows[c.q].author /\ \A o \in Questions \ {c.q} : v.rows[o] = u.rows[o]
    BY <1>2, <1>3
  <1> QED
    BY <1>3, <1>4 DEF t, v

\* The whole patch is an edit of its question.
LEMMA PatchEdits ==
  ASSUME NEW c \in PatchCalls, NEW u \in Units
  PROVE  Edits(u, Patched(u, c), c.q)
  <1> DEFINE v == SetStatus(SaveText(u, c), c)
             x == SetPin(v, c)
  <1>1. /\ v \in Units /\ v.rows[c.q].author = u.rows[c.q].author
        /\ \A o \in Questions \ {c.q} : v.rows[o] = u.rows[o]
    BY TextAndStatusEdit
  <1>2. c.q \in Questions
    BY DEF PatchCalls
  <1> HIDE DEF v
  <1>3. CASE c.pinned = "keep"
    BY <1>1, <1>3 DEF SetPin, Patched, Edits, v
  <1>4. CASE c.pinned # "keep"
    <2> DEFINE p == (c.pinned = "pin")
    <2>1. x.rows = [q \in Questions |->
                      [v.rows[q] EXCEPT !.pinned = IF q = c.q THEN p ELSE @ /\ ~p]]
      BY <1>4 DEF SetPin
    <2>2. p \in BOOLEAN
      OBVIOUS
    <2> HIDE DEF x, p
    <2>3. x.rows[c.q].author = v.rows[c.q].author /\ x.rows[c.q].pinned = p
      BY <1>1, <1>2, <2>1, <2>2 DEF Units, Rows
    <2>4. ASSUME NEW o \in Questions, o # c.q
          PROVE  /\ x.rows[o].status = v.rows[o].status
                 /\ x.rows[o].author = v.rows[o].author
                 /\ x.rows[o].text = v.rows[o].text
                 /\ x.rows[o].pinned = (v.rows[o].pinned /\ ~p)
      <3>1. x.rows[o] = [v.rows[o] EXCEPT !.pinned = v.rows[o].pinned /\ ~p]
        BY <2>1, <2>4
      <3>2. v.rows[o] \in Rows
        BY <1>1 DEF Units
      <3> QED
        BY <3>1, <3>2 DEF Rows
    <2>5. Edits(u, x, c.q)
      <3>1. \A o \in Questions \ {c.q} : v.rows[o].pinned \in BOOLEAN
        BY <1>1 DEF Units, Rows
      <3> QED
        BY <1>1, <2>2, <2>3, <2>4, <3>1 DEF Edits
    <2> QED
      BY <2>5 DEF Patched, x, v
  <1> QED
    BY <1>3, <1>4

---------------------------------------------------------------------------
(* The mapping.                                                             *)

\* A patch was let into a room that was not archived (_writable_session).
PatchesUnarchived ==
    \A h \in Handlers : pc[h] \in InTransaction /\ call[h].kind = "patch"
        => seen[h].state # "archived"

\* The invariant that the steps of the refinement need.
RefInv == IndInv /\ PatchesUnarchived

\* The unarchived room of a patch is remembered.
LEMMA UnarchivedStep ==
  ASSUME RefInv, [Next]_vars
  PROVE  PatchesUnarchived'
  <1> USE DEF RefInv, PatchesUnarchived
  <1>0. /\ pc \in [Handlers -> {"idle", "form", "session", "question", "vote"}]
        /\ call \in [Handlers -> AllCalls] /\ seen \in [Handlers -> Sessions]
    BY DEF IndInv, TypeOK
  <1>1. ASSUME NEW h \in Handlers, Finish(h) PROVE PatchesUnarchived'
    BY <1>0, <1>1 DEF Finish, InTransaction
  <1>2. ASSUME NEW h \in Handlers, LoadForm(h) PROVE PatchesUnarchived'
    BY <1>0, <1>2 DEF LoadForm, InTransaction
  <1>3. ASSUME NEW h \in Handlers, NEW c \in Calls, Begin(h, c) PROVE PatchesUnarchived'
    <2>1. c.kind = "patch" => session.state # "archived"
      BY <1>3 DEF Begin, SessionAccepts
    <2> QED
      BY <1>0, <1>3, <2>1 DEF Begin
  <1>4. ASSUME NEW h \in Handlers, ReadQuestion(h) PROVE PatchesUnarchived'
    BY <1>0, <1>1, <1>4 DEF ReadQuestion, Active, InTransaction
  <1>5. ASSUME NEW h \in Handlers, ReadVote(h) PROVE PatchesUnarchived'
    BY <1>0, <1>5 DEF ReadVote, Active, InTransaction
  <1>6. ASSUME NEW h \in Handlers, RefuseStale(h) \/ Conflict(h) \/ Crash(h) \/ Commit(h)
        PROVE  Finish(h)
    BY <1>6 DEF RefuseStale, Conflict, Crash, Commit, CommitSubmit, CommitVote, CommitPatch,
        CommitSession
  <1>7. CASE Tick \/ UNCHANGED vars
    BY <1>7 DEF Tick, vars
  <1> QED
    BY <1>1, <1>2, <1>3, <1>4, <1>5, <1>6, <1>7 DEF Next, Step

\* The invariant of the refinement.
LEMMA RefInvariant == Spec => []RefInv
  <1>1. Init => PatchesUnarchived
    BY DEF Init, PatchesUnarchived, InTransaction
  <1>2. IndInv /\ PatchesUnarchived /\ [Next]_vars => PatchesUnarchived'
    BY UnarchivedStep DEF RefInv
  <1> QED
    BY <1>1, <1>2, RoomInvariant, PTL DEF Spec, RefInv

\* Whatever a step does, the board shows the room afterwards.
LEMMA BoardShown ==
  ASSUME IndInv'
  PROVE  ToldOf(session, question)' = Room!Board(StatusOf(question'), votes')
  <1>1. Counted(session', question')
    BY DEF IndInv, CountersExact, Counted, With
  <1>2. \A q \in Questions : question'[q].score = Cardinality(VotersIn(votes', q))
    BY DEF IndInv, ScoresExact, Voters, VotersIn
  <1>3. ToldOf(session', question') = Room!Board(StatusOf(question'), votes')
    BY <1>1, <1>2, BoardIsExact
  <1> QED
    BY <1>3 DEF ToldOf

\* Nothing the room shows changes while the rows do not.
LEMMA QuietStutters ==
  ASSUME UNCHANGED db
  PROVE  UNCHANGED Room!vars
  BY DEF db, Room!vars, Pinned, Told

\* submit_question is the room's Ask.
LEMMA SubmitAsks ==
  ASSUME RefInv, IndInv', NEW h \in Handlers, CommitSubmit(h)
  PROVE  \E q \in Questions, w \in Participants, t \in Texts : Room!Ask(q, w, t)
  <1>1. /\ pc[h] = "session" /\ call[h].kind = "submit" /\ CasHolds(h)
        /\ session' = [session EXCEPT !.q_total = seen[h].q_total + 1,
                                      !.revision = seen[h].revision + 1]
    BY DEF CommitSubmit, Active
  <1>2. call[h].who \in Participants /\ call[h].text \in Texts
    BY <1>1, CallFields DEF RefInv, IndInv, TypeOK, SubmitCalls
  <1>3. PICK w \in Participants : w = call[h].who
    BY <1>2
  <1>4. PICK t \in Texts : t = call[h].text
    BY <1>2
  <1>5. PICK q \in Questions :
            /\ question[q].status = "none"
            /\ question' = [question EXCEPT ![q] =
                  [status |-> "visible", author |-> w, text |-> t,
                   score |-> 1, pinned |-> FALSE, created_at |-> now]]
            /\ votes' = votes \cup {<<q, w>>}
    BY <1>3, <1>4 DEF CommitSubmit
  <1>6. session \in Sessions /\ question \in [Questions -> Rows] /\ seen[h] = session
        /\ session.state = "open"
    BY <1>1 DEF RefInv, IndInv, TypeOK, ReadsConsistent, ChecksRemembered, InTransaction
  <1>7. /\ session.state = "open" /\ session'.state = session.state
        /\ session'.allow_names = session.allow_names
        /\ session'.require_names = session.require_names
    BY <1>1, <1>6 DEF Sessions
  <1>8. /\ StatusOf(question') = [StatusOf(question) EXCEPT ![q] = "visible"]
        /\ AuthorOf(question') = [AuthorOf(question) EXCEPT ![q] = w]
        /\ TextOf(question') = [TextOf(question) EXCEPT ![q] = t]
    BY <1>5, <1>6 DEF StatusOf, AuthorOf, TextOf
  <1>9. PinOf(question') = PinOf(question)
    <2>1. ~question[q].pinned
      BY <1>5 DEF RefInv, IndInv, SinglePin, OnePinned, Listed
    <2>2. \A o \in Questions : question'[o].pinned <=> question[o].pinned
      BY <1>5, <1>6, <2>1
    <2> QED
      BY <2>2, SamePins
  <1>10. Room!Ask(q, w, t)
    BY <1>5, <1>7, <1>8, <1>9, BoardShown DEF Room!Ask, Room!ShowBoard, StatusOf, AuthorOf,
        TextOf, PinOf, PinnedIn, Pinned, Told, ToldOf
  <1> QED
    BY <1>10

\* vote_question is the room's Vote.
LEMMA VoteVotes ==
  ASSUME RefInv, IndInv', NEW h \in Handlers, CommitVote(h), ~UNCHANGED db
  PROVE  \E q \in Questions, w \in Participants : Room!Vote(q, w)
  <1> DEFINE q == call[h].q
             w == call[h].who
  <1>1. /\ pc[h] = "vote" /\ call[h].kind = "vote" /\ CasHolds(h)
        /\ votes' = IF call[h].add THEN votes \cup {<<q, w>>} ELSE votes \ {<<q, w>>}
        /\ question' = [question EXCEPT ![q].score = VotedScore(h)]
        /\ session' = [session EXCEPT !.revision = seen[h].revision + 1]
    BY DEF CommitVote, Active, db
  <1>2. q \in Questions /\ w \in Participants
    BY <1>1, CallFields DEF RefInv, IndInv, TypeOK, VoteCalls
  <1>3. /\ session \in Sessions /\ question \in [Questions -> Rows]
        /\ session.state = "open" /\ question[q].status \in Listed
    BY <1>1 DEF RefInv, IndInv, TypeOK, ReadsConsistent, ChecksRemembered, InTransaction
  <1>4. /\ session'.state = session.state
        /\ session'.allow_names = session.allow_names
        /\ session'.require_names = session.require_names
    BY <1>1, <1>3 DEF Sessions
  <1>5. ASSUME NEW o \in Questions
        PROVE  /\ question'[o].status = question[o].status
               /\ question'[o].author = question[o].author
               /\ question'[o].text = question[o].text
               /\ question'[o].pinned = question[o].pinned
    BY <1>1, <1>2, <1>3 DEF Rows
  <1>6. /\ StatusOf(question') = StatusOf(question)
        /\ AuthorOf(question') = AuthorOf(question)
        /\ TextOf(question') = TextOf(question)
    BY <1>5 DEF StatusOf, AuthorOf, TextOf
  <1>7. PinOf(question') = PinOf(question)
    BY <1>5, SamePins
  <1>8. Room!Vote(q, w)
    BY <1>1, <1>2, <1>3, <1>4, <1>6, <1>7, BoardShown DEF Room!Vote, Room!ShowBoard, Room!Shown,
        Listed, StatusOf, AuthorOf, TextOf, PinOf, PinnedIn, Pinned, Told, ToldOf
  <1> QED
    BY <1>2, <1>8

\* update_question is the room's Edit of its question.
LEMMA PatchIsEdit ==
  ASSUME RefInv, IndInv', NEW h \in Handlers, CommitPatch(h), ~UNCHANGED db
  PROVE  \E q \in Questions : Room!Edit(q)
  <1> DEFINE c == call[h]
             u == [session |-> session, row |-> question[c.q], rows |-> question]
             v == PatchUnit(h)
  <1>1. /\ CasHolds(h) /\ v.session # seen[h] /\ question' = v.rows /\ votes' = votes
        /\ session' = [session EXCEPT !.q_total = v.session.q_total,
                                      !.q_answered = v.session.q_answered,
                                      !.revision = v.session.revision]
        /\ pc[h] = "question" /\ c.kind = "patch"
    BY DEF CommitPatch, Active, db
  <1>2. c \in PatchCalls /\ c.q \in Questions
    BY <1>1, CallFields DEF RefInv, IndInv, TypeOK, PatchCalls
  <1>3. /\ session \in Sessions /\ question \in [Questions -> Rows] /\ u \in Units
        /\ seen[h] = session /\ row[h] = question[c.q]
    BY <1>1, <1>2 DEF RefInv, IndInv, TypeOK, ReadsConsistent, InTransaction, Units
  <1>4. session.state # "archived"
    BY <1>1, <1>3 DEF RefInv, PatchesUnarchived, InTransaction
  <1>5. v = Patched(u, c)
    BY <1>3 DEF PatchUnit
  <1>6. PatchFits(question[c.q], c)
    BY <1>1, <1>3 DEF RefInv, IndInv, ChecksRemembered, InTransaction
  <1>7. question[c.q].status \in Listed
    <2> SUFFICES ASSUME question[c.q].status = "deleted" PROVE FALSE
      BY <1>2, <1>3, <1>6 DEF PatchFits, Rows, Statuses
    <2>1. c.text = "keep" /\ c.pinned = "keep" /\ c.status \in {"keep", "deleted"}
      BY <1>6 DEF PatchFits
    <2>2. Patched(u, c) = u
      BY <2>1 DEF Patched, SaveText, SetStatus, SetPin
    <2> QED
      BY <1>1, <1>3, <1>5, <2>2
  <1>8. Edits(u, v, c.q)
    BY <1>2, <1>3, <1>5, PatchEdits
  <1>9. question' \in [Questions -> Rows]
    BY DEF IndInv, TypeOK
  <1>10. PICK q \in Questions : q = c.q
    BY <1>2
  <1> HIDE DEF v, c
  <1>11. /\ question'[q].author = question[q].author
         /\ \A o \in Questions \ {q} :
             /\ question'[o].status = question[o].status
             /\ question'[o].author = question[o].author
             /\ question'[o].text = question[o].text
             /\ \/ question'[o].pinned = question[o].pinned
                \/ question'[q].pinned /\ ~question'[o].pinned
    BY <1>1, <1>8, <1>10 DEF Edits
  <1>12. question'[q].status \in Statuses
    <2>1. question'[q].status # "none"
      BY <1>7, <1>10, PatchCommit DEF c, RefInv, Listed
    <2> QED
      BY <1>9, <2>1 DEF Rows
  <1>13. /\ StatusOf(question') = [StatusOf(question) EXCEPT ![q] = question'[q].status]
         /\ AuthorOf(question') = AuthorOf(question)
         /\ TextOf(question') = [TextOf(question) EXCEPT ![q] = question'[q].text]
    BY <1>11 DEF StatusOf, AuthorOf, TextOf
  <1>14. OnePinned(question) /\ OnePinned(question')
    BY DEF RefInv, IndInv, SinglePin, OnePinned
  <1>15. /\ PinOf(question) \in Questions \cup {NoQuestion}
         /\ \A o \in Questions : question[o].pinned <=> PinOf(question) = o
    BY <1>14, PinIsSlot
  <1>16. /\ PinOf(question') \in Questions \cup {NoQuestion}
         /\ \A o \in Questions : question'[o].pinned <=> PinOf(question') = o
    BY <1>14, PinIsSlot
  <1>17. PinOf(question') \in {PinOf(question), q, NoQuestion}
    BY <1>11, <1>15, <1>16
  <1>18. PinOf(question') = q => question'[q].status \in Listed
    BY <1>14, <1>16 DEF OnePinned
  <1>19. PinOf(question) # q /\ PinOf(question') = NoQuestion => PinOf(question) = NoQuestion
    BY <1>11, <1>15, <1>16, NoQuestionIsNone
  <1>20. /\ session'.state = session.state
         /\ session'.allow_names = session.allow_names
         /\ session'.require_names = session.require_names
    BY <1>1, <1>3 DEF Sessions
  <1>21. question'[q].text \in Texts
    BY <1>9 DEF Rows
  <1>22. Room!Rewrite(q)
    BY <1>13, <1>21 DEF Room!Rewrite, TextOf
  <1>23. Room!ShowBoard
    BY BoardShown DEF Room!ShowBoard, StatusOf, Told, ToldOf
  <1>24. /\ [o \in Questions |-> question[o].status][q] \in Room!Shown
         /\ \E s \in {"visible", "answered", "deleted"} :
                StatusOf(question') = [StatusOf(question) EXCEPT ![q] = s]
    BY <1>7, <1>10, <1>12, <1>13 DEF Room!Shown, Listed, Statuses
  <1>25. PinOf(question') = q => StatusOf(question')[q] \in Room!Shown
    BY <1>18 DEF StatusOf, Room!Shown, Listed
  <1>26. Room!Edit(q)
    BY <1>1, <1>4, <1>13, <1>17, <1>19, <1>20, <1>22, <1>23, <1>24, <1>25 DEF Room!Edit,
        StatusOf, AuthorOf, PinOf, PinnedIn, Pinned
  <1> QED
    BY <1>26

---------------------------------------------------------------------------
(* Settings and lifecycle.                                                  *)

\* The states one call may take a room to, by way of its expiry or not.
Reachable(s) ==
    {s} \cup Room!Lifecycle[s] \cup (IF s = "open" THEN {"open"} \cup Room!Lifecycle["closed"] ELSE {})

\* _transition_locked sets the state it was asked for and keeps the names.
LEMMA MoveState ==
  ASSUME NEW s \in Sessions, NEW t \in States, now \in Nat
  PROVE  /\ Move(s, t).state = t
         /\ Move(s, t).allow_names = s.allow_names
         /\ Move(s, t).require_names = s.require_names
  <1>1. CASE t = s.state
    BY <1>1 DEF Move
  <1>2. CASE t # s.state
    <2> DEFINE deadline == IF t = "archived" THEN now + ArchiveDelete ELSE Null
    <2>1. Move(s, t) = Bump([s EXCEPT !.state = t, !.archive_delete_at = deadline])
      BY <1>2 DEF Move
    <2> HIDE DEF deadline
    <2> QED
      BY <2>1 DEF Bump, Sessions
  <1> QED
    BY <1>1, <1>2

\* _refresh_expiry at most closes an open room.
LEMMA RefreshState ==
  ASSUME NEW s \in Sessions, now \in Nat
  PROVE  /\ RefreshExpiry(s).state = s.state
                \/ (s.state = "open" /\ RefreshExpiry(s).state = "closed")
         /\ RefreshExpiry(s).allow_names = s.allow_names
         /\ RefreshExpiry(s).require_names = s.require_names
  BY MoveState DEF RefreshExpiry, Expired, States

\* update_session moves the room as the contract allows; an archived room keeps
\* its names.
LEMMA ConfiguredState ==
  ASSUME NEW s \in Sessions, NEW c \in SettingsCalls, now \in Nat, SettingsAccepted(s, c)
  PROVE  /\ Configured(s, c).state \in Reachable(s.state)
         /\ s.state = "archived" => /\ Configured(s, c).allow_names = s.allow_names
                                    /\ Configured(s, c).require_names = s.require_names
  <1> DEFINE t == RefreshExpiry(s)
             r == WithFields(t, c)
             x == WithState(r, c)
  <1>1. /\ t \in Sessions /\ t.state \in States /\ s.state \in States
        /\ t.state = s.state \/ (s.state = "open" /\ t.state = "closed")
        /\ t.allow_names = s.allow_names /\ t.require_names = s.require_names
    BY RefreshType, RefreshState DEF Sessions
  <1>2. /\ t.state = "archived" => ~ChangesFields(c)
        /\ c.target # "keep" => MayMove(r, c.target)
    BY DEF SettingsAccepted
  <1> HIDE DEF t
  <1>3. r \in Sessions /\ r.state = t.state
    <2> DEFINE a == Switch(c.allow, t.allow_names)
               q == Switch(c.require, t.require_names)
               e == IF c.expires = Unset THEN t.expires_at ELSE c.expires
    <2>1. CASE ~ChangesFields(c)
      BY <1>1, <2>1 DEF WithFields
    <2>2. CASE ChangesFields(c)
      <3>1. r = Bump([t EXCEPT !.allow_names = a, !.require_names = q, !.expires_at = e])
        BY <2>2 DEF WithFields
      <3>2. a \in BOOLEAN /\ q \in BOOLEAN /\ e \in Times
        BY <1>1 DEF Switch, Sessions, SettingsCalls, Times, Unset
      <3> DEFINE base == [t EXCEPT !.allow_names = a, !.require_names = q, !.expires_at = e]
      <3> HIDE DEF a, q, e, r
      <3>3. base \in Sessions /\ base.state = t.state
        BY <1>1, <3>2 DEF Sessions
      <3> HIDE DEF base
      <3>4. r = Bump(base)
        BY <3>1 DEF base
      <3> QED
        BY <3>3, <3>4 DEF Bump, Sessions
    <2> QED
      BY <2>1, <2>2
  <1>4. t.state = "archived" => r = t
    BY <1>2 DEF WithFields
  <1> HIDE DEF r
  <1>5. c.target # "keep" => c.target \in States
    BY DEF SettingsCalls
  <1>6. /\ x.state = IF c.target = "keep" THEN t.state ELSE c.target
        /\ x.allow_names = r.allow_names /\ x.require_names = r.require_names
    BY <1>3, <1>5, MoveState DEF WithState
  <1> HIDE DEF x
  <1>7. c.target # "keep" => c.target = t.state \/ c.target \in Transitions[t.state]
    BY <1>2, <1>3 DEF MayMove
  <1>8. x.state \in Reachable(s.state)
    BY <1>1, <1>6, <1>7 DEF Reachable, Transitions, Room!Lifecycle, States
  <1>9. s.state = "archived" => x.allow_names = s.allow_names /\ x.require_names = s.require_names
    BY <1>1, <1>4, <1>6
  <1> QED
    BY <1>8, <1>9 DEF Configured, t, r, x

\* transition_session, update_session and the poll are the room's Configure.
LEMMA SessionConfigures ==
  ASSUME RefInv, IndInv', NEW h \in Handlers, CommitSession(h), ~UNCHANGED db
  PROVE  Room!Configure
  <1> DEFINE c == call[h]
             r == SessionResult(h)
  <1>1. /\ SessionAccepted(h) /\ CasHolds(h) /\ UNCHANGED <<question, votes>>
        /\ session' = [r EXCEPT !.q_total = session.q_total, !.q_answered = session.q_answered]
        /\ pc[h] = "session" /\ c.kind \in {"transition", "settings", "list"}
    BY DEF CommitSession, Active, db
  <1>2. seen[h] = session /\ now \in Nat /\ session \in Sessions /\ session.state \in States
    BY <1>1 DEF RefInv, IndInv, TypeOK, ReadsConsistent, InTransaction, Sessions
  <1>3. r \in Sessions
    BY <1>1, SessionResultType DEF RefInv, IndInv
  <1>4. /\ r.state \in Reachable(session.state)
        /\ session.state = "archived" => /\ r.allow_names = session.allow_names
                                         /\ r.require_names = session.require_names
    <2>1. CASE c.kind = "transition"
      <3>1. c \in TransitionCalls
        BY <2>1, CallFields DEF RefInv, IndInv, TypeOK
      <3>2. r = Move(session, c.target) /\ MayMove(session, c.target) /\ c.target \in States
        BY <1>1, <1>2, <2>1, <3>1 DEF SessionResult, SessionAccepted, TransitionCalls
      <3> QED
        BY <1>2, <3>2, MoveState DEF MayMove, Reachable, Transitions, Room!Lifecycle, States
    <2>2. CASE c.kind = "settings"
      <3>1. c \in SettingsCalls
        BY <2>2, CallFields DEF RefInv, IndInv, TypeOK
      <3>2. r = Configured(session, c) /\ SettingsAccepted(session, c)
        BY <1>1, <1>2, <2>2 DEF SessionResult, SessionAccepted
      <3> QED
        BY <1>2, <3>1, <3>2, ConfiguredState
    <2>3. CASE c.kind = "list"
      <3>1. r = RefreshExpiry(session)
        BY <1>2, <2>3 DEF SessionResult
      <3> QED
        BY <1>2, <3>1, RefreshState DEF Reachable, Room!Lifecycle, States
    <2> QED
      BY <1>1, <2>1, <2>2, <2>3
  <1> HIDE DEF r
  <1>5. /\ session'.state = r.state /\ session'.allow_names = r.allow_names
        /\ session'.require_names = r.require_names
        /\ session'.q_total = session.q_total /\ session'.q_answered = session.q_answered
        /\ r.allow_names \in BOOLEAN /\ r.require_names \in BOOLEAN
    BY <1>1, <1>3 DEF Sessions
  <1>6. session'.allow_names \/ ~session'.require_names
    BY DEF IndInv, NamesSatisfiable
  <1>7. UNCHANGED Room!content
    BY <1>1, <1>5 DEF Room!content, Pinned, Told
  <1> QED
    BY <1>4, <1>5, <1>6, <1>7 DEF Room!Configure, Reachable

---------------------------------------------------------------------------
\* The session row and the empty tables are an empty room.
LEMMA InitRefines ==
  ASSUME Init, IndInv
  PROVE  Room!Init
  <1>1. session = NewSession /\ question = [q \in Questions |-> NoRow] /\ votes = {}
    BY DEF Init
  <1>2. NoRow \in Rows /\ NoRow.status = "none" /\ NoRow.pinned = FALSE
    BY InitialRows DEF NoRow
  <1>3. Pinned = {}
    BY <1>1, <1>2 DEF Pinned
  <1>4. Counted(session, question)
    BY DEF IndInv, CountersExact
  <1>5. \A q \in Questions : question[q].score = Cardinality(VotersIn(votes, q))
    BY DEF IndInv, ScoresExact, Voters, VotersIn
  <1>6. ToldOf(session, question) = Room!Board(StatusOf(question), votes)
    BY <1>4, <1>5, BoardIsExact
  <1>7. session.state = "draft" /\ session.allow_names = TRUE /\ session.require_names = FALSE
    BY <1>1 DEF NewSession
  <1>8. StatusOf(question) = [q \in Questions |-> "none"]
    BY <1>1, <1>2 DEF StatusOf
  <1>9. /\ [q \in Questions |-> question[q].author] \in [Questions -> Participants]
        /\ [q \in Questions |-> question[q].text] \in [Questions -> Texts]
    BY DEF IndInv, TypeOK, Rows
  <1> QED
    BY <1>1, <1>3, <1>6, <1>7, <1>8, <1>9 DEF Room!Init, StatusOf, Told, ToldOf

\* Every step of the handlers is an operation on the room, or none.
LEMMA StepRefines ==
  ASSUME RefInv, IndInv', [Next]_vars
  PROVE  [Room!Next]_Room!vars
  <1>1. CASE db' = db
    <2>1. UNCHANGED db
      BY <1>1
    <2> QED
      BY <2>1, QuietStutters
  <1>2. CASE db' # db
    <2>1. PICK h \in Handlers : Commit(h)
      BY <1>2, ChangesCommit DEF RefInv, IndInv
    <2>2. CASE CommitSubmit(h)
      BY <2>2, SubmitAsks DEF Room!Next
    <2>3. CASE CommitVote(h)
      BY <1>2, <2>3, VoteVotes DEF Room!Next
    <2>4. CASE CommitPatch(h)
      BY <1>2, <2>4, PatchIsEdit DEF Room!Next
    <2>5. CASE CommitSession(h)
      BY <1>2, <2>5, SessionConfigures DEF Room!Next
    <2> QED
      BY <2>1, <2>2, <2>3, <2>4, <2>5 DEF Commit
  <1> QED
    BY <1>1, <1>2

\* The handlers, with their unlocked reads and compare-and-sets, implement the
\* room whose operations are indivisible (services.py against the contract).
THEOREM RoomImplemented == Spec => ImplementsRoom
  <1>1. Init /\ IndInv => Room!Init
    BY InitRefines
  <1>2. RefInv /\ RefInv' /\ [Next]_vars => [Room!Next]_Room!vars
    BY StepRefines DEF RefInv
  <1>3. RefInv => IndInv
    BY DEF RefInv
  <1> QED
    BY <1>1, <1>2, <1>3, RefInvariant, PTL DEF Spec, ImplementsRoom, Room!Spec
=============================================================================
