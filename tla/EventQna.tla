----------------------------- MODULE EventQna -----------------------------
(***************************************************************************)
(* The question room of one event: src/event_qna/services.py, served by    *)
(* concurrent request handlers over PostgreSQL READ COMMITTED.             *)
(*                                                                         *)
(* A handler takes no row lock.  It reads the session row, then, where it  *)
(* needs them, the question row and the vote row, each in a statement of   *)
(* its own that sees what is committed at that moment; it then writes and  *)
(* ends with _bump_session, an UPDATE of the session row WHERE revision =  *)
(* the revision it read.  When that UPDATE matches no row the whole        *)
(* transaction is rolled back.  So one handler is the steps                *)
(*    [LoadForm] Begin [ReadQuestion [ReadVote]] Commit...                 *)
(* between which other handlers commit; Crash may cut it anywhere.         *)
(***************************************************************************)
EXTENDS Integers, FiniteSets

CONSTANTS
    Handlers,       \* concurrent request handlers
    Pages,          \* the handlers that serve open public pages: they load no form
    Participants,   \* signed participant cookies
    Questions,      \* question ids that opaque_id() may return
    Texts,          \* question texts
    Calls,          \* the calls clients make, a subset of AllCalls
    EditWindow,     \* QUESTION_EDIT_WINDOW
    ArchiveDelete,  \* ARCHIVE_DELETE_DAYS
    MaxRevision,    \* bound: no handler starts once the revision is this high
    MaxTime         \* bound: the clock stops here

ASSUME HandlersFinite == IsFiniteSet(Handlers)
ASSUME PagesAreHandlers == Pages \subseteq Handlers
ASSUME ParticipantsFinite == IsFiniteSet(Participants)
ASSUME QuestionsFinite == IsFiniteSet(Questions)
ASSUME BoundsAreNat ==
    /\ EditWindow \in Nat /\ ArchiveDelete \in Nat
    /\ MaxRevision \in Nat /\ MaxTime \in Nat

---------------------------------------------------------------------------
(* Rows. *)

States == {"draft", "open", "closed", "archived"}
Listed == {"visible", "answered"}               \* PUBLIC_STATUSES
Statuses == Listed \cup {"deleted"}             \* QUESTION_STATUSES
Null == -1                                      \* SQL NULL of a time column
Times == Nat \cup {Null}

Sessions ==
    [state: States, revision: Nat, expires_at: Times, archive_delete_at: Times,
     allow_names: BOOLEAN, require_names: BOOLEAN, q_total: Nat, q_answered: Nat]

\* A question row; status "none" is an id that no row has yet.
Rows ==
    [status: Statuses \cup {"none"}, author: Participants, text: Texts,
     score: Nat, pinned: BOOLEAN, created_at: Nat]

(* Calls.  "keep" (and Unset for a time) is a field absent from the payload;   *)
(* other is a payload with columns no property tells apart: listed,           *)
(* answered_placement, default_sort, retention_days.                          *)

Unset == -2
SubmitCalls == [kind: {"submit"}, who: Participants, text: Texts, named: BOOLEAN]
VoteCalls == [kind: {"vote"}, who: Participants, q: Questions, add: BOOLEAN]
PatchCalls ==
    [kind: {"patch"}, who: Participants, moderator: BOOLEAN, q: Questions,
     text: Texts \cup {"keep"}, status: Statuses \cup {"keep"},
     pinned: {"pin", "unpin", "keep"}]
TransitionCalls == [kind: {"transition"}, target: States]
SettingsCalls ==
    [kind: {"settings"}, allow: {"on", "off", "keep"}, require: {"on", "off", "keep"},
     other: BOOLEAN, expires: Times \cup {Unset}, target: States \cup {"keep"}]
ListCalls == [kind: {"list"}]
AllCalls ==
    SubmitCalls \cup VoteCalls \cup PatchCalls \cup TransitionCalls
        \cup SettingsCalls \cup ListCalls

ASSUME CallsAreCalls == Calls \subseteq AllCalls

---------------------------------------------------------------------------
VARIABLES
    session,    \* the EventQnaSession row
    question,   \* the EventQnaQuestion rows, by id
    votes,      \* the EventQnaVote rows: <<question id, participant>>
    now,        \* timezone.now()
    pc,         \* handler: "idle", "form", "session", "question" or "vote"
    call,       \* handler: the call it serves
    expected,   \* handler: If-Match revision, 0 when the call carries none
    seen,       \* handler: the session instance it read
    row,        \* handler: the question instance it read
    voted       \* handler: whether it read a vote of this participant

db == <<session, question, votes>>
local == <<pc, call, expected, seen, row, voted>>
vars == <<session, question, votes, now, pc, call, expected, seen, row, voted>>

NoCall == [kind |-> "list"]

\* The session row that _get_or_create_session inserts.
NewSession ==
    [state |-> "draft", revision |-> 1, expires_at |-> Null, archive_delete_at |-> Null,
     allow_names |-> TRUE, require_names |-> FALSE, q_total |-> 0, q_answered |-> 0]

NoRow ==
    [status |-> "none", author |-> CHOOSE w \in Participants : TRUE,
     text |-> CHOOSE t \in Texts : TRUE, score |-> 0, pinned |-> FALSE, created_at |-> 0]

ASSUME SomebodyAndSomething == Participants # {} /\ Texts # {}

Init ==
    /\ session = NewSession
    /\ question = [q \in Questions |-> NoRow]
    /\ votes = {}
    /\ now = 0
    /\ pc = [h \in Handlers |-> "idle"]
    /\ call = [h \in Handlers |-> NoCall]
    /\ expected = [h \in Handlers |-> 0]
    /\ seen = [h \in Handlers |-> NewSession]
    /\ row = [h \in Handlers |-> NoRow]
    /\ voted = [h \in Handlers |-> FALSE]

---------------------------------------------------------------------------
(* The pure parts of the services, on an in-memory session s and row r. *)

Expired(s) == s.state = "open" /\ s.expires_at # Null /\ s.expires_at <= now

Transitions ==
    [draft |-> {"open", "archived"}, open |-> {"closed", "archived"},
     closed |-> {"open", "archived"}, archived |-> {"open", "closed"}]

MayMove(s, target) == target = s.state \/ target \in Transitions[s.state]

\* Mutant of Bump: the revision is written back as it was read.
BumpForgotten(s) == s

Bump(s) == [s EXCEPT !.revision = @ + 1]

\* _transition_locked, for a target MayMove allows.
Move(s, target) ==
    IF target = s.state THEN s
    ELSE Bump([s EXCEPT !.state = target,
                        !.archive_delete_at =
                            IF target = "archived" THEN now + ArchiveDelete ELSE Null])

\* Mutant of RefreshExpiry: the poll leaves an expired room open.
RefreshExpiryNever(s) == s

\* _refresh_expiry
RefreshExpiry(s) == IF Expired(s) THEN Move(s, "closed") ELSE s

\* _validate_name against the settings of the session that was read.
NameAccepted(s, named) == IF named THEN s.allow_names ELSE ~s.require_names

\* Mutant of OwnUnvoted: a second vote does not end the author's right.
OwnUnvotedLate(r, who) == r.author = who /\ r.status = "visible" /\ r.score <= 2

\* can_author_edit is OwnUnvoted within the edit window.
OwnUnvoted(r, who) == r.author = who /\ r.status = "visible" /\ r.score <= 1
CanAuthorEdit(r, who) == OwnUnvoted(r, who) /\ r.created_at + EditWindow > now

Switch(field, old) == IF field = "keep" THEN old ELSE field = "on"

\* update_session: the merged settings must leave some name acceptable, and an
\* archived session takes nothing but a new state.
ChangesSettings(c) == c.allow # "keep" \/ c.require # "keep"
ChangesFields(c) == ChangesSettings(c) \/ c.other \/ c.expires # Unset

WithFields(s, c) ==
    IF ChangesFields(c)
    THEN Bump([s EXCEPT !.allow_names = Switch(c.allow, @),
                        !.require_names = Switch(c.require, @),
                        !.expires_at = IF c.expires = Unset THEN @ ELSE c.expires])
    ELSE s

WithState(s, c) == IF c.target = "keep" THEN s ELSE Move(s, c.target)

\* update_session after the read of s and the expected_revision check.
Configured(s, c) == WithState(WithFields(RefreshExpiry(s), c), c)

\* Mutant of SettingsAccepted: the payload is checked, not the merged settings.
SettingsAcceptedRaw(s, c) ==
    /\ RefreshExpiry(s).state = "archived" => ~ChangesFields(c)
    /\ c.allow # "off" \/ c.require # "on"
    /\ c.target # "keep" => MayMove(WithFields(RefreshExpiry(s), c), c.target)

SettingsAccepted(s, c) ==
    LET refreshed == RefreshExpiry(s)
        merged == WithFields(refreshed, c)
    IN  /\ refreshed.state = "archived" => ~ChangesFields(c)
        /\ ChangesSettings(c) => merged.allow_names \/ ~merged.require_names
        /\ c.target # "keep" => MayMove(merged, c.target)

(* update_question on u = [session, row, rows]: the session and question      *)
(* instances in memory and the question table as the transaction writes it.   *)

SaveText(u, c) ==
    IF c.text = "keep" THEN u
    ELSE [session |-> Bump(u.session),
          row |-> [u.row EXCEPT !.text = c.text],
          rows |-> [u.rows EXCEPT ![c.q].text = c.text]]

\* Mutant of SetStatus: a repeated delete counts again, below zero.
SetStatusRepeats(u, c) ==
    IF c.status = "keep" THEN u
    ELSE [session |-> Bump([u.session EXCEPT !.q_total = @ - (IF c.status = "deleted" THEN 1 ELSE 0)]),
          row |-> [u.row EXCEPT !.status = c.status, !.pinned = FALSE],
          rows |-> [u.rows EXCEPT ![c.q].status = c.status, ![c.q].pinned = FALSE]]

\* _set_status_locked, for a row that is not deleted or a repeated delete.
SetStatus(u, c) ==
    IF c.status \in {"keep", u.row.status} THEN u
    ELSE LET pin == u.row.pinned /\ c.status = "visible"
             left == IF u.row.status = "answered" /\ u.session.q_answered > 0 THEN 1 ELSE 0
             joined == IF c.status = "answered" THEN 1 ELSE 0
             gone == IF c.status = "deleted" /\ u.session.q_total > 0 THEN 1 ELSE 0
         IN  [session |-> Bump([u.session EXCEPT !.q_answered = @ - left + joined,
                                                 !.q_total = @ - gone]),
              row |-> [u.row EXCEPT !.status = c.status, !.pinned = pin],
              rows |-> [u.rows EXCEPT ![c.q].status = c.status, ![c.q].pinned = pin]]

\* Mutant of SetPin: the pin of another question stays.
SetPinAlone(u, c) ==
    IF c.pinned = "keep" THEN u
    ELSE [session |-> Bump(u.session),
          row |-> [u.row EXCEPT !.pinned = c.pinned = "pin"],
          rows |-> [u.rows EXCEPT ![c.q].pinned = c.pinned = "pin"]]

\* _set_pin_locked: pinning a question unpins every other one.
SetPin(u, c) ==
    IF c.pinned = "keep" THEN u
    ELSE [session |-> Bump(u.session),
          row |-> [u.row EXCEPT !.pinned = c.pinned = "pin"],
          rows |-> [q \in Questions |->
                       [u.rows[q] EXCEPT !.pinned = IF q = c.q THEN c.pinned = "pin"
                                                    ELSE @ /\ c.pinned # "pin"]]]

Patched(u, c) == SetPin(SetStatus(SaveText(u, c), c), c)

\* Mutant of PatchFits: a deleted question takes changes.
PatchFitsDeleted(r, c) ==
    /\ r.status # "none"
    /\ ~c.moderator => /\ OwnUnvoted(r, c.who)
                       /\ c.pinned = "keep" /\ c.status \in {"keep", "deleted"}
    /\ c.status = "deleted" => c.pinned = "keep"

\* The refusals of update_question that depend on the row: of a missing row,
\* of what is not an author's to change, of a change to a deleted question and
\* of a pin that follows a delete.
PatchFits(r, c) ==
    /\ r.status # "none"
    /\ ~c.moderator => /\ OwnUnvoted(r, c.who)
                       /\ c.pinned = "keep" /\ c.status \in {"keep", "deleted"}
    /\ r.status = "deleted" => /\ c.text = "keep" /\ c.pinned = "keep"
                               /\ c.status \in {"keep", "deleted"}
    /\ c.status = "deleted" => c.pinned = "keep"

PatchAccepted(r, c) == PatchFits(r, c) /\ (~c.moderator => CanAuthorEdit(r, c.who))

---------------------------------------------------------------------------
(* Steps of a handler h. *)

Active(h, step, kinds) == pc[h] = step /\ call[h].kind \in kinds

\* The handler answers and forgets what it read.
Finish(h) ==
    /\ pc' = [pc EXCEPT ![h] = "idle"]
    /\ call' = [call EXCEPT ![h] = NoCall]
    /\ expected' = [expected EXCEPT ![h] = 0]
    /\ seen' = [seen EXCEPT ![h] = NewSession]
    /\ row' = [row EXCEPT ![h] = NoRow]
    /\ voted' = [voted EXCEPT ![h] = FALSE]
    /\ now' = now

\* Mutant of CasHolds: the number of updated rows is not looked at.
CasHoldsUnchecked(h) == TRUE

\* The UPDATE ... WHERE revision = previous of _bump_session finds its row.
CasHolds(h) == session.revision = seen[h].revision

\* An operator loads a management page and keeps the revision it shows.
LoadForm(h) ==
    /\ pc[h] = "idle"
    /\ h \notin Pages
    /\ session.revision < MaxRevision
    /\ pc' = [pc EXCEPT ![h] = "form"]
    /\ expected' = [expected EXCEPT ![h] = session.revision]
    /\ UNCHANGED <<session, question, votes, now, call, seen, row, voted>>

\* The refusals that depend on the session row alone.
SessionAccepts(c) ==
    CASE c.kind = "submit" -> /\ session.state = "open" /\ ~Expired(session)
                              /\ NameAccepted(session, c.named)
      [] c.kind = "vote" -> session.state = "open" /\ ~Expired(session)
      [] c.kind = "patch" -> /\ session.state # "archived"
                             /\ session.state = "draft" => c.moderator
      [] OTHER -> TRUE

Managed(c) == c.kind = "settings" \/ (c.kind = "patch" /\ c.moderator)

\* Mutant of RevisionExpected: If-Match is ignored.
RevisionExpectedAny(h) == TRUE

RevisionExpected(h) == expected[h] \in {0, session.revision}

\* The handler opens its transaction and reads the session row.  Refused calls
\* change nothing and are left out, but for the stale form of RefuseStale.
Begin(h, c) ==
    /\ pc[h] = "idle" \/ (pc[h] = "form" /\ Managed(c))
    /\ session.revision < MaxRevision \/ c.kind = "list"
    /\ c.kind = "submit" => \E q \in Questions : question[q].status = "none"
    /\ SessionAccepts(c)
    /\ RevisionExpected(h)
    /\ pc' = [pc EXCEPT ![h] = "session"]
    /\ call' = [call EXCEPT ![h] = c]
    /\ seen' = [seen EXCEPT ![h] = session]
    /\ UNCHANGED <<session, question, votes, now, expected, row, voted>>

\* A form whose revision is stale gets RevisionConflict.
RefuseStale(h) ==
    /\ pc[h] = "form"
    /\ ~RevisionExpected(h)
    /\ Finish(h)
    /\ UNCHANGED db

\* The question row is read and its refusals are decided.
ReadQuestion(h) ==
    /\ Active(h, "session", {"vote", "patch"})
    /\ LET r == question[call[h].q]
           accepted == IF call[h].kind = "vote" THEN r.status \in Listed
                       ELSE PatchAccepted(r, call[h])
       IN  \/ /\ accepted
              /\ pc' = [pc EXCEPT ![h] = "question"]
              /\ row' = [row EXCEPT ![h] = r]
              /\ UNCHANGED <<now, call, expected, seen, voted>>
           \/ ~accepted /\ Finish(h)
    /\ UNCHANGED db

\* vote_question reads the participant's vote.
ReadVote(h) ==
    /\ Active(h, "question", {"vote"})
    /\ pc' = [pc EXCEPT ![h] = "vote"]
    /\ voted' = [voted EXCEPT ![h] = <<call[h].q, call[h].who>> \in votes]
    /\ UNCHANGED <<session, question, votes, now, call, expected, seen, row>>

\* submit_question: the row, its author's vote, score 1, q_total + 1.
CommitSubmit(h) ==
    /\ Active(h, "session", {"submit"})
    /\ CasHolds(h)
    /\ \E q \in Questions :
        /\ question[q].status = "none"
        /\ question' = [question EXCEPT ![q] =
                [status |-> "visible", author |-> call[h].who, text |-> call[h].text,
                 score |-> 1, pinned |-> FALSE, created_at |-> now]]
        /\ votes' = votes \cup {<<q, call[h].who>>}
    /\ session' = [session EXCEPT !.q_total = seen[h].q_total + 1,
                                  !.revision = seen[h].revision + 1]
    /\ Finish(h)

\* Mutant of VoteChanges: a repeated vote counts again.
VoteChangesAlways(h) == TRUE

\* vote_question: nothing is written, and the revision is kept, when the vote
\* is already as asked or the INSERT meets the unique constraint.
VoteChanges(h) ==
    /\ voted[h] # call[h].add
    /\ call[h].add => <<call[h].q, call[h].who>> \notin votes

\* The new score: F("score") + 1, or one less than the score that was read.
VotedScore(h) ==
    IF call[h].add THEN question[call[h].q].score + 1
    ELSE IF row[h].score > 0 THEN row[h].score - 1 ELSE 0

CommitVote(h) ==
    /\ Active(h, "vote", {"vote"})
    /\ \/ /\ VoteChanges(h)
          /\ CasHolds(h)
          /\ votes' = IF call[h].add THEN votes \cup {<<call[h].q, call[h].who>>}
                      ELSE votes \ {<<call[h].q, call[h].who>>}
          /\ question' = [question EXCEPT ![call[h].q].score = VotedScore(h)]
          /\ session' = [session EXCEPT !.revision = seen[h].revision + 1]
       \/ ~VoteChanges(h) /\ UNCHANGED db
    /\ Finish(h)

\* update_question: text, then status, then pin, one bump for each that writes.
PatchUnit(h) ==
    Patched([session |-> seen[h], row |-> row[h], rows |-> question], call[h])

CommitPatch(h) ==
    /\ Active(h, "question", {"patch"})
    /\ LET u == PatchUnit(h)
       IN  \/ /\ u.session # seen[h]
              /\ CasHolds(h)
              /\ question' = u.rows
              /\ session' = [session EXCEPT !.q_total = u.session.q_total,
                                            !.q_answered = u.session.q_answered,
                                            !.revision = u.session.revision]
           \/ u.session = seen[h] /\ UNCHANGED <<session, question>>
    /\ votes' = votes
    /\ Finish(h)

\* transition_session, update_session and the expiry close of list_questions
\* write the session row only.
SessionAccepted(h) ==
    CASE call[h].kind = "transition" -> MayMove(seen[h], call[h].target)
      [] call[h].kind = "settings" -> SettingsAccepted(seen[h], call[h])
      [] OTHER -> TRUE

SessionResult(h) ==
    CASE call[h].kind = "transition" -> Move(seen[h], call[h].target)
      [] call[h].kind = "settings" -> Configured(seen[h], call[h])
      [] OTHER -> RefreshExpiry(seen[h])

CommitSession(h) ==
    /\ Active(h, "session", {"transition", "settings", "list"})
    /\ \/ /\ SessionAccepted(h) /\ SessionResult(h) # seen[h]
          /\ CasHolds(h)
          /\ session' = [SessionResult(h) EXCEPT !.q_total = session.q_total,
                                                 !.q_answered = session.q_answered]
       \/ ~SessionAccepted(h) /\ session' = session
       \/ SessionAccepted(h) /\ SessionResult(h) = seen[h] /\ session' = session
    /\ UNCHANGED <<question, votes>>
    /\ Finish(h)

\* RevisionConflict: the UPDATE of _bump_session matched no row, roll back.
Conflict(h) ==
    /\ \/ Active(h, "session", {"submit"})
       \/ Active(h, "vote", {"vote"}) /\ VoteChanges(h)
       \/ Active(h, "question", {"patch"}) /\ PatchUnit(h).session # seen[h]
       \/ /\ Active(h, "session", {"transition", "settings", "list"})
          /\ SessionAccepted(h) /\ SessionResult(h) # seen[h]
    /\ ~CasHolds(h)
    /\ Finish(h)
    /\ UNCHANGED db

\* The worker dies or the connection is lost before COMMIT.
Crash(h) ==
    /\ pc[h] # "idle"
    /\ Finish(h)
    /\ UNCHANGED db

Tick ==
    /\ now < MaxTime
    /\ now' = now + 1
    /\ UNCHANGED <<session, question, votes, pc, call, expected, seen, row, voted>>

Commit(h) ==
    CommitSubmit(h) \/ CommitVote(h) \/ CommitPatch(h) \/ CommitSession(h)

Step(h) ==
    \/ RefuseStale(h) \/ ReadQuestion(h) \/ ReadVote(h) \/ Conflict(h)
    \/ Commit(h)

Next ==
    \/ \E h \in Handlers :
        \/ LoadForm(h) \/ Step(h) \/ Crash(h)
        \/ \E c \in Calls : Begin(h, c)
    \/ Tick

Spec == Init /\ [][Next]_vars

---------------------------------------------------------------------------
\* The columns and the handlers' instances keep their types: in particular
\* q_total and q_answered, positive fields decremented in Python, never
\* fall below zero.
TypeOK ==
    /\ session \in Sessions
    /\ question \in [Questions -> Rows]
    /\ votes \subseteq Questions \X Participants
    /\ now \in Nat
    /\ pc \in [Handlers -> {"idle", "form", "session", "question", "vote"}]
    /\ call \in [Handlers -> AllCalls]
    /\ expected \in [Handlers -> Nat]
    /\ seen \in [Handlers -> Sessions]
    /\ row \in [Handlers -> Rows]
    /\ voted \in [Handlers -> BOOLEAN]

(***************************************************************************)
(* Safety.  Each of these holds of a handler that runs alone; what is at   *)
(* stake is that it holds of handlers whose reads are stale by the time    *)
(* they write.                                                             *)
(***************************************************************************)

With(rows, S) == {q \in Questions : rows[q].status \in S}
Voters(q) == {w \in Participants : <<q, w>> \in votes}

Counted(s, rows) ==
    /\ s.q_total = Cardinality(With(rows, Listed))
    /\ s.q_answered = Cardinality(With(rows, {"answered"}))

OnePinned(rows) ==
    \A q \in Questions : rows[q].pinned =>
        /\ rows[q].status \in Listed
        /\ \A other \in Questions \ {q} : ~rows[other].pinned

\* The counters that the services keep by +1 and -1 on the instance they read
\* are the number of questions that are not deleted and of answered ones.
CountersExact == Counted(session, question)

\* The denormalised score of a question, which ranks it and ends its author's
\* right to edit, is the number of vote rows it has.
ScoresExact ==
    \A q \in Questions : question[q].score = Cardinality(Voters(q))

\* At most one question is pinned, and never one that is deleted, although no
\* database constraint says so and two moderators may pin at once.
SinglePin == OnePinned(question)

\* The denormalised columns (q_total, q_answered, score, pinned), each kept by a
\* statement of its own and by no constraint, agree with the rows at once,
\* after any interleaving of submits, votes, moderation and crashes.
ColumnsExact == CountersExact /\ ScoresExact /\ SinglePin

\* Two settings forms, each valid against the row it read, never combine into
\* names that are required and disallowed: such a room accepts no question.
NamesSatisfiable == session.allow_names \/ ~session.require_names

InTransaction == {"session", "question", "vote"}

\* The reason for all of these: a handler whose compare-and-set will succeed
\* holds, in every instance it read at different moments, the current rows.
ReadsConsistent ==
    \A h \in Handlers : pc[h] \in InTransaction =>
        /\ seen[h].revision <= session.revision
        /\ CasHolds(h) =>
            /\ seen[h] = session
            /\ pc[h] # "session" => row[h] = question[call[h].q]
            /\ pc[h] = "vote" => voted[h] = (<<call[h].q, call[h].who>> \in votes)

\* What the handler checked still holds of the instances it keeps.
ChecksRemembered ==
    \A h \in Handlers : pc[h] \in InTransaction =>
        /\ call[h].kind \in {"submit", "vote"} => seen[h].state = "open"
        /\ pc[h] # "session" => call[h].kind \in {"vote", "patch"}
        /\ pc[h] = "vote" => call[h].kind = "vote"
        /\ pc[h] # "session" /\ call[h].kind = "vote" => row[h].status \in Listed
        /\ pc[h] = "question" /\ call[h].kind = "patch" => PatchFits(row[h], call[h])
        /\ expected[h] # 0 => seen[h].revision = expected[h]

\* A vote row has a question row (its foreign key).
UnaskedUnvoted == \A q \in Questions : question[q].status = "none" => Voters(q) = {}

\* The inductive invariant of EventQnaProofs.
IndInv ==
    /\ TypeOK /\ ReadsConsistent /\ ChecksRemembered /\ UnaskedUnvoted
    /\ CountersExact /\ ScoresExact /\ SinglePin /\ NamesSatisfiable

\* The handler whose transaction this step commits.
Commits(h) == pc[h] # "idle" /\ pc'[h] = "idle" /\ db' # db

\* Every committed change of the session, a question or a vote raises the
\* revision: If-Match and the polling ETag identify a room's state by it.
RevisionCoversChange ==
    [][db' # db => session'.revision > session.revision]_vars

\* No vote is counted and no question appears in a room that is not open at
\* that moment, although the handler checked the state of an earlier read.
OnlyOpenRoomsFill ==
    [][ votes' # votes \/ (\E q \in Questions : /\ question[q].status = "none"
                                                /\ question'[q].status # "none")
        => session.state = "open" /\ session'.state = "open" ]_vars

\* Deletion is terminal: no handler that read the question before it was
\* deleted changes its row or its votes afterwards.
DeletedIsFinal ==
    [][ \A q \in Questions : question[q].status = "deleted" =>
            question'[q] = question[q] /\ Voters(q)' = Voters(q) ]_vars

\* An author edits or withdraws a question only while it is listed, their own
\* and has no second vote at the moment of the commit, not of the read.
AuthorEditsOwnUnvoted ==
    [][ \A h \in Handlers :
            Commits(h) /\ call[h].kind = "patch" /\ ~call[h].moderator =>
                LET r == question[call[h].q]
                IN  r.author = call[h].who /\ r.status = "visible" /\ r.score <= 1 ]_vars

\* A management form is applied only to the revision that the operator saw.
IfMatchHonoured ==
    [][ \A h \in Handlers :
            Commits(h) /\ expected[h] # 0 => session.revision = expected[h] ]_vars

\* An author edits "before any additional upvote"
\* (src/_docs/architecture/event-qna-integration.md:152): no author's change
\* commits while somebody else's vote for the question stands.
NoEditAfterOthersVote ==
    [][ \A h \in Handlers :
            Commits(h) /\ call[h].kind = "patch" /\ ~call[h].moderator =>
                Voters(call[h].q) \subseteq {call[h].who} ]_vars

(***************************************************************************)
(* Liveness.  A handler that has started keeps running (WF).  An open page *)
(* polls the room every few seconds, so its polls keep being served, and   *)
(* not every one of them is cut by a crash or loses its race to another    *)
(* commit (SF).  An operator who has loaded a form may never send it.      *)
(***************************************************************************)

Poll(h) == \E c \in Calls : c.kind = "list" /\ Begin(h, c)
PollCommit(h) == call[h].kind = "list" /\ CommitSession(h)

Fairness ==
    /\ \A h \in Handlers : WF_vars(Step(h))
    /\ \A h \in Pages : SF_vars(Poll(h)) /\ SF_vars(PollCommit(h))

FairSpec == Spec /\ Fairness

\* "Expiry closes an open Q&A": no job does it, only the next poll, form or
\* transition, and a poll that closes the room may lose its compare-and-set to
\* a moderator or to another form; yet a room that is open past its expiry
\* does not stay so.
ExpiredRoomCloses == Expired(session) ~> ~Expired(session)
=============================================================================
