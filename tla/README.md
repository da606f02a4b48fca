# Verification of the DataTalks.Club website

TLA+ models of the parts of the website whose correctness depends on what
happens when several requests, jobs or operators act at once: the live question
room of an event (`src/event_qna`), peer review and homework scoring of courses
(`src/courses`), the publication of repository content (`src/content`), and the
controller that moves the two production services from one release to another
(`src/deploy`). The modules are checked by TLC on small instances; every safety
property also has a proof, checked by TLAPS, for every number of handlers,
questions, learners, submissions, releases and commands.

`PROJECT.json` maps every definition to the lines it models and lists the runs,
their mutants, the findings, the hazards and the theorems.

## The system and its components

The website is one Django application over PostgreSQL at READ COMMITTED, served
by several worker processes; jobs and operator commands run beside it. There is
no shared memory: components interact through calls inside a request and
through rows, so the hard behaviours are reads that are stale when used, checks
outside a lock, and transactions cut short.

| Component | State | Operations | What makes it correct |
| --- | --- | --- | --- |
| Q&A room, `event_qna/services.py` | one session row with lifecycle, settings, counters and `revision`; question rows; vote rows | submit, vote, unvote, edit, withdraw, answer, delete, pin, settings, transition, poll | counters and scores equal the rows, one pin, no change in a closed room or to a deleted question, forms applied only to the revision they show |
| Q&A rate limit, `admit_rate`, `prune_expired_rate_buckets` | one counter row per scope and window | admit, prune | a window admits exactly its budget |
| Review selection, `project_assignment_selection.py` | per-slot pools | one random choice per reviewer and slot | always a choice; everybody gets K others |
| Peer review, `project_assignment.py`, `project_scoring.py`, `views/project_eval_*.py`, `votes.py`, the PATCH of `api/views/project_upsert_*.py` | project state and due date, submissions, reviews, votes | assign, submit a review, add or delete an optional one, score, vote, edit state and due date (staff) | while scores are out they agree with the reviews and no submitted review is left out; vote budget held |
| Homework scoring and leaderboard, `scoring.py`, `scoring_jobs.py`, `leaderboard.py`, `enrollment_flags.py` | homework state, submissions with their score columns, enrolments with totals and positions, job intents | post, score as a job or a request, re-score, patch the state, extend the deadline, switch learning in public | a scored submission has what it earns, totals equal the sum of scores, a re-score happens |
| Content releases, `content/services.py` | a source's pointer, releases and their records, path claims, invalidation intents | create, fetch, validate, prepare, freeze, end, activate, roll back | one active release, the pointed-to one; a path served once; what is frozen was counted; every swap invalidates |
| Release controller, `deploy/release.py`, `aws_gateway.py` | two ECS services, the migration task, checkpoint, context and record files | promote, roll back, compensate, recover from failed finalization | what a command reports is what the pair runs; nothing unmigrated is served; one worker |
| Q&A provisioning, `event_qna/jobs.py`, `backend.py` | job rows | schedule, run, retry | one room per event, no lost job |
| Idempotency and operations, `core/` | keys and results | begin, replay, finish | an effect happens once |
| Launch batches, synchronisation, management API, accounts, events, studio | | | see `PROJECT.json` |

The first seven are modelled, in whole or in part; the others are left out, with
the reason in `PROJECT.json` and under "Not modelled".

## Modules

    EventQna            handlers of the question room, step by step
      QnaRefinement     ... implements
        QnaRoom         the room with indivisible operations
        QnaRefinementProofs
      EventQnaProofs    theorems about EventQna
      MCEventQna        calls for the TLC runs
    EventQnaRate        admission and pruning
      EventQnaRateProofs
    ReviewSelection     who reviews whom
      ReviewSelectionProofs
    ProjectReview       assignment, reviews, scoring and votes of one project
      ProjectReviewProofs
      MCProjectReview
    CourseScoring       homework scoring, the leaderboard and what races them
      CourseScoringProofs
      MCCourseScoring
    ContentRelease      commands on content releases
      ContentReleaseProofs
      MCContentRelease
    Deployment          the release controller over ECS
      DeploymentProofs
      MCDeployment

`ProjectReview` uses of `ReviewSelection` what that module establishes; the other
components share no rows that a property is about and are checked apart.

### EventQna

A service function of the question room takes no row lock. It reads the session
row, then the question row, then the vote row, in statements that each see what
is committed at that moment; then it writes, and `_bump_session` ends with
`UPDATE ... WHERE revision = <the one read>`. If no row matches, everything is
rolled back. The model keeps that shape:

| Action | Code |
| --- | --- |
| `LoadForm` | a management page shows the revision that a later call carries as `expected_revision` |
| `Begin` | the transaction starts and the session row is read; the checks on it |
| `RefuseStale` | the `expected_revision` check of `update_session` and `update_question` |
| `ReadQuestion`, `ReadVote` | the reads of `update_question` and `vote_question`, and the checks on the question |
| `CommitSubmit`, `CommitVote`, `CommitPatch`, `CommitSession` | the writes, the bump and the commit |
| `Conflict` | the bump matches no row: `RevisionConflict` |
| `Crash` | worker or connection lost before the commit |
| `Tick` | the clock, for expiry and the edit window |

The pure parts (`Move`, `RefreshExpiry`, `SetStatus`, `SetPin`, `SaveText`,
`Configured`, `PatchFits`, ...) are operators on in-memory instances, in the
order in which the code applies them, one revision bump for each bump of the
code.

What is abstracted: the writes of a call, its bump and its commit are one step
(row locks make later statements of a transaction wait, so the model allows at
least the interleavings that PostgreSQL does); the clock is read when the rows
are; `listed`, `answered_placement`, `default_sort`, `retention_days` and
`answered_at` are one flag `other`, since no property tells them apart; audit
records and ranking are left out. `Pages` are the handlers that serve the polls
of open public pages; they load no management form. A call that is refused on
what it reads first changes nothing, so it is not a step, except where the
refusal is what a property is about (a stale form, a lost race).
`expected_revision` is only carried by management calls.

### QnaRoom and QnaRefinement

`QnaRoom` says what users are promised: each operation is one step on the
current room; there is no revision, no handler and no stale read; the pin is one
slot; the board shows the real counts. `ImplementsRoom` maps the rows to it and
takes counters and scores from the columns, so that a counter or score that is
off is a violation.

### EventQnaRate

`admit_rate` statement by statement for one scope: read the clock (`Arrive`), get
the row (`Lookup`), create it (`Insert`) or get it again after the unique
constraint refused, then the conditional `UPDATE` (`Update`). The created row
becomes visible at commit, with its own request counted, and a second `INSERT` of
the same key waits for that commit: creating and counting are one step. A row has
an id (`pk`), since `Update` and the pruner name the row they found by it: a row
that was deleted and made again is another one. `PruneList` and `PruneDelete` are
the two statements of the pruner; one pruner runs. `admitted` and `denied` are
history variables.

### ReviewSelection

The loop of `select_random_assignment`: a step fills one slot of one reviewer.
`random.choice` with seed 42 becomes any choice, so the properties hold for every
seed; conversely a violation shows that some seed reaches it, and the finding
says what the production seed does.

### ProjectReview

Scoring, a review form and a vote lock the project row (`Lock`, `LockFree`) until
they commit. `assign_peer_reviews_for_project` does not: it works on the project
its view read (`Begin`), selects (`AssignSelect`), creates the reviews and saves
the project instance (`AssignSave`), which waits only for the row to be free. So
does the staff PATCH (`PatchSave`): it may give any state and any due date, and
what it does not give is written back as it was read (`PatchedRow`), over a newer
state if there is one. `Tick` lets a due date go by under any request. Optional
reviews are added and deleted without lock. Which reviews an assignment creates is
what `ReviewSelection` establishes: K different others for everybody.

A completed project does not stay completed: a PATCH, or an assignment that began
before, may put it back into peer review, and the reviews then change under
scores that are already stored. The properties therefore speak of the time while
scores are out: `basis`, a history variable, has the reviews that the scores were
computed from, from the scoring until the project leaves "completed".

What is abstracted: a learner has one submission, an author's or a volunteer's;
submissions do not arrive or leave during the review except a volunteer's;
`number_of_peers_to_evaluate` does not change; a request assigns once, so that
the rows it makes are its own; `points_to_pass` not set and a stored answer that
cannot be scored (`InvalidCriteriaAnswerError`) end scoring without a write, like
`Crash`; scoring reads its tables in one step; the points of a criterion and the
leaderboard refresh are left out.

### CourseScoring

`score_homework_submissions` is a transaction without locks: `Begin` reads the
homework and the submissions, `ScoreWrite` writes the score columns (other
writers of these rows wait from then on) and computes the leaderboard from what
is committed and its own rows, `ScoreCommit` saves the homework as it was read
and the totals. It runs as a job (`RunJob`, with a lease that may expire while the
worker lives, and an attempt count) or in a request of the API (`ScoreNow`).
`PatchHomework` is the PATCH of the API: it may give state and due date and writes
the rest of a row read earlier, so it leaves any row, a scored one included.
`PostRead`/`PostSave` are the homework form, which saves every column of the row
it read. `SwitchWrite`/`SwitchCommit` are `set_learning_in_public_disabled`.

`exact` is a history variable: it says which scoring, and whether the last
recalculation, had their input to themselves. Overlaps do leave stale columns in
the code and in the model; the properties say what holds when there was none,
*whatever overlapped before*, that is, that nothing stale survives one
undisturbed scoring or recalculation. `awaiting` marks a re-score of a due
homework that was asked for and has not happened.

A sum of scores is counted: `Points` is the size of the set of all points, each
tagged with its homework. No prover can unfold a recursive sum, and this one it
can compare with another; `MCCourseScoring` has TLC evaluate the assumption
`PointsAddUp`, that it is the sum.

What is abstracted: a submission's content is what it earns; the FAQ point, the
projects' part of a total, replacing questions by PATCH, editing answer keys
and submissions in Studio, caches,
statistics and notifications are left out. The job queue is an external package,
modelled from `scoring_jobs.py` and the tests of it.

### ContentRelease

Nothing is locked in `content/services.py`: `lock_revisioned` reads a row and
compares its revision with the command's, and `RevisionedModel.save` is an
`UPDATE` conditional on the revision read. A command is `Lock` (or `LockSource`),
`Validate`, and a last step that writes and commits or is `Refused`. A swap first
looks (`CheckSwap`), reads source and releases again in its transaction
(`LockSwap`, `ValidateSwap`) and writes pointer, statuses, claims and intent
together (`SwapWrites`); a transient error makes it run again (`Retried`), also
when the commit had happened. The unique keys of the claims and of the one active
release are guards of the writes (`PathsUnclaimed`, `SwapApplies`).

What is abstracted: rendering, checksums and provenance are "well formed or not";
a record is a kind and a path; one database, whose transactions commit in the
step that writes.

### Deployment

`promote`, `rollback` and `restore_after_finalization_failure` as one controller
with stages (`ctl`), over a model of the two ECS services, each a set of
deployments with task definition, rollout state and running task. `GateRead` and
`GateCheck*` are the captures and terminal proofs before the migration and again
before the first update; `Forward*` update, bind to a receipt and wait;
`BindWebRuntime` precedes and guards the worker; `RecordFails` and `Raise` enter
`_compensate` (`Prepare`, `Restore`, `RestoreReceipt`, `Observe`, `RecoveryProof`,
`EndRecovery`), which keeps every error it meets. The environment rolls out,
drains, fails and forgets deployments, loses the answer of an `UpdateService`
call and applies the call at once, later or never; an operator may update a
service; the runner may die anywhere, leaving its files.

How many tasks a rollout may have at a time is `room`, which follows from the
percentages of a service: 2 by default (100/200), 1 for 0/100. Every
`update_service` of the worker carries 0/100 (`Configured`), the late ones too;
web's does not, and an operator's update sets what it likes. A command may find
the worker with the default and two tasks in a rollout; `WorkerSingleton` says
that from its first call for the worker on there is one.

Three variables are history. `called` has the services that this command has made
a call for. `raced` has, for each service, the operator's last
update during the command: whether it came before the gate that proves that
service a last time (`BeforeGate`) or behind it, its deployment, and what the
command expected there. `replaced` has what the command's own update replaced.

What is abstracted: a task definition is its release; a deadline is a failure
that may come in any stage; evidence, tags, image manifests and the address-level
identity of the web runtime are left out; CI runs one command at a time. One
assumption is about the environment and guaranteed by no code: when a command
starts, a lost call of an earlier command has been applied or has been dropped
(`Start`). A call that ECS applied after that would be an update nobody captured,
as an operator's is.

## Runs

| Run | Instance | What it shows |
| --- | --- | --- |
| `qna_questions` | 2 handlers, 2 participants, 2 questions, revisions to 6, 1 tick; 1.3 million states | scores, counters and the pin equal the rows (`ColumnsExact`); rows read at different moments are current when the compare-and-set succeeds (`ReadsConsistent`); only open rooms fill, deletion is final, an author edits only an own question without a second vote, every change raises the revision and every commit is a step of `QnaRoom` |
| `qna_liveness` | settings, transitions, expiry, polls of one public page beside a second handler, revisions to 5, with fairness; 326 000 states | name settings stay satisfiable, `If-Match` is honoured, an expired room is closed although polls lose races to other commits and are cut off |
| `qna_rate` | 3 requests, window and limit 2, 3 ticks; 85 000 states | the running window's counter is exact and within the limit; a refusal in it means that it is full |
| `review_selection` | 5 submissions, 2 reviews each; every choice | never out of choices, everybody served, pools accounted for |
| `project_review` | 2 requests, 2 authors, 1 guest, 2 required reviews, a vote budget of 1, staff edits, 1 tick and a window of 1; 1.5 million states | while scores are out, grades agree with the reviews (`GradesMatchReviews`) and no submitted review is left out (`SubmittedIsCounted`); the vote budget holds |
| `course_scoring` | 2 workers, 2 homeworks, 2 learners; 4 requests, or 3 with 2 posts, or 3 with 2 faults; 2.2 million states | what a scoring, a recalculation and the switch leave behind |
| `content_releases` | 2 clients, 2 sources, 3 builds of which two want one path, 5 swaps, 1 fault; 1.5 million states | pointer, claims, freezing, invalidation and base |
| `deployment` | 2 releases and the bootstrap; two commands with a lost answer, one raced by an operator, one with two lost answers, a bootstrap with a failed rollout and a lost answer; the worker's service with its default percentages or as a command left it; 2.2 million states | released, compensated and restored mean what they say; nothing unmigrated is served, web leads, and a called worker has one task |

The bounds. Two handlers are enough for one to commit between any two steps of
the other, which is the only way they influence each other; a third would commit
in the same place. `MaxRevision` stops new calls and forms, never a running one,
and leaves room for opening a room, asking, and several conflicting changes; in
`qna_liveness` a room expires at revision 3 and two more changes can overtake the
poll that closes it.
Two participants make the author and one other voter; two questions are what a
pin and a counter tell apart. One tick passes both the expiry and the edit
window. With window 2 and three ticks a request outlives its window, the next
window is used, and the pruner runs in between; three requests exceed the limit
of 2. Five submissions with two reviews exhaust the pools in every way, including
the fallback. With two required reviews and two authors an assignment is refused
until the guest has volunteered. One tick ends the review window, or a PATCH does;
two requests let a PATCH that read the project before a scoring save after it.
Two workers make two scorings of one or of two
homeworks overlap, or a scoring and the switch; two learners are what a position
tells apart. The plans of `content_releases` let two commands race on the builds
of one source and of two, and let all three builds take part one command at a
time. Two lost answers in one deployment are one for the update and one for its
compensation. `Bounds`, `Plans` and `Scenarios` keep the product of these small:
each behaviour draws one of them.

Deadlock is not checked where a run really ends: the selection is complete, the
bounds on requests, swaps or commands are used up.

Handlers, requests, workers and clients are interchangeable, so the safety runs
use symmetry; the liveness runs do not.

Fairness. `WF(Step(h))`: a worker that has started a call keeps running it (a
crash is also an answer). `SF(Poll(h))`, `SF(PollCommit(h))` for the handlers of
`Pages` only: open public pages poll the room every few seconds, so that polls
keep being served and not every poll loses its race or its connection. Nothing is
assumed of operators, of forms that were loaded, of voters or of the clock:
`ExpiredRoomCloses` only speaks of rooms whose expiry has come. The re-score run
assumes `WF(Work)`: job workers keep taking, running and ending jobs.

Every property of a passing run has a mutant of the code that breaks it, such as
a bump that does not raise the revision, an unchecked compare-and-set, a pin that
leaves the other pin, a project read without `FOR UPDATE`.

### Findings

Four runs are expected to fail; each states what the repository says of itself.

* `qna_edit_after_vote`: the author's right to edit survives another's vote if the
  author has taken their own vote back, since the rule is tested as `score > 1`.
* `review_selection_even`: reviews are not spread evenly for every class size; for
  some sizes the production seed leaves a submission short, or without a review
  and so without a score.
* `project_review_pairs`: a guest adds an optional review and so has a volunteer's
  submission; an assignment takes that submission too, ignores the reviews there
  are, and gives the guest a mandatory review of the same submission. An optional
  review added beside a mandatory one, and two assignments at once, do the same.
* `course_rescore`: the job key of a re-score is the same every time, so a second
  re-score reopens the homework and nothing ever scores it.

The model of the rate limiter also shows, without a run of its own, that a
request whose window ends while it is in flight may lose its budget to the
pruner, against the docstring of `prune_expired_rate_buckets`: the properties
speak of the running window only.

## Proofs

`EventQnaProofs` proves, for all constants satisfying the named assumptions
(finite sets, natural bounds, at least one participant and text, calls that are
calls): type correctness, `ReadsConsistent`, `ColumnsExact` (its parts are
`CountersExact`, `ScoresExact` and `SinglePin`), `NamesSatisfiable`, and the
action properties `RevisionCoversChange`, `DeletedIsFinal`, `OnlyOpenRoomsFill`,
`AuthorEditsOwnUnvoted` and `IfMatchHonoured`.

None of these is inductive alone. A commit computes the new counters from the
session instance the handler holds, so `CountersExact` is preserved only if that
instance is current, which is `ReadsConsistent`; `ReadsConsistent` survives
another handler's commit because that commit raises the revision and so makes
`CasHolds` false for everyone else. `ChecksRemembered` adds that what a handler
checked still holds of the instances it keeps, and `UnaskedUnvoted` that an id
without a row has no votes, without which a new question's score could not be 1.
`IndInv` is the conjunction. The argument has two halves: `StepReads` shows that
a step keeps the reads good, using only that a change of the rows raises the
revision; the commit lemmas (`SubmitCommit`, `VoteCommit`, `PatchCommit`, `SessionCommit`)
show that a commit on current rows keeps the room consistent, using lemmas on
the pure operators and on cardinalities.

`ReviewSelectionProofs` proves for every `N > K > 0` that the selection never runs
out of choices, serves every reviewer with exactly `K` others and accounts for
every pool. The invariant adds `InOrder`: what has been assigned belongs to
served reviewers and filled slots, and the current reviewer holds exactly `slot`
submissions, so at most `K` of the `N` submissions are excluded when one is
chosen.

`EventQnaRateProofs` proves both properties of the rate limiter for any number of
requests, window length and limit. The invariant speaks of every window that is
not over, those to come included: the pruner lists none of them, so the row a
request has found stays and counts exactly the admitted ones.

`ProjectReviewProofs` proves every property of `project_review` for any learners,
requests, calls, number of reviews and budget. The invariant has the lock
(`Exclusive`) and what is known under it (`UnderLock`): the count a vote has made
is still below the budget; of the reviews that scoring has read, the mandatory
ones are as they were and every review submitted now was submitted then
(`StillRead`; optional ones may have been deleted meanwhile). Assignments and
PATCHes take no lock and may bring an old state back, but not between the reads
and the writes of a scoring; and since a review is only accepted in peer review,
scores that are out (`OutWhileDone`) keep agreeing with the table.

`ContentReleaseProofs` proves every property of `content_releases` for any
sources, builds, paths and clients. Every write raises the revision of the row it
writes (`Advances`); so what a command knows of a row holds as long as the
revision it read is the current one (`CommandsFit`), and a conditional update
that succeeds acts on what was validated. `ServedOnce` needs the primary key of
the claims in addition; `EverySwapInvalidates` that the revision in an intent's
key has been reached by its source.

`QnaRefinementProofs` proves `ImplementsRoom`, that `EventQna` implements
`QnaRoom` under the mapping of `QnaRefinement`. An initial room maps to an
initial room; a step that leaves the rows alone leaves the mapped room alone
(`QuietStutters`); a commit is the room's `Ask`, `Vote`, `Edit` or `Configure`,
because `IndInv` makes the rows it works on the current ones and the counters and
scores exact afterwards (`BoardShown`). A patch that sets text, status and pin at
once is one `Edit`; that a patch only ever starts in a room that is not archived
is added to the invariant (`PatchesUnarchived`).

`CourseScoringProofs` proves the four properties of `course_scoring` for any
homeworks, learners, contents, workers and bounds. Nothing is locked while a
scoring reads, so the invariant says what each transaction may still rely on:
`Reading`, that the rows a scoring read still exist, and while it is alone have
the contents and switches it read; `Scoring`, that the rows it wrote keep their
contents (they are locked) and are exact if it was alone; `Switched`, the same of
the switch, with the rows it did not need to zero; `Tally`, that the totals of a
transaction that is still the last are those of the rows as they will be.
`Follows` is what a commit or a post does to the transactions of others: they
learn that they are not alone, or not the last. `RankedOrder` shows that counting
who is ahead gives different positions in the order of the totals.

`DeploymentProofs` proves every property of `deployment` for any releases and
bounds, from three invariants. `DeploymentInvariant` says where the controller got
everything it may send to a service (`Fits`): a target is migrated from the last
gate on, a captured pair was being served, a context file names a pair that was,
and a call still on its way carries one of these. It gives
`MigratedBeforeServed`. `OutcomeInv` follows the services
through the stages of a command: until its update is sent, a service nobody raced
has the captured deployment (`Unmoved`); one that was proven stays as it was until
somebody updates it (`Advanced`, `Released`, `Compensated`), since ECS by itself
only lets the other deployments end; calls are outstanding only in a recovery that
has an error or has yet to look for them (`NothingLate`, `Recovering`); a service
that an operator changed before the last gate stops the command there
(`OperatorStops`). What the controller does not prove, that the operator stays
away behind the gate, is a hypothesis of the properties and not of the model.
`WorkerInv` is for `WorkerSingleton`: from the last gate on, which has found the
worker with one task and no rollout, either the service has no room for a second
task or nothing makes it start one (`Calm`); the first call for the worker takes
the room away before it starts a rollout, and every later one, of a compensation
or late, keeps it so.

Only model-checked: the liveness property `ExpiredRoomCloses` (fairness is
outside the prover's reach), that `Points` is a sum (an induction), and the four
findings, which are counterexamples.

## Not modelled

Most of the repository has no state that a step of another actor could disturb:
pages, templates and view models, command lines, CI and evidence assembly,
one-off imports, content parsing and rendering, migrations. Of the parts that do
have such state, these are left out: provisioning of rooms and its queue,
co-host invitations, project submission forms, registration and its mails,
launch batches and announcements, webhook deliveries and repository
synchronisation, API tokens and idempotency records. Inside the modelled
components: the row locks of the question room (and the deadlock the hazards
list), duplicate volunteer submissions, the FAQ point and the projects' part of
the leaderboard, statistics, caches and notifications.

## Plan

1. Provisioning of rooms: the job, duplicate delivery, retry and crash; composed
   with `EventQna` at the creation of the session row.
2. Project submission forms: learners with two submissions, submissions that race
   the assignment, duplicate rows.
3. Webhook deliveries, synchronisation and launch batches; idempotent operations.

## Running

    tlc -workers 2 -config QnaQuestions.cfg MCEventQna
    tlapm EventQnaProofs.tla
