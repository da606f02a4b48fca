--------------------------- MODULE CourseScoring ---------------------------
(***************************************************************************)
(* Homework scoring and the leaderboard of one cohort: courses/scoring.py  *)
(* and courses/leaderboard.py, run by the durable job of                   *)
(* courses/scoring_jobs.py, with what interleaves with them: learners      *)
(* posting the homework form, staff queueing a scoring or a re-scoring,    *)
(* moving the deadline or the state, and the learning-in-public switch of  *)
(* an enrollment.                                                          *)
(*                                                                         *)
(* A submission's content is what it earns: q points for its answers and   *)
(* lip for its learning-in-public links.  The row also has the score       *)
(* columns.  The FAQ point, which is computed as the links' are, and the   *)
(* projects' part of a total are left out.                                 *)
(*                                                                         *)
(* No transaction here takes a lock by itself: reads see what is           *)
(* committed, and an UPDATE waits for the writer of the same row.          *)
(***************************************************************************)
EXTENDS Naturals, FiniteSets

CONSTANTS
    Homeworks,
    Learners,      \* enrollment ids
    Contents,      \* the contents a learner may post: [q, lip]
    Workers,       \* runners of jobs and of scoring requests of the API
    MaxAttempts,   \* JobIntent.max_attempts
    Posted,        \* what learners may have posted when the model starts
    Bounds,        \* how many posts, staff requests and faults a behaviour may have
    None

ASSUME CourseScoringAssumption ==
    /\ Learners \subseteq Nat /\ IsFiniteSet(Learners) /\ IsFiniteSet(Homeworks)
    /\ Contents \subseteq [q: Nat, lip: Nat]
    /\ MaxAttempts \in Nat \ {0}
    /\ Posted \subseteq [Learners -> [Homeworks -> Contents \cup {None}]]
    /\ Bounds \subseteq [posts: Nat, requests: Nat, faults: Nat]
    /\ None \notin Contents \cup Homeworks

VARIABLES
    hw,        \* Homework rows: state, and whether it is due with its answer key complete
    sub,       \* Submission rows, None while there is none
    enr,       \* Enrollment rows: total_score, position_on_leaderboard (0: none), the switch
    intent,    \* JobIntent of a homework and force flag: "none" when never dispatched
    tx,        \* what each worker is doing
    left,      \* what is left of the behaviour's bounds
    form,      \* each learner's homework form between the view's read and its save
    awaiting,  \* history: a re-scoring of a homework that is due was asked for, has not
               \* happened, and staff have not changed their mind about the homework since
    exact      \* history: whether the last scoring of each homework, and the last
               \* recalculation of the leaderboard, had their input to themselves

vars == <<hw, sub, enr, intent, tx, left, form, awaiting, exact>>

States == {"CLOSED", "OPEN", "SCORED"}

(* score, lip and total are the columns questions_score,                   *)
(* learning_in_public_score and total_score; waived is history: the links' *)
(* points were taken away by the switch.                                   *)
Rows == [content: Contents, score: Nat, lip: Nat, total: Nat, waived: BOOLEAN]

(* A form holds the homework and the row that the view read.               *)
Forms == [h: Homeworks, row: Rows \cup {None}]

ASSUME NoneAssumption == None \notin Rows \cup Forms

Statuses == {"none", "pending", "leased", "succeeded", "failed"}

Idle == [stage |-> "idle"]

NewRow(content) == [content |-> content, score |-> 0, lip |-> 0, total |-> 0, waived |-> FALSE]

TotalOf(row) == IF row = None THEN 0 ELSE row.total

(* Sum("total_score"): as many points as the homeworks have together.      *)
Points(earned) == Cardinality(UNION {{h} \X (1..earned[h]) : h \in Homeworks})

TotalsOf(rows, l) == Points([h \in Homeworks |-> TotalOf(rows[l][h])])

Init ==
    /\ hw = [h \in Homeworks |-> [state |-> "OPEN", ready |-> TRUE]]
    /\ \E posted \in Posted :
        sub = [l \in Learners |-> [h \in Homeworks |->
                 IF posted[l][h] = None THEN None ELSE NewRow(posted[l][h])]]
    /\ left \in Bounds
    /\ enr = [l \in Learners |-> [total |-> 0, rank |-> 0, disabled |-> FALSE]]
    /\ intent = [i \in Homeworks \X BOOLEAN |-> [status |-> "none", attempts |-> 0]]
    /\ tx = [w \in Workers |-> Idle]
    /\ form = [l \in Learners |-> None]
    /\ awaiting = [h \in Homeworks |-> FALSE]
    /\ exact = [board |-> FALSE, hw |-> [h \in Homeworks |-> FALSE]]

-----------------------------------------------------------------------------
(* Learners.                                                               *)

(* The row locks an uncommitted scoring or switch holds.                   *)
Locked(l, h) ==
    \E w \in Workers : tx[w].stage = "written" /\ <<l, h>> \in tx[w].wrote

(* handle_homework_post: the state and the row as the view read them.      *)
PostRead(l) ==
    /\ form[l] = None
    /\ left.posts > 0 /\ left' = [left EXCEPT !.posts = @ - 1]
    /\ \E h \in Homeworks :
        /\ hw[h].state = "OPEN"
        /\ form' = [form EXCEPT ![l] = [h |-> h, row |-> sub[l][h]]]
    /\ UNCHANGED <<hw, sub, enr, intent, tx, awaiting, exact>>

(* save_homework_submission_data: submission.save() writes every column,   *)
(* the score columns as they were read.                                    *)
Saved(row, content) ==
    IF row = None THEN NewRow(content) ELSE [row EXCEPT !.content = content]

PostSave(l) ==
    /\ form[l] # None
    /\ ~Locked(l, form[l].h)
    /\ \E content \in Contents :
        LET h == form[l].h
            row == Saved(form[l].row, content)
            same == TotalOf(row) = TotalOf(sub[l][h])
        IN /\ sub' = [sub EXCEPT ![l][h] = row]
           /\ exact' = [board |-> exact.board /\ same, hw |-> [exact.hw EXCEPT ![h] = FALSE]]
           /\ tx' = [w \in Workers |->
                CASE tx[w].stage = "read" -> [tx[w] EXCEPT !.alone = @ /\ tx[w].h # h]
                  [] tx[w].stage = "written" -> [tx[w] EXCEPT !.alone = @ /\ tx[w].h # h,
                                                              !.last = @ /\ same]
                  [] OTHER -> tx[w]]
    /\ form' = [form EXCEPT ![l] = None]
    /\ UNCHANGED <<hw, enr, intent, left, awaiting>>

-----------------------------------------------------------------------------
(* Staff.                                                                  *)

Request == left.requests > 0 /\ left' = [left EXCEPT !.requests = @ - 1]

Fault == left.faults > 0 /\ left' = [left EXCEPT !.faults = @ - 1]

(* dispatch_after_commit: the key names the homework and the force flag;   *)
(* an intent with that key is returned as it is, ended or not.             *)
Dispatched(h, force) ==
    [intent EXCEPT ![<<h, force>>] =
        IF @.status = "none" THEN [status |-> "pending", attempts |-> 0] ELSE @]

(* studio homework_score.                                                  *)
QueueScore(h) ==
    /\ Request
    /\ intent' = Dispatched(h, FALSE)
    /\ UNCHANGED <<hw, sub, enr, tx, form, awaiting, exact>>

(* studio homework_rescore: reopened and queued in one transaction.        *)
QueueRescore(h) ==
    /\ Request
    /\ hw[h].state = "SCORED"
    /\ hw' = [hw EXCEPT ![h].state = "OPEN"]
    /\ intent' = Dispatched(h, TRUE)
    /\ awaiting' = [awaiting EXCEPT ![h] = hw[h].ready]
    /\ UNCHANGED <<sub, enr, tx, form, exact>>

(* save_homework_upsert: a PATCH may give the state, any of the three, and *)
(* the due date; homework.save() then writes the whole row, the fields it  *)
(* does not give as they were read earlier.  Whatever was committed        *)
(* between the two, what it writes is one of these rows.  Replacing the    *)
(* questions, which a PATCH may do too, is left out.                       *)
PatchHomework(h) ==
    /\ Request
    /\ \E row \in [state: States, ready: BOOLEAN] : hw' = [hw EXCEPT ![h] = row]
    /\ awaiting' = [awaiting EXCEPT ![h] = FALSE]
    /\ UNCHANGED <<sub, enr, intent, tx, form, exact>>

(* homework_extend_deadline; time passes the deadline again.               *)
ExtendDeadline(h) ==
    /\ Request
    /\ hw[h].state = "OPEN" /\ hw[h].ready
    /\ hw' = [hw EXCEPT ![h].ready = FALSE]
    /\ awaiting' = [awaiting EXCEPT ![h] = FALSE]
    /\ UNCHANGED <<sub, enr, intent, tx, form, exact>>

DeadlinePasses(h) ==
    /\ ~hw[h].ready
    /\ hw' = [hw EXCEPT ![h].ready = TRUE]
    /\ UNCHANGED <<sub, enr, intent, tx, left, form, awaiting, exact>>

-----------------------------------------------------------------------------
(* score_homework_submissions, as a job or as a request of the API.        *)

(* _homework_scoring_error.                                                *)
Scorable(h, force) ==
    hw[h].ready /\ hw[h].state # "CLOSED" /\ (hw[h].state = "SCORED" => force)

(* The transaction reads the homework, the submissions and their answers,  *)
(* and each submission's enrollment; a refusal changes nothing.            *)
Begin(w, h, force, job) ==
    tx' = [tx EXCEPT ![w] =
        IF Scorable(h, force)
        THEN [stage |-> "read", h |-> h, force |-> force, job |-> job, homework |-> hw[h],
              seen |-> [l \in Learners |-> sub[l][h]],
              disabled |-> [l \in Learners |-> enr[l].disabled], alone |-> TRUE]
        ELSE IF job THEN [stage |-> "ended", h |-> h, force |-> force] ELSE Idle]

(* A worker leases a pending intent.                                       *)
RunJob(w) ==
    /\ tx[w] = Idle
    /\ \E h \in Homeworks, force \in BOOLEAN :
        /\ intent[<<h, force>>].status = "pending"
        /\ intent' = [intent EXCEPT ![<<h, force>>] =
                        [status |-> "leased", attempts |-> @.attempts + 1]]
        /\ Begin(w, h, force, TRUE)
    /\ UNCHANGED <<hw, sub, enr, left, form, awaiting, exact>>

(* _homework_score_response of the API.                                    *)
ScoreNow(w) ==
    /\ Request
    /\ tx[w] = Idle
    /\ \E h \in Homeworks : Scorable(h, FALSE) /\ Begin(w, h, FALSE, FALSE)
    /\ UNCHANGED <<hw, sub, enr, intent, form, awaiting, exact>>

\* Mutant of Scored: a retry adds to the total that is there.
ScoredAgain(row, seen, disabled) ==
    LET lip == IF disabled THEN 0 ELSE seen.content.lip IN
    [row EXCEPT !.score = seen.content.q, !.lip = lip,
                !.total = @ + seen.content.q + lip, !.waived = disabled]

(* update_score and the bulk_update of the score columns.  The links'      *)
(* column is only assigned when there are links, or the switch is on.      *)
Scored(row, seen, disabled) ==
    [row EXCEPT !.score = seen.content.q,
                !.lip = IF disabled THEN 0 ELSE IF seen.content.lip > 0 THEN seen.content.lip
                                                 ELSE seen.lip,
                !.total = seen.content.q + (IF disabled THEN 0 ELSE seen.content.lip),
                !.waived = disabled]

(* The submissions it read; a later one stays unscored.                    *)
ScoredKeys(t) == {<<l, t.h>> : l \in {m \in Learners : t.seen[m] # None}}

ScoredRows(t) ==
    [l \in Learners |-> [h \in Homeworks |->
        IF <<l, h>> \in ScoredKeys(t) THEN Scored(sub[l][h], t.seen[l], t.disabled[l])
        ELSE sub[l][h]]]

\* Mutant of Ranked: the first position is 2.
RankedFromTwo(totals) ==
    [l \in Learners |-> 2 + Cardinality({m \in Learners :
        totals[m] > totals[l] \/ (totals[m] = totals[l] /\ m < l)})]

(* _rank_enrollments: by descending total, then by id.                     *)
Ranked(totals) ==
    [l \in Learners |-> 1 + Cardinality({m \in Learners :
        totals[m] > totals[l] \/ (totals[m] = totals[l] /\ m < l)})]

\* Mutant of Recalculated: the totals of the rows before this transaction's writes.
RecalculatedBefore(rows) == [l \in Learners |-> TotalsOf(sub, l)]

(* _update_enrollment_totals: sums over what is committed and what this    *)
(* transaction wrote itself.                                               *)
Recalculated(rows) == [l \in Learners |-> TotalsOf(rows, l)]

(* The submissions are written and the leaderboard computed from them.     *)
ScoreWrite(w) ==
    /\ tx[w].stage = "read"
    /\ \A key \in ScoredKeys(tx[w]) : ~Locked(key[1], key[2])
    /\ LET rows == ScoredRows(tx[w]) IN
        tx' = [tx EXCEPT ![w] =
            [stage |-> "written", h |-> tx[w].h, force |-> tx[w].force, job |-> tx[w].job,
             homework |-> tx[w].homework, rows |-> rows, wrote |-> ScoredKeys(tx[w]),
             totals |-> Recalculated(rows),
             alone |-> tx[w].alone, last |-> TRUE]]
    /\ UNCHANGED <<hw, sub, enr, intent, left, form, awaiting, exact>>

(* The rows a transaction changed replace the committed ones.              *)
Merged(t) ==
    [l \in Learners |-> [h \in Homeworks |->
        IF <<l, h>> \in t.wrote THEN t.rows[l][h] ELSE sub[l][h]]]

(* A commit makes every leaderboard computed before it an old one.         *)
Outdated(w) ==
    [v \in Workers |->
        IF v # w /\ tx[v].stage = "written" THEN [tx[v] EXCEPT !.last = FALSE] ELSE tx[v]]

(* A switch holds its enrollment's row from its first statement on.        *)
Switching == \E w \in Workers : tx[w].stage = "written" /\ tx[w].h = None

(* homework.save() writes the whole row as it was read, and SCORED; the    *)
(* enrollments get the totals computed earlier, and positions.             *)
ScoreCommit(w) ==
    /\ tx[w].stage = "written" /\ tx[w].h # None
    /\ ~Switching
    /\ LET t == tx[w] IN
        /\ sub' = Merged(t)
        /\ hw' = [hw EXCEPT ![t.h] = [t.homework EXCEPT !.state = "SCORED"]]
        /\ enr' = [l \in Learners |-> [enr[l] EXCEPT !.total = t.totals[l],
                                                     !.rank = Ranked(t.totals)[l]]]
        /\ awaiting' = [awaiting EXCEPT ![t.h] = FALSE]
        /\ exact' = [board |-> t.last, hw |-> [exact.hw EXCEPT ![t.h] = t.alone]]
        /\ tx' = [Outdated(w) EXCEPT ![w] =
                    IF t.job THEN [stage |-> "ended", h |-> t.h, force |-> t.force] ELSE Idle]
    /\ UNCHANGED <<intent, left, form>>

(* The runner records that the handler returned, unless the lease is gone. *)
EndJob(w) ==
    /\ tx[w].stage = "ended"
    /\ intent' = [intent EXCEPT ![<<tx[w].h, tx[w].force>>].status =
                    IF @ = "leased" THEN "succeeded" ELSE @]
    /\ tx' = [tx EXCEPT ![w] = Idle]
    /\ UNCHANGED <<hw, sub, enr, left, form, awaiting, exact>>

(* A worker dies: what it has not committed is gone.                       *)
WorkerDies(w) ==
    /\ Fault
    /\ tx[w] # Idle
    /\ tx' = [tx EXCEPT ![w] = Idle]
    /\ UNCHANGED <<hw, sub, enr, intent, form, awaiting, exact>>

Runs(w, h, force) ==
    \/ tx[w].stage \in {"read", "written"} /\ tx[w].job /\ tx[w].h = h /\ tx[w].force = force
    \/ tx[w].stage = "ended" /\ tx[w].h = h /\ tx[w].force = force

(* A lease runs out: its worker died, or is only slow.                     *)
LeaseExpires(h, force) ==
    /\ intent[<<h, force>>].status = "leased"
    /\ IF \E w \in Workers : Runs(w, h, force) THEN Fault ELSE UNCHANGED left
    /\ intent' = [intent EXCEPT ![<<h, force>>].status =
                    IF intent[<<h, force>>].attempts < MaxAttempts THEN "pending" ELSE "failed"]
    /\ UNCHANGED <<hw, sub, enr, tx, form, awaiting, exact>>

-----------------------------------------------------------------------------
(* set_learning_in_public_disabled.  Two of them at once, or one and a     *)
(* scoring, may deadlock on the enrollments; the victim is rolled back     *)
(* whole, as if it had not run.                                            *)

\* Mutant of Zeroed: the links' points go and the total stays.
ZeroedColumnOnly(row) == [row EXCEPT !.lip = 0, !.waived = TRUE]

Zeroed(row) == [row EXCEPT !.lip = 0, !.total = row.score, !.waived = TRUE]

SwitchWrite(w) ==
    /\ Request
    /\ tx[w] = Idle
    /\ ~Switching
    /\ \E l \in Learners, disabled \in BOOLEAN :
        LET wrote == {<<l, h>> : h \in {k \in Homeworks :
                        disabled /\ sub[l][k] # None /\ sub[l][k].lip > 0}}
            rows == [m \in Learners |-> [h \in Homeworks |->
                        IF <<m, h>> \in wrote THEN Zeroed(sub[m][h]) ELSE sub[m][h]]]
        IN /\ \A key \in wrote : ~Locked(key[1], key[2])
           /\ tx' = [tx EXCEPT ![w] =
                [stage |-> "written", h |-> None, job |-> FALSE, rows |-> rows, wrote |-> wrote,
                 totals |-> Recalculated(rows), alone |-> TRUE, last |-> TRUE,
                 switch |-> [l |-> l, disabled |-> disabled]]]
    /\ UNCHANGED <<hw, sub, enr, intent, form, awaiting, exact>>

SwitchCommit(w) ==
    /\ tx[w].stage = "written" /\ tx[w].h = None
    /\ LET t == tx[w] IN
        /\ sub' = Merged(t)
        /\ enr' = [l \in Learners |->
                     [total |-> t.totals[l], rank |-> Ranked(t.totals)[l],
                      disabled |-> IF l = t.switch.l THEN t.switch.disabled ELSE enr[l].disabled]]
        /\ exact' = [exact EXCEPT !.board = t.last]
        /\ tx' = [v \in Workers |->
                    IF v = w THEN Idle
                    ELSE IF tx[v].stage \in {"read", "written"}
                         THEN [Outdated(w)[v] EXCEPT !.alone = FALSE] ELSE tx[v]]
    /\ UNCHANGED <<hw, intent, left, form, awaiting>>

-----------------------------------------------------------------------------

Work ==
    \E w \in Workers :
        \/ RunJob(w) \/ ScoreWrite(w) \/ ScoreCommit(w) \/ EndJob(w) \/ SwitchCommit(w)

Next ==
    \/ Work
    \/ \E w \in Workers : ScoreNow(w) \/ SwitchWrite(w) \/ WorkerDies(w)
    \/ \E l \in Learners : PostRead(l) \/ PostSave(l)
    \/ \E h \in Homeworks :
        \/ QueueScore(h) \/ QueueRescore(h) \/ PatchHomework(h)
        \/ ExtendDeadline(h) \/ DeadlinePasses(h)
        \/ \E force \in BOOLEAN : LeaseExpires(h, force)

Spec == Init /\ [][Next]_vars

(* Workers keep polling for intents and finish what they run.              *)
FairSpec == Spec /\ WF_vars(Work)

-----------------------------------------------------------------------------
(* Properties.                                                             *)

(* The type invariant of the rows and of the jobs.                         *)
CourseTypeOK ==
    /\ hw \in [Homeworks -> [state: States, ready: BOOLEAN]]
    /\ \A l \in Learners, h \in Homeworks : sub[l][h] \in Rows \cup {None}
    /\ enr \in [Learners -> [total: Nat, rank: 0..Cardinality(Learners), disabled: BOOLEAN]]
    /\ intent \in [Homeworks \X BOOLEAN -> [status: Statuses, attempts: 0..MaxAttempts]]
    /\ \A w \in Workers : tx[w].stage \in {"idle", "read", "written", "ended"}
    /\ \A l \in Learners : form[l] = None \/ form[l].h \in Homeworks
    /\ awaiting \in [Homeworks -> BOOLEAN]

(* scoring_jobs.py: "a retry never double-applies".  However often a       *)
(* homework is scored, by leases that ran out, by workers that died before *)
(* or after the commit, by the API beside the job, a scored submission has *)
(* what its content earns, unless a post or the switch came between that   *)
(* scoring's read and its commit, or a post came after it.                 *)
ScoredExact ==
    \A h \in Homeworks : hw[h].state = "SCORED" /\ exact.hw[h] =>
        \A l \in Learners : sub[l][h] # None =>
            LET row == sub[l][h] IN
            row.total = row.content.q + (IF row.waived THEN 0 ELSE row.content.lip)

(* Whatever overlapped before, one recalculation that had the submissions  *)
(* to itself (update_leaderboard) leaves every enrollment with the sum of  *)
(* its submissions, and positions 1..n in the order of the totals.         *)
LeaderboardExact ==
    exact.board =>
        /\ \A l \in Learners : enr[l].total = TotalsOf(sub, l)
        /\ \A l, m \in Learners : l # m => enr[l].rank # enr[m].rank
        /\ \A l, m \in Learners : enr[l].rank < enr[m].rank => enr[l].total >= enr[m].total

(* An enrollment with learning in public switched off has no points for    *)
(* links, in the rows nor in its total, however switching, scoring and     *)
(* posting alternate (set_learning_in_public_disabled), again unless one   *)
(* came between another's read and commit.                                 *)
DisabledEarnsNothing ==
    \A l \in Learners, h \in Homeworks :
        enr[l].disabled /\ exact.hw[h] /\ sub[l][h] # None =>
            sub[l][h].lip = 0 /\ sub[l][h].total = sub[l][h].score

(* homework_rescore: "Queue a re-score of an already scored homework.      *)
(* Resets the homework to OPEN so the normal scoring logic applies, then   *)
(* queues the work": the re-scoring happens.                               *)
RescoreTakesEffect == \A h \in Homeworks : awaiting[h] ~> ~awaiting[h]
=============================================================================
