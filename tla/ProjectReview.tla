---------------------------- MODULE ProjectReview ----------------------------
(***************************************************************************)
(* Peer review of one course project, from the close of submissions to its *)
(* scores: src/courses/project_assignment.py, project_scoring.py,          *)
(* views/project_eval_*.py and votes.py, beside the staff API that edits   *)
(* the project: src/api/views/projects.py, project_upsert_*.py.            *)
(*                                                                         *)
(* Scoring, a review form and a vote hold the lock of the project row from *)
(* SELECT ... FOR UPDATE to commit.  Assigning reviews takes no lock: it   *)
(* works on the project its view read, and only its final UPDATE of the    *)
(* project row waits for whoever holds the lock; so does a PATCH, which    *)
(* writes every column of the row it read.  Adding and deleting an         *)
(* optional review take no lock and look at no project state.              *)
(*                                                                         *)
(* A learner is an author, with a submission, or a guest, who gets a       *)
(* volunteer_review_only submission with their first optional review; so a *)
(* learner names their submission.                                         *)
(***************************************************************************)
EXTENDS Integers, FiniteSets

CONSTANTS
    Requests,   \* concurrent requests and scoring jobs
    Authors,    \* learners with a submission
    Guests,     \* learners without one
    Calls,      \* the requests that are made, a subset of AllCalls
    Required,   \* number_of_peers_to_evaluate
    Budget,     \* PROJECT_VOTES_PER_PROJECT
    Window,     \* PEER_REVIEW_WINDOW
    MaxTime     \* bound: the clock stops here

ASSUME ProjectArguments ==
    /\ IsFiniteSet(Authors) /\ IsFiniteSet(Guests) /\ Authors \cap Guests = {}
    /\ Required \in Nat \ {0} /\ Budget \in Nat
    /\ Window \in Nat /\ MaxTime \in Nat
    /\ "optional" \notin Requests

Learners == Authors \cup Guests

\* PeerReview rows; by is the request that assigned a mandatory review.
Reviews == [reviewer: Learners, target: Learners, by: Requests \cup {"optional"}]
Mandatory == {x \in Reviews : x.by # "optional"}
Tables == [Reviews -> {"absent", "to_review", "submitted"}]
NoReviews == [x \in Reviews |-> "absent"]

States == {"CL", "CS", "PR", "CO"}      \* ProjectState
ProjectRows == [state: States, due: Nat]

\* A PATCH names a state, a peer_review_due_date, both or ("keep") neither.
AllCalls ==
    [kind: {"assign", "score"}]
        \cup [kind: {"patch"}, state: States \cup {"keep"}, due: {"past", "future", "keep"}]
        \cup [kind: {"submit", "delete"}, review: Reviews]
        \cup [kind: {"add", "vote", "unvote"}, who: Learners, target: Authors]
NoCall == [kind |-> "none"]

ASSUME ProjectCalls == Calls \subseteq AllCalls

VARIABLES
    project,    \* the Project row: state and peer_review_due_date
    now,        \* timezone.now()
    entered,    \* the learners that have a ProjectSubmission
    review,     \* the PeerReview table
    votes,      \* ProjectVote rows: <<voter, submission>>
    enough,     \* the submissions with reviewed_enough_peers
    basis,      \* history: the reviews that the scores were computed from, while
                \* the project has stayed "CO" since; otherwise NoReviews
    pc,         \* request: "idle", "begun", "picked", "locked", "read", "counted"
    call,       \* request: what it was asked
    held,       \* request: the Project row its view read
    picked,     \* request: the reviews it is about to create
    seen        \* request: the reviews it has read for scoring

tables == <<project, entered, review, votes, enough>>
vars == <<tables, now, basis, pc, call, held, picked, seen>>

NewProject == [state |-> "CS", due |-> 1]

Init ==
    /\ project = NewProject /\ now = 0
    /\ entered = Authors
    /\ review = NoReviews
    /\ votes = {} /\ enough = {}
    /\ basis = NoReviews
    /\ pc = [r \in Requests |-> "idle"]
    /\ call = [r \in Requests |-> NoCall]
    /\ held = [r \in Requests |-> NewProject]
    /\ picked = [r \in Requests |-> {}]
    /\ seen = [r \in Requests |-> NoReviews]

---------------------------------------------------------------------------
At(r, step, kinds) == pc[r] = step /\ call[r].kind \in kinds

Goto(r, step) == pc' = [pc EXCEPT ![r] = step]

Answer(r) ==
    /\ Goto(r, "idle")
    /\ call' = [call EXCEPT ![r] = NoCall]
    /\ held' = [held EXCEPT ![r] = NewProject]
    /\ picked' = [picked EXCEPT ![r] = {}]
    /\ seen' = [seen EXCEPT ![r] = NoReviews]
    /\ now' = now

\* Mutant of LockFree: the project row is read without FOR UPDATE.
LockFreeAlways == TRUE

\* Nobody holds the lock of the project row.
LockFree == \A r \in Requests : pc[r] \notin {"locked", "read", "counted"}

\* An assignment starts while submissions are collected.  Bound: a request
\* assigns once, so that the rows it makes are its own.
Collecting(r) ==
    /\ project.state = "CS"
    /\ \A x \in Mandatory : x.by = r => review[x] = "absent"

\* The view reads the project and what it is asked about; refused requests
\* change nothing and are left out.
Begin(r, c) ==
    /\ pc[r] = "idle" /\ c.kind \notin {"add", "delete"}
    /\ c.kind = "assign" => Collecting(r)
    /\ c.kind = "submit" => project.state = "PR" /\ review[c.review] # "absent"
    /\ Goto(r, "begun")
    /\ call' = [call EXCEPT ![r] = c]
    /\ held' = [held EXCEPT ![r] = IF c.kind = "patch" THEN project ELSE @]
    /\ UNCHANGED <<tables, now, basis, picked, seen>>

\* select_for_update
Lock(r) ==
    /\ At(r, "begun", {"submit", "score", "vote", "unvote"})
    /\ LockFree
    /\ Goto(r, "locked")
    /\ UNCHANGED <<tables, now, basis, call, held, picked, seen>>

(* save_project_upsert and the PATCH of project_detail_view *)

\* Any state and any date may be given; what is not given is written back as it
\* was read, whoever has changed it since.
PatchedRow(r) ==
    LET c == call[r]
    IN  [state |-> IF c.state = "keep" THEN held[r].state ELSE c.state,
         due |-> CASE c.due = "keep" -> held[r].due
                   [] c.due = "past" -> now
                   [] c.due = "future" -> now + 1]

PatchSave(r) ==
    /\ At(r, "begun", {"patch"})
    /\ LockFree
    /\ project' = PatchedRow(r)
    /\ basis' = IF project'.state = "CO" THEN basis ELSE NoReviews
    /\ Answer(r)
    /\ UNCHANGED <<entered, review, votes, enough>>

(* assign_peer_reviews_for_project *)

\* Mutant of Peers: a submission may be given to its own author.
PeersAndSelf(l) == entered

Peers(l) == entered \ {l}

\* What ReviewSelection establishes of the selection: every submission, those of
\* guests too, is given Required different others.
Selections(r) ==
    LET given == {f \in [entered -> {S \in SUBSET entered : Cardinality(S) = Required}] :
                    \A l \in entered : f[l] \subseteq Peers(l)}
        rows(f) == {x \in Mandatory : x.by = r /\ x.reviewer \in entered
                                      /\ x.target \in f[x.reviewer]}
    IN  {rows(f) : f \in given}

AssignSelect(r) ==
    /\ At(r, "begun", {"assign"})
    /\ \/ /\ Cardinality(entered) > Required
          /\ Goto(r, "picked")
          /\ \E s \in Selections(r) : picked' = [picked EXCEPT ![r] = s]
          /\ UNCHANGED <<now, call, held, seen>>
       \/ Cardinality(entered) <= Required /\ Answer(r)
    /\ UNCHANGED <<tables, basis>>

\* bulk_create, then _open_peer_review_window saves the project as it was read.
AssignSave(r) ==
    /\ pc[r] = "picked"
    /\ LockFree
    /\ review' = [x \in Reviews |-> IF x \in picked[r] THEN "to_review" ELSE review[x]]
    /\ project' = [state |-> "PR", due |-> now + Window]
    /\ basis' = NoReviews
    /\ Answer(r)
    /\ UNCHANGED <<entered, votes, enough>>

(* The optional reviews of project_eval_actions.py *)

\* A review of one's own submission is not created; get_or_create keeps a row
\* that is there.
AddOptional(c) ==
    LET x == [reviewer |-> c.who, target |-> c.target, by |-> "optional"]
    IN  /\ c.who # c.target
        /\ review[x] = "absent"
        /\ entered' = entered \cup {c.who}
        /\ review' = [review EXCEPT ![x] = "to_review"]
        /\ UNCHANGED <<project, now, votes, enough, basis, pc, call, held, picked, seen>>

DeleteOptional(c) ==
    /\ c.review.by = "optional" /\ review[c.review] # "absent"
    /\ review' = [review EXCEPT ![c.review] = "absent"]
    /\ UNCHANGED <<project, now, entered, votes, enough, basis, pc, call, held, picked, seen>>

(* project_eval_post_submission *)

\* Mutant of FormOpen: the state that the view read is trusted.
FormOpenTrusted == TRUE

\* locked_peer_reviewing_project
FormOpen == project.state = "PR"

\* review.save() writes the row the view read, and inserts it again when it was
\* deleted meanwhile.
SubmitReview(r) ==
    /\ At(r, "locked", {"submit"})
    /\ review' = IF FormOpen THEN [review EXCEPT ![call[r].review] = "submitted"] ELSE review
    /\ Answer(r)
    /\ UNCHANGED <<project, entered, votes, enough, basis>>

(* score_project *)

\* A project with points_to_pass 0 is refused too: like Crash, it changes nothing.
Scoreable == project.state = "PR" /\ project.due <= now /\ review # NoReviews

ScoreRead(r) ==
    /\ At(r, "locked", {"score"})
    /\ \/ /\ Scoreable
          /\ Goto(r, "read")
          /\ seen' = [seen EXCEPT ![r] = review]
          /\ UNCHANGED <<now, call, held, picked>>
       \/ ~Scoreable /\ Answer(r)
    /\ UNCHANGED <<tables, basis>>

\* Only submissions that somebody is to review are scored (group_peer_reviews).
\* A submitted review counts in the score of the submission it is about, an
\* optional one too, but not towards its author's reviewed_enough_peers.
Reviewed(table) == {x.target : x \in {y \in Reviews : table[y] # "absent"}}
Submitted(table) == {x \in Reviews : table[x] = "submitted"}
DoneBy(table, l) == {x \in Mandatory : x.reviewer = l /\ table[x] = "submitted"}

\* Mutant of EnoughIn: exactly as many reviews as required are not enough.
EnoughInMore(table) ==
    {l \in Reviewed(table) : Cardinality(DoneBy(table, l)) > Required}

EnoughIn(table) ==
    {l \in Reviewed(table) : Cardinality(DoneBy(table, l)) >= Required}

ScoreSave(r) ==
    /\ pc[r] = "read"
    /\ enough' = (enough \ Reviewed(seen[r])) \cup EnoughIn(seen[r])
    /\ project' = [project EXCEPT !.state = "CO"]
    /\ basis' = seen[r]
    /\ Answer(r)
    /\ UNCHANGED <<entered, review, votes>>

(* update_project_vote *)

VotesOf(l) == {v \in votes : v[1] = l}

VoteCount(r) ==
    /\ At(r, "locked", {"vote"})
    /\ LET c == call[r]
           refused == <<c.who, c.target>> \in votes \/ Cardinality(VotesOf(c.who)) >= Budget
       IN  \/ refused /\ Answer(r)
           \/ ~refused /\ Goto(r, "counted") /\ UNCHANGED <<now, call, held, picked, seen>>
    /\ UNCHANGED <<tables, basis>>

VoteInsert(r) ==
    /\ pc[r] = "counted"
    /\ votes' = votes \cup {<<call[r].who, call[r].target>>}
    /\ Answer(r)
    /\ UNCHANGED <<project, entered, review, enough, basis>>

VoteRemove(r) ==
    /\ At(r, "locked", {"unvote"})
    /\ votes' = votes \ {<<call[r].who, call[r].target>>}
    /\ Answer(r)
    /\ UNCHANGED <<project, entered, review, enough, basis>>

\* The worker dies, or scoring meets an answer it cannot score: roll back.
Crash(r) ==
    /\ pc[r] # "idle"
    /\ Answer(r)
    /\ UNCHANGED <<tables, basis>>

\* Time passes: a due date may go by at any moment, under any request.
Tick ==
    /\ now < MaxTime
    /\ now' = now + 1
    /\ UNCHANGED <<tables, basis, pc, call, held, picked, seen>>

Step(r) ==
    \/ Lock(r) \/ PatchSave(r)
    \/ AssignSelect(r) \/ AssignSave(r)
    \/ SubmitReview(r)
    \/ ScoreRead(r) \/ ScoreSave(r)
    \/ VoteCount(r) \/ VoteInsert(r) \/ VoteRemove(r)

Next ==
    \/ \E r \in Requests : \/ Step(r) \/ Crash(r)
                           \/ \E c \in Calls : Begin(r, c)
    \/ \E c \in Calls : \/ c.kind = "add" /\ AddOptional(c)
                        \/ c.kind = "delete" /\ DeleteOptional(c)
    \/ Tick

Spec == Init /\ [][Next]_vars

---------------------------------------------------------------------------
\* Types of the rows and requests; no assignment pairs a submission with itself.
ProjectTypeOK ==
    /\ project \in ProjectRows /\ now \in Nat
    /\ entered \in SUBSET Learners
    /\ review \in Tables
    /\ votes \subseteq Learners \X Authors
    /\ enough \subseteq Learners
    /\ basis \in Tables
    /\ pc \in [Requests -> {"idle", "begun", "picked", "locked", "read", "counted"}]
    /\ call \in [Requests -> AllCalls \cup {NoCall}]
    /\ held \in [Requests -> ProjectRows]
    /\ \A r \in Requests : picked[r] \subseteq {x \in Mandatory : x.reviewer # x.target}
    /\ seen \in [Requests -> Tables]

\* "rejects a review that races the project being closed or scored": while the
\* scores are out, reviewed_enough_peers says of every submission that was
\* scored what the table of mandatory reviews says, whatever late assignments,
\* reopenings by staff, earlier scorings and stale saves went before.
GradesMatchReviews ==
    \A l \in Reviewed(basis) :
        l \in enough <=> Cardinality(DoneBy(review, l)) >= Required

\* No review is accepted and then left out of the scores, an optional one that
\* was deleted under an open form and inserted again by it included.
SubmittedIsCounted ==
    basis # NoReviews => Submitted(review) \subseteq Submitted(basis)

\* However many requests of one learner run at once, the votes they cast in the
\* project stay within the budget.
VoteBudgetHeld == \A l \in Learners : Cardinality(VotesOf(l)) <= Budget

\* "one peer-review pair per (reviewer submission, evaluated submission)"
\* (src/courses/services/learner_duplicate_preflight.py:15).
OneReviewPerPair ==
    \A x, y \in Reviews :
        /\ review[x] # "absent" /\ review[y] # "absent"
        /\ x.reviewer = y.reviewer /\ x.target = y.target
        => x = y
=============================================================================
