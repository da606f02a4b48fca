------------------------ MODULE CourseScoringProofs ------------------------
(***************************************************************************)
(* Proofs about CourseScoring, for any homeworks, learners, workers and    *)
(* bounds.  The inductive invariant says what every transaction relies on  *)
(* between its steps: what a scoring has read and still holds while it is  *)
(* alone (Reading), what its written rows are worth when they are          *)
(* committed (Scoring), what a switch has left to zero (Switched), and     *)
(* that the totals of the last transaction are those of the rows to come   *)
(* (Tally).  In these S, E and X stand for sub, enr and exact.             *)
(***************************************************************************)
EXTENDS CourseScoring, FiniteSetTheorems, TLAPS

Table == [Learners -> [Homeworks -> Rows \cup {None}]]

Switches == [l: Learners, disabled: BOOLEAN]

\* What a worker may be doing.
ReadTx ==
    [stage: {"read"}, h: Homeworks, force: BOOLEAN, job: BOOLEAN,
     homework: [state: States, ready: BOOLEAN], seen: [Learners -> Rows \cup {None}],
     disabled: [Learners -> BOOLEAN], alone: BOOLEAN]

ScoreTx ==
    [stage: {"written"}, h: Homeworks, force: BOOLEAN, job: BOOLEAN,
     homework: [state: States, ready: BOOLEAN], rows: Table,
     wrote: SUBSET (Learners \X Homeworks), totals: [Learners -> Nat],
     alone: BOOLEAN, last: BOOLEAN]

SwitchTx ==
    [stage: {"written"}, h: {None}, job: {FALSE}, rows: Table,
     wrote: SUBSET (Learners \X Homeworks), totals: [Learners -> Nat],
     alone: BOOLEAN, last: BOOLEAN, switch: Switches]

EndedTx == [stage: {"ended"}, h: Homeworks, force: BOOLEAN]

Txs == {Idle} \cup ReadTx \cup ScoreTx \cup SwitchTx \cup EndedTx

Intents == [status: Statuses, attempts: 0..MaxAttempts]

\* The types the proofs need; a pending job has an attempt left.
Typed ==
    /\ hw \in [Homeworks -> [state: States, ready: BOOLEAN]]
    /\ sub \in Table
    /\ enr \in [Learners -> [total: Nat, rank: 0..Cardinality(Learners), disabled: BOOLEAN]]
    /\ intent \in [Homeworks \X BOOLEAN -> Intents]
    /\ \A i \in Homeworks \X BOOLEAN :
            intent[i].status = "pending" => intent[i].attempts < MaxAttempts
    /\ tx \in [Workers -> Txs]
    /\ form \in [Learners -> Forms \cup {None}]
    /\ awaiting \in [Homeworks -> BOOLEAN]
    /\ exact \in [board: BOOLEAN, hw: [Homeworks -> BOOLEAN]]

\* The score columns of a row are what its content earns.
Earned(row) ==
    /\ row.score = row.content.q
    /\ row.total = row.content.q + (IF row.waived THEN 0 ELSE row.content.lip)
    /\ row.lip = 0 => row.total = row.score

\* A scoring that has read: rows never go away, and while it is alone contents and
\* switches are those it read.
Reading(t, S, E) ==
    /\ \A l \in Learners : t.seen[l] # None => S[l][t.h] # None
    /\ t.alone => \A l \in Learners :
        /\ t.disabled[l] = E[l].disabled
        /\ S[l][t.h] # None => t.seen[l] # None /\ S[l][t.h].content = t.seen[l].content

\* The totals of a transaction that is still the last are those of the rows as they
\* will be when it commits.
Tally(t, S) ==
    t.last =>
        /\ \A l \in Learners : t.totals[l] = TotalsOf(t.rows, l)
        /\ \A l \in Learners, h \in Homeworks :
            <<l, h>> \notin t.wrote => TotalOf(S[l][h]) = TotalOf(t.rows[l][h])

\* A scoring that has written: its rows keep their contents, which are locked, and
\* are exact when it was alone.
Scoring(t, S, E) ==
    /\ \A l \in Learners, h \in Homeworks : <<l, h>> \in t.wrote =>
        /\ h = t.h /\ t.rows[l][h] # None
        /\ S[l][h] # None /\ S[l][h].content = t.rows[l][h].content
    /\ t.alone => \A l \in Learners : S[l][t.h] # None =>
        /\ <<l, t.h>> \in t.wrote /\ Earned(t.rows[l][t.h])
        /\ E[l].disabled => t.rows[l][t.h].lip = 0
    /\ Tally(t, S)

\* A switch that has written: its rows are the zeroed ones, and nothing that is exact
\* and left alone has points for links.
Switched(t, S, X) ==
    /\ \A l \in Learners, h \in Homeworks : <<l, h>> \in t.wrote =>
        /\ l = t.switch.l /\ S[l][h] # None /\ t.rows[l][h] = Zeroed(S[l][h])
    /\ \A h \in Homeworks :
        /\ t.switch.disabled /\ X.hw[h] /\ S[t.switch.l][h] # None
        /\ <<t.switch.l, h>> \notin t.wrote
        => S[t.switch.l][h].lip = 0
    /\ Tally(t, S)

\* What every worker relies on between its steps.
TxInv ==
    /\ \A w \in Workers :
        /\ tx[w] \in ReadTx => Reading(tx[w], sub, enr)
        /\ tx[w] \in ScoreTx => Scoring(tx[w], sub, enr)
        /\ tx[w] \in SwitchTx => Switched(tx[w], sub, exact)
    /\ \A v, w \in Workers : tx[v] \in SwitchTx /\ tx[w] \in SwitchTx => v = w

RowsInv ==
    \A l \in Learners, h \in Homeworks : exact.hw[h] /\ sub[l][h] # None =>
        Earned(sub[l][h]) /\ (enr[l].disabled => sub[l][h].lip = 0)

\* The inductive invariant.
ScoringInv == Typed /\ TxInv /\ RowsInv /\ LeaderboardExact

---------------------------------------------------------------------------
(* Points and positions. *)

\* A total is a number.
LEMMA PointsType ==
  ASSUME NEW earned \in [Homeworks -> Nat]
  PROVE  Points(earned) \in Nat
  <1> DEFINE part == [h \in Homeworks |-> {h} \X (1 .. earned[h])]
             parts == {{h} \X (1 .. earned[h]) : h \in Homeworks}
  <1>1. IsFiniteSet(Homeworks)
    BY CourseScoringAssumption
  <1>2. part \in Surjection(Homeworks, parts)
    BY DEF Surjection
  <1>3. IsFiniteSet(parts)
    BY <1>1, <1>2, FS_Surjection
  <1>4. ASSUME NEW h \in Homeworks PROVE IsFiniteSet({h} \X (1 .. earned[h]))
    <2>1. IsFiniteSet(1 .. earned[h])
      BY FS_Interval
    <2>2. IsFiniteSet({h})
      BY FS_Singleton
    <2> QED
      BY <2>1, <2>2, FS_Product
  <1>5. \A T \in parts : IsFiniteSet(T)
    BY <1>4
  <1>6. IsFiniteSet(UNION parts)
    <2> HIDE DEF parts
    <2> QED
      BY <1>3, <1>5, FS_UNION
  <1> QED
    BY <1>6, FS_CardinalityType DEF Points

\* The rows decide the totals, and only through their own totals.
LEMMA TotalsType ==
  ASSUME NEW rows \in Table, NEW l \in Learners
  PROVE  TotalsOf(rows, l) \in Nat
  <1> DEFINE earned == [h \in Homeworks |-> TotalOf(rows[l][h])]
  <1>1. \A h \in Homeworks : TotalOf(rows[l][h]) \in Nat
    BY DEF Table, Rows, TotalOf
  <1>2. earned \in [Homeworks -> Nat]
    BY <1>1
  <1> HIDE DEF earned
  <1>3. Points(earned) \in Nat
    BY <1>2, PointsType
  <1> QED
    BY <1>3 DEF TotalsOf, earned

LEMMA TotalsSame ==
  ASSUME NEW R, NEW S, NEW l \in Learners,
         \A h \in Homeworks : TotalOf(R[l][h]) = TotalOf(S[l][h])
  PROVE  TotalsOf(R, l) = TotalsOf(S, l)
  <1>1. [h \in Homeworks |-> TotalOf(R[l][h])] = [h \in Homeworks |-> TotalOf(S[l][h])]
    OBVIOUS
  <1> QED
    BY <1>1 DEF TotalsOf

\* Positions are 1..n, all different, and in the order of the totals.
LEMMA RankedOrder ==
  ASSUME NEW totals \in [Learners -> Nat]
  PROVE  /\ Ranked(totals) \in [Learners -> 0 .. Cardinality(Learners)]
         /\ \A l, m \in Learners : l # m => Ranked(totals)[l] # Ranked(totals)[m]
         /\ \A l, m \in Learners :
                Ranked(totals)[l] < Ranked(totals)[m] => totals[l] >= totals[m]
  <1> DEFINE Ahead(m, l) == totals[m] > totals[l] \/ (totals[m] = totals[l] /\ m < l)
             Above(l) == {m \in Learners : Ahead(m, l)}
  <1>1. IsFiniteSet(Learners) /\ Cardinality(Learners) \in Nat /\ Learners \subseteq Nat
    BY CourseScoringAssumption, FS_CardinalityType
  <1>2. \A l \in Learners : Ranked(totals)[l] = 1 + Cardinality(Above(l))
    BY DEF Ranked
  <1>3. ASSUME NEW l \in Learners
        PROVE  /\ IsFiniteSet(Above(l)) /\ Cardinality(Above(l)) \in Nat
               /\ Cardinality(Above(l)) < Cardinality(Learners)
    <2>1. Above(l) \in SUBSET Learners /\ l \notin Above(l)
      BY <1>1
    <2> HIDE DEF Above
    <2>2. /\ IsFiniteSet(Above(l)) /\ Cardinality(Above(l)) <= Cardinality(Learners)
          /\ Cardinality(Learners) = Cardinality(Above(l)) => Learners = Above(l)
      BY <1>1, <2>1, FS_Subset
    <2>3. Cardinality(Above(l)) \in Nat
      BY <2>2, FS_CardinalityType
    <2> QED
      BY <1>1, <2>1, <2>2, <2>3
  <1>4. ASSUME NEW l \in Learners, NEW m \in Learners, Ahead(m, l)
        PROVE  Cardinality(Above(m)) < Cardinality(Above(l))
    <2>1. \A k \in Learners : Ahead(k, m) => Ahead(k, l)
      BY <1>1, <1>4
    <2>2. ~Ahead(m, m)
      BY <1>1
    <2>3. Above(m) \in SUBSET Above(l) /\ m \in Above(l) /\ m \notin Above(m)
      BY <1>4, <2>1, <2>2
    <2> HIDE DEF Above, Ahead
    <2>4. /\ Cardinality(Above(m)) <= Cardinality(Above(l))
          /\ Cardinality(Above(l)) = Cardinality(Above(m)) => Above(l) = Above(m)
      BY <1>3, <2>3, FS_Subset
    <2>5. Cardinality(Above(m)) \in Nat /\ Cardinality(Above(l)) \in Nat
      BY <1>3
    <2> QED
      BY <2>3, <2>4, <2>5
  <1>5. ASSUME NEW l \in Learners, NEW m \in Learners, l # m
        PROVE  Ahead(m, l) \/ Ahead(l, m)
    BY <1>1, <1>5
  <1>6. Ranked(totals) \in [Learners -> 0 .. Cardinality(Learners)]
    <2>1. \A l \in Learners : Ranked(totals)[l] \in 0 .. Cardinality(Learners)
      <3> HIDE DEF Above
      <3> QED
        BY <1>1, <1>2, <1>3
    <2> QED
      BY <2>1 DEF Ranked
  <1> HIDE DEF Above
  <1>7. \A l, m \in Learners : Ahead(m, l) => Ranked(totals)[m] < Ranked(totals)[l]
    BY <1>2, <1>3, <1>4
  <1>8. \A l \in Learners : Ranked(totals)[l] \in Nat /\ totals[l] \in Nat
    BY <1>2, <1>3
  <1>9. ASSUME NEW l \in Learners, NEW m \in Learners, Ranked(totals)[l] < Ranked(totals)[m]
        PROVE  totals[l] >= totals[m]
    <2>1. ~Ahead(m, l)
      BY <1>7, <1>8, <1>9
    <2> QED
      BY <1>8, <2>1
  <1>10. ASSUME NEW l \in Learners, NEW m \in Learners, l # m
         PROVE  Ranked(totals)[l] # Ranked(totals)[m]
    <2> HIDE DEF Ahead
    <2> QED
      BY <1>5, <1>7, <1>8, <1>10
  <1> QED
    BY <1>6, <1>9, <1>10

---------------------------------------------------------------------------
(* What a worker is doing is told by its stage, and by whether it has a     *)
(* homework.                                                                *)

LEMMA TxKinds ==
  ASSUME NEW t \in Txs
  PROVE  /\ t.stage \in {"idle", "read", "written", "ended"}
         /\ t.stage = "read" <=> t \in ReadTx
         /\ t.stage = "written" /\ t.h # None <=> t \in ScoreTx
         /\ t.stage = "written" /\ t.h = None <=> t \in SwitchTx
         /\ t.stage = "ended" <=> t \in EndedTx
         /\ t.stage = "idle" <=> t = Idle
  <1>1. t \in ReadTx => t.stage = "read"
    BY DEF ReadTx
  <1>2. t \in ScoreTx => t.stage = "written" /\ t.h # None
    BY CourseScoringAssumption DEF ScoreTx
  <1>3. t \in SwitchTx => t.stage = "written" /\ t.h = None
    BY DEF SwitchTx
  <1>4. t \in EndedTx => t.stage = "ended"
    BY DEF EndedTx
  <1>5. t = Idle => t.stage = "idle"
    BY DEF Idle
  <1>6. t = Idle \/ t \in ReadTx \/ t \in ScoreTx \/ t \in SwitchTx \/ t \in EndedTx
    BY DEF Txs
  <1> QED
    BY <1>1, <1>2, <1>3, <1>4, <1>5, <1>6

\* The switch in progress is what Switching looks for, and locks are those of
\* the written transactions.
LEMMA TxLocks ==
  ASSUME Typed
  PROVE  /\ Switching <=> \E w \in Workers : tx[w] \in SwitchTx
         /\ \A l, h : Locked(l, h) <=>
                \E w \in Workers : tx[w] \in ScoreTx \cup SwitchTx /\ <<l, h>> \in tx[w].wrote
  <1>1. \A w \in Workers : tx[w] \in Txs
    BY DEF Typed
  <1> QED
    BY <1>1, TxKinds DEF Switching, Locked

\* A step that leaves rows, enrollments and transactions alone.
LEMMA CalmKeeps ==
  ASSUME ScoringInv, Typed', UNCHANGED <<sub, enr, exact, tx>>
  PROVE  ScoringInv'
  BY DEF ScoringInv, TxInv, RowsInv, LeaderboardExact

\* A step that only changes what one worker is doing.
LEMMA WorkerKeeps ==
  ASSUME ScoringInv, Typed', UNCHANGED <<sub, enr, exact>>, NEW w \in Workers, NEW t \in Txs,
         tx' = [tx EXCEPT ![w] = t],
         t \in ReadTx => Reading(t, sub, enr),
         t \in ScoreTx => Scoring(t, sub, enr),
         t \in SwitchTx => Switched(t, sub, exact) /\ \A v \in Workers : tx[v] \notin SwitchTx
  PROVE  ScoringInv'
  <1>1. tx'[w] = t /\ \A v \in Workers \ {w} : tx'[v] = tx[v]
    BY DEF ScoringInv, Typed
  <1>2. TxInv'
    BY <1>1 DEF ScoringInv, TxInv
  <1> QED
    BY <1>2 DEF ScoringInv, RowsInv, LeaderboardExact

\* Staff's requests: they queue jobs and change the homework's row.
LEMMA StaffKeeps ==
  ASSUME ScoringInv, NEW h \in Homeworks,
         \/ QueueScore(h) \/ QueueRescore(h) \/ PatchHomework(h)
         \/ ExtendDeadline(h) \/ DeadlinePasses(h)
  PROVE  ScoringInv'
  <1>1. Typed /\ MaxAttempts \in Nat \ {0}
    BY CourseScoringAssumption DEF ScoringInv
  <1>2. ASSUME NEW force \in BOOLEAN, intent' = Dispatched(h, force)
        PROVE  /\ intent' \in [Homeworks \X BOOLEAN -> Intents]
               /\ \A i \in Homeworks \X BOOLEAN :
                    intent'[i].status = "pending" => intent'[i].attempts < MaxAttempts
    <2>1. [status |-> "pending", attempts |-> 0] \in Intents
      BY <1>1 DEF Intents, Statuses
    <2> QED
      BY <1>1, <1>2, <2>1 DEF Typed, Dispatched
  <1>3. UNCHANGED <<sub, enr, exact, tx, form>>
    BY DEF QueueScore, QueueRescore, PatchHomework, ExtendDeadline, DeadlinePasses
  <1>4. /\ intent' \in [Homeworks \X BOOLEAN -> Intents]
        /\ \A i \in Homeworks \X BOOLEAN :
                intent'[i].status = "pending" => intent'[i].attempts < MaxAttempts
    BY <1>1, <1>2 DEF Typed, QueueScore, QueueRescore, PatchHomework, ExtendDeadline, DeadlinePasses
  <1>5. hw' \in [Homeworks -> [state: States, ready: BOOLEAN]]
    <2>1. hw \in [Homeworks -> [state: States, ready: BOOLEAN]]
      BY <1>1 DEF Typed
    <2>2. \/ hw' = hw
          \/ \E row \in [state: States, ready: BOOLEAN] : hw' = [hw EXCEPT ![h] = row]
          \/ hw' = [hw EXCEPT ![h].state = "OPEN"]
          \/ \E b \in BOOLEAN : hw' = [hw EXCEPT ![h].ready = b]
      BY DEF QueueScore, QueueRescore, PatchHomework, ExtendDeadline, DeadlinePasses
    <2> QED
      BY <2>1, <2>2 DEF States
  <1>7. awaiting' \in [Homeworks -> BOOLEAN]
    BY <1>1 DEF Typed, QueueScore, QueueRescore, PatchHomework, ExtendDeadline, DeadlinePasses
  <1>6. Typed'
    BY <1>1, <1>3, <1>4, <1>5, <1>7 DEF Typed
  <1> QED
    BY <1>3, <1>6, CalmKeeps

\* A lease that runs out puts the job back while it has attempts left.
LEMMA LeaseKeeps ==
  ASSUME ScoringInv, NEW h \in Homeworks, NEW force \in BOOLEAN, LeaseExpires(h, force)
  PROVE  ScoringInv'
  <1>1. /\ Typed /\ UNCHANGED <<hw, sub, enr, tx, form, awaiting, exact>>
        /\ intent' = [intent EXCEPT ![<<h, force>>].status =
                        IF intent[<<h, force>>].attempts < MaxAttempts THEN "pending" ELSE "failed"]
    BY DEF ScoringInv, LeaseExpires
  <1>2. intent' \in [Homeworks \X BOOLEAN -> Intents]
    BY <1>1 DEF Typed, Intents, Statuses
  <1>3. \A i \in Homeworks \X BOOLEAN :
            intent'[i].status = "pending" => intent'[i].attempts < MaxAttempts
    BY <1>1 DEF Typed, Intents
  <1>4. Typed'
    BY <1>1, <1>2, <1>3 DEF Typed
  <1> QED
    BY <1>1, <1>4, CalmKeeps

\* The view reads the row of its form.
LEMMA PostReadKeeps ==
  ASSUME ScoringInv, NEW l \in Learners, PostRead(l)
  PROVE  ScoringInv'
  <1>1. Typed /\ UNCHANGED <<hw, sub, enr, intent, tx, awaiting, exact>>
    BY DEF ScoringInv, PostRead
  <1>2. PICK h \in Homeworks : form' = [form EXCEPT ![l] = [h |-> h, row |-> sub[l][h]]]
    BY DEF PostRead
  <1>3. [h |-> h, row |-> sub[l][h]] \in Forms
    BY <1>1 DEF Typed, Table, Forms
  <1>4. form' \in [Learners -> Forms \cup {None}]
    BY <1>1, <1>2, <1>3 DEF Typed
  <1>5. Typed'
    BY <1>1, <1>4 DEF Typed
  <1> QED
    BY <1>1, <1>5, CalmKeeps

\* A transaction starts with what is committed.
LEMMA BeginKeeps ==
  ASSUME ScoringInv, NEW w \in Workers, NEW h \in Homeworks, NEW force \in BOOLEAN,
         NEW job \in BOOLEAN, Begin(w, h, force, job),
         UNCHANGED <<hw, sub, enr, form, awaiting, exact>>,
         intent' \in [Homeworks \X BOOLEAN -> Intents],
         \A i \in Homeworks \X BOOLEAN :
            intent'[i].status = "pending" => intent'[i].attempts < MaxAttempts
  PROVE  ScoringInv'
  <1> DEFINE r == [stage |-> "read", h |-> h, force |-> force, job |-> job, homework |-> hw[h],
                   seen |-> [l \in Learners |-> sub[l][h]],
                   disabled |-> [l \in Learners |-> enr[l].disabled], alone |-> TRUE]
             e == [stage |-> "ended", h |-> h, force |-> force]
             t == IF Scorable(h, force) THEN r ELSE IF job THEN e ELSE Idle
  <1>1. tx' = [tx EXCEPT ![w] = t]
    BY DEF Begin
  <1>2. r \in ReadTx
    <2>1. [l \in Learners |-> sub[l][h]] \in [Learners -> Rows \cup {None}]
      BY DEF ScoringInv, Typed, Table
    <2>2. [l \in Learners |-> enr[l].disabled] \in [Learners -> BOOLEAN]
      BY DEF ScoringInv, Typed
    <2>3. hw[h] \in [state: States, ready: BOOLEAN]
      BY DEF ScoringInv, Typed
    <2> QED
      BY <2>1, <2>2, <2>3 DEF ReadTx
  <1>3. Reading(r, sub, enr)
    BY DEF Reading
  <1>4. e \in EndedTx
    BY DEF EndedTx
  <1>5. Idle.stage = "idle"
    BY DEF Idle
  <1> HIDE DEF r, e
  <1>6. t \in Txs /\ t \in {r, e, Idle}
    BY <1>2, <1>4 DEF Txs
  <1>7. /\ e \in Txs /\ r \in Txs /\ Idle \in Txs
        /\ e.stage = "ended" /\ r.stage = "read"
    BY <1>2, <1>4 DEF Txs, ReadTx, EndedTx
  <1>8. /\ t \in ReadTx => t = r
        /\ t \notin ScoreTx /\ t \notin SwitchTx
    BY <1>5, <1>6, <1>7, TxKinds
  <1> HIDE DEF t
  <1>9. Typed'
    BY <1>1, <1>6 DEF ScoringInv, Typed
  <1> QED
    BY <1>1, <1>3, <1>6, <1>8, <1>9, WorkerKeeps

\* A worker takes a job, or the API scores.
LEMMA StartKeeps ==
  ASSUME ScoringInv, NEW w \in Workers, RunJob(w) \/ ScoreNow(w)
  PROVE  ScoringInv'
  <1>1. Typed /\ MaxAttempts \in Nat
    BY CourseScoringAssumption DEF ScoringInv
  <1>2. CASE RunJob(w)
    <2>1. PICK h \in Homeworks, force \in BOOLEAN :
            /\ intent[<<h, force>>].status = "pending"
            /\ intent' = [intent EXCEPT ![<<h, force>>] =
                            [status |-> "leased", attempts |-> @.attempts + 1]]
            /\ Begin(w, h, force, TRUE)
      BY <1>2 DEF RunJob
    <2>2. intent[<<h, force>>].attempts < MaxAttempts /\ intent[<<h, force>>] \in Intents
      BY <1>1, <2>1 DEF Typed
    <2>3. [status |-> "leased", attempts |-> intent[<<h, force>>].attempts + 1] \in Intents
      BY <1>1, <2>2 DEF Intents, Statuses
    <2>4. /\ intent' \in [Homeworks \X BOOLEAN -> Intents]
          /\ \A i \in Homeworks \X BOOLEAN :
                intent'[i].status = "pending" => intent'[i].attempts < MaxAttempts
      BY <1>1, <2>1, <2>3 DEF Typed
    <2>5. UNCHANGED <<hw, sub, enr, form, awaiting, exact>>
      BY <1>2 DEF RunJob
    <2> QED
      BY <2>1, <2>4, <2>5, BeginKeeps
  <1>3. CASE ScoreNow(w)
    <2>1. PICK h \in Homeworks : Begin(w, h, FALSE, FALSE)
      BY <1>3 DEF ScoreNow
    <2>2. UNCHANGED <<hw, sub, enr, form, awaiting, exact, intent>>
      BY <1>3 DEF ScoreNow
    <2>3. /\ intent' \in [Homeworks \X BOOLEAN -> Intents]
          /\ \A i \in Homeworks \X BOOLEAN :
                intent'[i].status = "pending" => intent'[i].attempts < MaxAttempts
      BY <1>1, <2>2 DEF Typed
    <2> QED
      BY <2>1, <2>2, <2>3, BeginKeeps
  <1> QED
    BY <1>2, <1>3

\* A worker that is done, or dies, leaves nothing behind.
LEMMA StopKeeps ==
  ASSUME ScoringInv, NEW w \in Workers, EndJob(w) \/ WorkerDies(w)
  PROVE  ScoringInv'
  <1>1. /\ Typed /\ tx' = [tx EXCEPT ![w] = Idle]
        /\ UNCHANGED <<hw, sub, enr, form, awaiting, exact>>
    BY DEF ScoringInv, EndJob, WorkerDies
  <1>2. Idle \in Txs /\ Idle.stage = "idle"
    BY DEF Txs, Idle
  <1>3. Idle \notin ReadTx /\ Idle \notin ScoreTx /\ Idle \notin SwitchTx
    BY <1>2, TxKinds
  <1>4. /\ intent' \in [Homeworks \X BOOLEAN -> Intents]
        /\ \A i \in Homeworks \X BOOLEAN :
                intent'[i].status = "pending" => intent'[i].attempts < MaxAttempts
    <2>1. CASE WorkerDies(w)
      BY <1>1, <2>1 DEF Typed, WorkerDies
    <2>2. CASE EndJob(w)
      <3>1. tx[w] \in EndedTx
        BY <1>1, <2>2, TxKinds DEF Typed, EndJob
      <3> DEFINE i == <<tx[w].h, tx[w].force>>
      <3>2. /\ i \in Homeworks \X BOOLEAN
            /\ intent' = [intent EXCEPT ![i].status = IF @ = "leased" THEN "succeeded" ELSE @]
        BY <2>2, <3>1 DEF EndedTx, EndJob
      <3> HIDE DEF i
      <3>3. intent[i] \in Intents
        BY <1>1, <3>2 DEF Typed
      <3>4. intent' \in [Homeworks \X BOOLEAN -> Intents]
        BY <1>1, <3>2, <3>3 DEF Typed, Intents, Statuses
      <3>5. \A j \in Homeworks \X BOOLEAN :
                intent'[j].status = "pending" => intent'[j].attempts < MaxAttempts
        BY <1>1, <3>2, <3>3 DEF Typed, Intents
      <3> QED
        BY <3>4, <3>5
    <2> QED
      BY <2>1, <2>2
  <1>5. Typed'
    BY <1>1, <1>2, <1>4 DEF Typed
  <1> QED
    BY <1>1, <1>2, <1>3, <1>5, WorkerKeeps

---------------------------------------------------------------------------
(* Writes. *)

\* What scoring and switching make of a row.
LEMMA ScoredRow ==
  ASSUME NEW row \in Rows, NEW seen \in Rows, NEW disabled \in BOOLEAN
  PROVE  /\ Scored(row, seen, disabled) \in Rows
         /\ Scored(row, seen, disabled).content = row.content
         /\ row.content = seen.content => Earned(Scored(row, seen, disabled))
         /\ disabled => Scored(row, seen, disabled).lip = 0
  <1> DEFINE q == seen.content.q
             links == seen.content.lip
             lip == IF disabled THEN 0 ELSE IF links > 0 THEN links ELSE seen.lip
             total == q + (IF disabled THEN 0 ELSE links)
             scored == Scored(row, seen, disabled)
  <1>1. /\ q \in Nat /\ links \in Nat /\ seen.lip \in Nat
        /\ row.content \in Contents /\ seen.content \in Contents
    BY CourseScoringAssumption DEF Rows
  <1>2. lip \in Nat /\ total \in Nat
    BY <1>1
  <1>3. scored = [row EXCEPT !.score = q, !.lip = lip, !.total = total, !.waived = disabled]
    BY DEF Scored
  <1>4. /\ scored \in Rows /\ scored.content = row.content /\ scored.score = q
        /\ scored.lip = lip /\ scored.total = total /\ scored.waived = disabled
    <2> HIDE DEF q, lip, total, scored
    <2>1. scored \in Rows
      BY <1>1, <1>2, <1>3 DEF Rows
    <2> QED
      BY <1>3, <2>1 DEF Rows
  <1>5. ASSUME row.content = seen.content PROVE Earned(scored)
    <2> HIDE DEF scored
    <2>1. scored.score = scored.content.q
      BY <1>4, <1>5
    <2>2. scored.total = scored.content.q + (IF scored.waived THEN 0 ELSE scored.content.lip)
      BY <1>4, <1>5
    <2>3. scored.lip = 0 => scored.total = scored.score
      BY <1>1, <1>4
    <2> QED
      BY <2>1, <2>2, <2>3 DEF Earned
  <1>6. disabled => scored.lip = 0
    <2> HIDE DEF scored
    <2> QED
      BY <1>4
  <1> QED
    BY <1>4, <1>5, <1>6

LEMMA ZeroedRow ==
  ASSUME NEW row \in Rows
  PROVE  /\ Zeroed(row) \in Rows /\ Zeroed(row).content = row.content
         /\ Zeroed(row).lip = 0
         /\ Earned(row) => Earned(Zeroed(row))
  <1> DEFINE zeroed == Zeroed(row)
  <1>1. /\ row.content \in Contents /\ row.score \in Nat
        /\ \A c \in Contents : c.q \in Nat /\ c.lip \in Nat
    BY CourseScoringAssumption DEF Rows
  <1>2. zeroed \in Rows
    BY <1>1 DEF Zeroed, Rows
  <1>3. /\ zeroed.content = row.content /\ zeroed.score = row.score /\ zeroed.lip = 0
        /\ zeroed.total = row.score /\ zeroed.waived = TRUE
    BY DEF Zeroed, Rows
  <1> HIDE DEF zeroed
  <1>4. Earned(row) => Earned(zeroed)
    BY <1>1, <1>3 DEF Earned
  <1> QED
    BY <1>2, <1>3, <1>4 DEF zeroed

\* A scoring writes its rows, and the totals with them.
LEMMA ScoreWriteKeeps ==
  ASSUME ScoringInv, NEW w \in Workers, ScoreWrite(w)
  PROVE  ScoringInv'
  <1> DEFINE r == tx[w]
             wrote == ScoredKeys(r)
             rows == ScoredRows(r)
             totals == Recalculated(rows)
             t == [stage |-> "written", h |-> r.h, force |-> r.force, job |-> r.job,
                   homework |-> r.homework, rows |-> rows, wrote |-> wrote,
                   totals |-> totals, alone |-> r.alone, last |-> TRUE]
  <1>1. /\ Typed /\ r.stage = "read" /\ tx' = [tx EXCEPT ![w] = t]
        /\ UNCHANGED <<hw, sub, enr, intent, left, form, awaiting, exact>>
    BY DEF ScoringInv, ScoreWrite
  <1>2. r \in ReadTx /\ Reading(r, sub, enr)
    <2>1. r \in Txs
      BY <1>1 DEF Typed
    <2>2. r \in ReadTx
      BY <1>1, <2>1, TxKinds
    <2> QED
      BY <2>2 DEF ScoringInv, TxInv
  <1> HIDE DEF r
  <1>3. /\ r.h \in Homeworks /\ r.force \in BOOLEAN /\ r.job \in BOOLEAN
        /\ r.homework \in [state: States, ready: BOOLEAN]
        /\ r.seen \in [Learners -> Rows \cup {None}]
        /\ r.disabled \in [Learners -> BOOLEAN] /\ r.alone \in BOOLEAN
    BY <1>2 DEF ReadTx
  <1>4. /\ wrote \in SUBSET (Learners \X Homeworks)
        /\ \A l \in Learners, h \in Homeworks :
                <<l, h>> \in wrote <=> h = r.h /\ r.seen[l] # None
    BY <1>3 DEF ScoredKeys
  <1>5. ASSUME NEW l \in Learners, NEW h \in Homeworks, <<l, h>> \in wrote
        PROVE  /\ h = r.h /\ sub[l][h] \in Rows
               /\ rows[l][h] \in Rows /\ rows[l][h].content = sub[l][h].content
               /\ sub[l][h].content = r.seen[l].content => Earned(rows[l][h])
               /\ r.disabled[l] => rows[l][h].lip = 0
    <2>1. h = r.h /\ r.seen[l] \in Rows /\ sub[l][h] # None
      BY <1>2, <1>3, <1>4, <1>5 DEF Reading
    <2>2. sub[l][h] \in Rows
      BY <1>1, <2>1 DEF Typed, Table
    <2>3. rows[l][h] = Scored(sub[l][h], r.seen[l], r.disabled[l])
      BY <1>5 DEF ScoredRows
    <2>4. r.disabled[l] \in BOOLEAN
      BY <1>3
    <2> HIDE DEF rows
    <2> DEFINE scored == Scored(sub[l][h], r.seen[l], r.disabled[l])
    <2>5. /\ scored \in Rows /\ scored.content = sub[l][h].content
          /\ sub[l][h].content = r.seen[l].content => Earned(scored)
          /\ r.disabled[l] => scored.lip = 0
      BY <2>1, <2>2, <2>4, ScoredRow, Zenon
    <2> HIDE DEF scored
    <2>6. rows[l][h] = scored
      BY <2>3 DEF scored
    <2> QED
      BY <2>1, <2>2, <2>5, <2>6
  <1>6. \A l \in Learners, h \in Homeworks : <<l, h>> \notin wrote => rows[l][h] = sub[l][h]
    BY DEF ScoredRows
  <1>7. rows \in Table
    <2>1. ASSUME NEW l \in Learners, NEW h \in Homeworks PROVE rows[l][h] \in Rows \cup {None}
      <3>1. CASE <<l, h>> \in wrote
        BY <1>5, <3>1
      <3>2. CASE <<l, h>> \notin wrote
        BY <1>1, <1>6, <3>2 DEF Typed, Table
      <3> QED
        BY <3>1, <3>2
    <2>2. rows = [l \in Learners |-> [h \in Homeworks |-> rows[l][h]]]
      BY DEF ScoredRows
    <2> HIDE DEF rows
    <2> QED
      BY <2>1, <2>2 DEF Table
  <1> HIDE DEF wrote, rows
  <1>8. totals \in [Learners -> Nat] /\ \A l \in Learners : totals[l] = TotalsOf(rows, l)
    BY <1>7, TotalsType DEF Recalculated
  <1> HIDE DEF totals
  <1>9. t \in ScoreTx
    BY <1>3, <1>4, <1>7, <1>8 DEF ScoreTx
  <1>10. Scoring(t, sub, enr)
    <2>1. ASSUME NEW l \in Learners, NEW h \in Homeworks, <<l, h>> \in wrote
          PROVE  /\ h = r.h /\ rows[l][h] # None
                 /\ sub[l][h] # None /\ sub[l][h].content = rows[l][h].content
      BY <1>5, <2>1, NoneAssumption
    <2>2. ASSUME r.alone, NEW l \in Learners, sub[l][r.h] # None
          PROVE  /\ <<l, r.h>> \in wrote /\ Earned(rows[l][r.h])
                 /\ enr[l].disabled => rows[l][r.h].lip = 0
      <3>1. /\ r.disabled[l] = enr[l].disabled /\ r.seen[l] # None
            /\ sub[l][r.h].content = r.seen[l].content
        BY <1>2, <2>2 DEF Reading
      <3>2. <<l, r.h>> \in wrote
        BY <1>3, <1>4, <3>1
      <3> QED
        BY <1>3, <1>5, <3>1, <3>2
    <2>3. Tally(t, sub)
      BY <1>6, <1>8 DEF Tally
    <2> QED
      BY <2>1, <2>2, <2>3 DEF Scoring
  <1>11. t \in Txs /\ t.stage = "written" /\ t.h = r.h
    BY <1>9 DEF Txs
  <1> HIDE DEF t
  <1>12. t \notin ReadTx /\ t \notin SwitchTx
    BY <1>9, <1>11, TxKinds
  <1>13. Typed'
    BY <1>1, <1>11 DEF Typed
  <1> QED
    BY <1>1, <1>10, <1>11, <1>12, <1>13, WorkerKeeps

\* A switch zeroes the points for links it finds.
LEMMA SwitchWriteKeeps ==
  ASSUME ScoringInv, NEW w \in Workers, SwitchWrite(w)
  PROVE  ScoringInv'
  <1>1. Typed /\ ~Switching /\ UNCHANGED <<hw, sub, enr, intent, form, awaiting, exact>>
    BY DEF ScoringInv, SwitchWrite
  <1> DEFINE Wrote(l, disabled) == {<<l, h>> : h \in {k \in Homeworks :
                        disabled /\ sub[l][k] # None /\ sub[l][k].lip > 0}}
             Rewritten(wr) == [m \in Learners |-> [h \in Homeworks |->
                        IF <<m, h>> \in wr THEN Zeroed(sub[m][h]) ELSE sub[m][h]]]
  <1>2. PICK l \in Learners, disabled \in BOOLEAN :
            tx' = [tx EXCEPT ![w] =
                [stage |-> "written", h |-> None, job |-> FALSE,
                 rows |-> Rewritten(Wrote(l, disabled)), wrote |-> Wrote(l, disabled),
                 totals |-> Recalculated(Rewritten(Wrote(l, disabled))),
                 alone |-> TRUE, last |-> TRUE,
                 switch |-> [l |-> l, disabled |-> disabled]]]
    BY DEF SwitchWrite
  <1> DEFINE wrote == Wrote(l, disabled)
             rows == Rewritten(wrote)
             totals == Recalculated(rows)
             switch == [l |-> l, disabled |-> disabled]
             t == [stage |-> "written", h |-> None, job |-> FALSE, rows |-> rows,
                   wrote |-> wrote, totals |-> totals, alone |-> TRUE, last |-> TRUE,
                   switch |-> switch]
  <1>3. tx' = [tx EXCEPT ![w] = t]
    BY <1>2
  <1>4. /\ wrote \in SUBSET (Learners \X Homeworks)
        /\ \A m \in Learners, h \in Homeworks :
                <<m, h>> \in wrote <=> m = l /\ disabled /\ sub[l][h] # None /\ sub[l][h].lip > 0
    OBVIOUS
  <1> HIDE DEF wrote, Wrote
  <1>5. \A m \in Learners, h \in Homeworks :
            rows[m][h] = IF <<m, h>> \in wrote THEN Zeroed(sub[m][h]) ELSE sub[m][h]
    OBVIOUS
  <1>6. rows \in Table
    <2>1. ASSUME NEW m \in Learners, NEW h \in Homeworks PROVE rows[m][h] \in Rows \cup {None}
      <3>1. sub[m][h] \in Rows \cup {None}
        BY <1>1 DEF Typed, Table
      <3>2. CASE <<m, h>> \in wrote
        BY <1>4, <1>5, <3>1, <3>2, ZeroedRow
      <3> QED
        BY <1>5, <3>1, <3>2
    <2>2. rows = [m \in Learners |-> [h \in Homeworks |-> rows[m][h]]]
      OBVIOUS
    <2> HIDE DEF rows
    <2> QED
      BY <2>1, <2>2 DEF Table
  <1> HIDE DEF rows, Rewritten
  <1>7. totals \in [Learners -> Nat] /\ \A m \in Learners : totals[m] = TotalsOf(rows, m)
    BY <1>6, TotalsType DEF Recalculated
  <1> HIDE DEF totals
  <1>8. switch \in Switches /\ switch.l = l /\ switch.disabled = disabled
    BY DEF Switches
  <1> HIDE DEF switch
  <1>9. t \in SwitchTx
    BY <1>4, <1>6, <1>7, <1>8 DEF SwitchTx
  <1>10. Switched(t, sub, exact)
    <2>1. ASSUME NEW m \in Learners, NEW h \in Homeworks, <<m, h>> \in wrote
          PROVE  m = switch.l /\ sub[m][h] # None /\ rows[m][h] = Zeroed(sub[m][h])
      BY <1>4, <1>5, <1>8, <2>1
    <2>2. ASSUME NEW h \in Homeworks, switch.disabled, sub[switch.l][h] # None,
                 <<switch.l, h>> \notin wrote
          PROVE  sub[switch.l][h].lip = 0
      <3>1. sub[l][h] \in Rows
        BY <1>1, <1>8, <2>2 DEF Typed, Table
      <3>2. sub[l][h].lip \in Nat /\ ~(sub[l][h].lip > 0)
        BY <1>4, <1>8, <2>2, <3>1 DEF Rows
      <3> QED
        BY <1>8, <3>2
    <2>3. Tally(t, sub)
      BY <1>5, <1>7 DEF Tally
    <2> QED
      BY <2>1, <2>2, <2>3 DEF Switched
  <1>11. t \in Txs /\ t.stage = "written" /\ t.h = None
    BY <1>9 DEF Txs
  <1> HIDE DEF t
  <1>12. t \notin ReadTx /\ t \notin ScoreTx
    BY <1>11, TxKinds
  <1>13. Typed'
    BY <1>1, <1>3, <1>11 DEF Typed
  <1>14. \A v \in Workers : tx[v] \notin SwitchTx
    BY <1>1, TxLocks
  <1> QED
    BY <1>1, <1>3, <1>10, <1>11, <1>12, <1>13, <1>14, WorkerKeeps

---------------------------------------------------------------------------
(* Rows change under the transactions of other workers. *)

\* A transaction that only learned that it is not alone, or not the last.
Follows(u, t) ==
    /\ u \in Txs
    /\ t \in ReadTx => /\ u \in ReadTx
                       /\ u.h = t.h /\ u.seen = t.seen /\ u.disabled = t.disabled
                       /\ u.alone => t.alone
    /\ t \in ScoreTx \cup SwitchTx =>
        /\ u.h = t.h /\ u.rows = t.rows /\ u.wrote = t.wrote /\ u.totals = t.totals
        /\ u.alone => t.alone
        /\ u.last => t.last
    /\ t \in ScoreTx => u \in ScoreTx
    /\ t \in SwitchTx => u \in SwitchTx /\ u.switch = t.switch
    /\ t \notin ReadTx \cup ScoreTx \cup SwitchTx => u = t

LEMMA FollowsItself ==
  ASSUME NEW t \in Txs
  PROVE  Follows(t, t)
  BY DEF Follows

LEMMA ReadFollows ==
  ASSUME NEW t \in ReadTx, NEW a, a \in BOOLEAN, a => t.alone, NEW u, u = [t EXCEPT !.alone = a]
  PROVE  Follows(u, t) /\ u.alone = a
  <1>1. t.stage = "read" /\ t \in Txs
    BY DEF ReadTx, Txs
  <1>2. t \notin ScoreTx /\ t \notin SwitchTx
    BY <1>1, TxKinds
  <1>3. u \in ReadTx
    BY DEF ReadTx
  <1>4. u.h = t.h /\ u.seen = t.seen /\ u.disabled = t.disabled /\ u.alone = a
    BY DEF ReadTx
  <1> QED
    BY <1>2, <1>3, <1>4 DEF Follows, Txs

LEMMA WrittenFollows ==
  ASSUME NEW t \in ScoreTx \cup SwitchTx, NEW a, a \in BOOLEAN, a => t.alone,
         NEW b, b \in BOOLEAN, b => t.last, NEW u, u = [t EXCEPT !.alone = a, !.last = b]
  PROVE  Follows(u, t) /\ u.alone = a /\ u.last = b
  <1>1. t.stage = "written" /\ t \in Txs
    BY DEF ScoreTx, SwitchTx, Txs
  <1>2. t \notin ReadTx
    BY <1>1, TxKinds
  <1>3. CASE t \in ScoreTx
    <2>1. u \in ScoreTx
      BY <1>3 DEF ScoreTx
    <2>2. /\ u.h = t.h /\ u.rows = t.rows /\ u.wrote = t.wrote /\ u.totals = t.totals
          /\ u.alone = a /\ u.last = b
      BY <1>3 DEF ScoreTx
    <2>3. t \notin SwitchTx
      BY <1>1, <1>3, TxKinds
    <2> QED
      BY <1>2, <1>3, <2>1, <2>2, <2>3 DEF Follows, Txs
  <1>4. CASE t \in SwitchTx
    <2>1. u \in SwitchTx
      BY <1>4 DEF SwitchTx
    <2>2. /\ u.h = t.h /\ u.rows = t.rows /\ u.wrote = t.wrote /\ u.totals = t.totals
          /\ u.alone = a /\ u.last = b /\ u.switch = t.switch
      BY <1>4 DEF SwitchTx
    <2>3. t \notin ScoreTx
      BY <1>1, <1>4, TxKinds
    <2> QED
      BY <1>2, <1>4, <2>1, <2>2, <2>3 DEF Follows, Txs
  <1> QED
    BY <1>3, <1>4

\* Rows S become R and enrollments E become F.  What a scoring read, and what it has
\* written, survives when rows stay, and when what it was alone with stays as it was.
LEMMA ReadingKept ==
  ASSUME NEW t \in ReadTx, NEW u, Follows(u, t), NEW S, NEW R, NEW E, NEW F,
         Reading(t, S, E),
         \A l \in Learners : S[l][t.h] # None => R[l][t.h] # None,
         u.alone => \A l \in Learners :
            /\ F[l].disabled = E[l].disabled
            /\ R[l][t.h] # None => S[l][t.h] # None /\ R[l][t.h].content = S[l][t.h].content
  PROVE  Reading(u, R, F)
  <1>1. /\ u.h = t.h /\ u.seen = t.seen /\ u.disabled = t.disabled
        /\ u.alone => t.alone
    BY DEF Follows
  <1> QED
    BY <1>1 DEF Reading

\* The totals survive when those of the rows it did not write do.
LEMMA TallyKept ==
  ASSUME NEW t \in ScoreTx \cup SwitchTx, NEW u, Follows(u, t), NEW S, NEW R,
         Tally(t, S),
         u.last => \A l \in Learners, h \in Homeworks :
            <<l, h>> \notin t.wrote => TotalOf(R[l][h]) = TotalOf(S[l][h])
  PROVE  Tally(u, R)
  <1>1. /\ u.rows = t.rows /\ u.wrote = t.wrote /\ u.totals = t.totals
        /\ u.last => t.last
    BY DEF Follows
  <1> QED
    BY <1>1 DEF Tally

LEMMA ScoringKept ==
  ASSUME NEW t \in ScoreTx, NEW u, Follows(u, t), NEW S, NEW R, NEW E, NEW F,
         Scoring(t, S, E),
         \A l \in Learners, h \in Homeworks : <<l, h>> \in t.wrote =>
            R[l][h] # None /\ R[l][h].content = S[l][h].content,
         u.alone => \A l \in Learners :
            (R[l][t.h] # None => S[l][t.h] # None) /\ F[l].disabled = E[l].disabled,
         u.last => \A l \in Learners, h \in Homeworks :
            <<l, h>> \notin t.wrote => TotalOf(R[l][h]) = TotalOf(S[l][h])
  PROVE  Scoring(u, R, F)
  <1>1. /\ u.h = t.h /\ u.rows = t.rows /\ u.wrote = t.wrote
        /\ u.alone => t.alone
    BY DEF Follows
  <1>2. Tally(u, R)
    BY TallyKept DEF Scoring
  <1>3. \A l \in Learners, h \in Homeworks : <<l, h>> \in u.wrote =>
            /\ h = u.h /\ u.rows[l][h] # None
            /\ R[l][h] # None /\ R[l][h].content = u.rows[l][h].content
    BY <1>1 DEF Scoring
  <1>4. u.alone => \A l \in Learners : R[l][u.h] # None =>
            /\ <<l, u.h>> \in u.wrote /\ Earned(u.rows[l][u.h])
            /\ F[l].disabled => u.rows[l][u.h].lip = 0
    BY <1>1 DEF Scoring
  <1> QED
    BY <1>2, <1>3, <1>4 DEF Scoring

\* A form saves its row over what is committed by now, scored or not.
LEMMA PostSaveKeeps ==
  ASSUME ScoringInv, NEW l \in Learners, PostSave(l)
  PROVE  ScoringInv'
  <1> DEFINE h == form[l].h
  <1>1. /\ Typed /\ form[l] # None /\ ~Locked(l, h)
        /\ form' = [form EXCEPT ![l] = None]
        /\ UNCHANGED <<hw, enr, intent, awaiting>>
    BY DEF ScoringInv, PostSave
  <1>2. PICK content \in Contents :
            LET row == Saved(form[l].row, content)
                same == TotalOf(row) = TotalOf(sub[l][h])
            IN /\ sub' = [sub EXCEPT ![l][h] = row]
               /\ exact' = [board |-> exact.board /\ same, hw |-> [exact.hw EXCEPT ![h] = FALSE]]
               /\ tx' = [w \in Workers |->
                    CASE tx[w].stage = "read" -> [tx[w] EXCEPT !.alone = @ /\ tx[w].h # h]
                      [] tx[w].stage = "written" -> [tx[w] EXCEPT !.alone = @ /\ tx[w].h # h,
                                                                  !.last = @ /\ same]
                      [] OTHER -> tx[w]]
    BY DEF PostSave
  <1> DEFINE row == Saved(form[l].row, content)
             same == TotalOf(row) = TotalOf(sub[l][h])
  <1>3. form[l] \in Forms
    BY <1>1 DEF Typed
  <1>4. h \in Homeworks /\ form[l].row \in Rows \cup {None}
    BY <1>3 DEF Forms
  <1>5. row \in Rows /\ row # None
    <2>1. NewRow(content) \in Rows
      BY DEF NewRow, Rows
    <2>2. ASSUME NEW old \in Rows PROVE [old EXCEPT !.content = content] \in Rows
      BY DEF Rows
    <2> QED
      BY <1>4, <2>1, <2>2, NoneAssumption DEF Saved
  <1>6. /\ sub' = [sub EXCEPT ![l][h] = row]
        /\ exact' = [board |-> exact.board /\ same, hw |-> [exact.hw EXCEPT ![h] = FALSE]]
    BY <1>2
  <1>7. ASSUME NEW w \in Workers
        PROVE  tx'[w] = CASE tx[w].stage = "read" -> [tx[w] EXCEPT !.alone = @ /\ tx[w].h # h]
                          [] tx[w].stage = "written" ->
                                [tx[w] EXCEPT !.alone = @ /\ tx[w].h # h, !.last = @ /\ same]
                          [] OTHER -> tx[w]
    BY <1>2
  <1>8. tx' = [w \in Workers |-> tx'[w]]
    BY <1>2
  <1> HIDE DEF h, row
  <1>9. /\ sub' \in Table /\ sub'[l][h] = row
        /\ \A m \in Learners, k \in Homeworks : <<m, k>> # <<l, h>> => sub'[m][k] = sub[m][k]
    <2>1. sub[l] \in [Homeworks -> Rows \cup {None}]
      BY <1>1 DEF Typed, Table
    <2>2. sub' = [sub EXCEPT ![l] = [sub[l] EXCEPT ![h] = row]]
      BY <1>6
    <2> QED
      BY <1>1, <1>4, <1>5, <2>1, <2>2 DEF Typed, Table
  <1>10. /\ exact' \in [board: BOOLEAN, hw: [Homeworks -> BOOLEAN]]
         /\ exact'.board <=> exact.board /\ same
         /\ ~exact'.hw[h]
         /\ \A k \in Homeworks \ {h} : exact'.hw[k] = exact.hw[k]
    <2>1. exact.board \in BOOLEAN /\ exact.hw \in [Homeworks -> BOOLEAN]
      BY <1>1 DEF Typed
    <2> QED
      BY <1>4, <1>6, <2>1
  <1>11. ASSUME NEW w \in Workers
         PROVE  /\ Follows(tx'[w], tx[w])
                /\ tx[w] \in ReadTx \cup ScoreTx \cup SwitchTx => (tx'[w].alone => tx[w].h # h)
                /\ tx[w] \in ScoreTx \cup SwitchTx => (tx'[w].last => same)
    <2> DEFINE t == tx[w]
               u == tx'[w]
    <2>1. t \in Txs
      BY <1>1 DEF Typed
    <2> HIDE DEF t, same
    <2>2. CASE t.stage = "read"
      <3>1. t \in ReadTx /\ t \notin ScoreTx /\ t \notin SwitchTx
        BY <2>1, <2>2, TxKinds
      <3> DEFINE a == t.alone /\ t.h # h
      <3>2. a \in BOOLEAN /\ (a => t.alone)
        BY <3>1 DEF ReadTx
      <3>3. u = [t EXCEPT !.alone = a]
        BY <1>7, <2>2 DEF t
      <3> HIDE DEF u
      <3>4. Follows(u, t) /\ (u.alone = a)
        <4> HIDE DEF a
        <4> QED
          BY <3>1, <3>2, <3>3, ReadFollows
      <3> QED
        BY <3>1, <3>4 DEF t, u
    <2>3. CASE t.stage = "written"
      <3>1. t \in ScoreTx \cup SwitchTx
        BY <2>1, <2>3, TxKinds
      <3> DEFINE a == t.alone /\ t.h # h
                 b == t.last /\ same
      <3>2. a \in BOOLEAN /\ (a => t.alone) /\ b \in BOOLEAN /\ (b => t.last)
        OBVIOUS
      <3>3. u = [t EXCEPT !.alone = a, !.last = b]
        BY <1>7, <2>3 DEF t
      <3> HIDE DEF u
      <3>4. Follows(u, t) /\ u.alone = a /\ u.last = b
        <4> HIDE DEF a, b
        <4> QED
          BY <3>1, <3>2, <3>3, WrittenFollows
      <3> QED
        BY <3>1, <3>4 DEF t, u
    <2>4. CASE t.stage # "read" /\ t.stage # "written"
      <3>1. t \notin ReadTx /\ t \notin ScoreTx /\ t \notin SwitchTx
        BY <2>1, <2>4, TxKinds
      <3>2. u = t
        BY <1>7, <2>4 DEF t
      <3> QED
        BY <2>1, <3>1, <3>2, FollowsItself DEF t
    <2> QED
      BY <2>2, <2>3, <2>4
  <1>12. Typed'
    <2>1. tx' \in [Workers -> Txs]
      BY <1>8, <1>11 DEF Follows
    <2>2. form' \in [Learners -> Forms \cup {None}]
      BY <1>1 DEF Typed
    <2> QED
      BY <1>1, <1>9, <1>10, <2>1, <2>2 DEF Typed
  <1> HIDE DEF same
  <1>13. ASSUME NEW w \in Workers, tx[w] \in ScoreTx \cup SwitchTx
         PROVE  <<l, h>> \notin tx[w].wrote
    BY <1>1, <1>13, TxLocks
  <1>14. same => \A m \in Learners, k \in Homeworks : TotalOf(sub'[m][k]) = TotalOf(sub[m][k])
    BY <1>4, <1>9 DEF same
  <1>15. TxInv'
    <2>1. ASSUME NEW w \in Workers
          PROVE  /\ tx[w] \in ReadTx <=> tx'[w] \in ReadTx
                 /\ tx[w] \in ScoreTx <=> tx'[w] \in ScoreTx
                 /\ tx[w] \in SwitchTx <=> tx'[w] \in SwitchTx
      <3>1. tx[w] \in Txs /\ tx'[w] \in Txs
        BY <1>1, <1>11 DEF Typed, Follows
      <3>2. Follows(tx'[w], tx[w])
        BY <1>11
      <3> DEFINE t == tx[w]
                 u == tx'[w]
      <3>3. t \in Txs /\ u \in Txs /\ Follows(u, t)
        BY <3>1, <3>2
      <3> HIDE DEF t, u
      <3>4. /\ t \in ReadTx <=> u \in ReadTx
            /\ t \in ScoreTx <=> u \in ScoreTx
            /\ t \in SwitchTx <=> u \in SwitchTx
        BY <3>3, TxKinds DEF Follows
      <3> QED
        BY <3>4 DEF t, u
    <2>2. ASSUME NEW w \in Workers, tx[w] \in ReadTx
          PROVE  Reading(tx'[w], sub', enr')
      <3>1. Reading(tx[w], sub, enr) /\ tx[w].h \in Homeworks
        BY <2>2 DEF ScoringInv, TxInv, ReadTx
      <3>2. \A m \in Learners : sub[m][tx[w].h] # None => sub'[m][tx[w].h] # None
        BY <1>5, <1>9, <3>1
      <3>3. tx'[w].alone => \A m \in Learners : sub'[m][tx[w].h] = sub[m][tx[w].h]
        BY <1>9, <1>11, <2>2, <3>1
      <3>4. Follows(tx'[w], tx[w]) /\ enr' = enr
        BY <1>1, <1>11
      <3> QED
        BY <2>2, <3>1, <3>2, <3>3, <3>4, ReadingKept
    <2>3. ASSUME NEW w \in Workers, tx[w] \in ScoreTx
          PROVE  Scoring(tx'[w], sub', enr')
      <3>1. Scoring(tx[w], sub, enr) /\ tx[w].h \in Homeworks
        BY <2>3 DEF ScoringInv, TxInv, ScoreTx
      <3>2. \A m \in Learners, k \in Homeworks : <<m, k>> \in tx[w].wrote =>
                sub'[m][k] # None /\ sub'[m][k].content = sub[m][k].content
        BY <1>9, <1>13, <2>3, <3>1 DEF Scoring
      <3>3. tx'[w].alone => \A m \in Learners : sub'[m][tx[w].h] = sub[m][tx[w].h]
        BY <1>9, <1>11, <2>3, <3>1
      <3>4. Follows(tx'[w], tx[w]) /\ enr' = enr
        BY <1>1, <1>11
      <3>5. tx'[w].last => \A m \in Learners, k \in Homeworks :
                <<m, k>> \notin tx[w].wrote => TotalOf(sub'[m][k]) = TotalOf(sub[m][k])
        BY <1>11, <1>14, <2>3
      <3> QED
        BY <2>3, <3>1, <3>2, <3>3, <3>4, <3>5, ScoringKept
    <2>4. ASSUME NEW w \in Workers, tx[w] \in SwitchTx
          PROVE  Switched(tx'[w], sub', exact')
      <3>1. Switched(tx[w], sub, exact) /\ tx[w].switch.l \in Learners
        BY <2>4 DEF ScoringInv, TxInv, SwitchTx, Switches
      <3>2. /\ Follows(tx'[w], tx[w])
            /\ tx'[w].rows = tx[w].rows /\ tx'[w].wrote = tx[w].wrote
            /\ tx'[w].switch = tx[w].switch
        BY <1>11, <2>4 DEF Follows
      <3>3. Tally(tx'[w], sub')
        <4>1. tx'[w].last => \A m \in Learners, k \in Homeworks :
                <<m, k>> \notin tx[w].wrote => TotalOf(sub'[m][k]) = TotalOf(sub[m][k])
          BY <1>11, <1>14, <2>4
        <4>2. Tally(tx[w], sub) /\ tx[w] \in ScoreTx \cup SwitchTx
          BY <2>4, <3>1 DEF Switched
        <4>3. Follows(tx'[w], tx[w])
          BY <3>2
        <4> QED
          BY <4>1, <4>2, <4>3, TallyKept
      <3>4. \A m \in Learners, k \in Homeworks : <<m, k>> \in tx[w].wrote =>
                /\ m = tx[w].switch.l /\ sub'[m][k] # None
                /\ tx[w].rows[m][k] = Zeroed(sub'[m][k])
        BY <1>9, <1>13, <2>4, <3>1 DEF Switched
      <3>5. ASSUME NEW k \in Homeworks, tx[w].switch.disabled, exact'.hw[k],
                   sub'[tx[w].switch.l][k] # None, <<tx[w].switch.l, k>> \notin tx[w].wrote
            PROVE  sub'[tx[w].switch.l][k].lip = 0
        <4>1. k # h
          BY <1>10, <3>5
        <4>2. exact.hw[k] /\ sub'[tx[w].switch.l][k] = sub[tx[w].switch.l][k]
          BY <1>9, <1>10, <3>1, <3>5, <4>1
        <4> QED
          BY <3>1, <3>5, <4>2 DEF Switched
      <3> QED
        BY <3>2, <3>3, <3>4, <3>5 DEF Switched
    <2> QED
      BY <2>1, <2>2, <2>3, <2>4 DEF ScoringInv, TxInv
  <1>16. RowsInv'
    <2> SUFFICES ASSUME NEW m \in Learners, NEW k \in Homeworks, exact'.hw[k], sub'[m][k] # None
                 PROVE  Earned(sub'[m][k]) /\ (enr'[m].disabled => sub'[m][k].lip = 0)
      BY DEF RowsInv, Earned
    <2>1. k # h
      BY <1>10
    <2>2. exact.hw[k] /\ sub'[m][k] = sub[m][k] /\ enr' = enr
      BY <1>1, <1>9, <1>10, <2>1
    <2> QED
      BY <2>2 DEF ScoringInv, RowsInv
  <1>17. LeaderboardExact'
    <2> SUFFICES ASSUME exact'.board PROVE LeaderboardExact'
      BY DEF LeaderboardExact
    <2>1. exact.board /\ enr' = enr /\ same
      BY <1>1, <1>10
    <2>2. \A m \in Learners : TotalsOf(sub', m) = TotalsOf(sub, m)
      BY <1>14, <2>1, TotalsSame
    <2>3. LeaderboardExact
      BY DEF ScoringInv
    <2>4. \A m \in Learners : enr'[m].total = TotalsOf(sub', m)
      BY <2>1, <2>2, <2>3 DEF LeaderboardExact
    <2> QED
      BY <2>1, <2>3, <2>4 DEF LeaderboardExact, TotalsOf, TotalOf, Points
  <1> QED
    BY <1>12, <1>15, <1>16, <1>17 DEF ScoringInv

---------------------------------------------------------------------------
(* Commits. *)

\* The rows a transaction wrote replace the committed ones and keep their contents.
LEMMA MergedRows ==
  ASSUME Typed, NEW t \in ScoreTx \cup SwitchTx, sub' = Merged(t),
         \A l \in Learners, h \in Homeworks : <<l, h>> \in t.wrote =>
            /\ t.rows[l][h] # None
            /\ sub[l][h] # None /\ sub[l][h].content = t.rows[l][h].content
  PROVE  /\ sub' \in Table
         /\ \A l \in Learners, h \in Homeworks :
                /\ sub'[l][h] = IF <<l, h>> \in t.wrote THEN t.rows[l][h] ELSE sub[l][h]
                /\ sub'[l][h] # None <=> sub[l][h] # None
                /\ sub[l][h] # None => sub'[l][h].content = sub[l][h].content
  <1>1. t.rows \in Table /\ sub \in Table
    BY DEF Typed, ScoreTx, SwitchTx
  <1>2. \A l \in Learners, h \in Homeworks :
            sub'[l][h] = IF <<l, h>> \in t.wrote THEN t.rows[l][h] ELSE sub[l][h]
    BY DEF Merged
  <1>3. sub' = [l \in Learners |-> [h \in Homeworks |-> sub'[l][h]]]
    BY DEF Merged
  <1>4. ASSUME NEW l \in Learners, NEW h \in Homeworks PROVE sub'[l][h] \in Rows \cup {None}
    BY <1>1, <1>2 DEF Table
  <1>5. sub' \in Table
    BY <1>3, <1>4 DEF Table
  <1> QED
    BY <1>2, <1>5

\* A recalculation that is the last one leaves an exact leaderboard.
LEMMA BoardCommitted ==
  ASSUME NEW t \in ScoreTx \cup SwitchTx, Tally(t, sub), sub' = Merged(t),
         exact'.board => t.last,
         \A l \in Learners : /\ enr'[l].total = t.totals[l]
                             /\ enr'[l].rank = Ranked(t.totals)[l]
  PROVE  LeaderboardExact'
  <1>1. t.totals \in [Learners -> Nat]
    BY DEF ScoreTx, SwitchTx
  <1>2. /\ \A l, m \in Learners : l # m => enr'[l].rank # enr'[m].rank
        /\ \A l, m \in Learners :
                enr'[l].rank < enr'[m].rank => enr'[l].total >= enr'[m].total
    BY <1>1, RankedOrder
  <1>3. ASSUME exact'.board, NEW l \in Learners PROVE enr'[l].total = TotalsOf(sub', l)
    <2>1. \A h \in Homeworks :
            sub'[l][h] = IF <<l, h>> \in t.wrote THEN t.rows[l][h] ELSE sub[l][h]
      BY DEF Merged
    <2>2. \A h \in Homeworks : TotalOf(sub'[l][h]) = TotalOf(t.rows[l][h])
      BY <1>3, <2>1 DEF Tally
    <2>3. TotalsOf(sub', l) = TotalsOf(t.rows, l)
      BY <2>2, TotalsSame
    <2> QED
      BY <1>3, <2>3 DEF Tally
  <1> QED
    BY <1>2, <1>3 DEF LeaderboardExact, TotalsOf, TotalOf, Points

\* A scoring commits its rows, its state of the homework and its leaderboard.
LEMMA ScoreCommitKeeps ==
  ASSUME ScoringInv, NEW w \in Workers, ScoreCommit(w)
  PROVE  ScoringInv'
  <1> DEFINE t == tx[w]
             e == [stage |-> "ended", h |-> t.h, force |-> t.force]
  <1>1. /\ Typed /\ TxInv /\ t \in Txs /\ t.stage = "written" /\ t.h # None /\ ~Switching
        /\ sub' = Merged(t)
        /\ hw' = [hw EXCEPT ![t.h] = [t.homework EXCEPT !.state = "SCORED"]]
        /\ enr' = [l \in Learners |-> [enr[l] EXCEPT !.total = t.totals[l],
                                                     !.rank = Ranked(t.totals)[l]]]
        /\ awaiting' = [awaiting EXCEPT ![t.h] = FALSE]
        /\ exact' = [board |-> t.last, hw |-> [exact.hw EXCEPT ![t.h] = t.alone]]
        /\ tx' = [Outdated(w) EXCEPT ![w] = IF t.job THEN e ELSE Idle]
        /\ UNCHANGED <<intent, left, form>>
    BY DEF ScoringInv, ScoreCommit, Typed
  <1>2. t \in ScoreTx /\ Scoring(t, sub, enr)
    <2>1. t \in ScoreTx
      BY <1>1, TxKinds
    <2> QED
      BY <1>1, <2>1 DEF TxInv
  <1>3. \A v \in Workers : tx[v] \notin SwitchTx
    BY <1>1, TxLocks
  <1>4. tx'[w] \in {e, Idle} /\ e \in EndedTx /\ tx'[w] \in Txs
    <2>1. tx'[w] \in {e, Idle}
      BY <1>1 DEF Outdated
    <2>2. e \in EndedTx
      BY <1>2 DEF EndedTx, ScoreTx
    <2> QED
      BY <2>1, <2>2 DEF Txs
  <1>5. tx'[w] \notin ReadTx \cup ScoreTx \cup SwitchTx
    <2>1. tx'[w].stage \in {"ended", "idle"}
      BY <1>4 DEF Idle
    <2> DEFINE u == tx'[w]
    <2>2. u \in Txs /\ u.stage \in {"ended", "idle"}
      BY <1>4, <2>1
    <2> HIDE DEF u
    <2>3. u \notin ReadTx /\ u \notin ScoreTx /\ u \notin SwitchTx
      BY <2>2, TxKinds
    <2> QED
      BY <2>3 DEF u
  <1>6. ASSUME NEW v \in Workers, v # w
        PROVE  Follows(tx'[v], tx[v]) /\ (tx[v] \in ScoreTx => ~tx'[v].last)
    <2> DEFINE o == tx[v]
               u == tx'[v]
    <2>1. o \in Txs /\ o \notin SwitchTx
      BY <1>1, <1>3 DEF Typed
    <2>2. u = IF o.stage = "written" THEN [o EXCEPT !.last = FALSE] ELSE o
      BY <1>1, <1>6 DEF Outdated
    <2> HIDE DEF o, u
    <2>3. CASE o.stage = "written"
      <3>1. o \in ScoreTx
        BY <2>1, <2>3, TxKinds
      <3>2. o.alone \in BOOLEAN /\ [o EXCEPT !.last = FALSE] = [o EXCEPT !.alone = o.alone, !.last = FALSE]
        BY <3>1 DEF ScoreTx
      <3>3. u = [o EXCEPT !.alone = o.alone, !.last = FALSE]
        BY <2>2, <2>3, <3>2
      <3>4. Follows(u, o) /\ u.last = FALSE
        BY <3>1, <3>2, <3>3, WrittenFollows
      <3> QED
        BY <3>4 DEF o, u
    <2>4. CASE o.stage # "written"
      <3>1. o \notin ScoreTx /\ u = o
        BY <2>1, <2>2, <2>4, TxKinds
      <3> QED
        BY <2>1, <3>1, FollowsItself DEF o, u
    <2> QED
      BY <2>3, <2>4
  <1> HIDE DEF t, e
  <1>7. /\ t.h \in Homeworks /\ t.homework \in [state: States, ready: BOOLEAN]
        /\ t.totals \in [Learners -> Nat] /\ t.alone \in BOOLEAN /\ t.last \in BOOLEAN
    BY <1>2 DEF ScoreTx
  <1>8. /\ sub' \in Table
        /\ \A l \in Learners, h \in Homeworks :
                /\ sub'[l][h] = IF <<l, h>> \in t.wrote THEN t.rows[l][h] ELSE sub[l][h]
                /\ sub'[l][h] # None <=> sub[l][h] # None
                /\ sub[l][h] # None => sub'[l][h].content = sub[l][h].content
    <2>1. \A l \in Learners, h \in Homeworks : <<l, h>> \in t.wrote =>
            /\ t.rows[l][h] # None
            /\ sub[l][h] # None /\ sub[l][h].content = t.rows[l][h].content
      BY <1>2 DEF Scoring
    <2> QED
      BY <1>1, <1>2, <2>1, MergedRows
  <1>9. /\ enr' \in [Learners -> [total: Nat, rank: 0..Cardinality(Learners), disabled: BOOLEAN]]
        /\ \A l \in Learners : /\ enr'[l].total = t.totals[l]
                               /\ enr'[l].rank = Ranked(t.totals)[l]
                               /\ enr'[l].disabled = enr[l].disabled
    <2>1. Ranked(t.totals) \in [Learners -> 0 .. Cardinality(Learners)]
      BY <1>7, RankedOrder
    <2>2. enr \in [Learners -> [total: Nat, rank: 0..Cardinality(Learners), disabled: BOOLEAN]]
      BY <1>1 DEF Typed
    <2> QED
      BY <1>1, <1>7, <2>1, <2>2
  <1>10. /\ exact' \in [board: BOOLEAN, hw: [Homeworks -> BOOLEAN]]
         /\ exact'.board = t.last /\ exact'.hw[t.h] = t.alone
         /\ \A k \in Homeworks \ {t.h} : exact'.hw[k] = exact.hw[k]
    <2>1. exact.hw \in [Homeworks -> BOOLEAN]
      BY <1>1 DEF Typed
    <2> QED
      BY <1>1, <1>7, <2>1
  <1>11. Typed'
    <2>1. tx' \in [Workers -> Txs]
      <3>1. tx' = [v \in Workers |-> tx'[v]]
        BY <1>1 DEF Outdated
      <3>2. \A v \in Workers : tx'[v] \in Txs
        BY <1>4, <1>6 DEF Follows
      <3> QED
        BY <3>1, <3>2
    <2>2. hw' \in [Homeworks -> [state: States, ready: BOOLEAN]]
      <3>1. [t.homework EXCEPT !.state = "SCORED"] \in [state: States, ready: BOOLEAN]
        BY <1>7 DEF States
      <3>2. hw \in [Homeworks -> [state: States, ready: BOOLEAN]]
        BY <1>1 DEF Typed
      <3> QED
        BY <1>1, <1>7, <3>1, <3>2
    <2>3. awaiting' \in [Homeworks -> BOOLEAN]
      BY <1>1 DEF Typed
    <2> QED
      BY <1>1, <1>8, <1>9, <1>10, <2>1, <2>2, <2>3 DEF Typed
  <1>12. TxInv'
    <2>1. ASSUME NEW v \in Workers, tx'[v] \in ReadTx \cup ScoreTx \cup SwitchTx
          PROVE  /\ v # w
                 /\ tx[v] \in ReadTx <=> tx'[v] \in ReadTx
                 /\ tx[v] \in ScoreTx <=> tx'[v] \in ScoreTx
                 /\ tx'[v] \notin SwitchTx
      <3> DEFINE o == tx[v]
                 u == tx'[v]
      <3>1. v # w
        BY <1>5, <2>1
      <3>2. o \in Txs /\ o \notin SwitchTx /\ u \in Txs /\ Follows(u, o)
        BY <1>1, <1>3, <1>6, <3>1 DEF Typed, Follows
      <3> HIDE DEF o, u
      <3>3. /\ o \in ReadTx <=> u \in ReadTx
            /\ o \in ScoreTx <=> u \in ScoreTx
            /\ u \notin SwitchTx
        BY <3>2, TxKinds DEF Follows
      <3> QED
        BY <3>1, <3>3 DEF o, u
    <2>2. ASSUME NEW v \in Workers, tx'[v] \in ReadTx
          PROVE  Reading(tx'[v], sub', enr')
      <3>1. tx[v] \in ReadTx /\ Follows(tx'[v], tx[v])
        BY <1>6, <2>1, <2>2
      <3>2. Reading(tx[v], sub, enr) /\ tx[v].h \in Homeworks
        BY <1>1, <3>1 DEF TxInv, ReadTx
      <3>3. \A l \in Learners :
                /\ sub[l][tx[v].h] # None <=> sub'[l][tx[v].h] # None
                /\ sub[l][tx[v].h] # None => sub'[l][tx[v].h].content = sub[l][tx[v].h].content
                /\ enr'[l].disabled = enr[l].disabled
        BY <1>8, <1>9, <3>2
      <3> QED
        BY <3>1, <3>2, <3>3, ReadingKept
    <2>3. ASSUME NEW v \in Workers, tx'[v] \in ScoreTx
          PROVE  Scoring(tx'[v], sub', enr')
      <3>1. tx[v] \in ScoreTx /\ Follows(tx'[v], tx[v]) /\ ~tx'[v].last
        BY <1>6, <2>1, <2>3
      <3>2. Scoring(tx[v], sub, enr) /\ tx[v].h \in Homeworks
        BY <1>1, <3>1 DEF TxInv, ScoreTx
      <3>3. \A l \in Learners, h \in Homeworks : <<l, h>> \in tx[v].wrote =>
                sub'[l][h] # None /\ sub'[l][h].content = sub[l][h].content
        BY <1>8, <3>2 DEF Scoring
      <3>4. \A l \in Learners :
                /\ sub'[l][tx[v].h] # None => sub[l][tx[v].h] # None
                /\ enr'[l].disabled = enr[l].disabled
        BY <1>8, <1>9, <3>2
      <3> QED
        BY <3>1, <3>2, <3>3, <3>4, ScoringKept
    <2> QED
      BY <2>1, <2>2, <2>3 DEF TxInv
  <1>13. RowsInv'
    <2> SUFFICES ASSUME NEW l \in Learners, NEW k \in Homeworks, exact'.hw[k], sub'[l][k] # None
                 PROVE  Earned(sub'[l][k]) /\ (enr'[l].disabled => sub'[l][k].lip = 0)
      BY DEF RowsInv, Earned
    <2>1. CASE k = t.h
      <3>1. t.alone /\ sub[l][k] # None
        BY <1>8, <1>10, <2>1
      <3>2. /\ <<l, k>> \in t.wrote /\ Earned(t.rows[l][k])
            /\ enr[l].disabled => t.rows[l][k].lip = 0
        BY <1>2, <2>1, <3>1 DEF Scoring
      <3>3. sub'[l][k] = t.rows[l][k]
        BY <1>8, <3>2
      <3> QED
        BY <1>9, <3>2, <3>3
    <2>2. CASE k # t.h
      <3>1. exact.hw[k] /\ <<l, k>> \notin t.wrote
        BY <1>2, <1>10, <2>2 DEF Scoring
      <3>2. sub'[l][k] = sub[l][k]
        BY <1>8, <3>1
      <3> QED
        BY <1>9, <3>1, <3>2 DEF ScoringInv, RowsInv
    <2> QED
      BY <2>1, <2>2
  <1>14. LeaderboardExact'
    <2>1. Tally(t, sub) /\ t \in ScoreTx \cup SwitchTx
      BY <1>2 DEF Scoring
    <2> QED
      BY <1>1, <1>9, <1>10, <2>1, BoardCommitted
  <1> QED
    BY <1>11, <1>12, <1>13, <1>14 DEF ScoringInv

\* A switch commits the zeroed rows, its enrollment and its leaderboard.
LEMMA SwitchCommitKeeps ==
  ASSUME ScoringInv, NEW w \in Workers, SwitchCommit(w)
  PROVE  ScoringInv'
  <1> DEFINE t == tx[w]
  <1>1. /\ Typed /\ TxInv /\ t \in Txs /\ t.stage = "written" /\ t.h = None
        /\ sub' = Merged(t)
        /\ enr' = [l \in Learners |->
                     [total |-> t.totals[l], rank |-> Ranked(t.totals)[l],
                      disabled |-> IF l = t.switch.l THEN t.switch.disabled ELSE enr[l].disabled]]
        /\ exact' = [exact EXCEPT !.board = t.last]
        /\ tx' = [v \in Workers |->
                    IF v = w THEN Idle
                    ELSE IF tx[v].stage \in {"read", "written"}
                         THEN [Outdated(w)[v] EXCEPT !.alone = FALSE] ELSE tx[v]]
        /\ UNCHANGED <<hw, intent, left, form, awaiting>>
    BY DEF ScoringInv, SwitchCommit, Typed
  <1>2. t \in SwitchTx /\ Switched(t, sub, exact)
    <2>1. t \in SwitchTx
      BY <1>1, TxKinds
    <2> QED
      BY <1>1, <2>1 DEF TxInv
  <1>3. \A v \in Workers \ {w} : tx[v] \notin SwitchTx
    BY <1>1, <1>2 DEF TxInv
  <1>4. /\ tx'[w] = Idle /\ Idle \in Txs
        /\ Idle \notin ReadTx /\ Idle \notin ScoreTx /\ Idle \notin SwitchTx
    <2>1. Idle \in Txs /\ Idle.stage = "idle"
      BY DEF Txs, Idle
    <2> QED
      BY <1>1, <2>1, TxKinds
  <1>5. ASSUME NEW v \in Workers, v # w
        PROVE  /\ Follows(tx'[v], tx[v])
               /\ tx[v] \in ReadTx \cup ScoreTx => ~tx'[v].alone
               /\ tx[v] \in ScoreTx => ~tx'[v].last
    <2> DEFINE o == tx[v]
               u == tx'[v]
    <2>1. o \in Txs /\ o \notin SwitchTx
      BY <1>1, <1>3, <1>5 DEF Typed
    <2>2. u = IF o.stage = "read" THEN [o EXCEPT !.alone = FALSE]
              ELSE IF o.stage = "written" THEN [[o EXCEPT !.last = FALSE] EXCEPT !.alone = FALSE]
              ELSE o
      BY <1>1, <1>5 DEF Outdated
    <2> HIDE DEF o, u
    <2>3. CASE o.stage = "read"
      <3>1. o \in ReadTx /\ o \notin ScoreTx /\ u = [o EXCEPT !.alone = FALSE]
        BY <2>1, <2>2, <2>3, TxKinds
      <3>2. Follows(u, o) /\ u.alone = FALSE
        BY <3>1, ReadFollows
      <3> QED
        BY <3>1, <3>2 DEF o, u
    <2>4. CASE o.stage = "written"
      <3>1. o \in ScoreTx /\ o \notin ReadTx
        BY <2>1, <2>4, TxKinds
      <3>2. [[o EXCEPT !.last = FALSE] EXCEPT !.alone = FALSE]
                = [o EXCEPT !.alone = FALSE, !.last = FALSE]
        BY <3>1 DEF ScoreTx
      <3>3. u = [o EXCEPT !.alone = FALSE, !.last = FALSE]
        BY <2>2, <2>4, <3>2
      <3>4. Follows(u, o) /\ u.alone = FALSE /\ u.last = FALSE
        BY <3>1, <3>3, WrittenFollows
      <3> QED
        BY <3>4 DEF o, u
    <2>5. CASE o.stage # "read" /\ o.stage # "written"
      <3>1. o \notin ReadTx /\ o \notin ScoreTx /\ u = o
        BY <2>1, <2>2, <2>5, TxKinds
      <3> QED
        BY <2>1, <3>1, FollowsItself DEF o, u
    <2> QED
      BY <2>3, <2>4, <2>5
  <1> HIDE DEF t
  <1>6. /\ t.totals \in [Learners -> Nat] /\ t.last \in BOOLEAN
        /\ t.switch.l \in Learners /\ t.switch.disabled \in BOOLEAN
    BY <1>2 DEF SwitchTx, Switches
  <1>7. ASSUME NEW l \in Learners, NEW h \in Homeworks, <<l, h>> \in t.wrote
        PROVE  /\ l = t.switch.l /\ sub[l][h] \in Rows /\ sub[l][h] # None
               /\ t.rows[l][h] = Zeroed(sub[l][h]) /\ t.rows[l][h] # None
               /\ sub[l][h].content = t.rows[l][h].content
    <2>1. l = t.switch.l /\ sub[l][h] # None /\ t.rows[l][h] = Zeroed(sub[l][h])
      BY <1>2, <1>7 DEF Switched
    <2>2. sub[l][h] \in Rows
      BY <1>1, <2>1 DEF Typed, Table
    <2> QED
      BY <2>1, <2>2, ZeroedRow, NoneAssumption
  <1>8. /\ sub' \in Table
        /\ \A l \in Learners, h \in Homeworks :
                /\ sub'[l][h] = IF <<l, h>> \in t.wrote THEN t.rows[l][h] ELSE sub[l][h]
                /\ sub'[l][h] # None <=> sub[l][h] # None
                /\ sub[l][h] # None => sub'[l][h].content = sub[l][h].content
    BY <1>1, <1>2, <1>7, MergedRows
  <1>9. /\ enr' \in [Learners -> [total: Nat, rank: 0..Cardinality(Learners), disabled: BOOLEAN]]
        /\ \A l \in Learners : /\ enr'[l].total = t.totals[l]
                               /\ enr'[l].rank = Ranked(t.totals)[l]
                               /\ l # t.switch.l => enr'[l].disabled = enr[l].disabled
                               /\ l = t.switch.l => enr'[l].disabled = t.switch.disabled
    <2>1. Ranked(t.totals) \in [Learners -> 0 .. Cardinality(Learners)]
      BY <1>6, RankedOrder
    <2>2. \A l \in Learners : enr[l].disabled \in BOOLEAN
      BY <1>1 DEF Typed
    <2>3. \A l \in Learners :
            (IF l = t.switch.l THEN t.switch.disabled ELSE enr[l].disabled) \in BOOLEAN
      BY <1>6, <2>2
    <2> QED
      BY <1>1, <1>6, <2>1, <2>3
  <1>10. /\ exact' \in [board: BOOLEAN, hw: [Homeworks -> BOOLEAN]]
         /\ exact'.board = t.last /\ exact'.hw = exact.hw
    BY <1>1, <1>6 DEF Typed
  <1>11. Typed'
    <2>1. tx' \in [Workers -> Txs]
      <3>1. tx' = [v \in Workers |-> tx'[v]]
        BY <1>1
      <3>2. \A v \in Workers : tx'[v] \in Txs
        BY <1>4, <1>5 DEF Follows
      <3> QED
        BY <3>1, <3>2
    <2> QED
      BY <1>1, <1>8, <1>9, <1>10, <2>1 DEF Typed
  <1>12. TxInv'
    <2>1. ASSUME NEW v \in Workers, tx'[v] \in ReadTx \cup ScoreTx \cup SwitchTx
          PROVE  /\ v # w
                 /\ tx[v] \in ReadTx <=> tx'[v] \in ReadTx
                 /\ tx[v] \in ScoreTx <=> tx'[v] \in ScoreTx
                 /\ tx'[v] \notin SwitchTx
      <3> DEFINE o == tx[v]
                 u == tx'[v]
      <3>1. v # w
        BY <1>4, <2>1
      <3>2. o \in Txs /\ o \notin SwitchTx /\ u \in Txs /\ Follows(u, o)
        BY <1>1, <1>3, <1>5, <3>1 DEF Typed, Follows
      <3> HIDE DEF o, u
      <3>3. /\ o \in ReadTx <=> u \in ReadTx
            /\ o \in ScoreTx <=> u \in ScoreTx
            /\ u \notin SwitchTx
        BY <3>2, TxKinds DEF Follows
      <3> QED
        BY <3>1, <3>3 DEF o, u
    <2>2. ASSUME NEW v \in Workers, tx'[v] \in ReadTx
          PROVE  Reading(tx'[v], sub', enr')
      <3>1. tx[v] \in ReadTx /\ Follows(tx'[v], tx[v]) /\ ~tx'[v].alone
        BY <1>5, <2>1, <2>2
      <3>2. Reading(tx[v], sub, enr) /\ tx[v].h \in Homeworks
        BY <1>1, <3>1 DEF TxInv, ReadTx
      <3>3. \A l \in Learners : sub[l][tx[v].h] # None => sub'[l][tx[v].h] # None
        BY <1>8, <3>2
      <3> QED
        BY <3>1, <3>2, <3>3, ReadingKept
    <2>3. ASSUME NEW v \in Workers, tx'[v] \in ScoreTx
          PROVE  Scoring(tx'[v], sub', enr')
      <3>1. tx[v] \in ScoreTx /\ Follows(tx'[v], tx[v]) /\ ~tx'[v].last /\ ~tx'[v].alone
        BY <1>5, <2>1, <2>3
      <3>2. Scoring(tx[v], sub, enr) /\ tx[v].h \in Homeworks
        BY <1>1, <3>1 DEF TxInv, ScoreTx
      <3>3. \A l \in Learners, h \in Homeworks : <<l, h>> \in tx[v].wrote =>
                sub'[l][h] # None /\ sub'[l][h].content = sub[l][h].content
        BY <1>8, <3>2 DEF Scoring
      <3> QED
        BY <3>1, <3>2, <3>3, ScoringKept
    <2> QED
      BY <2>1, <2>2, <2>3 DEF TxInv
  <1>13. RowsInv'
    <2> SUFFICES ASSUME NEW l \in Learners, NEW k \in Homeworks, exact'.hw[k], sub'[l][k] # None
                 PROVE  Earned(sub'[l][k]) /\ (enr'[l].disabled => sub'[l][k].lip = 0)
      BY DEF RowsInv, Earned
    <2>1. /\ exact.hw[k] /\ sub[l][k] # None
          /\ Earned(sub[l][k]) /\ (enr[l].disabled => sub[l][k].lip = 0)
      BY <1>8, <1>10 DEF ScoringInv, RowsInv
    <2>2. CASE <<l, k>> \in t.wrote
      <3>1. sub'[l][k] = Zeroed(sub[l][k]) /\ sub[l][k] \in Rows
        BY <1>7, <1>8, <2>2
      <3> QED
        BY <2>1, <3>1, ZeroedRow
    <2>3. CASE <<l, k>> \notin t.wrote
      <3>1. sub'[l][k] = sub[l][k]
        BY <1>8, <2>3
      <3>2. CASE l = t.switch.l
        <4>1. enr'[l].disabled => sub[l][k].lip = 0
          BY <1>2, <1>9, <2>1, <2>3, <3>2 DEF Switched
        <4> QED
          BY <2>1, <3>1, <4>1
      <3>3. CASE l # t.switch.l
        BY <1>9, <2>1, <3>1, <3>3
      <3> QED
        BY <3>2, <3>3
    <2> QED
      BY <2>2, <2>3
  <1>14. LeaderboardExact'
    <2>1. Tally(t, sub) /\ t \in ScoreTx \cup SwitchTx
      BY <1>2 DEF Switched
    <2> QED
      BY <1>1, <1>9, <1>10, <2>1, BoardCommitted
  <1> QED
    BY <1>11, <1>12, <1>13, <1>14 DEF ScoringInv

---------------------------------------------------------------------------
(* The theorems. *)

LEMMA ScoringInit ==
  ASSUME Init
  PROVE  ScoringInv
  <1>1. PICK posted \in Posted :
            sub = [l \in Learners |-> [h \in Homeworks |->
                     IF posted[l][h] = None THEN None ELSE NewRow(posted[l][h])]]
    BY DEF Init
  <1>2. /\ posted \in [Learners -> [Homeworks -> Contents \cup {None}]]
        /\ MaxAttempts \in Nat \ {0}
    BY CourseScoringAssumption
  <1>3. \A c \in Contents : NewRow(c) \in Rows
    BY DEF NewRow, Rows
  <1>4. sub \in Table
    BY <1>1, <1>2, <1>3 DEF Table
  <1>5. 0 \in 0 .. Cardinality(Learners) /\ 0 \in 0 .. MaxAttempts
    <2>1. Cardinality(Learners) \in Nat
      BY CourseScoringAssumption, FS_CardinalityType
    <2> QED
      BY <1>2, <2>1
  <1>6. /\ hw \in [Homeworks -> [state: States, ready: BOOLEAN]]
        /\ awaiting \in [Homeworks -> BOOLEAN]
        /\ form \in [Learners -> Forms \cup {None}]
    BY DEF Init, States
  <1>7. enr \in [Learners -> [total: Nat, rank: 0..Cardinality(Learners), disabled: BOOLEAN]]
    BY <1>5 DEF Init
  <1>8. /\ intent \in [Homeworks \X BOOLEAN -> Intents]
        /\ \A i \in Homeworks \X BOOLEAN : intent[i].status # "pending"
    <2>1. [status |-> "none", attempts |-> 0] \in Intents
      BY <1>5 DEF Intents, Statuses
    <2>2. intent = [i \in Homeworks \X BOOLEAN |-> [status |-> "none", attempts |-> 0]]
      BY DEF Init
    <2> QED
      BY <2>1, <2>2
  <1>9. tx \in [Workers -> Txs] /\ \A w \in Workers : tx[w] = Idle
    BY DEF Init, Txs
  <1>10. /\ exact \in [board: BOOLEAN, hw: [Homeworks -> BOOLEAN]]
         /\ ~exact.board /\ \A h \in Homeworks : ~exact.hw[h]
    BY DEF Init
  <1>11. Idle \notin ReadTx /\ Idle \notin ScoreTx /\ Idle \notin SwitchTx
    <2>1. Idle \in Txs /\ Idle.stage = "idle"
      BY DEF Txs, Idle
    <2> QED
      BY <2>1, TxKinds
  <1>12. Typed
    BY <1>4, <1>6, <1>7, <1>8, <1>9, <1>10 DEF Typed
  <1> QED
    BY <1>9, <1>10, <1>11, <1>12 DEF ScoringInv, TxInv, RowsInv, LeaderboardExact

LEMMA ScoringStep ==
  ASSUME ScoringInv, [Next]_vars
  PROVE  ScoringInv'
  <1>1. CASE Work
    <2>1. PICK w \in Workers :
            RunJob(w) \/ ScoreWrite(w) \/ ScoreCommit(w) \/ EndJob(w) \/ SwitchCommit(w)
      BY <1>1 DEF Work
    <2> QED
      BY <2>1, StartKeeps, ScoreWriteKeeps, ScoreCommitKeeps, StopKeeps, SwitchCommitKeeps
  <1>2. CASE \E w \in Workers : ScoreNow(w) \/ SwitchWrite(w) \/ WorkerDies(w)
    BY <1>2, StartKeeps, SwitchWriteKeeps, StopKeeps
  <1>3. CASE \E l \in Learners : PostRead(l) \/ PostSave(l)
    BY <1>3, PostReadKeeps, PostSaveKeeps
  <1>4. ASSUME NEW h \in Homeworks,
               \/ QueueScore(h) \/ QueueRescore(h) \/ PatchHomework(h)
               \/ ExtendDeadline(h) \/ DeadlinePasses(h)
               \/ \E force \in BOOLEAN : LeaseExpires(h, force)
        PROVE  ScoringInv'
    BY <1>4, StaffKeeps, LeaseKeeps
  <1>5. CASE UNCHANGED vars
    <2>1. Typed'
      BY <1>5 DEF vars, ScoringInv, Typed
    <2> QED
      BY <1>5, <2>1, CalmKeeps DEF vars
  <1> QED
    BY <1>1, <1>2, <1>3, <1>4, <1>5 DEF Next

\* The inductive invariant of the scoring of homeworks holds for any numbers of
\* homeworks, learners and workers, and any bounds on what they do.
THEOREM ScoringInvariant == Spec => []ScoringInv
  BY ScoringInit, ScoringStep, PTL DEF Spec

\* Rows, jobs and forms keep their types.
THEOREM CourseTypes == Spec => []CourseTypeOK
  <1>1. ScoringInv => CourseTypeOK
    <2> SUFFICES ASSUME ScoringInv PROVE CourseTypeOK
      OBVIOUS
    <2>1. Typed
      BY DEF ScoringInv
    <2>2. \A l \in Learners, h \in Homeworks : sub[l][h] \in Rows \cup {None}
      BY <2>1 DEF Typed, Table
    <2>3. \A w \in Workers : tx[w].stage \in {"idle", "read", "written", "ended"}
      BY <2>1, TxKinds DEF Typed
    <2>4. \A l \in Learners : form[l] = None \/ form[l].h \in Homeworks
      BY <2>1 DEF Typed, Forms
    <2> QED
      BY <2>1, <2>2, <2>3, <2>4 DEF Typed, CourseTypeOK, Intents
  <1> QED
    BY <1>1, ScoringInvariant, PTL

\* However often a homework is scored, a submission whose scoring had it to itself has
\* what its content earns.
THEOREM RetriesScoreOnce == Spec => []ScoredExact
  <1>1. ScoringInv => ScoredExact
    BY DEF ScoringInv, RowsInv, Earned, ScoredExact
  <1> QED
    BY <1>1, ScoringInvariant, PTL

\* The last recalculation leaves every enrollment with the sum of its submissions, and
\* positions in the order of the totals.
THEOREM LeaderboardIsExact == Spec => []LeaderboardExact
  <1>1. ScoringInv => LeaderboardExact
    BY DEF ScoringInv
  <1> QED
    BY <1>1, ScoringInvariant, PTL

\* An enrollment with learning in public switched off has no points for links.
THEOREM SwitchedOffEarnsNothing == Spec => []DisabledEarnsNothing
  <1>1. ScoringInv => DisabledEarnsNothing
    BY DEF ScoringInv, RowsInv, Earned, DisabledEarnsNothing
  <1> QED
    BY <1>1, ScoringInvariant, PTL
=============================================================================
