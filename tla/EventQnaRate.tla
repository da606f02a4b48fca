---------------------------- MODULE EventQnaRate ----------------------------
(***************************************************************************)
(* The fixed-window admission of anonymous Q&A actions: admit_rate and     *)
(* prune_expired_rate_buckets of src/event_qna/services.py, for one scope  *)
(* and one window length.                                                  *)
(*                                                                         *)
(* A request reads the clock once, and with it names its bucket; it then   *)
(* looks the bucket's row up, inserts it where there is none, and counts   *)
(* itself with UPDATE ... WHERE hits < limit.  The inserted row becomes    *)
(* visible when its transaction commits, with the inserting request        *)
(* already counted, and a second INSERT of the same bucket waits for that  *)
(* commit: so inserting and counting are one step here.                    *)
(***************************************************************************)
EXTENDS Integers

CONSTANTS
    Requests,   \* concurrent requests of the scope
    Window,     \* window_seconds
    Limit,      \* limit
    MaxTime     \* bound: the clock stops here

ASSUME RateArguments == Window \in Nat \ {0} /\ Limit \in Nat \ {0} /\ MaxTime \in Nat

Times == 0 .. MaxTime
Bucket(t) == t - (t % Window)           \* window_started_at
Buckets == {Bucket(t) : t \in Times}
NoRow == -1

VARIABLES
    now,        \* the clock, in seconds
    hits,       \* hits of every bucket's row, NoRow where there is none
    pk,         \* the id of the bucket's row, or of the last one it had
    admitted,   \* how many requests of each bucket were admitted (history)
    pc,         \* request: "idle", "get", "insert", "reget" or "update"
    bucket,     \* request: the bucket its clock read named
    row,        \* request: the id of the row it found there, or 0
    doomed,     \* pruner: the rows <<bucket, id>> it has listed and not yet deleted
    denied      \* the requests refused by the last step (history)

vars == <<now, hits, pk, admitted, pc, bucket, row, doomed, denied>>

Init ==
    /\ now = 0
    /\ hits = [w \in Buckets |-> NoRow]
    /\ pk = [w \in Buckets |-> 0]
    /\ admitted = [w \in Buckets |-> 0]
    /\ pc = [r \in Requests |-> "idle"]
    /\ bucket = [r \in Requests |-> 0]
    /\ row = [r \in Requests |-> 0]
    /\ doomed = {}
    /\ denied = {}

Goto(r, step) == pc' = [pc EXCEPT ![r] = step]
Answer(r) ==
    /\ Goto(r, "idle")
    /\ bucket' = [bucket EXCEPT ![r] = 0] /\ row' = [row EXCEPT ![r] = 0]
Refuse(r) == Answer(r) /\ denied' = {r} /\ UNCHANGED <<hits, pk, admitted>>
Count(r) ==
    /\ Answer(r)
    /\ denied' = {}
    /\ admitted' = [admitted EXCEPT ![bucket[r]] = @ + 1]

\* Mutant of Full: a window is full a request early.
FullEarly(n) == n >= Limit - 1

\* hits >= limit, which both the check of the row and the UPDATE test.
Full(n) == n >= Limit

\* The request reads the clock.
Arrive(r) ==
    /\ pc[r] = "idle"
    /\ Goto(r, "get")
    /\ bucket' = [bucket EXCEPT ![r] = Bucket(now)]
    /\ denied' = {}
    /\ UNCHANGED <<now, hits, pk, admitted, row, doomed>>

\* The row is looked up, at first or after the INSERT met another's row.  The
\* second lookup finds no row when the pruner was faster, an unhandled error.
Lookup(r) ==
    /\ pc[r] \in {"get", "reget"}
    /\ LET found == hits[bucket[r]]
       IN  \/ /\ found = NoRow /\ pc[r] = "get"
              /\ Goto(r, "insert") /\ denied' = {}
              /\ UNCHANGED <<hits, pk, admitted, bucket, row>>
           \/ found = NoRow /\ pc[r] = "reget" /\ Refuse(r)
           \/ found # NoRow /\ Full(found) /\ Refuse(r)
           \/ /\ found # NoRow /\ ~Full(found)
              /\ Goto(r, "update") /\ denied' = {}
              /\ row' = [row EXCEPT ![r] = pk[bucket[r]]]
              /\ UNCHANGED <<hits, pk, admitted, bucket>>
    /\ UNCHANGED <<now, doomed>>

Insert(r) ==
    /\ pc[r] = "insert"
    /\ \/ /\ hits[bucket[r]] = NoRow
          /\ hits' = [hits EXCEPT ![bucket[r]] = 1]
          /\ pk' = [pk EXCEPT ![bucket[r]] = @ + 1]
          /\ Count(r)
       \/ /\ hits[bucket[r]] # NoRow
          /\ Goto(r, "reget") /\ denied' = {}
          /\ UNCHANGED <<hits, pk, admitted, bucket, row>>
    /\ UNCHANGED <<now, doomed>>

\* The row that the request found is there and not full.
Counting(r) ==
    /\ hits[bucket[r]] # NoRow /\ pk[bucket[r]] = row[r]
    /\ ~Full(hits[bucket[r]])

\* UPDATE ... SET hits = hits + 1 WHERE id = row AND hits < limit
Update(r) ==
    /\ pc[r] = "update"
    /\ \/ /\ Counting(r)
          /\ hits' = [hits EXCEPT ![bucket[r]] = @ + 1]
          /\ pk' = pk
          /\ Count(r)
       \/ ~Counting(r) /\ Refuse(r)
    /\ UNCHANGED <<now, doomed>>

\* Mutant of Elapsed: a window is over when it has begun.
ElapsedAtStart(w) == w <= now

\* The pruner lists rows whose whole window has passed, as many as one batch
\* takes ...
Elapsed(w) == w + Window <= now

PruneList ==
    /\ doomed = {}
    /\ \E S \in SUBSET {w \in Buckets : hits[w] # NoRow /\ Elapsed(w)} :
        S # {} /\ doomed' = {<<w, pk[w]>> : w \in S}
    /\ denied' = {}
    /\ UNCHANGED <<now, hits, pk, admitted, pc, bucket, row>>

\* ... and deletes them by their ids.
PruneDelete ==
    /\ doomed # {}
    /\ hits' = [w \in Buckets |-> IF <<w, pk[w]>> \in doomed THEN NoRow ELSE hits[w]]
    /\ doomed' = {}
    /\ denied' = {}
    /\ UNCHANGED <<now, pk, admitted, pc, bucket, row>>

Tick ==
    /\ now < MaxTime
    /\ now' = now + 1
    /\ denied' = {}
    /\ UNCHANGED <<hits, pk, admitted, pc, bucket, row, doomed>>

Next ==
    \/ \E r \in Requests : Arrive(r) \/ Lookup(r) \/ Insert(r) \/ Update(r)
    \/ PruneList \/ PruneDelete
    \/ Tick

Spec == Init /\ [][Next]_vars

---------------------------------------------------------------------------
\* While a window lasts, its counter is the number of requests it admitted and
\* stays within the limit, whatever the pruner deletes meanwhile.
ActiveWindowExact ==
    LET w == Bucket(now)
    IN  /\ admitted[w] = IF hits[w] = NoRow THEN 0 ELSE hits[w]
        /\ admitted[w] <= Limit

\* A request is refused, while its window lasts, only when the window is full.
ActiveDenialMeansFull ==
    [][ \A r \in denied' : bucket[r] = Bucket(now) => admitted[bucket[r]] = Limit ]_vars
=============================================================================
