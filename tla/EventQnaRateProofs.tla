------------------------- MODULE EventQnaRateProofs -------------------------
(***************************************************************************)
(* admit_rate against the pruner, for any number of requests, any window   *)
(* and any limit.  The claim about the current window is not inductive: a  *)
(* request may name a window before it ends and count itself afterwards,   *)
(* and the pruner deletes rows it listed earlier.  RateInv says what holds *)
(* of every window that is not over yet, those to come included.           *)
(***************************************************************************)
EXTENDS EventQnaRate, TLAPS

\* A row has counted its own request and never more than the limit.
RateTypes ==
    /\ now \in Times
    /\ hits \in [Buckets -> {NoRow} \cup 1 .. Limit]
    /\ pk \in [Buckets -> Nat]
    /\ admitted \in [Buckets -> Nat]
    /\ pc \in [Requests -> {"idle", "get", "insert", "reget", "update"}]
    /\ bucket \in [Requests -> Buckets]
    /\ row \in [Requests -> Nat]
    /\ doomed \subseteq Buckets \X Nat
    /\ denied \subseteq Requests

Live(w) == w + Window > now

Counts(n) == IF n = NoRow THEN 0 ELSE n

\* The pruner lists no window that is not over; the row of one that is not
\* counts what was admitted; and it stays, the same row, once a request has
\* found it.
RateInv ==
    /\ RateTypes
    /\ \A d \in doomed : ~Live(d[1])
    /\ \A w \in Buckets : Live(w) => admitted[w] = Counts(hits[w])
    /\ \A r \in Requests :
        pc[r] \in {"reget", "update"} /\ Live(bucket[r]) =>
            /\ hits[bucket[r]] # NoRow
            /\ pc[r] = "update" => pk[bucket[r]] = row[r]

USE DEF NoRow

\* A window holds the moment that named it.
LEMMA BucketHolds ==
  ASSUME NEW t \in Times
  PROVE  /\ Bucket(t) \in Buckets
         /\ Bucket(t) \in Int
         /\ Bucket(t) <= t
         /\ Bucket(t) + Window > t
  <1>1. t \in Nat /\ Window \in Nat /\ Window > 0
    BY RateArguments DEF Times
  <1>2. t % Window \in 0 .. Window - 1
    BY <1>1
  <1> QED
    BY <1>1, <1>2 DEF Bucket, Buckets

\* Buckets are times.
LEMMA BucketsAreTimes == Buckets \subseteq Int
  BY BucketHolds DEF Buckets

\* Answered requests are parked on bucket 0.
LEMMA ZeroBucket == 0 \in Times /\ 0 \in Buckets
  <1>1. 0 \in Times
    BY RateArguments DEF Times
  <1>2. 0 % Window = 0 /\ Bucket(0) \in Buckets
    BY <1>1, BucketHolds, RateArguments
  <1> QED
    BY <1>1, <1>2 DEF Bucket

\* No row, nothing admitted and nobody waiting.
LEMMA RateInit == Init => RateInv
  BY ZeroBucket DEF Init, RateInv, RateTypes, Counts

\* Refusing changes no counter, and the request waits no more.
LEMMA RefuseKeeps ==
  ASSUME RateInv, NEW r \in Requests, Refuse(r), UNCHANGED <<now, doomed>>
  PROVE  RateInv'
  BY ZeroBucket DEF RateInv, RateTypes, Live, Counts, Refuse, Answer, Goto

\* An admitted request raises hits and admitted of its window together.
LEMMA CountKeeps ==
  ASSUME RateInv, NEW r \in Requests, Count(r), UNCHANGED <<now, doomed>>,
         ~Full(Counts(hits[bucket[r]])),
         hits' = [hits EXCEPT ![bucket[r]] = Counts(@) + 1],
         \/ pk' = pk
         \/ /\ hits[bucket[r]] = NoRow
            /\ pk' = [pk EXCEPT ![bucket[r]] = @ + 1]
  PROVE  RateInv'
  <1> DEFINE b == bucket[r]
             n == Counts(hits[b])
  <1>1. b \in Buckets /\ n \in 0 .. Limit - 1 /\ admitted[b] \in Nat
    BY RateArguments DEF RateInv, RateTypes, Counts, Full
  <1>2. /\ hits' = [hits EXCEPT ![b] = n + 1]
        /\ admitted' = [admitted EXCEPT ![b] = @ + 1]
    BY DEF Count, RateInv, RateTypes
  <1>3. n + 1 \in 1 .. Limit /\ n + 1 # NoRow
    BY <1>1, RateArguments
  <1> HIDE DEF b, n
  <1>4. RateTypes'
    BY <1>1, <1>2, <1>3, ZeroBucket DEF RateInv, RateTypes, Count, Answer, Goto
  <1>5. ASSUME NEW w \in Buckets, Live(w)' PROVE admitted'[w] = Counts(hits'[w])
    <2>1. Live(w)
      BY <1>5 DEF Live
    <2>2. CASE w = b
      <3>1. admitted[b] = n
        BY <2>1, <2>2 DEF RateInv, n
      <3> QED
        BY <1>1, <1>2, <1>3, <2>2, <3>1 DEF RateInv, RateTypes, Counts
    <2>3. CASE w # b
      BY <1>1, <1>2, <2>1, <2>3 DEF RateInv, RateTypes
    <2> QED
      BY <2>2, <2>3
  <1>6. ASSUME NEW q \in Requests, pc'[q] \in {"reget", "update"}, bucket'[q] + Window > now'
        PROVE  /\ hits'[bucket'[q]] # NoRow
               /\ pc'[q] = "update" => pk'[bucket'[q]] = row'[q]
    <2>1. /\ q # r /\ pc'[q] = pc[q] /\ bucket'[q] = bucket[q] /\ row'[q] = row[q]
          /\ Live(bucket[q])
      BY <1>6 DEF RateInv, RateTypes, Count, Answer, Goto, Live
    <2>2. /\ bucket[q] \in Buckets /\ hits[bucket[q]] # NoRow
          /\ pc[q] = "update" => pk[bucket[q]] = row[q]
      BY <1>6, <2>1 DEF RateInv, RateTypes
    <2>3. hits'[bucket'[q]] # NoRow
      BY <1>1, <1>2, <1>3, <2>1, <2>2 DEF RateInv, RateTypes
    <2>4. pk'[bucket[q]] = pk[bucket[q]]
      BY <1>1, <2>2 DEF RateInv, RateTypes, b
    <2> QED
      BY <2>1, <2>2, <2>3, <2>4
  <1>7. \A d \in doomed' : ~Live(d[1])'
    BY DEF RateInv, Live
  <1> QED
    BY <1>4, <1>5, <1>6, <1>7 DEF RateInv, Live

\* A step of a request that answers nobody and writes nothing.
LEMMA WaitKeeps ==
  ASSUME RateInv, NEW r \in Requests, NEW step \in {"insert", "reget", "update"},
         Goto(r, step), denied' = {}, UNCHANGED <<now, hits, pk, admitted, bucket, doomed>>,
         step # "insert" => hits[bucket[r]] # NoRow,
         row' = IF step = "update" THEN [row EXCEPT ![r] = pk[bucket[r]]] ELSE row
  PROVE  RateInv'
  BY DEF RateInv, RateTypes, Live, Goto

\* The request names the window of the moment; it has found no row yet.
LEMMA ArriveKeeps ==
  ASSUME RateInv, NEW r \in Requests, Arrive(r)
  PROVE  RateInv'
  <1>1. Bucket(now) \in Buckets
    BY BucketHolds DEF RateInv, RateTypes
  <1> QED
    BY <1>1 DEF RateInv, RateTypes, Live, Arrive, Goto

\* A request counts itself, waits or is refused.
LEMMA RequestKeeps ==
  ASSUME RateInv, NEW r \in Requests, Lookup(r) \/ Insert(r) \/ Update(r)
  PROVE  RateInv'
  <1>1. CASE Lookup(r)
    <2>1. UNCHANGED <<now, doomed>>
      BY <1>1 DEF Lookup
    <2>2. CASE Refuse(r)
      BY <2>1, <2>2, RefuseKeeps
    <2>3. CASE ~Refuse(r)
      BY <1>1, <2>3, WaitKeeps DEF Lookup
    <2> QED
      BY <2>2, <2>3
  <1>2. CASE Insert(r)
    <2>1. UNCHANGED <<now, doomed>>
      BY <1>2 DEF Insert
    <2>2. CASE hits[bucket[r]] = NoRow
      <3>1. Counts(hits[bucket[r]]) = 0 /\ ~Full(0)
        BY <2>2, RateArguments DEF Counts, Full
      <3>2. /\ Count(r) /\ hits' = [hits EXCEPT ![bucket[r]] = Counts(@) + 1]
            /\ pk' = [pk EXCEPT ![bucket[r]] = @ + 1]
        BY <1>2, <2>2, <3>1 DEF Insert, Counts
      <3> QED
        BY <2>1, <2>2, <3>1, <3>2, CountKeeps
    <2>3. CASE hits[bucket[r]] # NoRow
      BY <1>2, <2>3, WaitKeeps DEF Insert
    <2> QED
      BY <2>2, <2>3
  <1>3. CASE Update(r)
    <2>1. UNCHANGED <<now, doomed>>
      BY <1>3 DEF Update
    <2>2. CASE Refuse(r)
      BY <2>1, <2>2, RefuseKeeps
    <2>3. CASE ~Refuse(r)
      <3>1. /\ hits[bucket[r]] # NoRow /\ ~Full(hits[bucket[r]]) /\ pk' = pk
            /\ hits' = [hits EXCEPT ![bucket[r]] = @ + 1] /\ Count(r)
        BY <1>3, <2>3 DEF Update, Counting
      <3>2. Counts(hits[bucket[r]]) = hits[bucket[r]]
        BY <3>1 DEF Counts
      <3> QED
        BY <2>1, <3>1, <3>2, CountKeeps
    <2> QED
      BY <2>2, <2>3
  <1> QED
    BY <1>1, <1>2, <1>3

\* The pruner lists and deletes only windows that are over, and a window that
\* is over stays so.
LEMMA OthersKeep ==
  ASSUME RateInv, PruneList \/ PruneDelete \/ Tick
  PROVE  RateInv'
  <1>0. Buckets \subseteq Int /\ Window \in Int /\ now \in Int
    BY BucketsAreTimes, RateArguments DEF RateInv, RateTypes, Times
  <1>1. CASE PruneList
    <2>1. PICK S \in SUBSET {w \in Buckets : hits[w] # NoRow /\ Elapsed(w)} :
            doomed' = {<<w, pk[w]>> : w \in S}
      BY <1>1 DEF PruneList
    <2>2. /\ UNCHANGED <<now, hits, pk, admitted, pc, bucket, row>> /\ denied' = {}
          /\ pk \in [Buckets -> Nat]
      BY <1>1 DEF PruneList, RateInv, RateTypes
    <2>3. doomed' \subseteq Buckets \X Nat /\ \A d \in doomed' : d[1] \in S
      BY <2>1, <2>2
    <2>4. \A w \in S : ~Live(w)
      BY <1>0 DEF Live, Elapsed
    <2>5. \A d \in doomed' : ~Live(d[1])
      BY <2>3, <2>4
    <2> QED
      BY <2>2, <2>3, <2>5 DEF RateInv, RateTypes, Live
  <1>2. CASE PruneDelete
    <2>0. ASSUME NEW w \in Buckets, <<w, pk[w]>> \in doomed PROVE ~Live(w)
      <3> DEFINE d == <<w, pk[w]>>
      <3>1. d[1] = w
        OBVIOUS
      <3>2. d \in doomed
        BY <2>0
      <3> HIDE DEF d
      <3> QED
        BY <3>1, <3>2 DEF RateInv
    <2>1. \A w \in Buckets : Live(w) => hits'[w] = hits[w]
      BY <1>2, <2>0 DEF PruneDelete
    <2>2. RateTypes'
      BY <1>2 DEF PruneDelete, RateInv, RateTypes
    <2> QED
      BY <1>2, <2>1, <2>2 DEF PruneDelete, RateInv, RateTypes, Live
  <1>3. CASE Tick
    <2>1. now' \in Times /\ now' = now + 1
      BY <1>3, RateArguments DEF Tick, RateInv, RateTypes, Times
    <2>2. \A w \in Buckets : Live(w)' => Live(w)
      BY <1>0, <2>1 DEF Live
    <2> QED
      BY <1>3, <2>1, <2>2 DEF RateInv, RateTypes, Tick
  <1> QED
    BY <1>1, <1>2, <1>3

\* RateInv is inductive.
LEMMA RateStep == RateInv /\ [Next]_vars => RateInv'
  <1> SUFFICES ASSUME RateInv, [Next]_vars PROVE RateInv'
    OBVIOUS
  <1>1. CASE UNCHANGED vars
    BY <1>1 DEF vars, RateInv, RateTypes, Live
  <1>2. CASE Next
    BY <1>2, ArriveKeeps, RequestKeeps, OthersKeep DEF Next
  <1> QED
    BY <1>1, <1>2

\* RateInv holds throughout.
THEOREM RateInvariant == Spec => []RateInv
  BY RateInit, RateStep, PTL DEF Spec

\* While a window lasts its row counts the requests it admitted, at most Limit:
\* however many race for the last one, and whatever the pruner deletes.
THEOREM BudgetExact == Spec => []ActiveWindowExact
  <1>1. RateInv => ActiveWindowExact
    <2> SUFFICES ASSUME RateInv PROVE ActiveWindowExact
      OBVIOUS
    <2>1. Bucket(now) \in Buckets /\ Live(Bucket(now))
      BY BucketHolds DEF RateInv, RateTypes, Live
    <2>2. hits[Bucket(now)] \in {NoRow} \cup 1 .. Limit
      BY <2>1 DEF RateInv, RateTypes
    <2> QED
      BY <2>1, <2>2, RateArguments DEF RateInv, ActiveWindowExact, Counts
  <1> QED
    BY <1>1, RateInvariant, PTL

\* A request is refused while its window lasts only when the window is full:
\* neither the pruner nor the second lookup refuses it for want of a row.
THEOREM DenialExact == Spec => ActiveDenialMeansFull
  <1>1. ASSUME RateInv, [Next]_vars
        PROVE  [\A r \in denied' :
                    bucket[r] = Bucket(now) => admitted[bucket[r]] = Limit]_vars
    <2> SUFFICES ASSUME Next, NEW q \in denied', bucket[q] = Bucket(now)
                 PROVE  admitted[bucket[q]] = Limit
      BY <1>1
    <2>1. PICK r \in Requests : q = r /\ (Lookup(r) \/ Update(r)) /\ Refuse(r)
      BY DEF Next, Arrive, Lookup, Insert, Update, Count, Refuse,
             PruneList, PruneDelete, Tick
    <2>2. bucket[q] \in Buckets /\ Live(bucket[q])
      BY <1>1, <2>1, BucketHolds DEF RateInv, RateTypes, Live
    <2>3. hits[bucket[q]] # NoRow /\ Full(hits[bucket[q]])
      BY <1>1, <2>1, <2>2 DEF RateInv, RateTypes, Lookup, Update, Counting, Refuse, Answer, Goto
    <2>4. hits[bucket[q]] = Limit
      BY <1>1, <2>2, <2>3, RateArguments DEF RateInv, RateTypes, Full
    <2> QED
      BY <1>1, <2>2, <2>3, <2>4 DEF RateInv, Counts
  <1> QED
    BY <1>1, RateInvariant, PTL DEF Spec, ActiveDenialMeansFull
=============================================================================
