----------------------- MODULE ContentReleaseProofs -----------------------
(***************************************************************************)
(* Proofs about ContentRelease, for every set of sources, builds, paths    *)
(* and clients and whatever the plan and the bounds.  The argument is the  *)
(* optimistic one of the code: every write of a row raises its revision    *)
(* (Advances), so what a command read about a row still holds whenever its *)
(* conditional update succeeds (CommandsFit).                              *)
(***************************************************************************)
EXTENDS ContentRelease, FiniteSetTheorems, TLAPS

MaybeRelease == Releases \cup {None}

ReleaseCommands ==
    [stage: {"locked", "read"}, op: ReleaseOps, release: Releases,
     record: Records \cup {None}, counted: SUBSET Records, revision: Nat]

CreateCommands ==
    [stage: {"locked", "read"}, op: {"create"}, release: Releases, sequence: Nat,
     sourceRevision: Nat, current: MaybeRelease]

SwapCommands ==
    [stage: {"checked", "locked", "read"}, op: SwapOps, release: Releases, attempts: Nat,
     revision: Nat, sourceRevision: Nat, current: MaybeRelease, currentRevision: Nat]

Commands == {Idle} \cup ReleaseCommands \cup CreateCommands \cup SwapCommands

CommandsTyped ==
    /\ cmd \in [Clients -> Commands]
    /\ plan \in Plans

(* A source points only to releases of its own. *)
PointerOwn == \A s \in Sources : source[s].active # None => SourceOf[source[s].active] = s

(* The primary key of the claims. *)
PathsOnce == \A k, l \in claims : k.path = l.path => k.source = l.source

(* What a command on a release knows while the row has not moved on. *)
ReleaseFits(m, row) ==
    /\ m.revision <= row.revision
    /\ m.op = "prepare" => m.record \in Records
    /\ m.revision = row.revision =>
        /\ row.status \in Accepts(m.op)
        /\ m.stage = "read" /\ m.op = "ready" =>
            WellFormed(row.records) /\ m.counted = row.records

(* What the creation of a release knows while the source has not moved on. *)
CreateFits(m, src) ==
    /\ m.sourceRevision <= src.revision
    /\ m.sourceRevision = src.revision => m.current = src.active

(* What a swap knows while its source and its release have not moved on. *)
SwapStillFits(m, row, src) ==
    /\ m.revision <= row.revision
    /\ m.sourceRevision <= src.revision
    /\ m.stage # "checked" /\ m.sourceRevision = src.revision => m.current = src.active
    /\ m.stage = "read" /\ m.revision = row.revision =>
        /\ row.status \in Accepts(m.op)
        /\ m.op = "activate" => row.base = m.current

Fits(m, rows, srcs) ==
    /\ m \in ReleaseCommands => ReleaseFits(m, rows[m.release])
    /\ m \in CreateCommands => CreateFits(m, srcs[SourceOf[m.release]])
    /\ m \in SwapCommands => SwapStillFits(m, rows[m.release], srcs[SourceOf[m.release]])

CommandsFit == \A c \in Clients : Fits(cmd[c], release, source)

IInv ==
    /\ ContentTypeOK /\ CommandsTyped /\ PointerOwn /\ PointerIsActive
    /\ ClaimsExact /\ PathsOnce /\ FrozenAsCounted /\ CommandsFit

(* A step leaves a row alone or raises its revision, and releases are created once. *)
Advances ==
    /\ \A r \in Releases :
        release'[r] = release[r] \/ release'[r].revision > release[r].revision
    /\ \A s \in Sources :
        source'[s] = source[s] \/ source'[s].revision > source[s].revision

-----------------------------------------------------------------------------

(* Everything holds when only sources exist. *)
LEMMA InitFits == Init => IInv
<1> SUFFICES ASSUME Init PROVE IInv
  OBVIOUS
<1> USE ContentAssumption DEF Init
<1>1. ContentTypeOK
  BY DEF ContentTypeOK, Absent, Statuses, Preparing, Frozen, Retained
<1>2. CommandsTyped /\ CommandsFit
  BY DEF CommandsTyped, CommandsFit, Commands, Fits, Idle, ReleaseCommands, CreateCommands, SwapCommands
<1>3. PointerOwn /\ PointerIsActive /\ PathsOnce /\ FrozenAsCounted
  BY DEF PointerOwn, PointerIsActive, PathsOnce, FrozenAsCounted, Absent, Retained
<1>4. ClaimsExact
  BY DEF ClaimsExact
<1> QED
  BY <1>1, <1>2, <1>3, <1>4 DEF IInv

(* A client's command keeps fitting while others move rows on. *)
LEMMA OthersFit ==
    ASSUME ContentTypeOK, ContentTypeOK', Advances,
           NEW m \in Commands, Fits(m, release, source)
    PROVE  Fits(m, release', source')
<1> USE ContentAssumption
<1> DEFINE r == m.release
           s == SourceOf[r]
<1>1. ASSUME m \in ReleaseCommands PROVE ReleaseFits(m, release'[r])
  <2>1. r \in Releases /\ m.revision \in Nat
    BY <1>1 DEF ReleaseCommands
  <2>2. release[r].revision \in Nat /\ release'[r].revision \in Nat
    BY <2>1 DEF ContentTypeOK
  <2> QED
    BY <1>1, <2>1, <2>2 DEF Fits, ReleaseFits, Advances
<1>2. ASSUME m \in CreateCommands PROVE CreateFits(m, source'[s])
  <2>1. s \in Sources /\ m.sourceRevision \in Nat
    BY <1>2 DEF CreateCommands
  <2>2. source[s].revision \in Nat /\ source'[s].revision \in Nat
    BY <2>1 DEF ContentTypeOK
  <2> QED
    BY <1>2, <2>1, <2>2 DEF Fits, CreateFits, Advances
<1>3. ASSUME m \in SwapCommands PROVE SwapStillFits(m, release'[r], source'[s])
  <2>1. /\ r \in Releases /\ s \in Sources
        /\ m.revision \in Nat /\ m.sourceRevision \in Nat
    BY <1>3 DEF SwapCommands
  <2>2. /\ release[r].revision \in Nat /\ release'[r].revision \in Nat
        /\ source[s].revision \in Nat /\ source'[s].revision \in Nat
    BY <2>1 DEF ContentTypeOK
  <2> QED
    BY <1>3, <2>1, <2>2 DEF Fits, SwapStillFits, Advances
<1> QED
  BY <1>1, <1>2, <1>3 DEF Fits

(* A command that has ended. *)
LEMMA IdleFits ==
    ASSUME NEW rows, NEW srcs
    PROVE  Idle \in Commands /\ Fits(Idle, rows, srcs)
BY DEF Commands, Fits, Idle, ReleaseCommands, CreateCommands, SwapCommands

(* A step that only changes a client's command. *)
LEMMA ReadingStep ==
    ASSUME IInv, UNCHANGED Rows, faults' \in Nat, NEW c \in Clients,
           NEW m \in Commands, Fits(m, release, source), Enter(c, m)
    PROVE  IInv'
<1> USE DEF IInv
<1>1. ContentTypeOK'
  BY DEF ContentTypeOK, Rows
<1>2. /\ PointerOwn' /\ PointerIsActive' /\ PathsOnce'
  BY DEF PointerOwn, PointerIsActive, PathsOnce, Rows
<1>3. ClaimsExact' /\ FrozenAsCounted'
  BY DEF ClaimsExact, ClaimsOf, FrozenAsCounted, EvidenceHolds, Rows
<1>4. CommandsTyped'
  BY DEF CommandsTyped, Enter, Rows
<1>5. Advances
  BY DEF Advances, Rows
<1>6. CommandsFit'
  <2> SUFFICES ASSUME NEW d \in Clients PROVE Fits(cmd'[d], release', source')
    BY DEF CommandsFit
  <2>1. cmd'[d] \in Commands
    BY <1>4 DEF CommandsTyped
  <2>2. cmd'[d] = m \/ cmd'[d] = cmd[d]
    BY DEF Enter, CommandsTyped
  <2>3. Fits(cmd'[d], release, source)
    BY <2>2 DEF CommandsFit
  <2> QED
    BY <1>1, <1>5, <2>1, <2>3, OthersFit
<1> QED
  BY <1>1, <1>2, <1>3, <1>4, <1>6

(* The clients' commands after a commit that ends c's, or that has it retried. *)
LEMMA CommitStep ==
    ASSUME IInv, ContentTypeOK', Advances, UNCHANGED plan, NEW c \in Clients,
           NEW m \in Commands, Fits(m, release', source'), Enter(c, m)
    PROVE  CommandsTyped' /\ CommandsFit'
<1> USE DEF IInv
<1>1. CommandsTyped'
  BY DEF CommandsTyped, Enter
<1>2. ASSUME NEW d \in Clients PROVE Fits(cmd'[d], release', source')
  <2>1. CASE d = c
    BY <2>1 DEF Enter, CommandsTyped
  <2>2. CASE d # c
    <3>1. cmd'[d] = cmd[d] /\ cmd[d] \in Commands /\ Fits(cmd[d], release, source)
      BY <2>2 DEF Enter, CommandsTyped, CommandsFit
    <3> QED
      BY <3>1, OthersFit
  <2> QED
    BY <2>1, <2>2
<1> QED
  BY <1>1, <1>2 DEF CommandsFit

-----------------------------------------------------------------------------
(* The steps that only read. *)

(* A command that locks its release reads it as it is and changes no row.   *)
LEMMA LockKeeps == ASSUME IInv, NEW c \in Clients, Lock(c) PROVE IInv'
<1> USE ContentAssumption DEF IInv
<1>1. PICK op \in ReleaseOps, r \in plan.releases :
        /\ release[r].status \in Accepts(op)
        /\ \E record \in IF op = "prepare" THEN Content[r] \ release[r].records ELSE {None} :
            Enter(c, ReleaseCommand(op, r, record))
  BY DEF Lock
<1>2. PICK record \in IF op = "prepare" THEN Content[r] \ release[r].records ELSE {None} :
        Enter(c, ReleaseCommand(op, r, record))
  BY <1>1
<1> DEFINE m == ReleaseCommand(op, r, record)
<1>3. r \in Releases /\ release[r].revision \in Nat
  BY DEF CommandsTyped, ContentTypeOK
<1>4. record \in Records \cup {None} /\ (op = "prepare" => record \in Records)
  BY <1>3
<1>5. m \in ReleaseCommands
  BY <1>3, <1>4 DEF ReleaseCommand, ReleaseCommands
<1>6. ReleaseFits(m, release[r])
  BY <1>1, <1>3, <1>4 DEF ReleaseCommand, ReleaseFits
<1>7. m \in Commands /\ Fits(m, release, source)
  BY <1>5, <1>6 DEF Commands, Fits, ReleaseCommand, ReleaseCommands, CreateCommands, SwapCommands, ReleaseOps, SwapOps
<1>8. UNCHANGED Rows /\ faults' \in Nat
  BY DEF Lock, ContentTypeOK
<1> QED
  BY <1>2, <1>7, <1>8, ReadingStep

(* Locking the source row changes no row either.                            *)
LEMMA LockSourceKeeps == ASSUME IInv, NEW c \in Clients, LockSource(c) PROVE IInv'
<1> USE ContentAssumption DEF IInv
<1>1. PICK r \in plan.releases : Enter(c, CreateCommand(r))
  BY DEF LockSource
<1> DEFINE m == CreateCommand(r)
<1>2. r \in Releases /\ SourceOf[r] \in Sources
  BY DEF CommandsTyped
<1>3. source[SourceOf[r]].revision \in Nat /\ source[SourceOf[r]].active \in MaybeRelease
  BY <1>2 DEF ContentTypeOK, MaybeRelease
<1>4. m \in CreateCommands /\ CreateFits(m, source[SourceOf[r]])
  BY <1>2, <1>3 DEF CreateCommand, CreateCommands, CreateFits
<1>5. m \in Commands /\ Fits(m, release, source)
  BY <1>4 DEF Commands, Fits, CreateCommand, ReleaseCommands, CreateCommands, SwapCommands, ReleaseOps, SwapOps
<1>6. UNCHANGED Rows /\ faults' \in Nat
  BY DEF LockSource, ContentTypeOK
<1> QED
  BY <1>1, <1>5, <1>6, ReadingStep

(* A swap is checked against the pointer before its rows are locked.        *)
LEMMA CheckSwapKeeps == ASSUME IInv, NEW c \in Clients, CheckSwap(c) PROVE IInv'
<1> USE ContentAssumption DEF IInv
<1>1. PICK op \in SwapOps, r \in plan.releases : Enter(c, SwapCommand(op, r))
  BY DEF CheckSwap
<1> DEFINE m == SwapCommand(op, r)
<1>2. r \in Releases /\ SourceOf[r] \in Sources
  BY DEF CommandsTyped
<1>3. release[r].revision \in Nat /\ source[SourceOf[r]].revision \in Nat
  BY <1>2 DEF ContentTypeOK
<1>4. m \in SwapCommands
  BY <1>2, <1>3 DEF SwapCommand, SwapCommands, MaybeRelease
<1>5. SwapStillFits(m, release[r], source[SourceOf[r]])
  BY <1>2, <1>3 DEF SwapCommand, SwapStillFits
<1>6. m \in Commands /\ Fits(m, release, source)
  BY <1>4, <1>5 DEF Commands, Fits, SwapCommand, ReleaseCommands, CreateCommands, SwapCommands, ReleaseOps, SwapOps
<1>7. UNCHANGED Rows /\ faults' \in Nat
  BY DEF CheckSwap, ContentTypeOK
<1> QED
  BY <1>1, <1>6, <1>7, ReadingStep

(* What the stage and the operation say about the kind of a command. *)
LEMMA KindOf ==
    ASSUME CommandsTyped, NEW c \in Clients
    PROVE  /\ cmd[c] \in Commands
           /\ cmd[c].stage = "checked" => cmd[c] \in SwapCommands
           /\ cmd[c].stage # "idle" /\ cmd[c].op \in SwapOps => cmd[c] \in SwapCommands
           /\ cmd[c].stage # "idle" /\ cmd[c].op \in ReleaseOps => cmd[c] \in ReleaseCommands
           /\ cmd[c].stage # "idle" /\ cmd[c].op = "create" => cmd[c] \in CreateCommands
<1>1. cmd[c] \in Commands
  BY DEF CommandsTyped
<1> QED
  BY <1>1 DEF Commands, Idle, ReleaseCommands, CreateCommands, SwapCommands, ReleaseOps, SwapOps

(* A swap command fits when it is typed and its facts hold. *)
LEMMA SwapEnters ==
    ASSUME NEW rows, NEW srcs, NEW m \in SwapCommands,
           SwapStillFits(m, rows[m.release], srcs[SourceOf[m.release]])
    PROVE  m \in Commands /\ Fits(m, rows, srcs)
BY DEF Commands, Fits, ReleaseCommands, CreateCommands, SwapCommands, ReleaseOps, SwapOps

(* The releases of a swap are locked in one order and read again.           *)
LEMMA LockSwapKeeps == ASSUME IInv, NEW c \in Clients, LockSwap(c) PROVE IInv'
<1> USE ContentAssumption DEF IInv
<1> DEFINE s == SourceOf[cmd[c].release]
           m == [cmd[c] EXCEPT !.stage = "locked", !.current = source[s].active]
<1>1. cmd[c] \in SwapCommands
  BY KindOf DEF LockSwap
<1>2. SwapStillFits(cmd[c], release[cmd[c].release], source[s])
  BY <1>1 DEF CommandsFit, Fits
<1>3. s \in Sources /\ source[s].active \in MaybeRelease
  BY <1>1 DEF SwapCommands, ContentTypeOK, MaybeRelease
<1>4. m \in SwapCommands /\ m.release = cmd[c].release
  BY <1>1, <1>3 DEF SwapCommands
<1>5. SwapStillFits(m, release[cmd[c].release], source[s])
  BY <1>1, <1>2 DEF SwapStillFits, SwapCommands
<1>6. m \in Commands /\ Fits(m, release, source)
  BY <1>4, <1>5, SwapEnters
<1>7. UNCHANGED Rows /\ faults' \in Nat
  BY DEF LockSwap, ContentTypeOK
<1>8. Enter(c, m) \/ Enter(c, Idle)
  BY DEF LockSwap
<1> QED
  BY <1>6, <1>7, <1>8, IdleFits, ReadingStep

(* A swap that validates holds releases that fit each other and the source. *)
LEMMA ValidateSwapKeeps == ASSUME IInv, NEW c \in Clients, ValidateSwap(c) PROVE IInv'
<1> USE ContentAssumption DEF IInv
<1> DEFINE r == cmd[c].release
           s == SourceOf[r]
           current == cmd[c].current
           m == [cmd[c] EXCEPT !.stage = "read",
                    !.currentRevision = IF current = None THEN 0 ELSE release[current].revision]
<1>1. cmd[c] \in SwapCommands
  BY KindOf DEF ValidateSwap
<1>2. SwapStillFits(cmd[c], release[r], source[s]) /\ cmd[c].stage = "locked"
  BY <1>1 DEF CommandsFit, Fits, ValidateSwap
<1>3. UNCHANGED Rows /\ faults' \in Nat
  BY DEF ValidateSwap, ContentTypeOK
<1>4. CASE release[r].revision = cmd[c].revision /\ SwapFits(cmd[c].op, r, current)
  <2>1. m \in SwapCommands /\ m.release = r
    BY <1>1 DEF SwapCommands, ContentTypeOK, MaybeRelease
  <2>2. /\ m.stage = "read" /\ m.op = cmd[c].op /\ m.revision = cmd[c].revision
        /\ m.sourceRevision = cmd[c].sourceRevision /\ m.current = current
    BY <1>1 DEF SwapCommands
  <2>3. SwapStillFits(m, release[r], source[s])
    BY <1>2, <1>4, <2>2 DEF SwapStillFits, SwapFits, BaseHolds
  <2>4. m \in Commands /\ Fits(m, release, source)
    BY <2>1, <2>3, SwapEnters
  <2>5. Enter(c, m)
    BY <1>4 DEF ValidateSwap
  <2> QED
    BY <1>3, <2>4, <2>5, ReadingStep
<1>5. CASE ~(release[r].revision = cmd[c].revision /\ SwapFits(cmd[c].op, r, current))
  <2>1. Enter(c, Idle)
    BY <1>5 DEF ValidateSwap
  <2> QED
    BY <1>3, <2>1, IdleFits, ReadingStep
<1> QED
  BY <1>4, <1>5

(* The next sequence number is read under the lock of the source.           *)
LEMMA ReadSequenceKeeps == ASSUME IInv, NEW c \in Clients, ReadSequence(c) PROVE IInv'
<1> USE ContentAssumption DEF IInv
<1>1. PICK n \in 1..(Cardinality(Releases) + 1) :
        Enter(c, [cmd[c] EXCEPT !.stage = "read", !.sequence = n])
  BY DEF ReadSequence
<1> DEFINE m == [cmd[c] EXCEPT !.stage = "read", !.sequence = n]
<1>2. cmd[c] \in CreateCommands
  BY KindOf DEF ReadSequence
<1>3. n \in Nat
  BY FS_CardinalityType
<1>4. CreateFits(cmd[c], source[SourceOf[cmd[c].release]])
  BY <1>2 DEF CommandsFit, Fits
<1>5. m \in CreateCommands /\ CreateFits(m, source[SourceOf[m.release]])
  BY <1>2, <1>3, <1>4 DEF CreateCommands, CreateFits
<1>6. m \in Commands /\ Fits(m, release, source)
  BY <1>5 DEF Commands, Fits, ReleaseCommands, CreateCommands, SwapCommands, ReleaseOps, SwapOps
<1>7. UNCHANGED Rows /\ faults' \in Nat
  BY DEF ReadSequence, ContentTypeOK
<1> QED
  BY <1>1, <1>6, <1>7, ReadingStep

(* A preparation command has validated against the release it locked.       *)
LEMMA ValidateKeeps == ASSUME IInv, NEW c \in Clients, Validate(c) PROVE IInv'
<1> USE ContentAssumption DEF IInv
<1> DEFINE r == cmd[c].release
           m == [cmd[c] EXCEPT !.stage = "read"]
           n == [cmd[c] EXCEPT !.stage = "read", !.counted = release[r].records]
<1>1. cmd[c] \in ReleaseCommands /\ cmd[c].stage = "locked"
  BY KindOf DEF Validate
<1>2. ReleaseFits(cmd[c], release[r])
  BY <1>1 DEF CommandsFit, Fits
<1>3. UNCHANGED Rows /\ faults' \in Nat
  BY DEF Validate, ContentTypeOK
<1>4. CASE Enter(c, m) /\ cmd[c].op # "ready"
  <2>1. m \in ReleaseCommands /\ ReleaseFits(m, release[m.release])
    BY <1>1, <1>2, <1>4 DEF ReleaseCommands, ReleaseFits
  <2>2. m \in Commands /\ Fits(m, release, source)
    BY <2>1 DEF Commands, Fits, ReleaseCommands, CreateCommands, SwapCommands, ReleaseOps, SwapOps
  <2> QED
    BY <1>3, <1>4, <2>2, ReadingStep
<1>5. CASE Enter(c, n) /\ WellFormed(release[r].records)
  <2>1. n \in ReleaseCommands /\ ReleaseFits(n, release[n.release])
    BY <1>1, <1>2, <1>5 DEF ReleaseCommands, ReleaseFits, ContentTypeOK
  <2>2. n \in Commands /\ Fits(n, release, source)
    BY <2>1 DEF Commands, Fits, ReleaseCommands, CreateCommands, SwapCommands, ReleaseOps, SwapOps
  <2> QED
    BY <1>3, <1>5, <2>2, ReadingStep
<1>6. CASE Enter(c, Idle)
  BY <1>3, <1>6, IdleFits, ReadingStep
<1>7. \/ Enter(c, m) /\ cmd[c].op # "ready"
      \/ Enter(c, n) /\ WellFormed(release[r].records)
      \/ Enter(c, Idle)
  BY <1>1 DEF Validate, ValidateOf, ReleaseCommands, ReleaseOps
<1> QED
  BY <1>4, <1>5, <1>6, <1>7

(* A swap that is tried again has the revisions it was sent with. *)
LEMMA RetriedFits ==
    ASSUME NEW c \in Clients, cmd[c] \in SwapCommands, NEW rows, NEW srcs,
           cmd[c].revision <= rows[cmd[c].release].revision,
           cmd[c].sourceRevision <= srcs[SourceOf[cmd[c].release]].revision
    PROVE  Retried(c) \in Commands /\ Fits(Retried(c), rows, srcs)
<1> DEFINE m == [cmd[c] EXCEPT !.stage = "checked", !.attempts = @ + 1]
<1>1. m \in SwapCommands /\ m.release = cmd[c].release
  <2>1. cmd[c].attempts \in Nat
    BY DEF SwapCommands
  <2>2. cmd[c].attempts + 1 \in Nat
    BY <2>1
  <2> HIDE <2>1
  <2> QED
    BY <2>2 DEF SwapCommands
<1>2. SwapStillFits(m, rows[m.release], srcs[SourceOf[m.release]])
  BY DEF SwapStillFits, SwapCommands
<1>3. m \in Commands /\ Fits(m, rows, srcs)
  BY <1>1, <1>2, SwapEnters
<1> QED
  BY <1>3, IdleFits DEF Retried

(* A command that dies rolls back: no row changes.                          *)
LEMMA AbortsKeeps == ASSUME IInv, NEW c \in Clients, Aborts(c) PROVE IInv'
<1> USE ContentAssumption DEF IInv
<1>1. UNCHANGED Rows /\ faults' \in Nat
  BY DEF Aborts, Fault, ContentTypeOK
<1>2. CASE Enter(c, Idle)
  BY <1>1, <1>2, IdleFits, ReadingStep
<1>3. CASE cmd[c].op \in SwapOps /\ Enter(c, Retried(c))
  <2>1. cmd[c] \in SwapCommands
    BY <1>3, KindOf DEF Aborts
  <2>2. SwapStillFits(cmd[c], release[cmd[c].release], source[SourceOf[cmd[c].release]])
    BY <2>1 DEF CommandsFit, Fits
  <2>3. Retried(c) \in Commands /\ Fits(Retried(c), release, source)
    BY <2>1, <2>2, RetriedFits DEF SwapStillFits
  <2> QED
    BY <1>1, <1>3, <2>3, ReadingStep
<1> QED
  BY <1>2, <1>3 DEF Aborts

(* A command that is refused changes no row.                                *)
LEMMA RefusedKeeps == ASSUME IInv, NEW c \in Clients, Refused(c) PROVE IInv'
<1>1. UNCHANGED Rows /\ faults' \in Nat /\ Enter(c, Idle)
  BY DEF Refused, Ends, Enter, IInv, ContentTypeOK
<1> QED
  BY <1>1, IdleFits, ReadingStep

-----------------------------------------------------------------------------
(* The steps that write. *)

ReleaseRows ==
    [status: Statuses, revision: Nat, sequence: Nat, base: Releases \cup {None},
     records: SUBSET Records, counted: SUBSET Records]

(* What is served stays while no release becomes or stops being active. *)
LEMMA ServingKept ==
    ASSUME PointerOwn, PointerIsActive, ClaimsExact, PathsOnce,
           ContentTypeOK, ContentTypeOK', claims' = claims,
           \A s \in Sources : source'[s].active = source[s].active,
           \A r \in Releases : release'[r].status = "active" <=> release[r].status = "active",
           \A r \in Releases :
                release[r].status = "active" => release'[r].records = release[r].records
    PROVE  PointerOwn' /\ PointerIsActive' /\ ClaimsExact' /\ PathsOnce'
<1> USE ContentAssumption
<1>1. PointerOwn' /\ PathsOnce'
  BY DEF PointerOwn, PathsOnce
<1>2. PointerIsActive'
  BY DEF PointerIsActive
<1>3. ClaimsExact'
  <2> DEFINE Served == {q \in Releases : source[SourceOf[q]].active = q}
  <2>1. Served = {q \in Releases : source'[SourceOf[q]].active = q}
    OBVIOUS
  <2>2. \A q \in Served : ClaimsOf(q)' = ClaimsOf(q)
    BY DEF ClaimsOf, PointerIsActive
  <2>3. claims = UNION {ClaimsOf(q) : q \in Served}
    BY DEF ClaimsExact
  <2>4. UNION {ClaimsOf(q) : q \in Served} = UNION {ClaimsOf(q)' : q \in Served}
    BY <2>2
  <2> QED
    BY <2>1, <2>3, <2>4 DEF ClaimsExact
<1> QED
  BY <1>1, <1>2, <1>3

(* The conditional update of one release that is not and does not become   *)
(* active.                                                                 *)
LEMMA RowStep ==
    ASSUME IInv, NEW c \in Clients, NEW r \in Releases, NEW row \in ReleaseRows,
           release' = [release EXCEPT ![r] = row], row.revision > release[r].revision,
           release[r].status # "active", row.status \notin {"absent", "active"},
           row.status \in Retained => WellFormed(row.records) /\ row.counted = row.records,
           UNCHANGED <<claims, swaps, faults, plan>>,
           source' \in [Sources -> [active: Releases \cup {None}, revision: Nat]],
           \A s \in Sources : /\ source'[s].active = source[s].active
                              /\ source'[s] = source[s] \/ source'[s].revision > source[s].revision,
           Ends(c)
    PROVE  IInv'
<1> USE ContentAssumption DEF IInv
<1>1. ContentTypeOK'
  <2>1. release' \in [Releases -> ReleaseRows]
    BY DEF ContentTypeOK, ReleaseRows
  <2>2. row.revision # 0
    BY DEF ContentTypeOK, ReleaseRows
  <2>3. \A q \in Releases : release'[q].status = "absent" <=> release'[q].revision = 0
    BY <2>2 DEF ContentTypeOK
  <2> QED
    BY <2>1, <2>3 DEF ContentTypeOK, ReleaseRows
<1>2. Advances
  BY DEF Advances, ContentTypeOK
<1>3. PointerOwn' /\ PointerIsActive' /\ ClaimsExact' /\ PathsOnce'
  <2>1. \A q \in Releases : release'[q].status = "active" <=> release[q].status = "active"
    BY DEF ContentTypeOK
  <2>2. \A q \in Releases :
            release[q].status = "active" => release'[q].records = release[q].records
    BY DEF ContentTypeOK
  <2>3. claims' = claims /\ \A s \in Sources : source'[s].active = source[s].active
    OBVIOUS
  <2> QED
    BY <1>1, <2>1, <2>2, <2>3, ServingKept
<1>4. FrozenAsCounted'
  BY DEF FrozenAsCounted, EvidenceHolds, ContentTypeOK
<1>5. CommandsTyped' /\ CommandsFit'
  <2>1. Enter(c, Idle)
    BY DEF Ends, Enter
  <2> QED
    BY <1>1, <1>2, <2>1, IdleFits, CommitStep
<1> QED
  BY <1>1, <1>3, <1>4, <1>5

(* A new release starts empty, with the base its command was given.         *)
LEMMA CreateReleaseKeeps == ASSUME IInv, NEW c \in Clients, CreateRelease(c) PROVE IInv'
<1> USE ContentAssumption DEF IInv
<1> DEFINE r == cmd[c].release
           s == SourceOf[r]
           row == Created(cmd[c].sequence, cmd[c].current)
<1>1. cmd[c] \in CreateCommands
  BY KindOf DEF CreateRelease
<1>2. r \in Releases /\ s \in Sources /\ cmd[c].sequence \in Nat /\ cmd[c].current \in MaybeRelease
  BY <1>1 DEF CreateCommands
<1>3. CASE Refused(c)
  BY <1>3, RefusedKeeps
<1>4. CASE /\ release[r] = Absent
           /\ release' = [release EXCEPT ![r] = row]
           /\ source' = [source EXCEPT ![s].revision = @ + 1]
           /\ Ends(c)
           /\ UNCHANGED <<claims, intents, swaps, faults, plan>>
  <2>1. row \in ReleaseRows /\ row.status = "queued" /\ row.revision = 1
    BY <1>2 DEF Created, Absent, ReleaseRows, Statuses, Preparing, Frozen, Retained, MaybeRelease
  <2>2. release[r].revision = 0 /\ release[r].status = "absent"
    BY <1>4 DEF Absent
  <2> DEFINE SourceRows == [active: Releases \cup {None}, revision: Nat]
             moved == [source[s] EXCEPT !.revision = @ + 1]
  <2>a. source \in [Sources -> SourceRows] /\ source[s] \in SourceRows
    BY <1>2 DEF ContentTypeOK
  <2>b. /\ moved \in SourceRows
        /\ moved.active = source[s].active
        /\ moved.revision > source[s].revision
    BY ONLY <2>a
  <2>c. source' = [source EXCEPT ![s] = moved]
    BY <1>4
  <2> HIDE DEF IInv, row, r, s, SourceRows, moved
  <2>d. source' \in [Sources -> SourceRows]
    BY ONLY <2>a, <2>b, <2>c
  <2>3. source' \in [Sources -> [active: Releases \cup {None}, revision: Nat]]
    BY ONLY <2>d DEF SourceRows
  <2>4. \A t \in Sources : /\ source'[t].active = source[t].active
                           /\ source'[t] = source[t] \/ source'[t].revision > source[t].revision
    BY ONLY <2>a, <2>b, <2>c
  <2> USE DEF IInv, row, r, s
  <2>5. row.revision > release[r].revision /\ release[r].status # "active"
    BY <2>1, <2>2
  <2>6. row.status \notin Retained /\ row.status \notin {"absent", "active"}
    BY <2>1 DEF Retained
  <2> HIDE DEF IInv, row
  <2> QED
    BY <1>2, <1>4, <2>1, <2>3, <2>4, <2>5, <2>6, RowStep
<1> QED
  BY <1>3, <1>4 DEF CreateRelease

(* A command on one release saves a row one revision further. *)
LEMMA SavesKeeps ==
    ASSUME IInv, NEW c \in Clients, NEW op \in ReleaseOps, NEW row, Saves(c, op, row),
           release[cmd[c].release].status \in Accepts(op) =>
                /\ row \in ReleaseRows
                /\ row.revision = release[cmd[c].release].revision + 1
                /\ row.status \notin {"absent", "active"},
           Unmoved(c) /\ row.status \in Retained =>
                WellFormed(row.records) /\ row.counted = row.records
    PROVE  IInv'
<1> USE ContentAssumption DEF IInv
<1> DEFINE r == cmd[c].release
<1>1. cmd[c] \in ReleaseCommands /\ cmd[c].op = op
  BY KindOf DEF Saves
<1>2. r \in Releases /\ ReleaseFits(cmd[c], release[r]) /\ release[r].revision \in Nat
  BY <1>1 DEF ReleaseCommands, CommandsFit, Fits, ContentTypeOK
<1>3. CASE Refused(c)
  BY <1>3, RefusedKeeps
<1>4. CASE Unmoved(c)
  <2>1. release[r].status \in Accepts(op)
    BY <1>1, <1>2, <1>4 DEF Unmoved, ReleaseFits
  <2>2. release[r].status # "active"
    BY <2>1 DEF Accepts, ReleaseOps, Preparing
  <2>3. row.revision > release[r].revision
    BY <1>2, <2>1
  <2>4. /\ release' = [release EXCEPT ![r] = row]
        /\ Ends(c)
        /\ UNCHANGED <<source, claims, intents, swaps, faults, plan>>
    BY <1>4 DEF Saves
  <2>5. source' \in [Sources -> [active: Releases \cup {None}, revision: Nat]]
    BY <2>4 DEF ContentTypeOK
  <2>6. \A s \in Sources : /\ source'[s].active = source[s].active
                           /\ source'[s] = source[s] \/ source'[s].revision > source[s].revision
    BY <2>4
  <2> QED
    BY <1>2, <1>4, <2>1, <2>2, <2>3, <2>4, <2>5, <2>6, RowStep
<1> QED
  BY <1>3, <1>4 DEF Saves

(* The commands that prepare a release, freeze it or end it write that release *)
(* alone, and only while its revision has not moved.                        *)
LEMMA PreparationKeeps ==
    ASSUME IInv, NEW c \in Clients,
           \/ BeginFetch(c) \/ BeginValidation(c) \/ Prepare(c)
           \/ MarkReady(c) \/ MarkInvalid(c) \/ MarkFailed(c)
    PROVE  IInv'
<1> USE ContentAssumption DEF IInv
<1> DEFINE r == cmd[c].release
<1>1. /\ cmd[c] \in ReleaseCommands /\ cmd[c].stage = "read"
      /\ r \in Releases /\ release[r] \in ReleaseRows /\ ReleaseFits(cmd[c], release[r])
  <2>1. cmd[c].stage = "read" /\ cmd[c].op \in ReleaseOps
    BY DEF BeginFetch, BeginValidation, Prepare, MarkReady, MarkInvalid, MarkFailed, Saves, ReleaseOps
  <2>2. cmd[c] \in ReleaseCommands
    BY <2>1, KindOf
  <2> QED
    BY <2>1, <2>2 DEF ReleaseCommands, ContentTypeOK, ReleaseRows, CommandsFit, Fits
<1>2. ASSUME NEW status \in Statuses
      PROVE  /\ Moved(c, status) \in ReleaseRows
             /\ Moved(c, status).status = status
             /\ Moved(c, status).revision = release[r].revision + 1
  <2>1. release[r].revision + 1 \in Nat
    BY <1>1 DEF ReleaseRows
  <2> QED
    BY <1>1, <2>1 DEF Moved, ReleaseRows
<1> DEFINE ValidMove(status) == status \in Statuses /\ status \notin Retained \cup {"absent", "active"}
<1>3. ASSUME NEW op \in ReleaseOps, NEW status, ValidMove(status), Saves(c, op, Moved(c, status))
      PROVE  IInv'
  BY <1>2, <1>3, SavesKeeps
<1>4. /\ ValidMove("fetching") /\ ValidMove("validating")
      /\ ValidMove("invalid") /\ ValidMove("failed")
  BY DEF Statuses, Preparing, Frozen, Retained
<1>5. /\ "fetch" \in ReleaseOps /\ "validate" \in ReleaseOps /\ "invalid" \in ReleaseOps
      /\ "fail" \in ReleaseOps /\ "prepare" \in ReleaseOps /\ "ready" \in ReleaseOps
  BY DEF ReleaseOps
<1>6. CASE BeginFetch(c) \/ BeginValidation(c) \/ MarkInvalid(c) \/ MarkFailed(c)
  BY <1>3, <1>4, <1>5, <1>6 DEF BeginFetch, BeginValidation, MarkInvalid, MarkFailed
<1>7. CASE Prepare(c)
  <2> DEFINE row == [release[r] EXCEPT !.records = @ \cup {cmd[c].record}, !.revision = @ + 1]
  <2>1. cmd[c].op = "prepare" /\ cmd[c].record \in Records
    BY <1>1, <1>7 DEF Prepare, Saves, ReleaseFits
  <2>2. release[r].revision + 1 \in Nat /\ release[r].records \cup {cmd[c].record} \in SUBSET Records
    BY <1>1, <2>1 DEF ReleaseRows
  <2>3. row \in ReleaseRows /\ row.revision = release[r].revision + 1 /\ row.status = release[r].status
    BY <1>1, <2>2 DEF ReleaseRows
  <2>4. release[r].status \in Accepts("prepare") => row.status \notin Retained \cup {"absent", "active"}
    BY <2>3 DEF Accepts, Preparing, Retained
  <2>5. Unmoved(c) => release[r].status \in Accepts("prepare")
    BY <1>1, <2>1 DEF Unmoved, ReleaseFits
  <2> QED
    BY <1>5, <1>7, <2>3, <2>4, <2>5, SavesKeeps DEF Prepare
<1>8. CASE MarkReady(c)
  <2> DEFINE row == [Moved(c, "ready") EXCEPT !.counted = cmd[c].counted]
  <2>1. cmd[c].op = "ready" /\ cmd[c].counted \in SUBSET Records
    BY <1>1, <1>8 DEF MarkReady, Saves, ReleaseCommands
  <2>2. "ready" \in Statuses
    BY DEF Statuses, Frozen, Retained
  <2>3. /\ row \in ReleaseRows /\ row.revision = release[r].revision + 1 /\ row.status = "ready"
        /\ row.counted = cmd[c].counted /\ row.records = release[r].records
    BY <1>1, <1>2, <2>1, <2>2 DEF ReleaseRows, Moved
  <2>4. Unmoved(c) => WellFormed(row.records) /\ row.counted = row.records
    BY <1>1, <2>1, <2>3 DEF Unmoved, ReleaseFits
  <2> QED
    BY <1>5, <1>8, <2>3, <2>4, SavesKeeps DEF MarkReady
<1> QED
  BY <1>6, <1>7, <1>8

-----------------------------------------------------------------------------
(* The pointer swap. *)

(* What a swap that applies replaces, whatever has happened since it read. *)
LEMMA SwapReplaces ==
    ASSUME IInv, NEW c \in Clients, NEW op \in SwapOps,
           cmd[c].stage = "read", cmd[c].op = op, SwapApplies(c)
    PROVE  LET r == cmd[c].release
               s == SourceOf[r]
           IN /\ cmd[c] \in SwapCommands /\ r \in Releases /\ s \in Sources
              /\ cmd[c].current = source[s].active
              /\ cmd[c].current # r
              /\ release[r].status \in Accepts(op)
              /\ release[r].status \in {"ready", "superseded"}
              /\ op = "activate" => release[r].base = source[s].active
<1> USE ContentAssumption DEF IInv
<1> DEFINE r == cmd[c].release
           s == SourceOf[r]
<1>1. cmd[c] \in SwapCommands
  BY KindOf
<1>2. r \in Releases /\ s \in Sources
  BY <1>1 DEF SwapCommands
<1>3. SwapStillFits(cmd[c], release[r], source[s])
  BY <1>1 DEF CommandsFit, Fits
<1>4. release[r].revision = cmd[c].revision /\ source[s].revision = cmd[c].sourceRevision
  BY DEF SwapApplies, Unmoved, SourceUnmoved
<1>5. cmd[c].current = source[s].active /\ release[r].status \in Accepts(op)
  BY <1>3, <1>4 DEF SwapStillFits
<1>6. op = "activate" => release[r].base = source[s].active
  BY <1>3, <1>4, <1>5 DEF SwapStillFits
<1>7. release[r].status \in {"ready", "superseded"}
  BY <1>5 DEF Accepts, SwapOps
<1>8. cmd[c].current # r
  BY <1>2, <1>5, <1>7 DEF PointerIsActive
<1> QED
  BY <1>1, <1>2, <1>5, <1>6, <1>7, <1>8

(* A swap moves the pointer, the statuses and the path claims together.     *)
LEMMA SwapKeeps == ASSUME IInv, NEW c \in Clients, NEW op \in SwapOps, Swap(c, op) PROVE IInv'
<1> USE ContentAssumption DEF IInv
<1> DEFINE r == cmd[c].release
           s == SourceOf[r]
           current == cmd[c].current
<1>1. cmd[c].stage = "read" /\ cmd[c].op = op
  BY DEF Swap
<1>2. CASE ~SwapApplies(c)
  BY <1>2, RefusedKeeps DEF Swap
<1>3. CASE SwapApplies(c)
  <2>1. /\ cmd[c] \in SwapCommands /\ r \in Releases /\ s \in Sources
        /\ current = source[s].active /\ current # r
        /\ release[r].status \in {"ready", "superseded"}
    BY <1>1, <1>3, SwapReplaces
  <2>2. /\ release' = Swapped(r, current)
        /\ source' = Repointed(s, r)
        /\ claims' = Claimed(r)
        /\ swaps' = [swaps EXCEPT ![s] = @ + 1]
        /\ UNCHANGED plan
    BY <1>3 DEF Swap, SwapWrites
  <2>3. faults' \in Nat
    BY <1>3 DEF Swap, Fault, ContentTypeOK
  <2>4. \A q \in Releases :
            /\ release[q] \in ReleaseRows
            /\ release'[q] \in ReleaseRows
            /\ release'[q].records = release[q].records
            /\ release'[q].counted = release[q].counted
            /\ release'[q].status = IF q = r THEN "active"
                                    ELSE IF q = current THEN "superseded" ELSE release[q].status
            /\ release'[q].revision = IF q \in {r, current} THEN release[q].revision + 1
                                      ELSE release[q].revision
            /\ q \notin {r, current} => release'[q] = release[q]
    <3> SUFFICES ASSUME NEW q \in Releases
                 PROVE  /\ release[q] \in ReleaseRows
                        /\ release'[q] \in ReleaseRows
                        /\ release'[q].records = release[q].records
                        /\ release'[q].counted = release[q].counted
                        /\ release'[q].status = IF q = r THEN "active"
                                    ELSE IF q = current THEN "superseded" ELSE release[q].status
                        /\ release'[q].revision = IF q \in {r, current} THEN release[q].revision + 1
                                      ELSE release[q].revision
                        /\ q \notin {r, current} => release'[q] = release[q]
      OBVIOUS
    <3>1. release[q] \in ReleaseRows /\ release[q].revision + 1 \in Nat
      BY DEF ContentTypeOK, ReleaseRows
    <3>2. {"active", "superseded"} \subseteq Statuses
      BY DEF Statuses, Frozen, Retained
    <3>3. CASE q = r
      BY <2>2, <3>1, <3>2, <3>3 DEF Swapped, ReleaseRows
    <3>4. CASE q # r /\ q = current
      BY <2>2, <3>1, <3>2, <3>4 DEF Swapped, ReleaseRows
    <3>5. CASE q \notin {r, current}
      BY <2>2, <3>1, <3>5 DEF Swapped
    <3> QED
      BY <3>3, <3>4, <3>5
  <2>5. /\ source' \in [Sources -> [active: Releases \cup {None}, revision: Nat]]
        /\ source'[s].active = r /\ source'[s].revision = source[s].revision + 1
        /\ \A t \in Sources : t # s => source'[t] = source[t]
    BY <2>1, <2>2 DEF Repointed, ContentTypeOK
  <2>6. claims' \subseteq [path: Paths, source: Sources, release: Releases]
    <3>1. ClaimsOf(r) \subseteq [path: Paths, source: Sources, release: Releases]
      <4>1. \A x \in release[r].records : x.path \in Paths
        BY <2>1 DEF ContentTypeOK, Records
      <4>2. PublicPaths(release[r].records) \subseteq Paths
        BY <4>1 DEF PublicPaths
      <4> QED
        BY <2>1, <4>2 DEF ClaimsOf
    <3> QED
      BY <2>2, <3>1 DEF Claimed, ContentTypeOK
  <2>7. ContentTypeOK'
    <3>1. release' \in [Releases -> ReleaseRows]
      BY <2>2, <2>4 DEF Swapped
    <3>2. \A q \in Releases : release'[q].status = "absent" <=> release'[q].revision = 0
      <4> SUFFICES ASSUME NEW q \in Releases
                   PROVE  release'[q].status = "absent" <=> release'[q].revision = 0
        OBVIOUS
      <4>1. CASE q \in {r, current}
        <5>1. release[q].revision \in Nat
          BY <2>4 DEF ReleaseRows
        <5> QED
          BY <2>4, <4>1, <5>1
      <4>2. CASE q \notin {r, current}
        BY <2>4, <4>2 DEF ContentTypeOK
      <4> QED
        BY <4>1, <4>2
    <3>3. swaps' \in [Sources -> Nat]
      BY <2>1, <2>2 DEF ContentTypeOK
    <3> QED
      BY <2>3, <2>5, <2>6, <3>1, <3>2, <3>3 DEF ContentTypeOK, ReleaseRows
  <2>8. Advances
    <3>1. \A q \in Releases : release[q].revision \in Nat
      BY <2>4 DEF ReleaseRows
    <3>2. \A q \in Releases :
            release'[q] = release[q] \/ release'[q].revision > release[q].revision
      BY <2>4, <3>1
    <3>3. source[s].revision \in Nat
      BY <2>1 DEF ContentTypeOK
    <3> QED
      BY <2>5, <3>2, <3>3 DEF Advances
  <2>9. PointerOwn'
    BY <2>1, <2>5 DEF PointerOwn
  <2>10. PointerIsActive'
    <3> SUFFICES ASSUME NEW q \in Releases
                 PROVE  release'[q].status = "active" <=> source'[SourceOf[q]].active = q
      BY DEF PointerIsActive
    <3>1. SourceOf[q] \in Sources
      OBVIOUS
    <3>2. CASE q = r
      BY <2>1, <2>4, <2>5, <3>2
    <3>3. CASE q # r /\ q = current
      <4>1. SourceOf[q] = s
        BY <2>1, <3>3 DEF PointerOwn
      <4> QED
        BY <2>1, <2>4, <2>5, <3>3, <4>1
    <3>4. CASE q # r /\ q # current
      <4>1. release'[q].status = release[q].status
        BY <2>4, <3>4
      <4>2. CASE SourceOf[q] = s
        BY <2>1, <2>5, <3>4, <4>1, <4>2 DEF PointerIsActive
      <4>3. CASE SourceOf[q] # s
        BY <2>5, <3>1, <4>1, <4>3 DEF PointerIsActive
      <4> QED
        BY <4>2, <4>3
    <3> QED
      BY <3>2, <3>3, <3>4
  <2>11. \A q \in Releases : ClaimsOf(q)' = ClaimsOf(q)
    BY <2>4 DEF ClaimsOf
  <2>12. ClaimsExact'
    <3> DEFINE Served == {q \in Releases : source[SourceOf[q]].active = q}
               Serving == {q \in Releases : source'[SourceOf[q]].active = q}
    <3>1. \A q \in Releases : q \in Serving <=> q = r \/ (q \in Served /\ SourceOf[q] # s)
      BY <2>1, <2>5
    <3>2. \A q \in Releases : \A k \in ClaimsOf(q) : k.source = SourceOf[q]
      BY DEF ClaimsOf
    <3>3. {k \in claims : k.source # s} =
            UNION {ClaimsOf(q) : q \in {p \in Served : SourceOf[p] # s}}
      BY <3>2 DEF ClaimsExact
    <3> DEFINE Rest == {p \in Served : SourceOf[p] # s}
               Kept == {k \in claims : k.source # s}
    <3>a. Serving = Rest \cup {r}
      BY <2>1, <3>1
    <3>b. claims' = Kept \cup ClaimsOf(r)
      BY <2>2 DEF Claimed
    <3>c. Kept = UNION {ClaimsOf(q) : q \in Rest}
      BY <3>3
    <3> HIDE DEF Served, Serving, Rest, Kept
    <3>4. claims' = UNION {ClaimsOf(q) : q \in Serving}
      BY ONLY <3>a, <3>b, <3>c
    <3> USE DEF Served, Serving
    <3>5. UNION {ClaimsOf(q) : q \in Serving} = UNION {ClaimsOf(q)' : q \in Serving}
      BY <2>11
    <3> QED
      BY <3>4, <3>5 DEF ClaimsExact
  <2>13. PathsOnce'
    <3>1. \A k \in ClaimsOf(r) : k.source = s
      BY DEF ClaimsOf
    <3>2. PathsUnclaimed(r)
      BY <1>3 DEF SwapApplies
    <3> QED
      BY <2>2, <3>1, <3>2 DEF PathsOnce, PathsUnclaimed, Claimed
  <2>14. FrozenAsCounted'
    <3> SUFFICES ASSUME NEW q \in Releases, release'[q].status \in Retained
                 PROVE  EvidenceHolds(q)'
      BY DEF FrozenAsCounted
    <3>1. release[q].status \in Retained
      <4>1. CASE q = r
        BY <2>1, <4>1 DEF Retained
      <4>2. CASE q # r /\ q = current
        <5>1. release[q].status = "active"
          BY <2>1, <4>2 DEF PointerOwn, PointerIsActive
        <5> QED
          BY <5>1 DEF Retained
      <4>3. CASE q # r /\ q # current
        BY <2>4, <4>3
      <4> QED
        BY <4>1, <4>2, <4>3
    <3>2. EvidenceHolds(q)
      BY <3>1 DEF FrozenAsCounted
    <3> QED
      BY <2>4, <3>2 DEF EvidenceHolds
  <2>15. CommandsTyped' /\ CommandsFit'
    <3>1. SwapStillFits(cmd[c], release[r], source[s])
      BY <2>1 DEF CommandsFit, Fits
    <3>2. /\ cmd[c].revision \in Nat /\ cmd[c].sourceRevision \in Nat
          /\ release[r].revision \in Nat /\ source[s].revision \in Nat
      BY <2>1 DEF SwapCommands, ContentTypeOK
    <3>3. release'[r].revision = release[r].revision + 1
      BY <2>1, <2>4
    <3>4. cmd[c].revision <= release'[r].revision /\ cmd[c].sourceRevision <= source'[s].revision
      BY <2>5, <3>1, <3>2, <3>3 DEF SwapStillFits
    <3>5. Retried(c) \in Commands /\ Fits(Retried(c), release', source')
      BY <2>1, <3>4, RetriedFits
    <3>6. Enter(c, Idle) \/ Enter(c, Retried(c))
      BY <1>3 DEF Swap, Ends, Enter
    <3> QED
      BY <2>2, <2>7, <2>8, <3>5, <3>6, IdleFits, CommitStep
  <2> QED
    BY <2>7, <2>9, <2>10, <2>12, <2>13, <2>14, <2>15
<1> QED
  BY <1>2, <1>3

(* Every step keeps the invariant.                                          *)
LEMMA NextKeeps == IInv /\ [Next]_vars => IInv'
<1> SUFFICES ASSUME IInv, [Next]_vars PROVE IInv'
  OBVIOUS
<1>1. CASE UNCHANGED vars
  BY <1>1 DEF IInv, vars, ContentTypeOK, CommandsTyped, PointerOwn, PointerIsActive, ClaimsExact,
              ClaimsOf, PathsOnce, FrozenAsCounted, EvidenceHolds, CommandsFit
<1>2. ASSUME NEW c \in Clients, Step(c) PROVE IInv'
  <2>1. "activate" \in SwapOps /\ "rollback" \in SwapOps
    BY DEF SwapOps
  <2> QED
    BY <1>2, <2>1, LockKeeps, LockSourceKeeps, CheckSwapKeeps, LockSwapKeeps, ValidateSwapKeeps,
       ReadSequenceKeeps, ValidateKeeps, CreateReleaseKeeps, PreparationKeeps, SwapKeeps,
       AbortsKeeps DEF Step, Activate, Rollback
<1> QED
  BY <1>1, <1>2 DEF Next

(* The invariant holds always.                                              *)
LEMMA AlwaysIInv == Spec => []IInv
BY InitFits, NextKeeps, PTL DEF Spec

-----------------------------------------------------------------------------
(* Theorems. *)

(* The rows have their types (content/models.py) in every behaviour. *)
THEOREM ContentTypeCorrect == Spec => []ContentTypeOK
<1>1. IInv => ContentTypeOK
  BY DEF IInv
<1> QED
  BY <1>1, AlwaysIInv, PTL

(* A source's pointer names its one active release, whatever swaps overlap, *)
(* are retried or lose their answer (activate_content_release,              *)
(* rollback_content_release).                                               *)
THEOREM PointerCorrect == Spec => []PointerIsActive
<1>1. IInv => PointerIsActive
  BY DEF IInv
<1> QED
  BY <1>1, AlwaysIInv, PTL

(* The claims are exactly what the enabled sources serve. *)
THEOREM ClaimsCorrect == Spec => []ClaimsExact
<1>1. IInv => ClaimsExact
  BY DEF IInv
<1> QED
  BY <1>1, AlwaysIInv, PTL

(* A frozen release keeps what was counted and validated: mark_release_ready *)
(* and the preparations exclude each other by the revision alone.            *)
THEOREM FrozenCorrect == Spec => []FrozenAsCounted
<1>1. IInv => FrozenAsCounted
  BY DEF IInv
<1> QED
  BY <1>1, AlwaysIInv, PTL

(* Two enabled sources never serve the same path: each served path has a   *)
(* claim, and a path has one claim.                                        *)
THEOREM ServedOnceCorrect == Spec => []ServedOnce
<1>1. IInv => ServedOnce
  <2> SUFFICES ASSUME IInv, NEW s \in Enabled, NEW t \in Enabled, s # t,
                      source[s].active # None, source[t].active # None,
                      NEW p \in PublicPaths(release[source[s].active].records),
                      p \in PublicPaths(release[source[t].active].records)
               PROVE  FALSE
    BY DEF ServedOnce
  <2> USE ContentAssumption DEF IInv
  <2>1. ASSUME NEW u \in Enabled, source[u].active # None,
               p \in PublicPaths(release[source[u].active].records)
        PROVE  [path |-> p, source |-> u, release |-> source[u].active] \in claims
    <3> DEFINE q == source[u].active
    <3>1. q \in Releases /\ SourceOf[q] = u
      BY <2>1 DEF ContentTypeOK, PointerOwn
    <3>2. [path |-> p, source |-> u, release |-> q] \in ClaimsOf(q)
      BY <2>1, <3>1 DEF ClaimsOf
    <3>3. q \in {x \in Releases : source[SourceOf[x]].active = x}
      BY <3>1
    <3> QED
      BY <3>2, <3>3 DEF ClaimsExact
  <2> DEFINE k == [path |-> p, source |-> s, release |-> source[s].active]
             l == [path |-> p, source |-> t, release |-> source[t].active]
  <2>2. k \in claims /\ l \in claims
    BY <2>1
  <2>3. k.path = l.path => k.source = l.source
    BY <2>2 DEF PathsOnce
  <2> QED
    BY <2>3
<1> QED
  BY <1>1, AlwaysIInv, PTL

(* A release goes active for the first time in the place of the release it *)
(* was created from, and in no other.                                      *)
THEOREM BaseCorrect == Spec => ActivationReplacesBase
<1>1. ASSUME IInv, [Next]_vars, NEW r \in Releases,
             release[r].status = "ready", release'[r].status = "active"
      PROVE  source[SourceOf[r]].active = release[r].base
  <2> USE ContentAssumption
  <2>1. ContentTypeOK /\ CommandsTyped
    BY <1>1 DEF IInv
  <2>2. release' # release
    BY <1>1
  <2>3. PICK c \in Clients : Step(c)
    BY <1>1, <2>2 DEF Next, vars
  <2>4. ASSUME NEW op \in SwapOps, Swap(c, op)
        PROVE  source[SourceOf[r]].active = release[r].base
    <3>1. cmd[c].stage = "read" /\ cmd[c].op = op /\ SwapApplies(c)
      BY <2>2, <2>4 DEF Swap, Refused, Rows
    <3>2. release' = Swapped(cmd[c].release, cmd[c].current)
      BY <2>4, <3>1 DEF Swap, SwapWrites
    <3>3. r = cmd[c].release
      <4>1. ASSUME r # cmd[c].release PROVE release'[r].status # "active"
        <5>1. release[r] \in ReleaseRows
          BY <2>1 DEF ContentTypeOK, ReleaseRows
        <5>2. CASE r = cmd[c].current
          BY <3>2, <4>1, <5>1, <5>2 DEF Swapped, ReleaseRows
        <5>3. CASE r # cmd[c].current
          BY <1>1, <3>2, <4>1, <5>3 DEF Swapped
        <5> QED
          BY <5>2, <5>3
      <4> QED
        BY <1>1, <4>1
    <3>4. /\ release[r].status \in Accepts(op)
          /\ op = "activate" => release[r].base = source[SourceOf[r]].active
      BY <1>1, <3>1, <3>3, SwapReplaces
    <3>5. op = "activate"
      BY <1>1, <3>4 DEF Accepts, SwapOps
    <3> QED
      BY <3>4, <3>5
  <2>5. ASSUME NEW op \in ReleaseOps, NEW row, Saves(c, op, row), row.status # "active"
        PROVE  FALSE
    BY <1>1, <2>1, <2>2, <2>5 DEF Saves, Refused, Rows, ContentTypeOK
  <2>6. CASE CreateRelease(c)
    BY <1>1, <2>1, <2>2, <2>6 DEF CreateRelease, Created, Absent, Refused, Rows, ContentTypeOK
  <2>7. CASE Activate(c) \/ Rollback(c)
    BY <2>4, <2>7 DEF Activate, Rollback, SwapOps
  <2>8. CASE \/ BeginFetch(c) \/ BeginValidation(c) \/ Prepare(c)
             \/ MarkReady(c) \/ MarkInvalid(c) \/ MarkFailed(c)
    <3> DEFINE m == cmd[c].release
    <3>1. cmd[c].stage = "read" /\ cmd[c].op \in ReleaseOps
      BY <2>8 DEF BeginFetch, BeginValidation, Prepare, MarkReady, MarkInvalid, MarkFailed, Saves, ReleaseOps
    <3>2. cmd[c] \in ReleaseCommands
      BY <2>1, <3>1, KindOf
    <3>3. m \in Releases /\ ReleaseFits(cmd[c], release[m])
      BY <1>1, <3>2 DEF ReleaseCommands, IInv, CommandsFit, Fits
    <3>4. release[m].status \in Statuses
      BY <2>1, <3>3 DEF ContentTypeOK
    <3>5. ASSUME NEW status PROVE Moved(c, status).status = status
      BY <2>1, <3>3 DEF Moved, ContentTypeOK
    <3>6. CASE Prepare(c)
      <4> DEFINE row == [release[m] EXCEPT !.records = @ \cup {cmd[c].record}, !.revision = @ + 1]
      <4>1. row.status = release[m].status
        BY <2>1, <3>3 DEF ContentTypeOK
      <4>2. release' = [release EXCEPT ![m] = row]
        BY <2>2, <3>6 DEF Prepare, Saves, Refused, Rows
      <4>3. release'[r].status = release[r].status
        BY <2>1, <3>3, <4>1, <4>2 DEF ContentTypeOK
      <4> QED
        BY <1>1, <4>3
    <3>7. CASE MarkReady(c)
      <4>1. [Moved(c, "ready") EXCEPT !.counted = cmd[c].counted].status = "ready"
        BY <2>1, <3>3 DEF Moved, ContentTypeOK
      <4> QED
        BY <2>5, <3>7, <4>1 DEF MarkReady, ReleaseOps
    <3>8. CASE BeginFetch(c) \/ BeginValidation(c) \/ MarkInvalid(c) \/ MarkFailed(c)
      BY <2>5, <3>5, <3>8 DEF BeginFetch, BeginValidation, MarkInvalid, MarkFailed, ReleaseOps
    <3> QED
      BY <2>8, <3>6, <3>7, <3>8
  <2>9. CASE \/ Lock(c) \/ LockSource(c) \/ CheckSwap(c) \/ LockSwap(c) \/ ValidateSwap(c)
             \/ ReadSequence(c) \/ Validate(c) \/ Aborts(c)
    BY <2>2, <2>9 DEF Lock, LockSource, CheckSwap, LockSwap, ValidateSwap, ReadSequence, Validate, Aborts, Rows
  <2> QED
    BY <2>3, <2>6, <2>7, <2>8, <2>9 DEF Step
<1>2. IInv /\ [Next]_vars =>
        [\A r \in Releases :
            release[r].status = "ready" /\ release'[r].status = "active" =>
                source[SourceOf[r]].active = release[r].base]_vars
  BY <1>1
<1> QED
  BY <1>2, AlwaysIInv, PTL DEF Spec, ActivationReplacesBase

(* No invalidation intent carries a revision its source has not reached. *)
IntentsCounted ==
    /\ IsFiniteSet(intents)
    /\ \A k \in intents : k.source \in Sources /\ k.revision \in Nat
                          /\ k.revision <= source[k.source].revision
    /\ EverySwapInvalidates

(* Every swap has an invalidation intent of its own: the source revision in *)
(* its key is newer than that of every intent before it.                    *)
THEOREM InvalidationCorrect == Spec => []EverySwapInvalidates
<1>1. Init => IntentsCounted
  <2> SUFFICES ASSUME Init PROVE IntentsCounted
    OBVIOUS
  <2>1. intents = {} /\ \A s \in Sources : {k \in intents : k.source = s} = {} /\ swaps[s] = 0
    BY DEF Init
  <2> QED
    BY <2>1, FS_EmptySet DEF IntentsCounted, EverySwapInvalidates
<1>2. ASSUME IInv, IInv', IntentsCounted, [Next]_vars PROVE IntentsCounted'
  <2> USE ContentAssumption
  <2>1. ASSUME UNCHANGED <<intents, swaps>>, Advances PROVE IntentsCounted'
    <3>1. \A s \in Sources : source[s].revision \in Nat /\ source'[s].revision \in Nat
      BY <1>2 DEF IInv, ContentTypeOK
    <3>2. \A s \in Sources : source[s].revision <= source'[s].revision
      BY <2>1, <3>1 DEF Advances
    <3>3. \A k \in intents : k.revision <= source'[k.source].revision
      BY <1>2, <3>1, <3>2 DEF IntentsCounted
    <3> QED
      BY <1>2, <2>1, <3>3 DEF IntentsCounted, EverySwapInvalidates
  <2>2. ASSUME UNCHANGED Rows PROVE IntentsCounted'
    BY <2>1, <2>2 DEF Rows, Advances
  <2>3. ASSUME NEW c \in Clients, NEW op \in SwapOps, Swap(c, op) PROVE IntentsCounted'
    <3>1. CASE ~SwapApplies(c)
      BY <2>2, <2>3, <3>1 DEF Swap, Refused
    <3>2. CASE SwapApplies(c)
      <4> DEFINE s == SourceOf[cmd[c].release]
                 key == InvalidationKey(cmd[c].op, s, cmd[c].current, cmd[c].release,
                                        source[s].revision + 1)
                 Of(t) == {k \in intents : k.source = t}
      <4>1. s \in Sources
        BY <1>2, <2>3, <3>2, SwapReplaces DEF Swap
      <4>2. /\ source' = Repointed(s, cmd[c].release)
            /\ intents' = intents \cup {key}
            /\ swaps' = [swaps EXCEPT ![s] = @ + 1]
        BY <2>3, <3>2 DEF Swap, SwapWrites
      <4>3. key.source = s /\ key.revision = source[s].revision + 1 /\ source[s].revision \in Nat
        BY <1>2, <4>1 DEF InvalidationKey, IInv, ContentTypeOK
      <4>4. key \notin intents
        BY <1>2, <4>3 DEF IntentsCounted
      <4>5. \A t \in Sources : source'[t].revision =
                IF t = s THEN source[s].revision + 1 ELSE source[t].revision
        BY <1>2, <4>1, <4>2 DEF Repointed, IInv, ContentTypeOK
      <4>6. IsFiniteSet(intents')
        BY <1>2, <4>2, FS_AddElement DEF IntentsCounted
      <4>7. \A k \in intents' : /\ k.source \in Sources /\ k.revision \in Nat
                                /\ k.revision <= source'[k.source].revision
        <5> SUFFICES ASSUME NEW k \in intents'
                     PROVE  /\ k.source \in Sources /\ k.revision \in Nat
                            /\ k.revision <= source'[k.source].revision
          OBVIOUS
        <5>1. CASE k = key
          <6>1. k.source = s /\ k.revision = source[s].revision + 1
            BY <4>3, <5>1
          <6>2. source'[s].revision = source[s].revision + 1
            BY <4>1, <4>5
          <6> HIDE DEF key, s
          <6> QED
            BY <4>1, <4>3, <6>1, <6>2
        <5>2. CASE k \in intents
          <6>1. /\ k.source \in Sources /\ k.revision \in Nat
                /\ k.revision <= source[k.source].revision
                /\ source[k.source].revision \in Nat
            BY <1>2, <5>2 DEF IntentsCounted, IInv, ContentTypeOK
          <6> QED
            BY <4>3, <4>5, <6>1
        <5> QED
          BY <4>2, <5>1, <5>2
      <4>8. EverySwapInvalidates'
        <5> SUFFICES ASSUME NEW t \in Sources
                     PROVE  Cardinality({k \in intents' : k.source = t}) = swaps'[t]
          BY DEF EverySwapInvalidates
        <5>1. IsFiniteSet(Of(t)) /\ Cardinality(Of(t)) = swaps[t]
          <6>1. Of(t) \subseteq intents
            OBVIOUS
          <6> QED
            BY <1>2, <6>1, FS_Subset DEF IntentsCounted, EverySwapInvalidates
        <5>2. CASE t = s
          <6>1. {k \in intents' : k.source = t} = Of(t) \cup {key}
            BY <4>2, <4>3, <5>2
          <6>2. key \notin Of(t)
            BY <4>4
          <6>3. Cardinality(Of(t) \cup {key}) = Cardinality(Of(t)) + 1
            BY <5>1, <6>2, FS_AddElement
          <6>4. swaps'[t] = swaps[t] + 1
            BY <1>2, <4>1, <4>2, <5>2 DEF IInv, ContentTypeOK
          <6> QED
            BY <5>1, <6>1, <6>3, <6>4
        <5>3. CASE t # s
          <6>1. {k \in intents' : k.source = t} = Of(t)
            BY <4>2, <4>3, <5>3
          <6>2. swaps'[t] = swaps[t]
            BY <1>2, <4>2, <5>3 DEF IInv, ContentTypeOK
          <6> QED
            BY <5>1, <6>1, <6>2
        <5> QED
          BY <5>2, <5>3
      <4> QED
        BY <4>6, <4>7, <4>8 DEF IntentsCounted
    <3> QED
      BY <3>1, <3>2
  <2>4. ASSUME NEW c \in Clients, CreateRelease(c) PROVE IntentsCounted'
    <3> DEFINE r == cmd[c].release
    <3>1. CASE Refused(c)
      BY <2>2, <3>1 DEF Refused
    <3>2. CASE ~Refused(c)
      <4>1. cmd[c] \in CreateCommands
        BY <1>2, <2>4, KindOf DEF CreateRelease, IInv
      <4>2. r \in Releases /\ SourceOf[r] \in Sources
        BY <4>1 DEF CreateCommands
      <4>3. /\ source' = [source EXCEPT ![SourceOf[r]].revision = @ + 1]
            /\ UNCHANGED <<intents, swaps>>
        BY <2>4, <3>2 DEF CreateRelease
      <4>4. \A s \in Sources :
                source'[s] = source[s] \/ source'[s].revision > source[s].revision
        BY <1>2, <4>2, <4>3 DEF IInv, ContentTypeOK
      <4>5. \A k \in intents : k.revision <= source'[k.source].revision
        <5>1. \A s \in Sources : source[s].revision \in Nat /\ source'[s].revision \in Nat
          BY <1>2 DEF IInv, ContentTypeOK
        <5> QED
          BY <1>2, <4>4, <5>1 DEF IntentsCounted
      <4> QED
        BY <1>2, <4>3, <4>5 DEF IntentsCounted, EverySwapInvalidates
    <3> QED
      BY <3>1, <3>2
  <2>5. ASSUME NEW c \in Clients, NEW op, NEW row, Saves(c, op, row) PROVE IntentsCounted'
    <3>1. UNCHANGED <<source, intents, swaps>>
      BY <2>5 DEF Saves, Refused, Rows
    <3> QED
      BY <1>2, <3>1 DEF IntentsCounted, EverySwapInvalidates
  <2>6. ASSUME NEW c \in Clients, Step(c) PROVE IntentsCounted'
    <3>1. CASE CreateRelease(c)
      BY <2>4, <3>1
    <3>2. CASE Activate(c) \/ Rollback(c)
      BY <2>3, <3>2 DEF Activate, Rollback, SwapOps
    <3>3. CASE \/ BeginFetch(c) \/ BeginValidation(c) \/ Prepare(c)
               \/ MarkReady(c) \/ MarkInvalid(c) \/ MarkFailed(c)
      BY <2>5, <3>3 DEF BeginFetch, BeginValidation, Prepare, MarkReady, MarkInvalid, MarkFailed
    <3>4. CASE \/ Lock(c) \/ LockSource(c) \/ CheckSwap(c) \/ LockSwap(c) \/ ValidateSwap(c)
               \/ ReadSequence(c) \/ Validate(c) \/ Aborts(c)
      BY <2>2, <3>4 DEF Lock, LockSource, CheckSwap, LockSwap, ValidateSwap, ReadSequence, Validate, Aborts
    <3> QED
      BY <2>6, <3>1, <3>2, <3>3, <3>4 DEF Step
  <2>7. CASE UNCHANGED vars
    BY <2>2, <2>7 DEF vars, Rows
  <2> QED
    BY <1>2, <2>6, <2>7 DEF Next
<1>3. Spec => []IntentsCounted
  BY <1>1, <1>2, AlwaysIInv, PTL DEF Spec
<1>4. IntentsCounted => EverySwapInvalidates
  BY DEF IntentsCounted
<1> QED
  BY <1>3, <1>4, PTL
=============================================================================
