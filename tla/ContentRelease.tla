--------------------------- MODULE ContentRelease ---------------------------
(***************************************************************************)
(* Publication of repository content: content/services.py over the rows of *)
(* content/models.py.  A source has releases; a release is created,        *)
(* fetched, validated, filled with records and frozen when ready; the      *)
(* source's pointer then swaps to it, or back to a retained one, together  *)
(* with the claims on the public paths it serves and with the intent that  *)
(* invalidates the edge.                                                   *)
(*                                                                         *)
(* Nothing is locked.  A command's transaction reads rows whose revision   *)
(* must be the one the command expects, validates, and writes each row     *)
(* with an UPDATE conditional on the revision it read (lock_revisioned and *)
(* RevisionedModel.save of core).  Here a command is three steps: Lock     *)
(* reads the row the command names first, Validate makes the later reads   *)
(* and the inserts that nobody else sees yet, and the last step writes and *)
(* commits, or changes nothing because a row has moved on.                 *)
(***************************************************************************)
EXTENDS Naturals, FiniteSets

CONSTANTS
    Sources,
    Enabled,       \* the sources that are enabled, fixed when a source is created
    Releases,      \* one for each build (commit and versions) that may be released
    SourceOf,      \* its source
    Content,       \* the records its commit holds
    Paths,
    Clients,       \* runners of commands
    MaxAttempts,   \* _RELEASE_SWAP_ATTEMPTS
    MaxSwaps,      \* bound: pointer swaps of a behaviour
    MaxFaults,     \* bound: transient database errors of a behaviour
    Plans,         \* bound: the releases commands may name, and how many run at once
    None

Kinds == {"document", "asset", "relation"}

(* A relation is named by the path of the document it starts from.         *)
Records == [kind: Kinds, path: Paths]

ASSUME ContentAssumption ==
    /\ Enabled \subseteq Sources
    /\ SourceOf \in [Releases -> Sources]
    /\ Content \in [Releases -> SUBSET Records]
    /\ MaxAttempts \in Nat \ {0} /\ MaxSwaps \in Nat /\ MaxFaults \in Nat
    /\ Plans \subseteq [releases: SUBSET Releases, atOnce: Nat]
    /\ None \notin Releases
    /\ IsFiniteSet(Releases) /\ IsFiniteSet(Paths)

VARIABLES
    source,    \* ContentSource rows: active_release and revision
    release,   \* ContentRelease rows with their records; "absent" before they are created
    claims,    \* ActiveContentPath rows
    intents,   \* JobIntents content.release.invalidate, by key
    cmd,       \* what each client is doing
    swaps,     \* history: committed pointer swaps of each source
    faults,    \* transient errors so far
    plan       \* the behaviour's plan

vars == <<source, release, claims, intents, cmd, swaps, faults, plan>>

Preparing == {"fetching", "validating"}
Retained == {"ready", "active", "superseded"}
Frozen == Retained \cup {"invalid", "failed"}
Statuses == {"absent", "queued"} \cup Preparing \cup Frozen

SwapOps == {"activate", "rollback"}
ReleaseOps == {"fetch", "validate", "prepare", "ready", "invalid", "fail"}

Absent == [status |-> "absent", revision |-> 0, sequence |-> 0, base |-> None,
           records |-> {}, counted |-> {}]

Idle == [stage |-> "idle"]

(* create_content_source: no release is active and the revision is 1.      *)
Init ==
    /\ source = [s \in Sources |-> [active |-> None, revision |-> 1]]
    /\ release = [r \in Releases |-> Absent]
    /\ claims = {}
    /\ intents = {}
    /\ cmd = [c \in Clients |-> Idle]
    /\ swaps = [s \in Sources |-> 0]
    /\ faults = 0
    /\ plan \in Plans

-----------------------------------------------------------------------------

(* _release_public_paths. *)
PublicPaths(records) == {x.path : x \in {y \in records : y.kind # "relation"}}

SiblingSequences(s) == {release[r].sequence : r \in {q \in Releases : SourceOf[q] = s}}

(* One more than the highest sequence of the source (0 while a release is absent). *)
NextSequence(s, n) ==
    /\ n - 1 \in SiblingSequences(s)
    /\ \A m \in SiblingSequences(s) : m < n

(* The status a release must have for an operation on it. *)
Accepts(op) ==
    CASE op = "fetch" -> {"queued"}
      [] op = "validate" -> {"fetching"}
      [] op = "prepare" -> Preparing
      [] op \in {"ready", "invalid"} -> {"validating"}
      [] op = "fail" -> {"queued"} \cup Preparing
      [] op = "activate" -> {"ready"}
      [] op = "rollback" -> {"superseded"}

(* _validate_candidate_paths and _validate_relations. *)
WellFormed(records) ==
    /\ \A x, y \in records : x.path = y.path /\ x # y => "relation" \in {x.kind, y.kind}
    /\ \A x \in records : x.kind = "relation" => [x EXCEPT !.kind = "document"] \in records

(* _validate_enabled_namespace: the claims and the served releases of other enabled sources. *)
NamespaceFree(s, records) ==
    s \in Enabled =>
        /\ \A k \in claims : k.source # s => k.path \notin PublicPaths(records)
        /\ \A t \in Enabled \ {s} :
            source[t].active # None /\ release[source[t].active].status = "active" =>
            PublicPaths(records) \cap PublicPaths(release[source[t].active].records) = {}

(* _path_claims_for_release. *)
ClaimsOf(r) ==
    IF SourceOf[r] \in Enabled
    THEN [path: PublicPaths(release[r].records), source: {SourceOf[r]}, release: {r}]
    ELSE {}

(* _validate_active_path_claims. *)
ClaimsConsistent(s, current) ==
    {k \in claims : k.source = s} = IF current = None THEN {} ELSE ClaimsOf(current)

(* _validate_frozen_readiness: the counts are those taken when it was frozen. *)
EvidenceHolds(r) ==
    WellFormed(release[r].records) /\ release[r].counted = release[r].records

\* Mutant of BaseHolds: the base is not compared.
BaseIgnored(r, current) ==
    current # None => release[current].status = "active"

(* _activation_swap_state: based on what is active, and newer than it. *)
BaseHolds(r, current) ==
    /\ release[r].base = current
    /\ current # None => /\ release[current].status = "active"
                         /\ release[r].sequence > release[current].sequence

(* _rollback_swap_state. *)
RetainedHolds(current) == current # None /\ release[current].status = "active"

(* What a swap validates on the rows it reads. *)
SwapFits(op, r, current) ==
    /\ release[r].status \in Accepts(op)
    /\ IF op = "activate" THEN BaseHolds(r, current) ELSE RetainedHolds(current)
    /\ EvidenceHolds(r)
    /\ ClaimsConsistent(SourceOf[r], current)
    /\ NamespaceFree(SourceOf[r], release[r].records)

-----------------------------------------------------------------------------
(* Reading.                                                                *)

(* The commands: the revisions they expect, the active release and the     *)
(* revision of its row as they read them, the record one inserts and what  *)
(* another counted.                                                        *)
ReleaseCommand(op, r, record) ==
    [stage |-> "locked", op |-> op, release |-> r, record |-> record, counted |-> {},
     revision |-> release[r].revision]

CreateCommand(r) ==
    [stage |-> "locked", op |-> "create", release |-> r, sequence |-> 0,
     sourceRevision |-> source[SourceOf[r]].revision, current |-> source[SourceOf[r]].active]

SwapCommand(op, r) ==
    [stage |-> "checked", op |-> op, release |-> r, attempts |-> 0,
     revision |-> release[r].revision, sourceRevision |-> source[SourceOf[r]].revision,
     current |-> None, currentRevision |-> 0]

Starts(c) ==
    /\ cmd[c] = Idle
    /\ Cardinality({d \in Clients : cmd[d] # Idle}) < plan.atOnce

Enter(c, command) == cmd' = [cmd EXCEPT ![c] = command]

Rows == <<source, release, claims, intents, swaps, plan>>

(* A command on one release: lock_revisioned and the check of the status.  *)
(* A stale or unfit command is refused here and changes nothing.           *)
Lock(c) ==
    /\ Starts(c)
    /\ \E op \in ReleaseOps, r \in plan.releases :
        /\ release[r].status \in Accepts(op)
        /\ \E record \in IF op = "prepare" THEN Content[r] \ release[r].records ELSE {None} :
            Enter(c, ReleaseCommand(op, r, record))
    /\ UNCHANGED <<Rows, faults>>

(* create_content_release: lock_revisioned of the source.                  *)
LockSource(c) ==
    /\ Starts(c)
    /\ \E r \in plan.releases : release[r] = Absent /\ Enter(c, CreateCommand(r))
    /\ UNCHANGED <<Rows, faults>>

(* activate_content_release and rollback_content_release validate once     *)
(* before the transaction.                                                 *)
CheckSwap(c) ==
    /\ Starts(c)
    /\ \E op \in SwapOps, r \in plan.releases :
        /\ SwapFits(op, r, source[SourceOf[r]].active)
        /\ Enter(c, SwapCommand(op, r))
    /\ UNCHANGED <<Rows, faults>>

(* An attempt at the swap reads the source ... *)
LockSwap(c) ==
    /\ cmd[c].stage = "checked"
    /\ LET s == source[SourceOf[cmd[c].release]] IN
        Enter(c, IF s.revision = cmd[c].sourceRevision
                 THEN [cmd[c] EXCEPT !.stage = "locked", !.current = s.active] ELSE Idle)
    /\ UNCHANGED <<Rows, faults>>

(* ... and then the releases, the records and the claims. *)
ValidateSwap(c) ==
    /\ cmd[c].stage = "locked" /\ cmd[c].op \in SwapOps
    /\ LET r == cmd[c].release
           current == cmd[c].current
       IN Enter(c,
            IF release[r].revision = cmd[c].revision /\ SwapFits(cmd[c].op, r, current)
            THEN [cmd[c] EXCEPT !.stage = "read",
                    !.currentRevision = IF current = None THEN 0 ELSE release[current].revision]
            ELSE Idle)
    /\ UNCHANGED <<Rows, faults>>

(* create_content_release reads the highest sequence. *)
ReadSequence(c) ==
    /\ cmd[c].stage = "locked" /\ cmd[c].op = "create"
    /\ \E n \in 1..(Cardinality(Releases) + 1) :
        /\ NextSequence(SourceOf[cmd[c].release], n)
        /\ Enter(c, [cmd[c] EXCEPT !.stage = "read", !.sequence = n])
    /\ UNCHANGED <<Rows, faults>>

(* The rest of prepare (_guard_frozen_release, then the insert) and of ready. *)
ValidateOf(c) ==
    LET r == cmd[c].release IN
    CASE cmd[c].op = "prepare" ->
            IF /\ release[r].status \notin Frozen
               /\ cmd[c].record.kind = "relation" =>
                    [cmd[c].record EXCEPT !.kind = "document"] \in release[r].records
            THEN [cmd[c] EXCEPT !.stage = "read"] ELSE Idle
      [] cmd[c].op = "ready" ->
            IF /\ WellFormed(release[r].records)
               /\ NamespaceFree(SourceOf[r], release[r].records)
            THEN [cmd[c] EXCEPT !.stage = "read", !.counted = release[r].records] ELSE Idle
      [] OTHER -> [cmd[c] EXCEPT !.stage = "read"]

Validate(c) ==
    /\ cmd[c].stage = "locked" /\ cmd[c].op \in ReleaseOps
    /\ Enter(c, ValidateOf(c))
    /\ UNCHANGED <<Rows, faults>>

-----------------------------------------------------------------------------
(* Writing.                                                                *)

\* Mutant of Unmoved: the UPDATE is not conditional on the revision.
UnmovedUnchecked(c) == TRUE

(* RevisionedModel.save of the command's release. *)
Unmoved(c) == release[cmd[c].release].revision = cmd[c].revision

(* RevisionedModel.save of its source. *)
SourceUnmoved(c) == source[SourceOf[cmd[c].release]].revision = cmd[c].sourceRevision

CurrentUnmoved(c) ==
    cmd[c].current # None => release[cmd[c].current].revision = cmd[c].currentRevision

Ends(c) == cmd' = [cmd EXCEPT ![c] = Idle]

(* A row has moved on: RevisionConflict or IntegrityError, and the transaction is rolled back. *)
Refused(c) == Ends(c) /\ UNCHANGED <<Rows, faults>>

\* Mutant of Created: the row starts at revision 0.
CreatedUnrevised(sequence, base) ==
    [Absent EXCEPT !.status = "queued", !.sequence = sequence, !.base = base]

Created(sequence, base) ==
    [Absent EXCEPT !.status = "queued", !.revision = 1, !.sequence = sequence, !.base = base]

(* create_content_release, with the unique sequence of a source. *)
CreateRelease(c) ==
    LET r == cmd[c].release
        s == SourceOf[r]
    IN
    /\ cmd[c].stage = "read" /\ cmd[c].op = "create"
    /\ IF /\ SourceUnmoved(c) /\ release[r] = Absent
          /\ cmd[c].sequence \notin SiblingSequences(s)
       THEN /\ release' = [release EXCEPT ![r] = Created(cmd[c].sequence, cmd[c].current)]
            /\ source' = [source EXCEPT ![s].revision = @ + 1]
            /\ Ends(c)
            /\ UNCHANGED <<claims, intents, swaps, faults, plan>>
       ELSE Refused(c)

(* The commit of a command on one release, or its refusal. *)
Saves(c, op, row) ==
    /\ cmd[c].stage = "read" /\ cmd[c].op = op
    /\ IF Unmoved(c)
       THEN /\ release' = [release EXCEPT ![cmd[c].release] = row]
            /\ Ends(c)
            /\ UNCHANGED <<source, claims, intents, swaps, faults, plan>>
       ELSE Refused(c)

Moved(c, status) ==
    [release[cmd[c].release] EXCEPT !.status = status, !.revision = @ + 1]

BeginFetch(c) == Saves(c, "fetch", Moved(c, "fetching"))

BeginValidation(c) == Saves(c, "validate", Moved(c, "validating"))

(* prepare_document, prepare_relation and prepare_asset. *)
Prepare(c) ==
    Saves(c, "prepare",
        [release[cmd[c].release] EXCEPT !.records = @ \cup {cmd[c].record}, !.revision = @ + 1])

MarkReady(c) == Saves(c, "ready", [Moved(c, "ready") EXCEPT !.counted = cmd[c].counted])

MarkInvalid(c) == Saves(c, "invalid", Moved(c, "invalid"))

MarkFailed(c) == Saves(c, "fail", Moved(c, "failed"))

\* Mutant of Claimed: the claims of the previous release stay.
ClaimedBesides(r) == claims \cup ClaimsOf(r)

(* _replace_active_path_claims. *)
Claimed(r) == {k \in claims : k.source # SourceOf[r]} \cup ClaimsOf(r)

\* Mutant of PathsUnclaimed: the namespace was validated before, that is enough.
PathsUnclaimedTrusted(r) == TRUE

(* The primary key of the claims: nobody else has the path. *)
PathsUnclaimed(r) ==
    \A k \in ClaimsOf(r), other \in claims : k.path = other.path => other.source = SourceOf[r]

(* The rows of both releases. *)
Swapped(r, current) ==
    [q \in Releases |->
        IF q = r THEN [release[q] EXCEPT !.status = "active", !.revision = @ + 1]
        ELSE IF q = current THEN [release[q] EXCEPT !.status = "superseded", !.revision = @ + 1]
        ELSE release[q]]

\* Mutant of Repointed: active_release is not among the saved fields.
RepointedNot(s, r) == [source EXCEPT ![s].revision = @ + 1]

Repointed(s, r) == [source EXCEPT ![s] = [active |-> r, revision |-> @.revision + 1]]

\* Mutant of InvalidationKey: the key names the releases only.
InvalidationKeyByRelease(op, s, from, to, revision) ==
    [op |-> op, source |-> s, from |-> from, to |-> to, revision |-> 0]

(* _dispatch_release_invalidation: an intent that has the key already is not made again. *)
InvalidationKey(op, s, from, to, revision) ==
    [op |-> op, source |-> s, from |-> from, to |-> to, revision |-> revision]

(* The conditions of its writes, content_release_one_active_uq included. *)
SwapApplies(c) ==
    LET r == cmd[c].release
        current == cmd[c].current
    IN /\ PathsUnclaimed(r)
       /\ CurrentUnmoved(c) /\ Unmoved(c) /\ SourceUnmoved(c)
       /\ \A q \in Releases :
            SourceOf[q] = SourceOf[r] /\ Swapped(r, current)[q].status = "active" => q = r

(* _activate_content_release_atomic and _rollback_content_release_atomic. *)
SwapWrites(c) ==
    LET r == cmd[c].release
        s == SourceOf[r]
        current == cmd[c].current
    IN /\ release' = Swapped(r, current)
       /\ source' = Repointed(s, r)
       /\ claims' = Claimed(r)
       /\ intents' = intents \cup {InvalidationKey(cmd[c].op, s, current, r, source[s].revision + 1)}
       /\ swaps' = [swaps EXCEPT ![s] = @ + 1]
       /\ UNCHANGED plan

(* _retry_release_swap. *)
Retried(c) ==
    IF cmd[c].attempts + 1 < MaxAttempts
    THEN [cmd[c] EXCEPT !.stage = "checked", !.attempts = @ + 1] ELSE Idle

Fault == faults < MaxFaults /\ faults' = faults + 1

Swap(c, op) ==
    /\ cmd[c].stage = "read" /\ cmd[c].op = op
    /\ IF SwapApplies(c)
       THEN /\ swaps[SourceOf[cmd[c].release]] < MaxSwaps
            /\ SwapWrites(c)
            /\ \/ Ends(c) /\ UNCHANGED faults
               \/ Fault /\ Enter(c, Retried(c))    \* committed, and the answer was lost
       ELSE Refused(c)

Activate(c) == Swap(c, "activate")

Rollback(c) == Swap(c, "rollback")

(* A transient error, or the end of the client's process, rolls the        *)
(* transaction back; only a swap is tried again.                           *)
Aborts(c) ==
    /\ cmd[c].stage \in {"locked", "read"}
    /\ Fault
    /\ \/ Enter(c, Idle)
       \/ cmd[c].op \in SwapOps /\ Enter(c, Retried(c))
    /\ UNCHANGED Rows

Step(c) ==
    \/ Lock(c) \/ LockSource(c) \/ CheckSwap(c) \/ LockSwap(c) \/ ValidateSwap(c)
    \/ ReadSequence(c) \/ Validate(c)
    \/ CreateRelease(c) \/ BeginFetch(c) \/ BeginValidation(c) \/ Prepare(c)
    \/ MarkReady(c) \/ MarkInvalid(c) \/ MarkFailed(c) \/ Activate(c) \/ Rollback(c)
    \/ Aborts(c)

Next == \E c \in Clients : Step(c)

Spec == Init /\ [][Next]_vars

-----------------------------------------------------------------------------
(* Properties.                                                             *)

(* The type invariant of the rows.                                         *)
ContentTypeOK ==
    /\ source \in [Sources -> [active: Releases \cup {None}, revision: Nat]]
    /\ release \in [Releases -> [status: Statuses, revision: Nat, sequence: Nat,
                                 base: Releases \cup {None},
                                 records: SUBSET Records, counted: SUBSET Records]]
    /\ \A r \in Releases : release[r].status = "absent" <=> release[r].revision = 0
    /\ claims \subseteq [path: Paths, source: Sources, release: Releases]
    /\ swaps \in [Sources -> Nat]
    /\ faults \in Nat

(* However swaps of one source overlap, are retried or lose their answer,  *)
(* its pointer names its one ACTIVE release, or it has none (the status    *)
(* rows and the pointer row are written by separate conditional updates).  *)
PointerIsActive ==
    \A r \in Releases : release[r].status = "active" <=> source[SourceOf[r]].active = r

(* The claims are exactly the paths of the releases the enabled sources    *)
(* serve (_replace_active_path_claims).                                    *)
ClaimsExact ==
    claims = UNION {ClaimsOf(r) : r \in {q \in Releases : source[SourceOf[q]].active = q}}

(* Two enabled sources never serve the same path, whatever was validated   *)
(* before the other one's swap (resolve_public_document takes the first    *)
(* row it finds).                                                          *)
ServedOnce ==
    \A s, t \in Enabled :
        s # t /\ source[s].active # None /\ source[t].active # None =>
            PublicPaths(release[source[s].active].records)
                \cap PublicPaths(release[source[t].active].records) = {}

(* A release that is ready, active or retained has the records that were   *)
(* counted and validated when it was frozen: no preparation that raced     *)
(* mark_release_ready added one later.                                     *)
FrozenAsCounted ==
    \A r \in Releases : release[r].status \in Retained => EvidenceHolds(r)

(* Every swap has an invalidation intent of its own, also when the same    *)
(* two releases are swapped again (the docstring of                        *)
(* _dispatch_release_invalidation: "the durable edge-invalidation half of  *)
(* the pointer swap").                                                     *)
EverySwapInvalidates ==
    \A s \in Sources : Cardinality({k \in intents : k.source = s}) = swaps[s]

(* A release that goes active for the first time replaces the release it   *)
(* was created from and no other: content prepared against an older active *)
(* release never overwrites a newer one.                                   *)
ActivationReplacesBase ==
    [][\A r \in Releases :
        release[r].status = "ready" /\ release'[r].status = "active" =>
            source[SourceOf[r]].active = release[r].base]_vars
=============================================================================
