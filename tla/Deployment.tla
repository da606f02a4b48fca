----------------------------- MODULE Deployment -----------------------------
(***************************************************************************)
(* The release controller (deploy/release.py over deploy/aws_gateway.py):  *)
(* promote, rollback and the recovery from a failed artifact finalization  *)
(* move the pair of ECS services "web" and "worker" from one release to    *)
(* another, and put the exact prior pair back when anything fails after    *)
(* the first service update.                                               *)
(*                                                                         *)
(* A task definition stands for the release it was registered for, so a    *)
(* service target is a release; the bootstrap definition has desired count *)
(* 0, every release has desired count 1.  A deployment's FAILED state also *)
(* stands for failedTasks > 0: the code treats the two alike.  Evidence,   *)
(* tags, image manifests and reason codes are left out.                    *)
(*                                                                         *)
(* A deadline, a refused observation and an AWS error all end a stage the  *)
(* same way, so each is the action Raise (before recovery) or an error     *)
(* action (in recovery).  A poll that decides nothing is a stuttering step.*)
(***************************************************************************)
EXTENDS Naturals, FiniteSets

CONSTANTS
    Releases,     \* task definitions a promotion may register
    First,        \* the release that may be serving when the model starts
    Boot,         \* the bootstrap task definition, desired count 0
    None,
    Scenarios     \* what serves at the start and how the services are configured, and the
                  \* bounds: how many commands, service updates by an operator, failed
                  \* rollouts and UpdateService calls without an answer a behaviour may have

ASSUME DeploymentAssumption ==
    /\ First \in Releases
    /\ Boot \notin Releases
    /\ None \notin Releases \cup {Boot}
    /\ Scenarios \subseteq [start: {Boot, First}, room: [{"web", "worker"} -> {1, 2}],
                             commands: Nat, operator: Nat, failed: Nat, lost: Nat]

Workloads == {"web", "worker"}

Targets == Releases \cup {Boot}

\* Mutant of Desired: a release asks for two tasks.
DesiredTwo(td) == IF td = Boot THEN 0 ELSE 2

(* ServiceTarget.desired_count of the promoted and of the bootstrap pair.  *)
Desired(td) == IF td = Boot THEN 0 ELSE 1

(* One entry of a service's "deployments".  A deployment that is not       *)
(* PRIMARY has desired count 0.                                            *)
Deployments ==
    [id: Nat \ {0}, td: Targets, run: {0, 1},
     state: {"IN_PROGRESS", "COMPLETED", "FAILED"}, primary: BOOLEAN]

(* How far the controller got with a workload: update not called, called   *)
(* with its answer unknown (a ServiceTarget in "attempted"), or bound to a *)
(* deployment id (a ServicePredecessor).                                   *)
Attempts == [how: {"no", "sent", "bound"}, id: Nat]

Snapshots == [td: Targets \cup {None}, id: Nat]

Kinds == {"none", "promote", "rollback", "finalize"}

Gates == {"prior", "pre_migration", "pre_update"}

Forward == {"web", "worker", "smoke", "terminal", "record"}

Recovery == {"prepare", "restore", "observe", "proof", "public"}

Stages == {"idle", "register", "migrate", "migrating"} \cup Gates \cup Forward \cup Recovery

Steps == {"", "web", "worker", "check_web", "check_worker", "revalidate", "update",
          "receipt", "stable", "bind", "web_receipt", "worker_receipt"}

(* The controller's memory: everything a dying runner loses.               *)
Controllers ==
    [kind: Kinds, target: Targets \cup {None}, expected: Targets \cup {None},
     stage: Stages, at: Steps,
     snap: [Workloads -> Snapshots], attempted: [Workloads -> Attempts],
     receipt: [Workloads -> Nat], outcome: [Workloads -> {"pending", "passed", "failed"}],
     errors: BOOLEAN, cleanup_failed: BOOLEAN]

Results == {"none", "failed", "released", "finalized", "compensated", "restored",
            "compensation_failed", "cleanup_failed", "crashed"}

VARIABLES
    ecs,        \* ECS: the deployments of each service
    room,       \* ECS: how many tasks of a service a rollout may have at a time, by its
                \* deploymentConfiguration: 1 for 0/100 percent, 2 for the default 100/200
    late,       \* an UpdateService call whose answer was lost and that ECS has yet to apply
    lastId,     \* the last deployment id ECS gave out
    migrating,  \* migration tasks that run
    migrated,   \* releases whose migration exited 0
    ctl,        \* the controller's memory
    checkpoint, \* the pre-mutation checkpoint kept as an artifact: the pair that served
    context,    \* recovery-context.json on the runner: the pair to put back, or None
    record,     \* successful-release.json: the release it names, or None
    eligible,   \* releases with an uploaded, rollback-eligible record
    last,       \* how the last command ended
    left,       \* what is left of the behaviour's bounds
    raced,      \* history: the operator's last update of each workload during this command,
                \* when it came and what the command expected to find there
    called,     \* history: the workloads this command has called update_service for
    replaced    \* history: what the release's update of a workload replaced, None when an
                \* operator had come between the gate and that update

vars == <<ecs, room, late, lastId, migrating, migrated, ctl, checkpoint, context, record, eligible,
          last, left, raced, called, replaced>>

provider == <<ecs, room, late, lastId>>
schema == <<migrating, migrated>>
files == <<checkpoint, context, record, eligible>>
history == <<raced, called, replaced>>

Idle ==
    [kind |-> "none", target |-> None, expected |-> None, stage |-> "idle", at |-> "",
     snap |-> [w \in Workloads |-> [td |-> None, id |-> 0]],
     attempted |-> [w \in Workloads |-> [how |-> "no", id |-> 0]],
     receipt |-> [w \in Workloads |-> 0],
     outcome |-> [w \in Workloads |-> "pending"],
     errors |-> FALSE, cleanup_failed |-> FALSE]

NoRace == [w \in Workloads |-> [when |-> "never", id |-> 0, td |-> None, over |-> None]]

Serving(td, id) ==
    [id |-> id, td |-> td, run |-> Desired(td), state |-> "COMPLETED", primary |-> TRUE]

(* Either a freshly provisioned environment (0/0) or one that serves First.*)
Init ==
    /\ left \in Scenarios
    /\ ecs = [w \in Workloads |-> {Serving(left.start, IF w = "web" THEN 1 ELSE 2)}]
    /\ room = left.room
    /\ migrated = {left.start} \ {Boot}
    /\ eligible = {left.start} \ {Boot}
    /\ late = [w \in Workloads |-> None]
    /\ lastId = 2
    /\ migrating = {}
    /\ ctl = Idle
    /\ checkpoint = None
    /\ context = None
    /\ record = None
    /\ last = "none"
    /\ raced = NoRace
    /\ called = {}
    /\ replaced = [w \in Workloads |-> None]

-----------------------------------------------------------------------------
(* What the gateway reads off a DescribeServices answer.                   *)

Primary(w) == CHOOSE d \in ecs[w] : d.primary

Others(w, id) == {d \in ecs[w] : d.id # id}

(* capture_service: the PRIMARY is terminal and has exactly its tasks.     *)
Captured(w) ==
    LET d == Primary(w) IN d.state = "COMPLETED" /\ d.run = Desired(d.td)

\* Mutant of ZeroWork: a predecessor that still runs passes.
ZeroWorkAny(d) == ~d.primary /\ d.state # "FAILED"

(* A predecessor that is gone but for an entry without work.               *)
ZeroWork(d) == ~d.primary /\ d.run = 0 /\ d.state # "FAILED"

(* verify_terminal and _prove_web_receipt_service: deployment id is the    *)
(* terminal PRIMARY for td, and nothing but zero-work predecessors is left.*)
ProvenTerminal(w, td, id, predecessors) ==
    /\ Captured(w)
    /\ Primary(w).id = id /\ Primary(w).td = td
    /\ \A d \in Others(w, id) : d.id \in predecessors /\ ZeroWork(d)

(* _validate_deployment_phase: every listed deployment is the candidate,   *)
(* the terminal predecessor or the attempted one, in a state its role may  *)
(* be in, and a worker has at most one task.                               *)
PhaseHolds(w, td, id, terminal, predecessors) ==
    /\ \A d \in ecs[w] :
        \/ d.id = id /\ d.td = td /\ d.state # "FAILED"
        \/ d.id = terminal /\ d.state # "FAILED"
        \/ d.id \in predecessors \ {terminal}
    /\ w = "worker" => Cardinality({d \in ecs[w] : d.run = 1}) <= 1

(* _observe_service_stable_once returning True.                            *)
StableOnce(w, td, id, terminal, predecessors) ==
    /\ PhaseHolds(w, td, id, terminal, predecessors)
    /\ ProvenTerminal(w, td, id, predecessors)

(* _receipt_from_acknowledgement: exactly one deployment is not a known    *)
(* predecessor, it is for the requested target, and the phase holds.       *)
ReceiptFound(w, td, terminal, predecessors, id) ==
    /\ {d.id : d \in ecs[w]} \ predecessors = {id}
    /\ PhaseHolds(w, td, id, terminal, predecessors)

(* capture_attempted_predecessor: the attempted target is PRIMARY and      *)
(* every other deployment is the terminal predecessor.                     *)
AttemptFound(w, td, terminal, id) ==
    /\ Primary(w).id = id /\ id # terminal /\ Primary(w).td = td
    /\ \A d \in Others(w, id) : d.id = terminal /\ d.state # "FAILED"

-----------------------------------------------------------------------------
(* ECS, as the controller uses it.                                         *)

(* UpdateService with forceNewDeployment: a new PRIMARY, whose id is new   *)
(* even when the target is the one already serving.                        *)
Updated(w, td) ==
    {[d EXCEPT !.primary = FALSE] : d \in ecs[w]}
        \cup {[id |-> lastId + 1, td |-> td, run |-> 0, state |-> "IN_PROGRESS", primary |-> TRUE]}

Apply(w, td) ==
    /\ ecs' = [ecs EXCEPT ![w] = Updated(w, td)]
    /\ lastId' = lastId + 1

\* Mutant of Configured: the worker's update leaves the percentages it finds.
ConfiguredAsFound(w) == room

(* The deploymentConfiguration that update_service sends with its call: 0  *)
(* and 100 percent for the worker, nothing for web.                        *)
Configured(w) == IF w = "worker" THEN [room EXCEPT ![w] = 1] ELSE room

Replace(w, d, e) == ecs' = [ecs EXCEPT ![w] = (@ \ {d}) \cup {e}]

(* The PRIMARY gets its task and the rollout completes.  Until then the    *)
(* controller only polls, so the moment in between is not told apart.      *)
EcsRollOut(w) ==
    /\ \E d \in ecs[w] :
        /\ d.primary /\ d.state = "IN_PROGRESS"
        /\ Cardinality({e \in ecs[w] : e.run = 1}) + Desired(d.td) <= room[w]
        /\ Replace(w, d, [d EXCEPT !.run = Desired(d.td), !.state = "COMPLETED"])
    /\ UNCHANGED <<room, late, lastId, schema, ctl, files, last, left, history>>

(* At 100/200 percent the healthy task stays until the new one runs; at    *)
(* 0/100 it goes first, since there is no room for a second one.           *)
EcsStopTask(w) ==
    /\ \E d \in ecs[w] :
        /\ ~d.primary /\ d.run = 1
        /\ room[w] = 2 => Primary(w).run = Desired(Primary(w).td)
        /\ Replace(w, d, [d EXCEPT !.run = 0])
    /\ UNCHANGED <<room, late, lastId, schema, ctl, files, last, left, history>>

EcsForget(w) ==
    /\ \E d \in ecs[w] :
        /\ ~d.primary /\ d.run = 0
        /\ ecs' = [ecs EXCEPT ![w] = @ \ {d}]
    /\ UNCHANGED <<room, late, lastId, schema, ctl, files, last, left, history>>

EcsFail(w) ==
    /\ left.failed > 0
    /\ \E d \in ecs[w] :
        /\ d.primary /\ d.state = "IN_PROGRESS"
        /\ Replace(w, d, [d EXCEPT !.state = "FAILED"])
    /\ left' = [left EXCEPT !.failed = @ - 1]
    /\ UNCHANGED <<room, late, lastId, schema, ctl, files, last, history>>

(* A call whose answer was lost reaches ECS after all, or never does.      *)
EcsApplyLate(w) ==
    /\ late[w] # None
    /\ Apply(w, late[w]) /\ room' = Configured(w)
    /\ late' = [late EXCEPT ![w] = None]
    /\ UNCHANGED <<schema, ctl, files, last, left, history>>

EcsDropLate(w) ==
    /\ late[w] # None
    /\ late' = [late EXCEPT ![w] = None]
    /\ UNCHANGED <<ecs, room, lastId, schema, ctl, files, last, left, history>>

MigrationExits ==
    /\ \E r \in migrating :
        /\ migrating' = migrating \ {r}
        /\ migrated' \in {migrated, migrated \cup {r}}
    /\ UNCHANGED <<provider, ctl, files, last, left, history>>

(* The gate before the first service update.                               *)
LastGate == IF ctl.kind = "finalize" THEN "prior" ELSE "pre_update"

(* The controller has yet to prove workload w in that gate.                *)
BeforeGate(w) ==
    \/ /\ ctl.stage \in {"prior", "register", "pre_migration", "migrate", "migrating"}
       /\ ctl.stage # LastGate
    \/ ctl.stage = LastGate /\ (ctl.at = "check_worker" => w = "worker")

(* Somebody else updates one service while a command runs, with whatever   *)
(* percentages.                                                            *)
OperatorUpdate(w) ==
    /\ left.operator > 0
    /\ ctl.stage # "idle"
    /\ \E td \in migrated :
        /\ Apply(w, td)
        /\ \E tasks \in {1, 2} : room' = [room EXCEPT ![w] = tasks]
        /\ raced' = [raced EXCEPT ![w] =
                        [when |-> IF BeforeGate(w) THEN "before" ELSE "during",
                         id |-> lastId + 1, td |-> td, over |-> ctl.expected]]
    /\ left' = [left EXCEPT !.operator = @ - 1]
    /\ UNCHANGED <<late, schema, ctl, files, last, called, replaced>>

-----------------------------------------------------------------------------
(* Commands.  CI runs one at a time (the workflow's concurrency group), and*)
(* a lost call of an earlier command has been applied or dropped by then.  *)

(* It starts with capture-recovery: the expected pair is proven and kept   *)
(* as a checkpoint, on a runner that has no files of an earlier command.   *)
Start(kind, target, expected) ==
    /\ ctl = Idle
    /\ last # "released"
    /\ left.commands > 0
    /\ \A w \in Workloads : late[w] = None
    /\ \A w \in Workloads : ProvenTerminal(w, expected, Primary(w).id, {})
    /\ checkpoint' = expected
    /\ context' = None
    /\ record' = None
    /\ ctl' = [Idle EXCEPT !.kind = kind, !.target = target, !.expected = expected,
                           !.stage = "prior", !.at = "web"]
    /\ left' = [left EXCEPT !.commands = @ - 1]
    /\ raced' = NoRace
    /\ called' = {}
    /\ replaced' = [w \in Workloads |-> None]
    /\ UNCHANGED <<provider, schema, eligible, last>>

(* promote: the prior it expects is the pair capture-current found, none   *)
(* for a bootstrap; its task definitions are new.                          *)
StartPromote ==
    \E r \in Releases, td \in Targets :
        r \notin migrated \cup migrating /\ Start("promote", r, td)

(* rollback: both records are rollback-eligible ones somebody kept.        *)
StartRollback ==
    \E target, current \in eligible : Start("rollback", target, current)

(* The job after a release: the artifacts are uploaded, or the prior pair  *)
(* is put back from the recovery context.                                  *)
Finalize ==
    /\ last = "released" /\ ctl = Idle
    /\ last' = "finalized"
    /\ eligible' = eligible \cup {record}
    /\ UNCHANGED <<provider, schema, ctl, checkpoint, context, record, left, history>>

StartFinalizationRecovery ==
    /\ last = "released" /\ ctl = Idle
    /\ left.commands > 0
    /\ ctl' = [Idle EXCEPT !.kind = "finalize", !.target = context, !.expected = record,
                           !.stage = "prior", !.at = "web"]
    /\ left' = [left EXCEPT !.commands = @ - 1]
    /\ raced' = NoRace
    /\ called' = {}
    /\ last' = "none"
    /\ UNCHANGED <<provider, schema, files, replaced>>

-----------------------------------------------------------------------------
(* The gates: capture both services, validate the pair, prove it terminal. *)

\* Mutant of ValidPrior: the recaptured pair is not compared with the expected one.
ValidPriorAny(snap) == TRUE

(* validate_prior_pair: one release (or the bootstrap 0/0), the expected.  *)
ValidPrior(snap) == \A w \in Workloads : snap[w].td = ctl.expected

GateRead(w) ==
    LET snap == [ctl.snap EXCEPT ![w] = [td |-> Primary(w).td, id |-> Primary(w).id]] IN
    /\ ctl.stage \in Gates /\ ctl.at = w
    /\ Captured(w)
    /\ w = "worker" => ValidPrior(snap)
    /\ ctl' =
        IF w = "web" THEN [ctl EXCEPT !.snap = snap, !.at = "worker"]
        ELSE IF ctl.kind = "rollback" /\ ctl.stage = "prior"
             THEN [ctl EXCEPT !.snap = snap, !.stage = "pre_update", !.at = "web"]
             ELSE [ctl EXCEPT !.snap = snap, !.at = "check_web"]
    /\ UNCHANGED <<provider, schema, files, last, left, history>>

GateCheckWeb ==
    /\ ctl.stage \in Gates /\ ctl.at = "check_web"
    /\ ProvenTerminal("web", ctl.snap["web"].td, Primary("web").id, {})
    /\ ctl' = [ctl EXCEPT !.at = "check_worker"]
    /\ UNCHANGED <<provider, schema, files, last, left, history>>

(* What is put back: the captured pair, or the pair of the context.        *)
RestoreTarget(w) == IF ctl.kind = "finalize" THEN ctl.target ELSE ctl.snap[w].td

Mutated == \E w \in Workloads : ctl.attempted[w].how # "no"

(* The workloads to restore: those attempted, or both after a release.     *)
ToRestore(attempted) ==
    {w \in Workloads : ctl.kind = "finalize" \/ attempted[w].how # "no"}

EnterRecovery(attempted) ==
    [ctl EXCEPT !.stage = "prepare", !.at = "web", !.attempted = attempted,
                !.receipt = [w \in Workloads |-> 0],
                !.outcome = [w \in Workloads |->
                                IF w \in ToRestore(attempted) THEN "pending" ELSE "passed"]]

\* Mutant of ContextTarget: the context names the release that is coming.
ContextTargetNew == ctl.target

ContextTarget == ctl.snap["web"].td

(* _write_recovery_context is the last thing before the first update.      *)
GateCheckWorker ==
    /\ ctl.stage \in Gates /\ ctl.at = "check_worker"
    /\ ProvenTerminal("worker", ctl.snap["worker"].td, Primary("worker").id, {})
    /\ ctl' = IF ctl.kind = "finalize" THEN EnterRecovery(ctl.attempted)
              ELSE CASE ctl.stage = "prior" -> [ctl EXCEPT !.stage = "register", !.at = ""]
                     [] ctl.stage = "pre_migration" -> [ctl EXCEPT !.stage = "migrate", !.at = ""]
                     [] ctl.stage = "pre_update" -> [ctl EXCEPT !.stage = "web", !.at = "update"]
    /\ context' = IF ctl.stage = "pre_update" /\ ctl.kind # "finalize"
                  THEN ContextTarget ELSE context
    /\ UNCHANGED <<provider, schema, checkpoint, record, eligible, last, left, history>>

Register ==
    /\ ctl.stage = "register"
    /\ ctl' = [ctl EXCEPT !.stage = "pre_migration", !.at = "web"]
    /\ UNCHANGED <<provider, schema, files, last, left, history>>

(* run_migration: launch the task, then wait for it to stop with exit 0.   *)
LaunchMigration ==
    /\ ctl.stage = "migrate"
    /\ migrating' = migrating \cup {ctl.target}
    /\ ctl' = [ctl EXCEPT !.stage = "migrating"]
    /\ UNCHANGED <<provider, migrated, files, last, left, history>>

\* Mutant of ExitedZero: a task that stopped is taken for one that succeeded.
ExitedZeroUnchecked == ctl.target \notin migrating

ExitedZero == ctl.target \in migrated

MigrationPassed ==
    /\ ctl.stage = "migrating"
    /\ ExitedZero
    /\ ctl' = [ctl EXCEPT !.stage = "pre_update", !.at = "web"]
    /\ UNCHANGED <<provider, schema, files, last, left, history>>

(* _stop_migration_and_prove_terminal: the task stops without having       *)
(* finished; when that cannot be proven the controller raises all the same.*)
StopMigration ==
    /\ ctl.stage = "migrating"
    /\ ctl.target \in migrating
    /\ migrating' = migrating \ {ctl.target}
    /\ ctl' = Idle
    /\ last' = "failed"
    /\ UNCHANGED <<provider, migrated, files, left, history>>

-----------------------------------------------------------------------------
(* The forward stages.                                                     *)

Predecessors(w) == {ctl.snap[w].id}

WebProven == ProvenTerminal("web", ctl.target, ctl.receipt["web"], Predecessors("web"))

(* History: what the update about to be sent replaces.                     *)
Replacing(w) ==
    [replaced EXCEPT ![w] = IF raced[w].when = "during" THEN None ELSE Primary(w).td]

Sent(w) == [ctl.attempted EXCEPT ![w] = [how |-> "sent", id |-> 0]]

(* update_service called and answered, however partially.                  *)
ForwardUpdate(w) ==
    /\ ctl.stage = w /\ ctl.at = "update"
    /\ Apply(w, ctl.target) /\ room' = Configured(w)
    /\ called' = called \cup {w}
    /\ ctl' = [ctl EXCEPT !.attempted = Sent(w), !.at = "receipt"]
    /\ replaced' = Replacing(w)
    /\ UNCHANGED <<late, schema, files, last, left, raced>>

(* update_service called and its answer lost: ECS applied the call, will   *)
(* apply it, or never saw it.                                              *)
ForwardUpdateLost(w) ==
    /\ ctl.stage = w /\ ctl.at = "update"
    /\ left.lost > 0
    /\ \/ Apply(w, ctl.target) /\ room' = Configured(w) /\ UNCHANGED late
       \/ late' = [late EXCEPT ![w] = ctl.target] /\ UNCHANGED <<ecs, room, lastId>>
       \/ UNCHANGED provider
    /\ called' = called \cup {w}
    /\ ctl' = EnterRecovery(Sent(w))
    /\ left' = [left EXCEPT !.lost = @ - 1]
    /\ replaced' = Replacing(w)
    /\ UNCHANGED <<schema, files, last, raced>>

ForwardReceipt(w) ==
    /\ ctl.stage = w /\ ctl.at = "receipt"
    /\ w = "worker" => WebProven
    /\ \E id \in 1..lastId :
        /\ ReceiptFound(w, ctl.target, ctl.snap[w].id, Predecessors(w), id)
        /\ ctl' = [ctl EXCEPT !.receipt[w] = id, !.at = "stable",
                              !.attempted[w] = [how |-> "bound", id |-> id]]
    /\ UNCHANGED <<provider, schema, files, last, left, history>>

ForwardStable(w) ==
    /\ ctl.stage = w /\ ctl.at = "stable"
    /\ w = "worker" => WebProven
    /\ StableOnce(w, ctl.target, ctl.receipt[w], ctl.snap[w].id, Predecessors(w))
    /\ ctl' = IF w = "web" THEN [ctl EXCEPT !.at = "bind"]
              ELSE [ctl EXCEPT !.stage = "smoke", !.at = ""]
    /\ UNCHANGED <<provider, schema, files, last, left, history>>

(* establish_web_runtime_binding, then revalidate_web_runtime_binding just *)
(* before the worker's update.                                             *)
BindWebRuntime ==
    /\ \/ ctl.stage = "web" /\ ctl.at = "bind"
       \/ ctl.stage = "worker" /\ ctl.at = "revalidate"
    /\ WebProven
    /\ ctl' = IF ctl.stage = "web" THEN [ctl EXCEPT !.stage = "worker", !.at = "revalidate"]
              ELSE [ctl EXCEPT !.at = "update"]
    /\ UNCHANGED <<provider, schema, files, last, left, history>>

SmokePassed ==
    /\ ctl.stage = "smoke"
    /\ ctl' = [ctl EXCEPT !.stage = "terminal", !.at = "check_web"]
    /\ UNCHANGED <<provider, schema, files, last, left, history>>

(* verify_terminal reads web, then worker, then the bound web runtime.     *)
TerminalCheck ==
    /\ ctl.stage = "terminal"
    /\ \/ ctl.at = "check_web" /\ WebProven
          /\ ctl' = [ctl EXCEPT !.at = "check_worker"]
       \/ ctl.at = "check_worker"
          /\ ProvenTerminal("worker", ctl.target, ctl.receipt["worker"], Predecessors("worker"))
          /\ ctl' = [ctl EXCEPT !.at = "revalidate"]
       \/ ctl.at = "revalidate" /\ WebProven
          /\ ctl' = [ctl EXCEPT !.stage = "record", !.at = ""]
    /\ UNCHANGED <<provider, schema, files, last, left, history>>

WriteRecord ==
    /\ ctl.stage = "record"
    /\ record' = ctl.target
    /\ ctl' = Idle
    /\ last' = "released"
    /\ UNCHANGED <<provider, schema, checkpoint, context, eligible, left, history>>

(* The record or its evidence could not be written: the file is removed,   *)
(* unless removing it fails too.                                           *)
RecordFails ==
    /\ ctl.stage = "record"
    /\ \E kept \in BOOLEAN :
        /\ record' = IF kept THEN ctl.target ELSE None
        /\ ctl' = [EnterRecovery(ctl.attempted) EXCEPT !.cleanup_failed = kept]
    /\ UNCHANGED <<provider, schema, checkpoint, context, eligible, last, left, history>>

(* Any stage before recovery raises: with a service already attempted the  *)
(* prior pair is put back, otherwise the command just fails.               *)
Raise ==
    /\ ctl.stage \notin {"idle", "record"} \cup Recovery
    /\ IF Mutated
       THEN ctl' = EnterRecovery(ctl.attempted) /\ UNCHANGED last
       ELSE ctl' = Idle /\ last' = "failed"
    /\ UNCHANGED <<provider, schema, files, left, history>>

-----------------------------------------------------------------------------
(* _compensate.                                                            *)

\* Mutant of Failed: an error of a workload is not retained.
FailedForgotten(w) == [ctl EXCEPT !.outcome[w] = "failed"]

Failed(w) == [ctl EXCEPT !.outcome[w] = "failed", !.errors = TRUE]

RecoveryPredecessors(w) == {ctl.snap[w].id, ctl.attempted[w].id} \ {0}

(* Every attempted update whose answer is unknown is found out first.      *)
Prepare(w) ==
    /\ ctl.stage = "prepare" /\ ctl.at = w
    /\ LET next == IF w = "web" THEN [stage |-> "prepare", at |-> "worker"]
                   ELSE [stage |-> "restore", at |-> "web"]
       IN \/ /\ ctl.attempted[w].how # "sent"
             /\ ctl' = [ctl EXCEPT !.stage = next.stage, !.at = next.at]
          \/ /\ ctl.attempted[w].how = "sent"
             /\ \E id \in 1..lastId :
                 /\ AttemptFound(w, ctl.target, ctl.snap[w].id, id)
                 /\ ctl' = [ctl EXCEPT !.stage = next.stage, !.at = next.at,
                                       !.attempted[w] = [how |-> "bound", id |-> id]]
          \/ /\ ctl.attempted[w].how = "sent"
             /\ ctl' = [Failed(w) EXCEPT !.stage = next.stage, !.at = next.at]
    /\ UNCHANGED <<provider, schema, files, last, left, history>>

AfterRestore(w) ==
    IF w = "web" THEN [stage |-> "restore", at |-> "worker"] ELSE [stage |-> "observe", at |-> ""]

SkipRestore(w) ==
    /\ ctl.stage = "restore" /\ ctl.at = w
    /\ ctl.outcome[w] # "pending"
    /\ ctl' = [ctl EXCEPT !.stage = AfterRestore(w).stage, !.at = AfterRestore(w).at]
    /\ UNCHANGED <<provider, schema, files, last, left, history>>

Restore(w) ==
    /\ ctl.stage = "restore" /\ ctl.at = w
    /\ ctl.outcome[w] = "pending"
    /\ Apply(w, RestoreTarget(w)) /\ room' = Configured(w)
    /\ called' = called \cup {w}
    /\ ctl' = [ctl EXCEPT !.at = IF w = "web" THEN "web_receipt" ELSE "worker_receipt"]
    /\ UNCHANGED <<late, schema, files, last, left, raced, replaced>>

RestoreLost(w) ==
    /\ ctl.stage = "restore" /\ ctl.at = w
    /\ ctl.outcome[w] = "pending"
    /\ left.lost > 0
    /\ \/ Apply(w, RestoreTarget(w)) /\ room' = Configured(w) /\ UNCHANGED late
       \/ late' = [late EXCEPT ![w] = RestoreTarget(w)] /\ UNCHANGED <<ecs, room, lastId>>
       \/ UNCHANGED provider
    /\ called' = called \cup {w}
    /\ ctl' = [Failed(w) EXCEPT !.stage = AfterRestore(w).stage, !.at = AfterRestore(w).at]
    /\ left' = [left EXCEPT !.lost = @ - 1]
    /\ UNCHANGED <<schema, files, last, raced, replaced>>

RestoreReceipt(w) ==
    /\ ctl.stage = "restore"
    /\ ctl.at = IF w = "web" THEN "web_receipt" ELSE "worker_receipt"
    /\ \/ \E id \in 1..lastId :
            /\ ReceiptFound(w, RestoreTarget(w), ctl.snap[w].id, RecoveryPredecessors(w), id)
            /\ ctl' = [ctl EXCEPT !.receipt[w] = id, !.stage = AfterRestore(w).stage,
                                  !.at = AfterRestore(w).at]
       \/ ctl' = [Failed(w) EXCEPT !.stage = AfterRestore(w).stage, !.at = AfterRestore(w).at]
    /\ UNCHANGED <<provider, schema, files, last, left, history>>

Observe(w) ==
    /\ ctl.stage = "observe" /\ ctl.outcome[w] = "pending"
    /\ \/ /\ StableOnce(w, RestoreTarget(w), ctl.receipt[w], ctl.snap[w].id, RecoveryPredecessors(w))
          /\ ctl' = [ctl EXCEPT !.outcome[w] = "passed"]
       \/ ctl' = Failed(w)
    /\ UNCHANGED <<provider, schema, files, last, left, history>>

Observed ==
    /\ ctl.stage = "observe"
    /\ \A w \in Workloads : ctl.outcome[w] # "pending"
    /\ ctl' = [ctl EXCEPT !.stage = "proof", !.at = "check_web"]
    /\ UNCHANGED <<provider, schema, files, last, left, history>>

(* The terminal proof of the restored pair: a restored workload by its new *)
(* receipt, an untouched one by the deployment that was captured.          *)
Restored(w) ==
    IF ctl.receipt[w] # 0
    THEN ProvenTerminal(w, RestoreTarget(w), ctl.receipt[w], RecoveryPredecessors(w))
    ELSE ProvenTerminal(w, RestoreTarget(w), ctl.snap[w].id, {})

RecoveryProof ==
    /\ ctl.stage = "proof"
    /\ \E w \in Workloads :
        /\ ctl.at = IF w = "web" THEN "check_web" ELSE "check_worker"
        /\ LET next == IF w = "web" THEN [stage |-> "proof", at |-> "check_worker"]
                       ELSE [stage |-> "public", at |-> ""]
           IN \/ Restored(w) /\ ctl' = [ctl EXCEPT !.stage = next.stage, !.at = next.at]
              \/ ctl' = [ctl EXCEPT !.stage = "public", !.at = "", !.errors = TRUE]
    /\ UNCHANGED <<provider, schema, files, last, left, history>>

(* Public health and the phase deadline decide; any retained error makes   *)
(* the whole recovery fail.  CI removes the record of a release whose      *)
(* finalization failed once its prior pair is back.                        *)
EndRecovery ==
    /\ ctl.stage = "public"
    /\ \E errors \in {ctl.errors, TRUE} :
        /\ last' = IF errors THEN "compensation_failed"
                   ELSE IF ctl.kind = "finalize" THEN "restored"
                   ELSE IF ctl.cleanup_failed THEN "cleanup_failed" ELSE "compensated"
        /\ record' = IF ctl.kind = "finalize" /\ ~errors THEN None ELSE record
    /\ ctl' = Idle
    /\ UNCHANGED <<provider, schema, checkpoint, context, eligible, left, history>>

(* The runner dies; its files survive.                                     *)
Crash ==
    /\ ctl # Idle
    /\ ctl' = Idle
    /\ last' = "crashed"
    /\ UNCHANGED <<provider, schema, files, left, history>>

-----------------------------------------------------------------------------

Provider ==
    \/ MigrationExits
    \/ \E w \in Workloads :
        \/ EcsRollOut(w) \/ EcsStopTask(w) \/ EcsForget(w)
        \/ EcsFail(w) \/ EcsApplyLate(w) \/ EcsDropLate(w)

Controller ==
    \/ GateCheckWeb \/ GateCheckWorker \/ Register
    \/ LaunchMigration \/ MigrationPassed \/ StopMigration
    \/ BindWebRuntime \/ SmokePassed \/ TerminalCheck \/ WriteRecord \/ RecordFails \/ Raise
    \/ Observed \/ RecoveryProof \/ EndRecovery
    \/ \E w \in Workloads :
        \/ GateRead(w)
        \/ ForwardUpdate(w) \/ ForwardUpdateLost(w) \/ ForwardReceipt(w) \/ ForwardStable(w)
        \/ Prepare(w) \/ SkipRestore(w) \/ Restore(w) \/ RestoreLost(w) \/ RestoreReceipt(w)
        \/ Observe(w)

Commands == StartPromote \/ StartRollback \/ Finalize \/ StartFinalizationRecovery

Next ==
    \/ Provider \/ Controller \/ Commands \/ Crash
    \/ \E w \in Workloads : OperatorUpdate(w)

Spec == Init /\ [][Next]_vars

-----------------------------------------------------------------------------
(* Properties.                                                             *)

(* The type invariant of the services, the controller and its files.       *)
DeploymentTypeOK ==
    /\ ecs \in [Workloads -> SUBSET Deployments]
    /\ room \in [Workloads -> {1, 2}]
    /\ late \in [Workloads -> Targets \cup {None}]
    /\ lastId \in Nat
    /\ migrating \subseteq Releases /\ migrated \subseteq Releases
    /\ ctl \in Controllers
    /\ checkpoint \in Targets \cup {None} /\ context \in Targets \cup {None}
    /\ record \in Releases \cup {None}
    /\ eligible \subseteq Releases
    /\ last \in Results

(* The PRIMARY of service w is in order and nothing else runs.             *)
Settled(w) == Captured(w) /\ \A d \in ecs[w] : d.primary \/ d.run = 0

(* Service w runs td and nothing else.                                     *)
ServesAlone(w, td) == Primary(w).td = td /\ Settled(w)

(* A pair that serves td and nothing else, with no call still on its way.  *)
PairServes(td) == \A w \in Workloads : late[w] = None /\ ServesAlone(w, td)

Undisturbed == \A w \in Workloads : raced[w].when # "during"

Unraced == \A w \in Workloads : raced[w].when = "never"

(* A release that ended green serves, on both services and alone, the      *)
(* release its record names (promote, rollback: verify_terminal and the    *)
(* release record), unless an operator changed a service behind its gate.  *)
ReleasedPairServes ==
    last \in {"released", "finalized"} /\ ctl = Idle /\ Undisturbed
        => record # None /\ PairServes(record)

(* _compensate reports success only when the exact prior pair is back: a   *)
(* call that may still be applied, a missing receipt or an error of either *)
(* workload makes it fail, even when the services look restored.           *)
CompensatedPairServes ==
    last \in {"compensated", "restored"} /\ ctl = Idle /\ Unraced
        => record = None /\ context # None /\ PairServes(context)

(* What an operator deployed before the last gate (the recapture after the *)
(* migration) is still what the service runs when the command is over: the *)
(* release stops instead of overwriting it.                                *)
OperatorChangeKept ==
    \A w \in Workloads :
        ctl.stage = "idle" /\ raced[w].when = "before" /\ raced[w].td # raced[w].over
            => Primary(w).id = raced[w].id

(* No service ever gets a release whose migration has not exited 0         *)
(* (promote runs the migration before the first service update).           *)
MigratedBeforeServed ==
    \A w \in Workloads : \A d \in ecs[w] : d.td \in migrated \cup {Boot}

(* Whatever percentages the worker's service had before, from the moment   *)
(* the command first calls update_service for the worker until the next    *)
(* command no two deployments of the worker run a task: through the        *)
(* rollout, its compensation, calls applied late and a crash, unless an    *)
(* operator came behind the gate (update_service's maximumPercent 100, and *)
(* capture_service before it).                                             *)
WorkerSingleton ==
    "worker" \in called /\ raced["worker"].when # "during" =>
        \A d, e \in ecs["worker"] : d.run = 1 /\ e.run = 1 => d.id = e.id

(* The worker is only updated forward once web runs the new release and    *)
(* nothing else (wait_service_stable, establish_web_runtime_binding).      *)
WebLeadsWorker ==
    ctl.stage \in Forward /\ ctl.attempted["worker"].how # "no" /\ raced["web"].when # "during"
        => ServesAlone("web", ctl.target)

(* Wherever the runner dies, the checkpoint artifact names the pair that   *)
(* the command was about to replace, and so does the runner's context file *)
(* until the job's files are gone (capture_recovery_context,               *)
(* _write_recovery_context).                                               *)
RecoveryFilesNamePrior ==
    \A w \in Workloads :
        replaced[w] # None => checkpoint = replaced[w] /\ context = replaced[w]
=============================================================================
