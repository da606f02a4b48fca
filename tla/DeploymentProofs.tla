------------------------- MODULE DeploymentProofs -------------------------
(***************************************************************************)
(* Proofs about Deployment, for any releases, scenarios and bounds.        *)
(*                                                                         *)
(* First the services are shown to take only releases whose migration is   *)
(* done: every update, forward, lost, late, restoring or by the operator,  *)
(* names such a release (Fits says where the controller got it from).      *)
(*                                                                         *)
(* Then, from OutcomeInv, what a command leaves behind: what the gate has  *)
(* proven holds until the update is sent unless an operator raced it       *)
(* (Unmoved), what was proven stable stays so (Advanced), a recovery       *)
(* without an error leaves no call outstanding (Recovering), and a release *)
(* an operator deployed before the gate stops the command (OperatorStops). *)
(*                                                                         *)
(* Last, from WorkerInv, that one task of the worker runs at a time: the   *)
(* gate has proven it alone and at rest, and every call since then has     *)
(* taken away the room for a second task.                                  *)
(***************************************************************************)
EXTENDS Deployment, FiniteSetTheorems, TLAPS

\* The releases a service may run.
Served == migrated \cup {Boot}

\* The two services as ECS keeps them, and calls still on their way.
EcsInv ==
    /\ ecs \in [Workloads -> SUBSET Deployments]
    /\ lastId \in Nat
    /\ \A w \in Workloads : IsFiniteSet(ecs[w]) /\ \E d \in ecs[w] : d.primary
    /\ MigratedBeforeServed
    /\ room \in [Workloads -> {1, 2}]
    /\ late \in [Workloads -> Served \cup {None}]

\* Where the controller got what it may send to a service: its target has been
\* migrated by the time of the last gate, and the pair to put back was served.
Fits(c, ctx) ==
    /\ c.kind = "finalize" => c.target \in Served /\ c.stage \in {"prior"} \cup Recovery
    /\ c.kind # "finalize" /\ c.stage # "idle" => c.target \in Releases
    /\ c.kind = "rollback" => c.target \in migrated
    /\ c.stage \in {"pre_update"} \cup Forward => c.target \in migrated
    /\ c.stage \in Forward => ctx \in Served
    /\ (\E w \in Workloads : c.attempted[w].how # "no") => c.stage \in Forward \cup Recovery
    /\ c.stage \in Gates /\ c.at \in {"worker", "check_web", "check_worker"}
            => c.snap["web"].td \in Served
    /\ c.stage \in Gates /\ c.at \in {"check_web", "check_worker"}
            => c.snap["worker"].td \in Served
    /\ c.stage \in Forward \cup Recovery => \A w \in Workloads : c.snap[w].td \in Served

CtlInv == ctl \in Controllers /\ Fits(ctl, context)

\* The files and the records of what was released.
FilesInv ==
    /\ migrating \subseteq Releases /\ migrated \subseteq Releases
    /\ eligible \subseteq migrated
    /\ checkpoint \in Targets \cup {None} /\ context \in Targets \cup {None}
    /\ record \in Releases \cup {None}
    /\ last \in Results
    /\ last = "released" => ctl = Idle /\ record \in migrated /\ context \in Served

\* The inductive invariant.
DeploymentInv == EcsInv /\ CtlInv /\ FilesInv

(* Demoting every deployment keeps a service finite. *)
Demoted(S) == {[d EXCEPT !.primary = FALSE] : d \in S}

\* UpdateService demotes what is there and adds one deployment.
LEMMA DemotedFinite ==
  ASSUME NEW S, IsFiniteSet(S)
  PROVE  IsFiniteSet(Demoted(S))
  <1> DEFINE f == [d \in S |-> [d EXCEPT !.primary = FALSE]]
  <1>1. f \in Surjection(S, Demoted(S))
    BY DEF Demoted, Surjection
  <1> QED
    BY <1>1, FS_Surjection

\* Only migrated \cup {Boot} matters of the schema, and it only grows.
LEMMA ServedGrows ==
  ASSUME EcsInv, ecs' = ecs, room' = room, lastId' = lastId, late' = late,
         migrated \subseteq migrated'
  PROVE  EcsInv'
  BY DEF EcsInv, Served, MigratedBeforeServed

\* The percentages update_service sends are percentages.
LEMMA ConfiguredFits ==
  ASSUME EcsInv, NEW w \in Workloads
  PROVE  /\ Configured(w) \in [Workloads -> {1, 2}]
         /\ w = "worker" => Configured(w)["worker"] = 1
         /\ w # "worker" => Configured(w) = room
  BY DEF EcsInv, Configured, Workloads

\* An update to a migrated release keeps the services in order.
LEMMA ApplyKeeps ==
  ASSUME EcsInv, migrated \subseteq Releases, NEW w \in Workloads, NEW td \in Served,
         Apply(w, td), migrated' = migrated, room' \in [Workloads -> {1, 2}],
         late' \in [Workloads -> Served \cup {None}]
  PROVE  EcsInv'
  <1> DEFINE new == [id |-> lastId + 1, td |-> td, run |-> 0,
                     state |-> "IN_PROGRESS", primary |-> TRUE]
  <1>1. ecs' = [ecs EXCEPT ![w] = Demoted(ecs[w]) \cup {new}] /\ lastId' = lastId + 1
    BY DEF Apply, Updated, Demoted
  <1>2. new \in Deployments /\ new.primary /\ new.run = 0 /\ new.td \in Served
    BY DEF EcsInv, Deployments, Targets, Served
  <1>3. \A d \in Demoted(ecs[w]) : \E e \in ecs[w] :
            d \in Deployments /\ d.id = e.id /\ d.run = e.run /\ d.td = e.td
    <2> SUFFICES ASSUME NEW d \in Demoted(ecs[w])
                 PROVE  \E e \in ecs[w] : d \in Deployments /\ d.id = e.id
                                          /\ d.run = e.run /\ d.td = e.td
      OBVIOUS
    <2>1. PICK e \in ecs[w] : d = [e EXCEPT !.primary = FALSE]
      BY DEF Demoted
    <2>2. e \in Deployments
      BY DEF EcsInv
    <2>3. d \in Deployments /\ d.id = e.id /\ d.run = e.run /\ d.td = e.td
      BY <2>1, <2>2 DEF Deployments
    <2> QED
      BY <2>3
  <1>4. IsFiniteSet(Demoted(ecs[w]) \cup {new})
    <2>1. IsFiniteSet(Demoted(ecs[w]))
      BY DemotedFinite DEF EcsInv
    <2> HIDE DEF new
    <2> QED
      BY <2>1, FS_AddElement
  <1> HIDE DEF new
  <1>5. Demoted(ecs[w]) \cup {new} \in SUBSET Deployments
    BY <1>2, <1>3
  <1>6. ecs' \in [Workloads -> SUBSET Deployments] /\ lastId' \in Nat
    BY <1>1, <1>5 DEF EcsInv
  <1>7. \A v \in Workloads : IsFiniteSet(ecs'[v]) /\ \E d \in ecs'[v] : d.primary
    BY <1>1, <1>2, <1>4 DEF EcsInv
  <1>8. \A v \in Workloads : \A d \in ecs'[v] :
            d = new \/ \E e \in ecs[v] : d.id = e.id /\ d.run = e.run /\ d.td = e.td
    BY <1>1, <1>3 DEF EcsInv
  <1>9. MigratedBeforeServed'
    BY <1>2, <1>8 DEF EcsInv, MigratedBeforeServed, Served
  <1> QED
    BY <1>6, <1>7, <1>9 DEF EcsInv, Served

\* Replacing a deployment by one of the same task definition and role keeps the
\* services in order.
LEMMA ReplaceKeeps ==
  ASSUME EcsInv, NEW w \in Workloads, NEW d \in ecs[w], NEW e \in Deployments,
         Replace(w, d, e), e.id = d.id, e.td = d.td, e.primary = d.primary,
         UNCHANGED <<room, late, lastId, migrated>>
  PROVE  EcsInv'
  <1>1. ecs' = [ecs EXCEPT ![w] = (ecs[w] \ {d}) \cup {e}]
    BY DEF Replace
  <1>2. IsFiniteSet((ecs[w] \ {d}) \cup {e})
    BY FS_RemoveElement, FS_AddElement DEF EcsInv
  <1>3. ecs' \in [Workloads -> SUBSET Deployments] /\ lastId' \in Nat
    BY <1>1 DEF EcsInv
  <1>4. \A v \in Workloads : IsFiniteSet(ecs'[v]) /\ \E x \in ecs'[v] : x.primary
    BY <1>1, <1>2 DEF EcsInv
  <1>5. MigratedBeforeServed'
    BY <1>1 DEF EcsInv, MigratedBeforeServed
  <1> QED
    BY <1>3, <1>4, <1>5 DEF EcsInv, Served

\* What ECS does by itself keeps the services in order.
LEMMA EcsKeeps ==
  ASSUME EcsInv, migrated \subseteq Releases, NEW w \in Workloads,
         \/ EcsRollOut(w) \/ EcsStopTask(w) \/ EcsForget(w)
         \/ EcsFail(w) \/ EcsApplyLate(w) \/ EcsDropLate(w)
  PROVE  EcsInv'
  <1>0. ecs[w] \subseteq Deployments
    BY DEF EcsInv
  <1>1. CASE EcsRollOut(w)
    <2>1. PICK d \in ecs[w] :
            Replace(w, d, [d EXCEPT !.run = Desired(d.td), !.state = "COMPLETED"])
      BY <1>1 DEF EcsRollOut
    <2> DEFINE e == [d EXCEPT !.run = Desired(d.td), !.state = "COMPLETED"]
    <2>2. e \in Deployments /\ e.id = d.id /\ e.td = d.td /\ e.primary = d.primary
      BY <1>0 DEF Deployments, Desired
    <2>3. UNCHANGED <<room, late, lastId, migrated>>
      BY <1>1 DEF EcsRollOut, schema
    <2>4. Replace(w, d, e)
      BY <2>1
    <2> HIDE DEF e
    <2> QED
      BY <2>2, <2>3, <2>4, ReplaceKeeps
  <1>2. CASE EcsStopTask(w)
    <2>1. PICK d \in ecs[w] : Replace(w, d, [d EXCEPT !.run = 0])
      BY <1>2 DEF EcsStopTask
    <2> DEFINE e == [d EXCEPT !.run = 0]
    <2>2. /\ e \in Deployments /\ e.id = d.id /\ e.td = d.td /\ e.primary = d.primary
          /\ e.run = 0
      BY <1>0 DEF Deployments
    <2>3. UNCHANGED <<room, late, lastId, migrated>>
      BY <1>2 DEF EcsStopTask, schema
    <2>4. Replace(w, d, e)
      BY <2>1
    <2> HIDE DEF e
    <2> QED
      BY <2>2, <2>3, <2>4, ReplaceKeeps
  <1>3. CASE EcsForget(w)
    <2>1. PICK d \in ecs[w] : ~d.primary /\ ecs' = [ecs EXCEPT ![w] = @ \ {d}]
      BY <1>3 DEF EcsForget
    <2>2. IsFiniteSet(ecs[w] \ {d})
      BY FS_RemoveElement DEF EcsInv
    <2>3. UNCHANGED <<room, late, lastId, migrated>>
      BY <1>3 DEF EcsForget, schema
    <2> QED
      BY <2>1, <2>2, <2>3 DEF EcsInv, MigratedBeforeServed, Served, Workloads
  <1>4. CASE EcsFail(w)
    <2>1. PICK d \in ecs[w] : Replace(w, d, [d EXCEPT !.state = "FAILED"])
      BY <1>4 DEF EcsFail
    <2> DEFINE e == [d EXCEPT !.state = "FAILED"]
    <2>2. /\ e \in Deployments /\ e.id = d.id /\ e.td = d.td /\ e.primary = d.primary
          /\ e.run = d.run
      BY <1>0 DEF Deployments
    <2>3. UNCHANGED <<room, late, lastId, migrated>>
      BY <1>4 DEF EcsFail, schema
    <2>4. Replace(w, d, e)
      BY <2>1
    <2> HIDE DEF e
    <2> QED
      BY <2>2, <2>3, <2>4, ReplaceKeeps
  <1>5. CASE EcsApplyLate(w)
    <2>1. late[w] \in Served /\ late' \in [Workloads -> Served \cup {None}]
          /\ room' \in [Workloads -> {1, 2}]
      BY <1>5, ConfiguredFits DEF EcsApplyLate, EcsInv
    <2> QED
      BY <1>5, <2>1, ApplyKeeps DEF EcsApplyLate, schema
  <1>6. CASE EcsDropLate(w)
    BY <1>6 DEF EcsDropLate, schema, EcsInv, Served, MigratedBeforeServed
  <1> QED
    BY <1>1, <1>2, <1>3, <1>4, <1>5, <1>6

---------------------------------------------------------------------------
USE DEF Workloads

\* A controller at rest owes nothing.
LEMMA IdleFits == Idle \in Controllers /\ \A ctx : Fits(Idle, ctx)
  <1>1. Idle \in Controllers
    BY DEF Idle, Controllers, Kinds, Stages, Steps, Snapshots, Attempts
  <1> QED
    BY <1>1 DEF Idle, Fits, Gates, Forward, Recovery

\* A controller at rest is at stage "idle".
LEMMA IdleStage == Idle.stage = "idle"
  BY DEF Idle

\* The controller moves on without touching a service, a file or the schema.
LEMMA MoveKeeps ==
  ASSUME DeploymentInv, ctl.stage # "idle", ctl' \in Controllers, Fits(ctl', context),
         UNCHANGED <<provider, schema, files>>, last' \in {last} \cup (Results \ {"released"})
  PROVE  DeploymentInv'
  <1>1. EcsInv'
    BY ServedGrows DEF DeploymentInv, provider, schema
  <1>2. ctl # Idle
    BY IdleStage
  <1>3. FilesInv'
    BY <1>2 DEF DeploymentInv, FilesInv, files, schema
  <1>4. CtlInv'
    BY DEF CtlInv, Fits, Served, schema, files
  <1> QED
    BY <1>1, <1>3, <1>4 DEF DeploymentInv

\* The PRIMARY deployment of a service exists and runs a migrated release.
LEMMA PrimaryServed ==
  ASSUME EcsInv, NEW w \in Workloads
  PROVE  Primary(w) \in Deployments /\ Primary(w).td \in Served
  <1>1. Primary(w) \in ecs[w]
    BY DEF EcsInv, Primary
  <1> QED
    BY <1>1 DEF EcsInv, MigratedBeforeServed, Served

\* Served releases are targets.
LEMMA ServedTargets ==
  ASSUME FilesInv PROVE Served \subseteq Targets /\ None \notin Served
  BY DeploymentAssumption DEF FilesInv, Served, Targets

\* The gates keep what they captured of a service.
LEMMA GateReadKeeps ==
  ASSUME DeploymentInv, NEW w \in Workloads, GateRead(w)
  PROVE  DeploymentInv'
  <1> DEFINE snap == [ctl.snap EXCEPT ![w] = [td |-> Primary(w).td, id |-> Primary(w).id]]
  <1>1. ctl \in Controllers /\ Fits(ctl, context) /\ Served' = Served /\ migrated' = migrated
        /\ context' = context
    BY DEF DeploymentInv, CtlInv, GateRead, schema, Served, files
  <1>2. /\ snap \in [Workloads -> Snapshots]
        /\ snap[w].td \in Served
        /\ \A v \in Workloads \ {w} : snap[v] = ctl.snap[v]
    BY <1>1, PrimaryServed, ServedTargets
    DEF DeploymentInv, Deployments, Controllers, Snapshots
  <1>3. /\ ctl.stage \in Gates /\ ctl.at = w
        /\ ctl' = IF w = "web" THEN [ctl EXCEPT !.snap = snap, !.at = "worker"]
                  ELSE IF ctl.kind = "rollback" /\ ctl.stage = "prior"
                  THEN [ctl EXCEPT !.snap = snap, !.stage = "pre_update", !.at = "web"]
                  ELSE [ctl EXCEPT !.snap = snap, !.at = "check_web"]
    BY DEF GateRead
  <1> HIDE DEF snap
  <1>4. ctl' \in Controllers
    BY <1>1, <1>2, <1>3 DEF Controllers, Stages, Gates, Steps
  <1>5. Fits(ctl', context)
    BY <1>1, <1>2, <1>3 DEF Controllers, Fits, Gates, Forward, Recovery
  <1>6. ctl.stage # "idle"
    BY <1>3 DEF Gates
  <1> QED
    BY <1>4, <1>5, <1>6, MoveKeeps DEF GateRead

\* The second look at web leaves what was captured.
LEMMA GateCheckWebKeeps ==
  ASSUME DeploymentInv, GateCheckWeb
  PROVE  DeploymentInv'
  <1>1. /\ ctl \in Controllers /\ Fits(ctl, context)
        /\ ctl.stage \in Gates /\ ctl.at = "check_web"
        /\ ctl' = [ctl EXCEPT !.at = "check_worker"]
    BY DEF DeploymentInv, CtlInv, GateCheckWeb
  <1>2. ctl' \in Controllers /\ ctl.stage # "idle"
    BY <1>1 DEF Controllers, Gates, Steps
  <1>3. Fits(ctl', context)
    BY <1>1 DEF Controllers, Fits, Gates, Forward, Recovery
  <1> QED
    BY <1>2, <1>3, MoveKeeps DEF GateCheckWeb

\* Recovery starts from a pair that was served.
LEMMA EnterFits ==
  ASSUME CtlInv, NEW attempted \in [Workloads -> Attempts],
         \A w \in Workloads : ctl.snap[w].td \in Served,
         ctl.stage # "idle", ctl.kind = "finalize" => ctl.target \in Served,
         NEW ctx
  PROVE  EnterRecovery(attempted) \in Controllers /\ Fits(EnterRecovery(attempted), ctx)
  <1> DEFINE outcome == [w \in Workloads |->
                            IF w \in ToRestore(attempted) THEN "pending" ELSE "passed"]
             receipt == [w \in Workloads |-> 0]
             c == [ctl EXCEPT !.stage = "prepare", !.at = "web", !.attempted = attempted,
                              !.receipt = receipt, !.outcome = outcome]
  <1>1. EnterRecovery(attempted) = c
    BY DEF EnterRecovery
  <1>2. outcome \in [Workloads -> {"pending", "passed", "failed"}] /\ receipt \in [Workloads -> Nat]
    OBVIOUS
  <1> HIDE DEF outcome, receipt
  <1>3. c \in Controllers
    BY <1>2 DEF CtlInv, Controllers, Stages, Recovery, Steps
  <1>4. Fits(c, ctx)
    BY DEF CtlInv, Controllers, Fits, Gates, Forward, Recovery
  <1> QED
    BY <1>1, <1>3, <1>4

\* A gate that passes: recovery of a released pair, the next stage of a promotion,
\* or the first update, for which the context is written.
LEMMA GateCheckWorkerKeeps ==
  ASSUME DeploymentInv, GateCheckWorker
  PROVE  DeploymentInv'
  <1>1. /\ ctl \in Controllers /\ Fits(ctl, context)
        /\ ctl.stage \in Gates /\ ctl.at = "check_worker"
        /\ \A w \in Workloads : ctl.snap[w].td \in Served
        /\ ctl.stage # "idle" /\ ctl # Idle
    BY IdleStage DEF DeploymentInv, CtlInv, GateCheckWorker, Fits, Gates
  <1>2. Served' = Served /\ migrated' = migrated
    BY DEF GateCheckWorker, schema, Served
  <1>3. context' \in Targets \cup {None}
        /\ (ctl.stage = "pre_update" /\ ctl.kind # "finalize" => context' \in Served)
    BY <1>1, ServedTargets DEF GateCheckWorker, ContextTarget, DeploymentInv, FilesInv
  <1>4. ctl' \in Controllers /\ Fits(ctl', context')
    <2>1. CASE ctl.kind = "finalize"
      <3>1. ctl' = EnterRecovery(ctl.attempted)
        BY <2>1 DEF GateCheckWorker
      <3>2. ctl.attempted \in [Workloads -> Attempts] /\ ctl.target \in Served
        BY <1>1, <2>1 DEF Controllers, Fits
      <3> QED
        BY <1>1, <3>1, <3>2, EnterFits DEF CtlInv
    <2>2. CASE ctl.kind # "finalize" /\ ctl.stage = "prior"
      <3>1. ctl' = [ctl EXCEPT !.stage = "register", !.at = ""]
        BY <2>2 DEF GateCheckWorker
      <3>2. ctl' \in Controllers
        BY <1>1, <3>1 DEF Controllers, Stages, Steps
      <3> QED
        BY <1>1, <2>2, <3>1, <3>2 DEF Controllers, Fits, Gates, Forward, Recovery
    <2>3. CASE ctl.kind # "finalize" /\ ctl.stage = "pre_migration"
      <3>1. ctl' = [ctl EXCEPT !.stage = "migrate", !.at = ""]
        BY <2>3 DEF GateCheckWorker
      <3>2. ctl' \in Controllers
        BY <1>1, <3>1 DEF Controllers, Stages, Steps
      <3> QED
        BY <1>1, <2>3, <3>1, <3>2 DEF Controllers, Fits, Gates, Forward, Recovery
    <2>4. CASE ctl.kind # "finalize" /\ ctl.stage = "pre_update"
      <3>1. ctl' = [ctl EXCEPT !.stage = "web", !.at = "update"]
        BY <2>4 DEF GateCheckWorker
      <3>2. ctl' \in Controllers
        BY <1>1, <3>1 DEF Controllers, Stages, Forward, Steps
      <3> QED
        BY <1>1, <1>3, <2>4, <3>1, <3>2 DEF Controllers, Fits, Gates, Forward, Recovery
    <2> QED
      BY <1>1, <2>1, <2>2, <2>3, <2>4 DEF Gates
  <1>5. EcsInv'
    BY ServedGrows DEF DeploymentInv, GateCheckWorker, provider, schema
  <1>6. FilesInv'
    BY <1>1, <1>3 DEF DeploymentInv, FilesInv, GateCheckWorker, schema
  <1>7. CtlInv'
    BY <1>2, <1>4 DEF CtlInv, Fits
  <1> QED
    BY <1>5, <1>6, <1>7 DEF DeploymentInv

\* Past the last gate, and in recovery, the controller keeps its command, its
\* target and the pair it captured.
LEMMA StageFits ==
  ASSUME CtlInv, NEW c \in Controllers,
         c.kind = ctl.kind, c.target = ctl.target, c.snap = ctl.snap,
         \/ ctl.stage \in Forward /\ c.stage \in Forward \cup Recovery
         \/ ctl.stage \in Recovery /\ c.stage \in Recovery
  PROVE  Fits(c, context) /\ ctl.stage # "idle"
  BY DEF CtlInv, Controllers, Fits, Gates, Forward, Recovery

\* Before the first update nothing was attempted and the target is a release.
LEMMA EarlyKeeps ==
  ASSUME DeploymentInv, Register \/ MigrationPassed
  PROVE  DeploymentInv'
  <1>1. ctl \in Controllers /\ Fits(ctl, context)
    BY DEF DeploymentInv, CtlInv
  <1>2. CASE Register
    <2>1. ctl.stage = "register" /\ ctl' = [ctl EXCEPT !.stage = "pre_migration", !.at = "web"]
      BY <1>2 DEF Register
    <2>2. ctl' \in Controllers
      BY <1>1, <2>1 DEF Controllers, Stages, Gates, Steps
    <2>3. Fits(ctl', context)
      BY <1>1, <2>1 DEF Controllers, Fits, Gates, Forward, Recovery
    <2> QED
      BY <1>2, <2>1, <2>2, <2>3, MoveKeeps DEF Register
  <1>3. CASE MigrationPassed
    <2>1. /\ ctl.stage = "migrating" /\ ctl.target \in migrated
          /\ ctl' = [ctl EXCEPT !.stage = "pre_update", !.at = "web"]
      BY <1>3 DEF MigrationPassed, ExitedZero
    <2>2. ctl' \in Controllers
      BY <1>1, <2>1 DEF Controllers, Stages, Gates, Steps
    <2>3. Fits(ctl', context)
      BY <1>1, <2>1 DEF Controllers, Fits, Gates, Forward, Recovery
    <2> QED
      BY <1>3, <2>1, <2>2, <2>3, MoveKeeps DEF MigrationPassed
  <1> QED
    BY <1>2, <1>3

\* The migration task is launched for a release, and stopped.
LEMMA MigrationKeeps ==
  ASSUME DeploymentInv, LaunchMigration \/ StopMigration
  PROVE  DeploymentInv'
  <1>1. ctl \in Controllers /\ Fits(ctl, context)
    BY DEF DeploymentInv, CtlInv
  <1>2. EcsInv'
    BY ServedGrows DEF DeploymentInv, LaunchMigration, StopMigration, provider
  <1>3. CASE LaunchMigration
    <2>1. /\ ctl.stage = "migrate" /\ ctl # Idle
          /\ ctl' = [ctl EXCEPT !.stage = "migrating"]
          /\ migrated' = migrated /\ context' = context
      BY <1>3, IdleStage DEF LaunchMigration, files
    <2>2. ctl.target \in Releases
      BY <1>1, <2>1 DEF Fits, Recovery
    <2>3. ctl' \in Controllers
      BY <1>1, <2>1 DEF Controllers, Stages
    <2>4. Fits(ctl', context)
      BY <1>1, <2>1 DEF Controllers, Fits, Gates, Forward, Recovery
    <2>5. CtlInv'
      BY <2>1, <2>3, <2>4 DEF CtlInv, Fits, Served
    <2>6. FilesInv'
      BY <1>3, <2>1, <2>2 DEF LaunchMigration, files, DeploymentInv, FilesInv
    <2> QED
      BY <1>2, <2>5, <2>6 DEF DeploymentInv
  <1>4. CASE StopMigration
    <2>1. ctl' = Idle /\ last' = "failed"
      BY <1>4 DEF StopMigration
    <2>2. CtlInv'
      BY <1>4, <2>1, IdleFits DEF StopMigration, CtlInv, Fits, Served
    <2>3. FilesInv'
      BY <1>4, <2>1 DEF StopMigration, files, DeploymentInv, FilesInv, Results
    <2> QED
      BY <1>2, <2>2, <2>3 DEF DeploymentInv
  <1> QED
    BY <1>3, <1>4

\* The forward stages after the gate change neither target nor captured pair.
LEMMA ForwardKeeps ==
  ASSUME DeploymentInv,
         \/ BindWebRuntime \/ SmokePassed \/ TerminalCheck
         \/ \E w \in Workloads : ForwardReceipt(w) \/ ForwardStable(w)
  PROVE  DeploymentInv'
  <1>1. ctl \in Controllers /\ CtlInv
    BY DEF DeploymentInv, CtlInv
  <1> DEFINE Same == ctl'.kind = ctl.kind /\ ctl'.target = ctl.target /\ ctl'.snap = ctl.snap
             Ahead == ctl.stage \in Forward /\ ctl'.stage \in Forward
  <1>2. ctl' \in Controllers /\ Same /\ Ahead
    <2>1. CASE BindWebRuntime
      BY <1>1, <2>1 DEF BindWebRuntime, Controllers, Stages, Forward, Steps
    <2>2. CASE SmokePassed
      BY <1>1, <2>2 DEF SmokePassed, Controllers, Stages, Forward, Steps
    <2>3. CASE TerminalCheck
      BY <1>1, <2>3 DEF TerminalCheck, Controllers, Stages, Forward, Steps
    <2>4. ASSUME NEW w \in Workloads, ForwardReceipt(w)
          PROVE  ctl' \in Controllers /\ Same /\ Ahead
      <3>1. PICK id \in 1 .. lastId :
              ctl' = [ctl EXCEPT !.receipt[w] = id, !.at = "stable",
                                 !.attempted[w] = [how |-> "bound", id |-> id]]
        BY <2>4 DEF ForwardReceipt
      <3>2. id \in Nat
        BY DEF DeploymentInv, EcsInv
      <3>3. ctl.stage = w
        BY <2>4 DEF ForwardReceipt
      <3>4. ctl.stage \in Forward
        BY <3>3 DEF Forward
      <3> QED
        BY <1>1, <3>1, <3>2, <3>4 DEF Controllers, Attempts, Steps
    <2>5. ASSUME NEW w \in Workloads, ForwardStable(w)
          PROVE  ctl' \in Controllers /\ Same /\ Ahead
      BY <1>1, <2>5 DEF ForwardStable, Controllers, Stages, Forward, Steps
    <2> QED
      BY <2>1, <2>2, <2>3, <2>4, <2>5
  <1>3. Fits(ctl', context) /\ ctl.stage # "idle"
    BY <1>1, <1>2, StageFits
  <1>4. UNCHANGED <<provider, schema, files, last>>
    BY DEF BindWebRuntime, SmokePassed, TerminalCheck, ForwardReceipt, ForwardStable
  <1> QED
    BY <1>2, <1>3, <1>4, MoveKeeps

\* A command that ends, fails or dies leaves the services and the schema alone.
LEMMA EndKeeps ==
  ASSUME DeploymentInv, ctl' = Idle, UNCHANGED <<provider, schema, files>>,
         last' \in Results \ {"released"}
  PROVE  DeploymentInv'
  <1>1. EcsInv'
    BY ServedGrows DEF DeploymentInv, provider, schema
  <1>2. FilesInv'
    BY DEF DeploymentInv, FilesInv, files, schema
  <1>3. CtlInv'
    BY IdleFits DEF CtlInv, Fits, Served, schema
  <1> QED
    BY <1>1, <1>2, <1>3 DEF DeploymentInv

\* The record names the release that was migrated; a failure to write it enters
\* recovery.
LEMMA RecordKeeps ==
  ASSUME DeploymentInv, WriteRecord \/ RecordFails
  PROVE  DeploymentInv'
  <1>1. /\ ctl \in Controllers /\ CtlInv /\ Fits(ctl, context)
        /\ ctl.stage = "record" /\ ctl # Idle
    BY IdleStage DEF DeploymentInv, CtlInv, WriteRecord, RecordFails
  <1>2. /\ ctl.target \in migrated /\ ctl.target \in Releases /\ context \in Served
        /\ ctl.kind # "finalize" /\ \A w \in Workloads : ctl.snap[w].td \in Served
    BY <1>1 DEF Fits, Forward, Recovery, DeploymentInv, FilesInv
  <1>3. EcsInv' /\ migrated' = migrated /\ Served' = Served /\ context' = context
    BY ServedGrows DEF DeploymentInv, WriteRecord, RecordFails, provider, schema, Served
  <1>4. CASE WriteRecord
    <2>1. CtlInv'
      BY <1>3, <1>4, IdleFits DEF WriteRecord, CtlInv, Fits
    <2>2. FilesInv'
      BY <1>2, <1>3, <1>4 DEF WriteRecord, schema, DeploymentInv, FilesInv, Results
    <2> QED
      BY <1>3, <2>1, <2>2 DEF DeploymentInv
  <1>5. CASE RecordFails
    <2>1. PICK kept \in BOOLEAN :
            /\ record' = IF kept THEN ctl.target ELSE None
            /\ ctl' = [EnterRecovery(ctl.attempted) EXCEPT !.cleanup_failed = kept]
      BY <1>5 DEF RecordFails
    <2>2. /\ EnterRecovery(ctl.attempted) \in Controllers
          /\ Fits(EnterRecovery(ctl.attempted), context)
      <3>1. ctl.attempted \in [Workloads -> Attempts]
        BY <1>1 DEF Controllers
      <3> QED
        BY <1>1, <1>2, <3>1, EnterFits
    <2> DEFINE entered == EnterRecovery(ctl.attempted)
    <2> HIDE DEF entered
    <2>3. ctl' = [entered EXCEPT !.cleanup_failed = kept]
          /\ entered \in Controllers /\ Fits(entered, context)
      BY <2>1, <2>2 DEF entered
    <2>4. ctl' \in Controllers
      BY <2>3 DEF Controllers
    <2>5. Fits(ctl', context)
      BY <2>3 DEF Controllers, Fits
    <2>6. CtlInv'
      BY <1>3, <2>4, <2>5 DEF CtlInv, Fits
    <2>7. FilesInv'
      BY <1>1, <1>2, <1>3, <1>5, <2>1 DEF RecordFails, schema, DeploymentInv, FilesInv
    <2> QED
      BY <1>3, <2>6, <2>7 DEF DeploymentInv
  <1> QED
    BY <1>4, <1>5

\* A failure puts the prior pair back once a service was attempted.
LEMMA RaiseKeeps ==
  ASSUME DeploymentInv, Raise
  PROVE  DeploymentInv'
  <1>1. /\ ctl \in Controllers /\ CtlInv /\ Fits(ctl, context)
        /\ ctl.stage \notin Recovery /\ ctl.stage # "idle"
        /\ UNCHANGED <<provider, schema, files>>
    BY DEF DeploymentInv, CtlInv, Raise
  <1>2. CASE Mutated
    <2>1. ctl' = EnterRecovery(ctl.attempted) /\ last' = last
      BY <1>2 DEF Raise
    <2>2. ctl.stage \in Forward
      BY <1>1, <1>2 DEF Fits, Mutated
    <2>3. \A w \in Workloads : ctl.snap[w].td \in Served
      BY <1>1, <2>2 DEF Fits
    <2>4. ctl.kind # "finalize"
      BY <1>1, <2>2 DEF Fits, Forward
    <2>5. ctl.attempted \in [Workloads -> Attempts]
      BY <1>1 DEF Controllers
    <2>6. ctl' \in Controllers /\ Fits(ctl', context)
      BY <1>1, <2>1, <2>3, <2>4, <2>5, EnterFits
    <2> QED
      BY <1>1, <2>1, <2>6, MoveKeeps
  <1>3. CASE ~Mutated
    <2>1. ctl' = Idle /\ last' = "failed"
      BY <1>3 DEF Raise
    <2> QED
      BY <1>1, <2>1, EndKeeps DEF Results
  <1> QED
    BY <1>2, <1>3

\* What an UpdateService call does to the services, answered or not: applied,
\* on its way or never seen.
LEMMA CallKeeps ==
  ASSUME DeploymentInv, NEW w \in Workloads, NEW td \in Served, UNCHANGED migrated,
         \/ Apply(w, td) /\ UNCHANGED late /\ room' \in [Workloads -> {1, 2}]
         \/ late' = [late EXCEPT ![w] = td] /\ UNCHANGED <<ecs, room, lastId>>
         \/ UNCHANGED provider
  PROVE  EcsInv'
  <1>1. CASE Apply(w, td) /\ UNCHANGED late /\ room' \in [Workloads -> {1, 2}]
    BY <1>1, ApplyKeeps DEF DeploymentInv, FilesInv, EcsInv
  <1>2. CASE late' = [late EXCEPT ![w] = td] /\ UNCHANGED <<ecs, room, lastId>>
    BY <1>2 DEF DeploymentInv, EcsInv, Served, MigratedBeforeServed
  <1>3. CASE UNCHANGED provider
    BY <1>3, ServedGrows DEF DeploymentInv, provider
  <1> QED
    BY <1>1, <1>2, <1>3

\* The controller moves on with a call to a service.
LEMMA SendKeeps ==
  ASSUME DeploymentInv, ctl.stage # "idle", EcsInv', ctl' \in Controllers, Fits(ctl', context),
         UNCHANGED <<schema, files, last>>
  PROVE  DeploymentInv'
  <1>1. ctl # Idle
    BY IdleStage
  <1>2. FilesInv'
    BY <1>1 DEF DeploymentInv, FilesInv, files, schema
  <1>3. CtlInv'
    BY DEF CtlInv, Fits, Served, schema, files
  <1> QED
    BY <1>2, <1>3 DEF DeploymentInv

\* Forward updates send the migrated target.
LEMMA ForwardUpdateKeeps ==
  ASSUME DeploymentInv, NEW w \in Workloads, ForwardUpdate(w) \/ ForwardUpdateLost(w)
  PROVE  DeploymentInv'
  <1>1. /\ ctl \in Controllers /\ CtlInv /\ Fits(ctl, context)
        /\ ctl.stage = w /\ ctl.stage \in Forward /\ ctl.stage # "idle"
        /\ UNCHANGED <<schema, files, last>> /\ migrated' = migrated
    BY DEF DeploymentInv, CtlInv, ForwardUpdate, ForwardUpdateLost, Forward, schema
  <1>2. /\ ctl.target \in Served /\ ctl.kind # "finalize"
        /\ \A v \in Workloads : ctl.snap[v].td \in Served
    BY <1>1 DEF Fits, Forward, Recovery, Served
  <1>3. Sent(w) \in [Workloads -> Attempts]
    BY <1>1 DEF Sent, Controllers, Attempts
  <1>4. EcsInv'
    <2>1. Configured(w) \in [Workloads -> {1, 2}]
      BY ConfiguredFits DEF DeploymentInv
    <2> QED
      BY <1>1, <1>2, <2>1, CallKeeps DEF ForwardUpdate, ForwardUpdateLost
  <1>5. CASE ForwardUpdate(w)
    <2>1. ctl' = [ctl EXCEPT !.attempted = Sent(w), !.at = "receipt"]
      BY <1>5 DEF ForwardUpdate
    <2>2. ctl' \in Controllers /\ ctl'.stage \in Forward
          /\ ctl'.kind = ctl.kind /\ ctl'.target = ctl.target /\ ctl'.snap = ctl.snap
      BY <1>1, <1>3, <2>1 DEF Controllers, Steps
    <2> QED
      BY <1>1, <1>4, <2>2, StageFits, SendKeeps
  <1>6. CASE ForwardUpdateLost(w)
    <2>1. ctl' = EnterRecovery(Sent(w))
      BY <1>6 DEF ForwardUpdateLost
    <2>2. ctl' \in Controllers /\ Fits(ctl', context)
      BY <1>1, <1>2, <1>3, <2>1, EnterFits
    <2> QED
      BY <1>1, <1>4, <2>2, SendKeeps
  <1> QED
    BY <1>5, <1>6

\* What a failed workload leaves in the controller's memory.
LEMMA FailedFits ==
  ASSUME ctl \in Controllers, NEW w \in Workloads
  PROVE  /\ Failed(w) \in Controllers /\ Failed(w).stage = ctl.stage
         /\ Failed(w).kind = ctl.kind /\ Failed(w).target = ctl.target
         /\ Failed(w).snap = ctl.snap
  BY DEF Failed, Controllers

\* Recovery restores what was served.
LEMMA RestoreKeeps ==
  ASSUME DeploymentInv, NEW w \in Workloads, Restore(w) \/ RestoreLost(w)
  PROVE  DeploymentInv'
  <1>1. /\ ctl \in Controllers /\ CtlInv /\ Fits(ctl, context)
        /\ ctl.stage = "restore" /\ ctl.stage \in Recovery /\ ctl.stage # "idle"
        /\ UNCHANGED <<schema, files, last>> /\ migrated' = migrated
    BY DEF DeploymentInv, CtlInv, Restore, RestoreLost, Recovery, schema
  <1>2. RestoreTarget(w) \in Served
    BY <1>1 DEF Fits, RestoreTarget
  <1>3. EcsInv'
    <2>1. Configured(w) \in [Workloads -> {1, 2}]
      BY ConfiguredFits DEF DeploymentInv
    <2> QED
      BY <1>1, <1>2, <2>1, CallKeeps DEF Restore, RestoreLost
  <1>4. /\ ctl' \in Controllers /\ ctl'.stage \in Recovery
        /\ ctl'.kind = ctl.kind /\ ctl'.target = ctl.target /\ ctl'.snap = ctl.snap
    <2>1. CASE Restore(w)
      BY <1>1, <2>1 DEF Restore, Controllers, Steps
    <2>2. CASE RestoreLost(w)
      <3>1. ctl' = [Failed(w) EXCEPT !.stage = AfterRestore(w).stage, !.at = AfterRestore(w).at]
        BY <2>2 DEF RestoreLost
      <3>2. /\ AfterRestore(w).stage \in Recovery \cap Stages
            /\ AfterRestore(w).at \in Steps
        BY DEF AfterRestore, Recovery, Stages, Steps
      <3> QED
        BY <1>1, <3>1, <3>2, FailedFits DEF Controllers
    <2> QED
      BY <2>1, <2>2
  <1> QED
    BY <1>1, <1>3, <1>4, StageFits, SendKeeps

\* The other steps of recovery keep the command, its target and the pair.
LEMMA RecoveryKeeps ==
  ASSUME DeploymentInv,
         \/ Observed \/ RecoveryProof
         \/ \E w \in Workloads : Prepare(w) \/ SkipRestore(w) \/ RestoreReceipt(w) \/ Observe(w)
  PROVE  DeploymentInv'
  <1>1. ctl \in Controllers /\ CtlInv /\ lastId \in Nat
    BY DEF DeploymentInv, CtlInv, EcsInv
  <1> DEFINE Same == ctl'.kind = ctl.kind /\ ctl'.target = ctl.target /\ ctl'.snap = ctl.snap
             Ahead == ctl.stage \in Recovery /\ ctl'.stage \in Recovery
  <1>2. ASSUME NEW w \in Workloads
        PROVE  AfterRestore(w).stage \in Recovery \cap Stages /\ AfterRestore(w).at \in Steps
    BY DEF AfterRestore, Recovery, Stages, Steps
  <1>3. ctl' \in Controllers /\ Same /\ Ahead
    <2>1. CASE Observed
      BY <1>1, <2>1 DEF Observed, Controllers, Stages, Recovery, Steps
    <2>2. CASE RecoveryProof
      BY <1>1, <2>2 DEF RecoveryProof, Controllers, Stages, Recovery, Steps
    <2>3. ASSUME NEW w \in Workloads, Prepare(w)
          PROVE  ctl' \in Controllers /\ Same /\ Ahead
      <3> DEFINE next == IF w = "web" THEN [stage |-> "prepare", at |-> "worker"]
                         ELSE [stage |-> "restore", at |-> "web"]
      <3>1. next.stage \in Recovery \cap Stages /\ next.at \in Steps
        BY DEF Recovery, Stages, Steps
      <3>2. \/ ctl' = [ctl EXCEPT !.stage = next.stage, !.at = next.at]
            \/ \E id \in 1 .. lastId :
                 ctl' = [ctl EXCEPT !.stage = next.stage, !.at = next.at,
                                    !.attempted[w] = [how |-> "bound", id |-> id]]
            \/ ctl' = [Failed(w) EXCEPT !.stage = next.stage, !.at = next.at]
        BY <2>3 DEF Prepare
      <3>3. ctl.stage \in Recovery
        BY <2>3 DEF Prepare, Recovery
      <3> HIDE DEF next
      <3>4. CASE ctl' = [ctl EXCEPT !.stage = next.stage, !.at = next.at]
        BY <1>1, <3>1, <3>3, <3>4 DEF Controllers
      <3>5. CASE \E id \in 1 .. lastId :
                 ctl' = [ctl EXCEPT !.stage = next.stage, !.at = next.at,
                                    !.attempted[w] = [how |-> "bound", id |-> id]]
        <4>1. PICK id \in 1 .. lastId :
                 ctl' = [ctl EXCEPT !.stage = next.stage, !.at = next.at,
                                    !.attempted[w] = [how |-> "bound", id |-> id]]
          BY <3>5
        <4>2. [how |-> "bound", id |-> id] \in Attempts
          BY <1>1 DEF Attempts
        <4> QED
          BY <1>1, <3>1, <3>3, <4>1, <4>2 DEF Controllers
      <3>6. CASE ctl' = [Failed(w) EXCEPT !.stage = next.stage, !.at = next.at]
        BY <1>1, <3>1, <3>3, <3>6, FailedFits DEF Controllers
      <3> QED
        BY <3>2, <3>4, <3>5, <3>6
    <2>4. ASSUME NEW w \in Workloads, SkipRestore(w)
          PROVE  ctl' \in Controllers /\ Same /\ Ahead
      <3>1. /\ ctl' = [ctl EXCEPT !.stage = AfterRestore(w).stage, !.at = AfterRestore(w).at]
            /\ ctl.stage \in Recovery
        BY <2>4 DEF SkipRestore, Recovery
      <3> QED
        BY <1>1, <1>2, <3>1 DEF Controllers
    <2>5. ASSUME NEW w \in Workloads, RestoreReceipt(w)
          PROVE  ctl' \in Controllers /\ Same /\ Ahead
      <3>1. \/ \E id \in 1 .. lastId :
                 ctl' = [ctl EXCEPT !.receipt[w] = id, !.stage = AfterRestore(w).stage,
                                    !.at = AfterRestore(w).at]
            \/ ctl' = [Failed(w) EXCEPT !.stage = AfterRestore(w).stage,
                                        !.at = AfterRestore(w).at]
        BY <2>5 DEF RestoreReceipt
      <3>2. ctl.stage \in Recovery
        BY <2>5 DEF RestoreReceipt, Recovery
      <3>3. CASE \E id \in 1 .. lastId :
                 ctl' = [ctl EXCEPT !.receipt[w] = id, !.stage = AfterRestore(w).stage,
                                    !.at = AfterRestore(w).at]
        <4>1. PICK id \in 1 .. lastId :
                 ctl' = [ctl EXCEPT !.receipt[w] = id, !.stage = AfterRestore(w).stage,
                                    !.at = AfterRestore(w).at]
          BY <3>3
        <4>2. id \in Nat
          BY <1>1
        <4> QED
          BY <1>1, <1>2, <3>2, <4>1, <4>2 DEF Controllers
      <3>4. CASE ctl' = [Failed(w) EXCEPT !.stage = AfterRestore(w).stage,
                                         !.at = AfterRestore(w).at]
        BY <1>1, <1>2, <3>2, <3>4, FailedFits DEF Controllers
      <3> QED
        BY <3>1, <3>3, <3>4
    <2>6. ASSUME NEW w \in Workloads, Observe(w)
          PROVE  ctl' \in Controllers /\ Same /\ Ahead
      <3>1. /\ ctl' = [ctl EXCEPT !.outcome[w] = "passed"] \/ ctl' = Failed(w)
            /\ ctl.stage \in Recovery
        BY <2>6 DEF Observe, Recovery
      <3> QED
        BY <1>1, <3>1, FailedFits DEF Controllers
    <2> QED
      BY <2>1, <2>2, <2>3, <2>4, <2>5, <2>6
  <1>4. Fits(ctl', context) /\ ctl.stage # "idle"
    BY <1>1, <1>3, StageFits
  <1>5. UNCHANGED <<provider, schema, files, last>>
    BY DEF Observed, RecoveryProof, Prepare, SkipRestore, RestoreReceipt, Observe
  <1> QED
    BY <1>3, <1>4, <1>5, MoveKeeps

\* Recovery ends; CI may remove the record.
LEMMA EndRecoveryKeeps ==
  ASSUME DeploymentInv, EndRecovery
  PROVE  DeploymentInv'
  <1>1. ctl' = Idle /\ UNCHANGED <<provider, schema, checkpoint, context, eligible>>
    BY DEF EndRecovery
  <1>2. /\ last' \in Results \ {"released"}
        /\ record' \in {record, None}
    BY DEF EndRecovery, Results
  <1>3. EcsInv'
    BY <1>1, ServedGrows DEF DeploymentInv, provider, schema
  <1>4. CtlInv'
    BY <1>1, IdleFits DEF CtlInv, Fits, Served, schema
  <1>5. FilesInv'
    BY <1>1, <1>2 DEF DeploymentInv, FilesInv, schema
  <1> QED
    BY <1>3, <1>4, <1>5 DEF DeploymentInv

\* A command starts with a target of its kind.
LEMMA StartFits ==
  ASSUME NEW kind \in Kinds, NEW target \in Targets \cup {None},
         NEW expected \in Targets \cup {None}, NEW ctx,
         kind = "finalize" => target \in Served,
         kind # "finalize" => target \in Releases,
         kind = "rollback" => target \in migrated
  PROVE  LET c == [Idle EXCEPT !.kind = kind, !.target = target, !.expected = expected,
                               !.stage = "prior", !.at = "web"]
         IN  c \in Controllers /\ Fits(c, ctx)
  <1> DEFINE c == [Idle EXCEPT !.kind = kind, !.target = target, !.expected = expected,
                               !.stage = "prior", !.at = "web"]
  <1>1. c \in Controllers
    BY IdleFits DEF Controllers, Stages, Gates, Steps
  <1>2. c.attempted = [w \in Workloads |-> [how |-> "no", id |-> 0]]
    BY DEF Idle
  <1>3. /\ c.kind = kind /\ c.target = target /\ c.stage = "prior" /\ c.at = "web"
    BY DEF Idle
  <1> HIDE DEF c
  <1>4. Fits(c, ctx)
    BY <1>2, <1>3 DEF Fits, Gates, Forward, Recovery
  <1> QED
    BY <1>1, <1>4 DEF c

\* promote starts for a release, rollback for a migrated one, and the recovery
\* of a finalization for the pair of the context.
LEMMA CommandsKeep ==
  ASSUME DeploymentInv, Commands
  PROVE  DeploymentInv'
  <1>1. EcsInv' /\ migrated' = migrated /\ migrating' = migrating /\ Served' = Served
    BY ServedGrows
    DEF DeploymentInv, Commands, StartPromote, StartRollback, Start, Finalize,
        StartFinalizationRecovery, provider, schema, Served
  <1>2. ASSUME NEW kind \in Kinds \ {"finalize"}, NEW target \in Releases,
               NEW expected \in Targets, Start(kind, target, expected),
               kind = "rollback" => target \in migrated
        PROVE  DeploymentInv'
    <2>1. ctl' \in Controllers /\ Fits(ctl', context')
      BY <1>2, StartFits DEF Start, Targets
    <2>2. CtlInv'
      BY <1>1, <2>1 DEF CtlInv, Fits
    <2>3. FilesInv'
      BY <1>1, <1>2 DEF Start, DeploymentInv, FilesInv
    <2> QED
      BY <1>1, <2>2, <2>3 DEF DeploymentInv
  <1>3. CASE StartPromote
    BY <1>2, <1>3 DEF StartPromote, Kinds
  <1>4. CASE StartRollback
    <2>1. PICK target \in eligible, current \in eligible : Start("rollback", target, current)
      BY <1>4 DEF StartRollback
    <2>2. target \in migrated /\ target \in Releases /\ current \in Targets
      BY DEF DeploymentInv, FilesInv, Targets
    <2> QED
      BY <1>2, <2>1, <2>2 DEF Kinds
  <1>5. CASE Finalize
    <2>1. FilesInv'
      BY <1>1, <1>5 DEF Finalize, DeploymentInv, FilesInv, Results
    <2>2. CtlInv'
      BY <1>1, <1>5 DEF Finalize, DeploymentInv, CtlInv, Fits
    <2> QED
      BY <1>1, <2>1, <2>2 DEF DeploymentInv
  <1>6. CASE StartFinalizationRecovery
    <2>1. /\ context \in Served /\ context \in Targets \cup {None}
          /\ record \in Targets \cup {None}
      BY <1>6 DEF StartFinalizationRecovery, DeploymentInv, FilesInv, Targets
    <2>2. ctl' \in Controllers /\ Fits(ctl', context')
      BY <1>6, <2>1, StartFits DEF StartFinalizationRecovery, Kinds
    <2>3. CtlInv'
      BY <1>1, <2>2 DEF CtlInv, Fits
    <2>4. FilesInv'
      BY <1>1, <1>6 DEF StartFinalizationRecovery, files, DeploymentInv, FilesInv, Results
    <2> QED
      BY <1>1, <2>3, <2>4 DEF DeploymentInv
  <1> QED
    BY <1>3, <1>4, <1>5, <1>6 DEF Commands

\* ECS, the migration task and the operator move on without the controller.
LEMMA OthersKeep ==
  ASSUME DeploymentInv, Provider \/ \E w \in Workloads : OperatorUpdate(w)
  PROVE  DeploymentInv'
  <1>0. migrated \subseteq Releases
    BY DEF DeploymentInv, FilesInv
  <1>1. CASE MigrationExits
    <2>1. /\ migrated \subseteq migrated' /\ migrated' \subseteq Releases
          /\ migrating' \subseteq Releases
          /\ UNCHANGED <<provider, ctl, files, last>>
      BY <1>1 DEF MigrationExits, DeploymentInv, FilesInv
    <2>2. EcsInv'
      BY <2>1, ServedGrows DEF DeploymentInv, provider
    <2>3. CtlInv'
      BY <2>1 DEF DeploymentInv, CtlInv, Fits, Served, files
    <2>4. FilesInv'
      BY <2>1 DEF DeploymentInv, FilesInv, Served, files
    <2> QED
      BY <2>2, <2>3, <2>4 DEF DeploymentInv
  <1>2. ASSUME EcsInv', UNCHANGED <<schema, ctl, files, last>>
        PROVE  DeploymentInv'
    BY <1>2 DEF DeploymentInv, CtlInv, FilesInv, Fits, Served, schema, files
  <1>3. ASSUME NEW w \in Workloads,
               \/ EcsRollOut(w) \/ EcsStopTask(w) \/ EcsForget(w)
               \/ EcsFail(w) \/ EcsApplyLate(w) \/ EcsDropLate(w)
        PROVE  DeploymentInv'
    <2>1. EcsInv'
      BY <1>0, <1>3, EcsKeeps DEF DeploymentInv
    <2>2. UNCHANGED <<schema, ctl, files, last>>
      BY <1>3 DEF EcsRollOut, EcsStopTask, EcsForget, EcsFail, EcsApplyLate, EcsDropLate
    <2> QED
      BY <1>2, <2>1, <2>2
  <1>4. ASSUME NEW w \in Workloads, OperatorUpdate(w)
        PROVE  DeploymentInv'
    <2>1. PICK td \in migrated : Apply(w, td) /\ room' \in [Workloads -> {1, 2}]
      BY <1>4 DEF OperatorUpdate, DeploymentInv, EcsInv
    <2>2. UNCHANGED <<schema, ctl, files, last>> /\ late' = late /\ migrated' = migrated
      BY <1>4 DEF OperatorUpdate, schema
    <2>3. EcsInv'
      BY <2>1, <2>2, CallKeeps DEF Served
    <2> QED
      BY <1>2, <2>2, <2>3
  <1> QED
    BY <1>1, <1>3, <1>4 DEF Provider

\* The services start out with one migrated, or the bootstrap, deployment each.
LEMMA DeploymentInit == Init => DeploymentInv
  <1> SUFFICES ASSUME Init PROVE DeploymentInv
    OBVIOUS
  <1>1. left.start \in {Boot, First} /\ First \in Releases
    BY DeploymentAssumption DEF Init
  <1>2. migrated \subseteq Releases /\ left.start \in Served
    BY <1>1 DEF Init, Served
  <1>3. EcsInv
    <2> DEFINE d(w) == Serving(left.start, IF w = "web" THEN 1 ELSE 2)
    <2>1. \A w \in Workloads :
            /\ ecs[w] = {d(w)} /\ d(w) \in Deployments
            /\ d(w).primary /\ d(w).td = left.start
      BY <1>1 DEF Init, Serving, Deployments, Desired, Targets
    <2> HIDE DEF d
    <2>2. \A w \in Workloads : IsFiniteSet(ecs[w])
      <3>1. \A x : IsFiniteSet({x})
        BY FS_Singleton
      <3> QED
        BY <2>1, <3>1
    <2>3. ecs \in [Workloads -> SUBSET Deployments]
      BY <2>1 DEF Init
    <2>4. MigratedBeforeServed
      BY <1>2, <2>1 DEF MigratedBeforeServed, Served
    <2>5. /\ late \in [Workloads -> Served \cup {None}] /\ lastId \in Nat
          /\ room \in [Workloads -> {1, 2}]
      BY DeploymentAssumption DEF Init
    <2> QED
      BY <2>1, <2>2, <2>3, <2>4, <2>5 DEF EcsInv
  <1>4. CtlInv
    BY IdleFits DEF Init, CtlInv
  <1>5. FilesInv
    BY <1>2 DEF Init, FilesInv, Results
  <1> QED
    BY <1>3, <1>4, <1>5 DEF DeploymentInv

\* DeploymentInv is inductive.
LEMMA DeploymentStep == DeploymentInv /\ [Next]_vars => DeploymentInv'
  <1> SUFFICES ASSUME DeploymentInv, [Next]_vars PROVE DeploymentInv'
    OBVIOUS
  <1>1. CASE UNCHANGED vars
    <2>1. UNCHANGED <<ecs, room, late, lastId, migrating, migrated, ctl, checkpoint, context,
                      record, eligible, last>>
      BY <1>1 DEF vars
    <2>2. EcsInv'
      BY <2>1, ServedGrows DEF DeploymentInv
    <2> QED
      BY <2>1, <2>2 DEF DeploymentInv, CtlInv, FilesInv, Fits, Served
  <1>2. CASE Provider \/ \E w \in Workloads : OperatorUpdate(w)
    BY <1>2, OthersKeep
  <1>3. CASE Commands
    BY <1>3, CommandsKeep
  <1>4. CASE Crash
    BY <1>4, EndKeeps DEF Crash, Results
  <1>5. CASE Controller
    BY <1>5, GateCheckWebKeeps, GateCheckWorkerKeeps, EarlyKeeps, MigrationKeeps, ForwardKeeps,
       RecordKeeps, RaiseKeeps, RecoveryKeeps, EndRecoveryKeeps, GateReadKeeps,
       ForwardUpdateKeeps, RestoreKeeps
    DEF Controller
  <1> QED
    BY <1>1, <1>2, <1>3, <1>4, <1>5 DEF Next

\* DeploymentInv holds throughout.
THEOREM DeploymentInvariant == Spec => []DeploymentInv
  BY DeploymentInit, DeploymentStep, PTL DEF Spec

\* Services, controller and files keep their types, for every number of
\* releases, commands and faults.
THEOREM DeploymentTypeCorrect == Spec => []DeploymentTypeOK
  <1>1. DeploymentInv => DeploymentTypeOK
    <2> SUFFICES ASSUME DeploymentInv PROVE DeploymentTypeOK
      OBVIOUS
    <2>1. late \in [Workloads -> Targets \cup {None}]
      BY ServedTargets DEF DeploymentInv, EcsInv
    <2> QED
      BY <2>1 DEF DeploymentInv, EcsInv, CtlInv, FilesInv, DeploymentTypeOK
  <1> QED
    BY <1>1, DeploymentInvariant, PTL

\* No service, in no failure, recovery, late call or operator's update, gets a
\* release before its migration exited 0.
THEOREM MigrationFirst == Spec => []MigratedBeforeServed
  <1>1. DeploymentInv => MigratedBeforeServed
    BY DEF DeploymentInv, EcsInv
  <1> QED
    BY <1>1, DeploymentInvariant, PTL

---------------------------------------------------------------------------
(* What the services look like while a command runs and when it is over.    *)

PrimaryOf(S) == CHOOSE d \in S : d.primary

\* All that the outcome of a command depends on: the PRIMARY deployment of each
\* service, and the services where nothing else runs.
Front == [w \in Workloads |-> PrimaryOf(ecs[w])]

Alone == {w \in Workloads : Settled(w)}

Runs(w, td) == Front[w].td = td /\ w \in Alone

\* Deployments have their ids to themselves and one of them is PRIMARY.
EcsShape ==
    \A w \in Workloads :
        /\ \A d, e \in ecs[w] : d.id = e.id \/ (d.primary /\ e.primary) => d = e
        /\ \A d \in ecs[w] : d.id <= lastId

Races == [when: {"never", "before", "during"}, id: Nat, td: Targets \cup {None},
          over: Targets \cup {None}]

\* The gate has compared the captured pair with the expected one.
Validated ==
    \/ ctl.stage \in Forward \cup Recovery
    \/ ctl.stage \in Gates /\ ctl.at \in {"check_web", "check_worker"}

\* Workload w has been captured.
Read(w) ==
    \/ ctl.stage \in Forward
    \/ ctl.stage \in Gates /\ ctl.at \in {"check_web", "check_worker"}
    \/ ctl.stage \in Gates /\ ctl.at = "worker" /\ w = "web"

\* Where the steps of a stage are, and what has been sent by then.
InOrder ==
    /\ ctl.stage \in Gates => ctl.at \in {"web", "worker", "check_web", "check_worker"}
    /\ ctl.stage = "web" => /\ ctl.at \in {"update", "receipt", "stable", "bind"}
                            /\ ctl.attempted["worker"].how = "no"
                            /\ ctl.at = "update" => ctl.attempted["web"].how = "no"
    /\ ctl.stage = "worker" => /\ ctl.at \in {"revalidate", "update", "receipt", "stable"}
                               /\ ctl.at \in {"revalidate", "update"}
                                    => ctl.attempted["worker"].how = "no"
    /\ ctl.stage = "prepare" => ctl.at \in {"web", "worker"}
    /\ ctl.stage = "proof" => ctl.at \in {"check_web", "check_worker"}

\* What the command knows of the pair it found: the checkpoint, the context and
\* the validated snapshot agree; no record is written before the end.
PriorKnown ==
    /\ ctl.stage # "idle" /\ ctl.kind # "finalize" => checkpoint = ctl.expected
    /\ ctl.stage # "idle" /\ ctl.kind = "finalize" => ctl.target = context
    /\ ctl.stage # "idle" /\ ctl.kind # "finalize" /\ ~ctl.cleanup_failed => record = None
    /\ ctl.stage \in Forward \cup Recovery /\ ctl.kind # "finalize" => context = ctl.expected
    /\ Validated => \A w \in Workloads : ctl.snap[w].td = ctl.expected

\* Calls are lost only by entering recovery or in it, and recovery remembers.
NothingLate ==
    /\ ctl.stage \notin {"idle"} \cup Recovery => \A w \in Workloads : late[w] = None
    /\ last = "released" => \A w \in Workloads : late[w] = None

\* Until its update is sent, a workload that nobody raced is the captured one.
Unmoved ==
    /\ ctl.stage = "pre_update" /\ ctl.at = "check_worker" /\ raced["web"].when # "during"
        => Front["web"].td = ctl.expected
    /\ \A w \in Workloads :
        /\ ctl.stage \in Forward /\ ctl.attempted[w].how = "no" /\ raced[w].when # "during"
            => Front[w].td = ctl.expected
        /\ Read(w) /\ ctl.attempted[w].how = "no" /\ raced[w].when = "never"
            => Front[w].id = ctl.snap[w].id

\* What has been proven stable stays so.
Advanced ==
    /\ raced["web"].when # "during"
       /\ (ctl.stage \in {"worker", "smoke", "terminal", "record"}
           \/ (ctl.stage = "web" /\ ctl.at = "bind"))
        => Runs("web", ctl.target)
    /\ raced["worker"].when # "during" /\ ctl.stage \in {"smoke", "terminal", "record"}
        => Runs("worker", ctl.target)

\* In a recovery without an error so far no call is outstanding, but for one
\* that has yet to be looked for and has certainly not been applied.
Recovering ==
    \A w \in Workloads :
        ctl.stage \in Recovery /\ ~ctl.errors /\ raced[w].when = "never" =>
            /\ \/ late[w] = None
               \/ /\ ctl.stage = "prepare" /\ (ctl.at = "worker" => w = "worker")
                  /\ ctl.attempted[w].how = "sent"
                  /\ Front[w].id = ctl.snap[w].id
            /\ ctl.stage = "public" \/ (ctl.stage = "proof" /\ ctl.at = "check_worker" /\ w = "web")
                => Runs(w, RestoreTarget(w))

\* An operator's release that is not the expected one stops the command.
OperatorStops ==
    \A w \in Workloads :
        /\ ctl.stage # "idle" /\ raced[w].when # "never" => raced[w].over = ctl.expected
        /\ raced[w].when = "before" /\ raced[w].td # raced[w].over =>
            /\ late[w] = None
            /\ Front[w].id = raced[w].id /\ Front[w].td = raced[w].td
            /\ ctl.stage # "idle" => BeforeGate(w)

\* Nothing is replaced before the forward stages.
ReplacedForward ==
    ctl.stage # "idle" /\ ctl.kind # "finalize" /\ ctl.stage \notin Forward \cup Recovery
        => \A w \in Workloads : replaced[w] = None

\* The results of a command that nobody raced.
Released ==
    last \in {"released", "finalized"} /\ ctl = Idle /\ Undisturbed
        => record # None /\ \A w \in Workloads : late[w] = None /\ Runs(w, record)

Compensated ==
    last \in {"compensated", "restored"} /\ ctl = Idle /\ Unraced
        => /\ record = None /\ context # None
           /\ \A w \in Workloads : late[w] = None /\ Runs(w, context)

\* The inductive invariant of the properties about a command's outcome.
OutcomeInv ==
    /\ EcsShape
    /\ raced \in [Workloads -> Races] /\ replaced \in [Workloads -> Targets \cup {None}]
    /\ InOrder /\ PriorKnown /\ NothingLate /\ Unmoved /\ Advanced /\ Recovering /\ OperatorStops
    /\ ReplacedForward /\ RecoveryFilesNamePrior
    /\ Released /\ Compensated

---------------------------------------------------------------------------
\* The PRIMARY deployment is the one marked so.
LEMMA PrimaryIs ==
  ASSUME EcsInv, EcsShape, NEW w \in Workloads
  PROVE  /\ Primary(w) \in ecs[w] /\ Primary(w).primary
         /\ \A d \in ecs[w] : d.primary \/ d.id = Primary(w).id => d = Primary(w)
  <1>1. Primary(w) \in ecs[w] /\ Primary(w).primary
    BY DEF EcsInv, Primary
  <1> QED
    BY <1>1 DEF EcsShape

\* Front and Alone are what the gateway reads off.
LEMMA FrontIs ==
  \A w \in Workloads : Front[w] = Primary(w) /\ (w \in Alone <=> Settled(w))
  BY DEF Front, PrimaryOf, Primary, Alone

\* What the controller has proven terminal serves alone.
LEMMA ProvenServes ==
  ASSUME EcsInv, EcsShape, NEW w \in Workloads, NEW td, NEW id, NEW predecessors,
         ProvenTerminal(w, td, id, predecessors)
  PROVE  Runs(w, td)
  <1>1. Settled(w) /\ Primary(w).td = td
    BY PrimaryIs DEF ProvenTerminal, Settled, Others, ZeroWork
  <1> QED
    BY <1>1, FrontIs DEF Runs

\* A service nobody touches looks the same.
LEMMA SameServices ==
  ASSUME NEW W \in SUBSET Workloads, \A v \in W : ecs'[v] = ecs[v]
  PROVE  \A v \in W : Front'[v] = Front[v] /\ (v \in Alone' <=> v \in Alone)
  <1> SUFFICES ASSUME NEW v \in W PROVE Front'[v] = Front[v] /\ (v \in Alone' <=> v \in Alone)
    OBVIOUS
  <1>1. v \in Workloads /\ ecs'[v] = ecs[v]
    OBVIOUS
  <1>2. Front'[v] = Front[v]
    BY <1>1 DEF Front
  <1>3. Settled(v)' <=> Settled(v)
    BY <1>1 DEF Settled, Captured, Primary
  <1>4. (v \in Alone' <=> Settled(v)') /\ (v \in Alone <=> Settled(v))
    BY <1>1 DEF Alone
  <1> QED
    BY <1>2, <1>3, <1>4

\* An update makes a new PRIMARY, whose id nothing had before.
LEMMA ApplyView ==
  ASSUME EcsInv, EcsShape, NEW w \in Workloads, NEW td, Apply(w, td)
  PROVE  /\ EcsShape'
         /\ Front'[w].id = lastId + 1 /\ Front'[w].td = td
         /\ \A v \in Workloads \ {w} : Front'[v] = Front[v] /\ (v \in Alone' <=> v \in Alone)
  <1> DEFINE new == [id |-> lastId + 1, td |-> td, run |-> 0,
                     state |-> "IN_PROGRESS", primary |-> TRUE]
  <1>1. ecs' = [ecs EXCEPT ![w] = Demoted(ecs[w]) \cup {new}] /\ lastId' = lastId + 1
    BY DEF Apply, Updated, Demoted
  <1>2. /\ ecs'[w] = Demoted(ecs[w]) \cup {new}
        /\ \A v \in Workloads \ {w} : ecs'[v] = ecs[v]
    BY <1>1 DEF EcsInv
  <1>3. \A d \in Demoted(ecs[w]) :
            ~d.primary /\ \E e \in ecs[w] : d = [e EXCEPT !.primary = FALSE] /\ d.id = e.id
    <2> SUFFICES ASSUME NEW e \in ecs[w]
                 PROVE  LET d == [e EXCEPT !.primary = FALSE] IN ~d.primary /\ d.id = e.id
      BY DEF Demoted
    <2>1. e \in Deployments
      BY DEF EcsInv
    <2> QED
      BY <2>1 DEF Deployments
  <1>4. new.primary /\ new.id = lastId + 1 /\ new.td = td
    OBVIOUS
  <1> HIDE DEF new
  <1>5. \A d \in ecs'[w] : d.primary => d = new
    BY <1>2, <1>3
  <1>6. Front'[w] = new
    BY <1>2, <1>4, <1>5 DEF Front, PrimaryOf
  <1>7. ASSUME NEW d \in ecs'[w], NEW e \in ecs'[w], d.id = e.id \/ (d.primary /\ e.primary)
        PROVE  d = e
    <2>1. \A x \in ecs[w] : x.id <= lastId /\ x.id \in Nat /\ lastId \in Nat
      BY DEF EcsShape, EcsInv, Deployments
    <2>2. CASE d = new \/ e = new
      BY <1>2, <1>3, <1>4, <1>5, <1>7, <2>1, <2>2
    <2>3. CASE d # new /\ e # new
      <3>1. PICK x \in ecs[w], y \in ecs[w] :
                /\ d = [x EXCEPT !.primary = FALSE] /\ d.id = x.id
                /\ e = [y EXCEPT !.primary = FALSE] /\ e.id = y.id
        BY <1>2, <1>3, <2>3
      <3>2. d.id = e.id
        BY <1>5, <1>7, <2>3
      <3>3. x = y
        BY <3>1, <3>2 DEF EcsShape
      <3> QED
        BY <3>1, <3>3
    <2> QED
      BY <2>2, <2>3
  <1>8. \A d \in ecs'[w] : d.id <= lastId'
    <2>1. \A x \in ecs[w] : x.id <= lastId /\ x.id \in Nat /\ lastId \in Nat
      BY DEF EcsShape, EcsInv, Deployments
    <2>2. lastId \in Nat
      BY DEF EcsInv
    <2> QED
      BY <1>1, <1>2, <1>3, <1>4, <2>1, <2>2
  <1>9. ASSUME NEW v \in Workloads \ {w}, NEW d \in ecs[v] PROVE d.id <= lastId'
    <2>1. d.id <= lastId /\ d.id \in Nat /\ lastId \in Nat
      BY DEF EcsShape, EcsInv, Deployments
    <2> QED
      BY <1>1, <2>1
  <1>10. EcsShape'
    BY <1>2, <1>7, <1>8, <1>9 DEF EcsShape
  <1> QED
    BY <1>2, <1>4, <1>6, <1>10, SameServices

\* What ECS does by itself leaves the PRIMARY in place and a service that serves
\* alone as it is.
LEMMA QuietView ==
  ASSUME EcsInv, EcsShape, NEW w \in Workloads,
         EcsRollOut(w) \/ EcsStopTask(w) \/ EcsForget(w) \/ EcsFail(w)
  PROVE  /\ EcsShape'
         /\ \A v \in Workloads : /\ Front'[v].id = Front[v].id /\ Front'[v].td = Front[v].td
                                 /\ v \in Alone => v \in Alone'
  <1>0. lastId' = lastId /\ ecs[w] \subseteq Deployments
    BY DEF EcsInv, EcsRollOut, EcsStopTask, EcsForget, EcsFail
  <1>1. ASSUME NEW d \in ecs[w], NEW e, Replace(w, d, e),
               e.id = d.id, e.td = d.td, e.primary = d.primary,
               d.primary => ~Captured(w), ~d.primary => d.run = 1
        PROVE  /\ EcsShape'
               /\ \A v \in Workloads : /\ Front'[v].id = Front[v].id /\ Front'[v].td = Front[v].td
                                       /\ v \in Alone => v \in Alone'
    <2>1. /\ ecs'[w] = (ecs[w] \ {d}) \cup {e}
          /\ \A v \in Workloads \ {w} : ecs'[v] = ecs[v]
      BY <1>1 DEF Replace, EcsInv
    <2>2. EcsShape'
      BY <1>0, <1>1, <2>1 DEF EcsShape
    <2>3. Front'[w] = IF d.primary THEN e ELSE Primary(w)
      <3>1. \A x \in ecs'[w] : x.primary => x = IF d.primary THEN e ELSE Primary(w)
        BY <1>1, <2>1, PrimaryIs
      <3>2. \E x \in ecs'[w] : x.primary
        BY <1>1, <2>1, PrimaryIs
      <3> QED
        BY <3>1, <3>2 DEF Front, PrimaryOf
    <2>4. (d.primary => d = Primary(w)) /\ Front[w] = Primary(w)
      BY PrimaryIs, FrontIs
    <2>5. w \notin Alone
      BY <1>1, FrontIs DEF Settled
    <2> QED
      BY <1>1, <2>1, <2>2, <2>3, <2>4, <2>5, SameServices
  <1>2. CASE EcsRollOut(w)
    <2>1. PICK d \in ecs[w] :
            /\ d.primary /\ d.state = "IN_PROGRESS"
            /\ Replace(w, d, [d EXCEPT !.run = Desired(d.td), !.state = "COMPLETED"])
      BY <1>2 DEF EcsRollOut
    <2> DEFINE e == [d EXCEPT !.run = Desired(d.td), !.state = "COMPLETED"]
    <2>2. e.id = d.id /\ e.td = d.td /\ e.primary = d.primary /\ Replace(w, d, e)
      BY <1>0, <2>1 DEF Deployments
    <2>3. ~Captured(w)
      BY <2>1, PrimaryIs DEF Captured
    <2> HIDE DEF e
    <2> QED
      BY <1>1, <2>1, <2>2, <2>3
  <1>3. CASE EcsStopTask(w)
    <2>1. PICK d \in ecs[w] : ~d.primary /\ d.run = 1 /\ Replace(w, d, [d EXCEPT !.run = 0])
      BY <1>3 DEF EcsStopTask
    <2> DEFINE e == [d EXCEPT !.run = 0]
    <2>2. e.id = d.id /\ e.td = d.td /\ e.primary = d.primary /\ Replace(w, d, e)
      BY <1>0, <2>1 DEF Deployments
    <2> HIDE DEF e
    <2> QED
      BY <1>1, <2>1, <2>2
  <1>4. CASE EcsForget(w)
    <2>1. PICK d \in ecs[w] : ~d.primary /\ ecs' = [ecs EXCEPT ![w] = @ \ {d}]
      BY <1>4 DEF EcsForget
    <2>2. /\ ecs'[w] = ecs[w] \ {d}
          /\ \A v \in Workloads \ {w} : ecs'[v] = ecs[v]
      BY <2>1 DEF EcsInv
    <2>3. EcsShape'
      BY <1>0, <2>2 DEF EcsShape
    <2>4. Primary(w)' = Primary(w)
      <3>1. \A x \in ecs'[w] : x.primary => x = Primary(w)
        BY <2>2, PrimaryIs
      <3>2. Primary(w) \in ecs'[w] /\ Primary(w).primary
        BY <2>1, <2>2, PrimaryIs
      <3> QED
        BY <3>1, <3>2 DEF Primary
    <2>5. Front'[w] = Front[w]
      BY <2>4 DEF Front, PrimaryOf, Primary
    <2>6. Settled(w) => Settled(w)'
      BY <2>2, <2>4 DEF Settled, Captured
    <2>7. (w \in Alone' <=> Settled(w)') /\ (w \in Alone <=> Settled(w))
      BY DEF Alone
    <2> QED
      BY <2>2, <2>3, <2>5, <2>6, <2>7, SameServices
  <1>5. CASE EcsFail(w)
    <2>1. PICK d \in ecs[w] :
            d.primary /\ d.state = "IN_PROGRESS" /\ Replace(w, d, [d EXCEPT !.state = "FAILED"])
      BY <1>5 DEF EcsFail
    <2> DEFINE e == [d EXCEPT !.state = "FAILED"]
    <2>2. e.id = d.id /\ e.td = d.td /\ e.primary = d.primary /\ Replace(w, d, e)
      BY <1>0, <2>1 DEF Deployments
    <2>3. ~Captured(w)
      BY <2>1, PrimaryIs DEF Captured
    <2> HIDE DEF e
    <2> QED
      BY <1>1, <2>1, <2>2, <2>3
  <1> QED
    BY <1>2, <1>3, <1>4, <1>5

---------------------------------------------------------------------------
\* The invariant only depends on the PRIMARY deployments and on which services
\* serve alone, so what ECS does by itself keeps it.
LEMMA QuietOutcome ==
  ASSUME OutcomeInv, EcsShape', UNCHANGED <<late, ctl, files, last, history>>,
         \A w \in Workloads : /\ Front'[w].id = Front[w].id /\ Front'[w].td = Front[w].td
                              /\ w \in Alone => w \in Alone'
  PROVE  OutcomeInv'
  <1>1. /\ late' = late /\ ctl' = ctl /\ last' = last /\ raced' = raced /\ replaced' = replaced
        /\ checkpoint' = checkpoint /\ context' = context /\ record' = record
    BY DEF files, history
  <1>2. (InOrder /\ PriorKnown /\ NothingLate /\ ReplacedForward /\ RecoveryFilesNamePrior)'
    BY <1>1 DEF OutcomeInv, InOrder, PriorKnown, Validated, NothingLate, ReplacedForward,
                RecoveryFilesNamePrior
  <1>3. Unmoved' /\ OperatorStops'
    BY <1>1 DEF OutcomeInv, Unmoved, Read, OperatorStops, BeforeGate, LastGate
  <1>4. Advanced' /\ Recovering'
    BY <1>1 DEF OutcomeInv, Advanced, Recovering, Runs, RestoreTarget
  <1>5. Released' /\ Compensated'
    BY <1>1 DEF OutcomeInv, Released, Compensated, Runs, Undisturbed, Unraced
  <1> QED
    BY <1>1, <1>2, <1>3, <1>4, <1>5 DEF OutcomeInv

\* The services look the same when ECS does nothing.
LEMMA SameView ==
  ASSUME EcsShape, ecs' = ecs, lastId' = lastId
  PROVE  /\ EcsShape'
         /\ \A w \in Workloads :
                Front'[w] = Front[w] /\ (w \in Alone' <=> w \in Alone)
  <1>1. EcsShape'
    BY DEF EcsShape
  <1> QED
    BY <1>1, SameServices

\* A command that ends without a result leaves the services to whoever looks next.
LEMMA EndOutcome ==
  ASSUME OutcomeInv, ctl' = Idle, UNCHANGED <<provider, checkpoint, context, history>>,
         last' \notin {"released", "finalized", "compensated", "restored"}
  PROVE  OutcomeInv'
  <1>1. /\ ecs' = ecs /\ lastId' = lastId /\ late' = late /\ raced' = raced
        /\ replaced' = replaced /\ ctl'.stage = "idle"
    BY IdleStage DEF provider, history
  <1>2. EcsShape' /\ \A w \in Workloads : Front'[w] = Front[w]
    BY <1>1, SameView DEF OutcomeInv
  <1>3. (InOrder /\ PriorKnown /\ NothingLate /\ Unmoved /\ Advanced /\ Recovering
         /\ ReplacedForward)'
    BY <1>1 DEF InOrder, PriorKnown, Validated, NothingLate, Unmoved, Read, Advanced, Recovering,
                ReplacedForward, Gates, Forward, Recovery
  <1>4. OperatorStops' /\ RecoveryFilesNamePrior'
    BY <1>1, <1>2 DEF OutcomeInv, OperatorStops, RecoveryFilesNamePrior
  <1>5. Released' /\ Compensated'
    BY DEF Released, Compensated
  <1> QED
    BY <1>1, <1>2, <1>3, <1>4, <1>5 DEF OutcomeInv

\* An update of one service by ECS, late or by the operator, and what it may
\* disturb: the claims about that service.
LEMMA LateOutcome ==
  ASSUME DeploymentInv, OutcomeInv, NEW w \in Workloads, EcsApplyLate(w) \/ EcsDropLate(w)
  PROVE  OutcomeInv'
  <1>1. /\ late[w] # None /\ late' = [late EXCEPT ![w] = None]
        /\ ctl' = ctl /\ last' = last /\ raced' = raced /\ replaced' = replaced
        /\ checkpoint' = checkpoint /\ context' = context /\ record' = record
    BY DEF EcsApplyLate, EcsDropLate, files, history
  <1>2. /\ late'[w] = None
        /\ \A v \in Workloads \ {w} : late'[v] = late[v]
    BY <1>1 DEF DeploymentInv, EcsInv
  <1>3. /\ EcsShape'
        /\ \A v \in Workloads \ {w} :
                Front'[v] = Front[v] /\ (v \in Alone' <=> v \in Alone)
    <2>1. CASE EcsApplyLate(w)
      BY <2>1, ApplyView DEF EcsApplyLate, DeploymentInv, OutcomeInv
    <2>2. CASE EcsDropLate(w)
      BY <2>2, SameView DEF EcsDropLate, OutcomeInv
    <2> QED
      BY <2>1, <2>2
  <1>4. ctl.stage \in {"idle"} \cup Recovery /\ last # "released"
    BY <1>1 DEF OutcomeInv, NothingLate
  <1>5. (InOrder /\ PriorKnown /\ NothingLate /\ ReplacedForward /\ RecoveryFilesNamePrior)'
    BY <1>1, <1>2 DEF OutcomeInv, InOrder, PriorKnown, Validated, NothingLate, ReplacedForward,
                RecoveryFilesNamePrior
  <1>6. Unmoved' /\ Advanced'
    BY <1>1, <1>4 DEF Unmoved, Read, Advanced, Gates, Forward, Recovery
  <1>7. OperatorStops'
    BY <1>1, <1>2, <1>3 DEF OutcomeInv, OperatorStops, BeforeGate, LastGate
  <1>8. Recovering'
    BY <1>1, <1>2, <1>3 DEF OutcomeInv, Recovering, Runs, RestoreTarget
  <1>9. Released' /\ Compensated'
    BY <1>1 DEF OutcomeInv, Released, Compensated, Runs, Undisturbed, Unraced
  <1> QED
    BY <1>1, <1>3, <1>5, <1>6, <1>7, <1>8, <1>9 DEF OutcomeInv

\* An operator's update is remembered, with what was proven by then.
LEMMA OperatorOutcome ==
  ASSUME DeploymentInv, OutcomeInv, NEW w \in Workloads, OperatorUpdate(w)
  PROVE  OutcomeInv'
  <1>1. PICK td \in migrated :
            /\ Apply(w, td)
            /\ raced' = [raced EXCEPT ![w] =
                            [when |-> IF BeforeGate(w) THEN "before" ELSE "during",
                             id |-> lastId + 1, td |-> td, over |-> ctl.expected]]
    BY DEF OperatorUpdate
  <1>2. /\ ctl.stage # "idle" /\ ctl' = ctl /\ last' = last /\ late' = late
        /\ replaced' = replaced
        /\ checkpoint' = checkpoint /\ context' = context /\ record' = record
    BY DEF OperatorUpdate, files
  <1>3. /\ EcsShape'
        /\ Front'[w].id = lastId + 1 /\ Front'[w].td = td
        /\ \A v \in Workloads \ {w} :
                Front'[v] = Front[v] /\ (v \in Alone' <=> v \in Alone)
    BY <1>1, ApplyView DEF DeploymentInv, OutcomeInv
  <1>4. /\ raced'[w].when = IF BeforeGate(w) THEN "before" ELSE "during"
        /\ raced'[w].id = lastId + 1 /\ raced'[w].td = td /\ raced'[w].over = ctl.expected
        /\ raced'[w] \in Races
        /\ \A v \in Workloads \ {w} : raced'[v] = raced[v]
        /\ raced' \in [Workloads -> Races]
    <2>1. [when |-> IF BeforeGate(w) THEN "before" ELSE "during",
           id |-> lastId + 1, td |-> td, over |-> ctl.expected] \in Races
      BY DEF Races, DeploymentInv, EcsInv, FilesInv, CtlInv, Controllers, Targets
    <2> QED
      BY <1>1, <2>1 DEF OutcomeInv
  <1>5. /\ BeforeGate(w) => ctl.stage \notin Forward \cup Recovery
        /\ ctl.stage = "pre_update" /\ ctl.at = "check_worker" /\ w = "web" => ~BeforeGate(w)
        /\ ctl # Idle
    BY <1>2, IdleStage DEF BeforeGate, LastGate, Forward, Recovery, DeploymentInv, CtlInv, Fits
  <1>6. (InOrder /\ PriorKnown /\ NothingLate /\ ReplacedForward /\ RecoveryFilesNamePrior)'
    BY <1>2 DEF OutcomeInv, InOrder, PriorKnown, Validated, NothingLate, ReplacedForward,
                RecoveryFilesNamePrior
  <1>7. Unmoved'
    BY <1>2, <1>3, <1>4, <1>5 DEF OutcomeInv, Unmoved, Read
  <1>8. Advanced' /\ Recovering'
    BY <1>2, <1>3, <1>4, <1>5 DEF OutcomeInv, Advanced, Recovering, Runs, RestoreTarget, Forward
  <1>9. OperatorStops'
    <2>1. BeforeGate(w) => late[w] = None
      BY <1>2, <1>5 DEF BeforeGate, LastGate, OutcomeInv, NothingLate, Recovery
    <2>2. \A v \in Workloads : BeforeGate(v)' <=> BeforeGate(v)
      BY <1>2 DEF BeforeGate, LastGate
    <2> QED
      BY <1>2, <1>3, <1>4, <2>1, <2>2 DEF OutcomeInv, OperatorStops
  <1>10. Released' /\ Compensated'
    BY <1>2, <1>5 DEF Released, Compensated
  <1> QED
    BY <1>2, <1>3, <1>4, <1>6, <1>7, <1>8, <1>9, <1>10 DEF OutcomeInv

---------------------------------------------------------------------------
\* Before the first update the controller only looks: nothing is sent, and the
\* claims to keep are those about what it has read so far.
LEMMA LookOutcome ==
  ASSUME DeploymentInv, OutcomeInv, UNCHANGED <<provider, files, last, history>>,
         ctl.stage \notin {"idle"} \cup Forward \cup Recovery,
         ctl'.stage \notin {"idle"} \cup Forward \cup Recovery,
         ctl'.kind = ctl.kind, ctl'.target = ctl.target, ctl'.expected = ctl.expected,
         ctl'.cleanup_failed = ctl.cleanup_failed,
         ctl'.stage \in Gates => ctl'.at \in {"web", "worker", "check_web", "check_worker"},
         Validated' => \A w \in Workloads : ctl'.snap[w].td = ctl.expected,
         \A w \in Workloads :
            Read(w)' /\ raced[w].when = "never" => Front[w].id = ctl'.snap[w].id,
         ctl'.stage = "pre_update" /\ ctl'.at = "check_worker" /\ raced["web"].when # "during"
            => Front["web"].td = ctl.expected,
         \A w \in Workloads : BeforeGate(w) /\ Front[w].td # ctl.expected => BeforeGate(w)'
  PROVE  OutcomeInv'
  <1>1. /\ ecs' = ecs /\ lastId' = lastId /\ late' = late /\ raced' = raced
        /\ replaced' = replaced /\ last' = last
        /\ checkpoint' = checkpoint /\ context' = context /\ record' = record
    BY DEF provider, history, files
  <1>2. /\ EcsShape'
        /\ \A w \in Workloads : Front'[w] = Front[w] /\ (w \in Alone' <=> w \in Alone)
    BY <1>1, SameView DEF OutcomeInv
  <1>3. ctl'.stage # "idle" /\ ctl' # Idle
    BY IdleStage
  <1>4. InOrder' /\ PriorKnown' /\ ReplacedForward' /\ RecoveryFilesNamePrior'
    BY <1>1, <1>3 DEF OutcomeInv, InOrder, PriorKnown, ReplacedForward, RecoveryFilesNamePrior,
                      Forward, Recovery
  <1>5. NothingLate'
    BY <1>1 DEF OutcomeInv, NothingLate
  <1>6. Unmoved' /\ Advanced' /\ Recovering'
    BY <1>1, <1>2, <1>3 DEF Unmoved, Advanced, Recovering, Forward
  <1>7. OperatorStops'
    BY <1>1, <1>2, <1>3 DEF OutcomeInv, OperatorStops
  <1>8. Released' /\ Compensated'
    BY <1>3 DEF Released, Compensated
  <1> QED
    BY <1>1, <1>2, <1>4, <1>5, <1>6, <1>7, <1>8 DEF OutcomeInv

\* Capturing a service, and comparing the pair once both are.
LEMMA GateReadOutcome ==
  ASSUME DeploymentInv, OutcomeInv, NEW w \in Workloads, GateRead(w)
  PROVE  OutcomeInv'
  <1> DEFINE snap == [ctl.snap EXCEPT ![w] = [td |-> Primary(w).td, id |-> Primary(w).id]]
  <1>1. /\ ctl \in Controllers /\ ctl.stage \in Gates /\ ctl.at = w
        /\ w = "worker" => ValidPrior(snap)
        /\ ctl' = IF w = "web" THEN [ctl EXCEPT !.snap = snap, !.at = "worker"]
                  ELSE IF ctl.kind = "rollback" /\ ctl.stage = "prior"
                  THEN [ctl EXCEPT !.snap = snap, !.stage = "pre_update", !.at = "web"]
                  ELSE [ctl EXCEPT !.snap = snap, !.at = "check_web"]
    BY DEF GateRead, DeploymentInv, CtlInv
  <1>2. /\ snap[w].id = Front[w].id
        /\ \A v \in Workloads \ {w} : snap[v] = ctl.snap[v]
    BY <1>1, FrontIs DEF Controllers
  <1>3. UNCHANGED <<provider, files, last, history>>
    BY DEF GateRead
  <1> HIDE DEF snap
  <1>4. /\ ctl'.kind = ctl.kind /\ ctl'.target = ctl.target /\ ctl'.expected = ctl.expected
        /\ ctl'.cleanup_failed = ctl.cleanup_failed /\ ctl'.attempted = ctl.attempted
        /\ ctl'.snap = snap
        /\ \/ w = "web" /\ ctl'.stage = ctl.stage /\ ctl'.at = "worker"
           \/ /\ w = "worker" /\ ctl.stage = "prior" /\ ctl.kind = "rollback"
              /\ ctl'.stage = "pre_update" /\ ctl'.at = "web"
           \/ w = "worker" /\ ctl'.stage = ctl.stage /\ ctl'.at = "check_web"
    BY <1>1 DEF Controllers
  <1>5. \A v \in Workloads : ctl.attempted[v].how = "no"
    BY <1>1 DEF DeploymentInv, CtlInv, Fits, Gates, Forward, Recovery
  <1>6. Validated' => \A v \in Workloads : ctl'.snap[v].td = ctl.expected
    BY <1>1, <1>4 DEF Validated, ValidPrior, Gates, Forward, Recovery
  <1>7. \A v \in Workloads :
            Read(v)' /\ raced[v].when = "never" => Front[v].id = ctl'.snap[v].id
    BY <1>1, <1>2, <1>4, <1>5 DEF Read, Gates, Forward, OutcomeInv, Unmoved
  <1>8. \A v \in Workloads : BeforeGate(v) => BeforeGate(v)'
    BY <1>1, <1>4 DEF BeforeGate, LastGate, Gates
  <1>9. ctl.stage \notin {"idle"} \cup Forward \cup Recovery
        /\ ctl'.stage \notin {"idle"} \cup Forward \cup Recovery
        /\ ctl'.at \in {"web", "worker", "check_web"}
    BY <1>1, <1>4 DEF Gates, Forward, Recovery
  <1> QED
    BY <1>3, <1>4, <1>6, <1>7, <1>8, <1>9, LookOutcome

\* The second look at web: what it proves is the expected release.
LEMMA GateCheckWebOutcome ==
  ASSUME DeploymentInv, OutcomeInv, GateCheckWeb
  PROVE  OutcomeInv'
  <1>1. /\ ctl \in Controllers /\ ctl.stage \in Gates /\ ctl.at = "check_web"
        /\ Primary("web").td = ctl.snap["web"].td
        /\ ctl' = [ctl EXCEPT !.at = "check_worker"]
        /\ UNCHANGED <<provider, files, last, history>>
    BY DEF GateCheckWeb, ProvenTerminal, DeploymentInv, CtlInv
  <1>2. Front["web"].td = ctl.expected
    BY <1>1, FrontIs DEF OutcomeInv, PriorKnown, Validated
  <1>3. /\ ctl'.kind = ctl.kind /\ ctl'.target = ctl.target /\ ctl'.expected = ctl.expected
        /\ ctl'.cleanup_failed = ctl.cleanup_failed /\ ctl'.snap = ctl.snap
        /\ ctl'.stage = ctl.stage /\ ctl'.at = "check_worker"
    BY <1>1 DEF Controllers
  <1>4. \A v \in Workloads : ctl.attempted[v].how = "no"
    BY <1>1 DEF DeploymentInv, CtlInv, Fits, Gates, Forward, Recovery
  <1>5. Validated' => \A v \in Workloads : ctl'.snap[v].td = ctl.expected
    BY <1>1, <1>3 DEF Validated, OutcomeInv, PriorKnown
  <1>6. \A v \in Workloads :
            Read(v)' /\ raced[v].when = "never" => Front[v].id = ctl'.snap[v].id
    BY <1>1, <1>3, <1>4 DEF Read, OutcomeInv, Unmoved
  <1>7. \A v \in Workloads : BeforeGate(v) /\ Front[v].td # ctl.expected => BeforeGate(v)'
    BY <1>1, <1>2, <1>3 DEF BeforeGate, LastGate
  <1>8. ctl.stage \notin {"idle"} \cup Forward \cup Recovery
    BY <1>1 DEF Gates, Forward, Recovery
  <1> QED
    BY <1>1, <1>2, <1>3, <1>5, <1>6, <1>7, <1>8, LookOutcome

\* The stages between the gates.
LEMMA EarlyOutcome ==
  ASSUME DeploymentInv, OutcomeInv, Register \/ LaunchMigration \/ MigrationPassed
  PROVE  OutcomeInv'
  <1>1. ctl \in Controllers /\ Fits(ctl, context) /\ UNCHANGED <<provider, files, last, history>>
    BY DEF DeploymentInv, CtlInv, Register, LaunchMigration, MigrationPassed
  <1>2. /\ ctl'.kind = ctl.kind /\ ctl'.target = ctl.target /\ ctl'.expected = ctl.expected
        /\ ctl'.cleanup_failed = ctl.cleanup_failed /\ ctl'.snap = ctl.snap
        /\ ctl.stage \in {"register", "migrate", "migrating"}
        /\ \/ ctl'.stage \in {"pre_migration", "pre_update"} /\ ctl'.at = "web"
           \/ ctl'.stage = "migrating"
    BY <1>1 DEF Controllers, Register, LaunchMigration, MigrationPassed
  <1>3. \A v \in Workloads : BeforeGate(v)'
    <2>1. ctl.kind # "finalize"
      BY <1>1, <1>2 DEF Fits, Recovery
    <2> QED
      BY <1>2, <2>1 DEF BeforeGate, LastGate
  <1>4. ~Validated' /\ \A v \in Workloads : ~Read(v)'
    BY <1>2 DEF Validated, Read, Gates, Forward, Recovery
  <1>5. ctl.stage \notin {"idle"} \cup Forward \cup Recovery
        /\ ctl'.stage \notin {"idle"} \cup Forward \cup Recovery
    BY <1>2 DEF Forward, Recovery
  <1>6. ctl'.stage \in Gates => ctl'.at = "web"
    BY <1>2 DEF Gates
  <1>7. ~(ctl'.stage = "pre_update" /\ ctl'.at = "check_worker")
    BY <1>2
  <1> QED
    BY <1>1, <1>2, <1>3, <1>4, <1>5, <1>6, <1>7, LookOutcome

\* A gate that passes goes on with the next stage, or has shown the pair that the
\* first update, or recovery, finds.
LEMMA GateCheckWorkerOutcome ==
  ASSUME DeploymentInv, OutcomeInv, GateCheckWorker
  PROVE  OutcomeInv'
  <1>1. /\ ctl \in Controllers /\ Fits(ctl, context)
        /\ ctl.stage \in Gates /\ ctl.at = "check_worker"
        /\ Primary("worker").td = ctl.snap["worker"].td
        /\ UNCHANGED <<provider, history>> /\ last' = last
        /\ checkpoint' = checkpoint /\ record' = record
    BY DEF GateCheckWorker, ProvenTerminal, DeploymentInv, CtlInv
  <1>2. /\ \A w \in Workloads : ctl.snap[w].td = ctl.expected
        /\ Front["worker"].td = ctl.expected
    BY <1>1, FrontIs DEF OutcomeInv, PriorKnown, Validated
  <1>3. \A v \in Workloads : ctl.attempted[v].how = "no"
    BY <1>1 DEF Fits, Gates, Forward, Recovery
  <1>4. CASE ctl.kind # "finalize" /\ ctl.stage # "pre_update"
    <2>1. /\ ctl' = [ctl EXCEPT !.stage = IF ctl.stage = "prior" THEN "register" ELSE "migrate",
                                !.at = ""]
          /\ context' = context
      BY <1>1, <1>4 DEF GateCheckWorker, Gates
    <2>2. /\ ctl'.kind = ctl.kind /\ ctl'.target = ctl.target /\ ctl'.expected = ctl.expected
          /\ ctl'.cleanup_failed = ctl.cleanup_failed /\ ctl'.stage \in {"register", "migrate"}
      BY <1>1, <2>1 DEF Controllers
    <2>3. \A v \in Workloads : BeforeGate(v)'
      BY <1>4, <2>2 DEF BeforeGate, LastGate
    <2>4. ~Validated' /\ \A v \in Workloads : ~Read(v)'
      BY <2>2 DEF Validated, Read, Gates, Forward, Recovery
    <2>5. ctl.stage \notin {"idle"} \cup Forward \cup Recovery
          /\ ctl'.stage \notin {"idle", "pre_update"} \cup Gates \cup Forward \cup Recovery
      BY <1>1, <2>2 DEF Gates, Forward, Recovery
    <2>6. UNCHANGED <<provider, files, last, history>>
      BY <2>1 DEF GateCheckWorker, files
    <2> QED
      BY <2>2, <2>3, <2>4, <2>5, <2>6, LookOutcome
  <1>5. /\ ecs' = ecs /\ lastId' = lastId /\ late' = late /\ raced' = raced /\ replaced' = replaced
    BY <1>1 DEF provider, history
  <1>6. /\ EcsShape'
        /\ \A w \in Workloads : Front'[w] = Front[w] /\ (w \in Alone' <=> w \in Alone)
    BY <1>5, SameView DEF OutcomeInv
  <1>7. \A w \in Workloads : late[w] = None
    BY <1>1 DEF OutcomeInv, NothingLate, Gates, Recovery
  <1>8. CASE ctl.kind # "finalize" /\ ctl.stage = "pre_update"
    <2>1. /\ ctl' = [ctl EXCEPT !.stage = "web", !.at = "update"]
          /\ context' = ctl.expected
      BY <1>2, <1>8 DEF GateCheckWorker, ContextTarget
    <2>2. /\ ctl'.kind = ctl.kind /\ ctl'.target = ctl.target /\ ctl'.expected = ctl.expected
          /\ ctl'.cleanup_failed = ctl.cleanup_failed /\ ctl'.snap = ctl.snap
          /\ ctl'.attempted = ctl.attempted /\ ctl'.stage = "web" /\ ctl'.at = "update"
      BY <1>1, <2>1 DEF Controllers
    <2>3. \A w \in Workloads : replaced[w] = None
      BY <1>8 DEF OutcomeInv, ReplacedForward, Forward, Recovery
    <2>4. InOrder' /\ PriorKnown' /\ ReplacedForward' /\ RecoveryFilesNamePrior' /\ NothingLate'
      BY <1>1, <1>2, <1>3, <1>5, <1>7, <1>8, <2>1, <2>2, <2>3
      DEF OutcomeInv, InOrder, PriorKnown, ReplacedForward, RecoveryFilesNamePrior, NothingLate,
          Gates, Forward, Recovery
    <2>5. Unmoved'
      BY <1>1, <1>2, <1>3, <1>5, <1>6, <1>8, <2>2 DEF OutcomeInv, Unmoved, Read, Gates, Forward
    <2>6. Advanced' /\ Recovering'
      BY <2>2 DEF Advanced, Recovering, Recovery
    <2>7. OperatorStops'
      BY <1>1, <1>2, <1>5, <1>6, <1>8, <2>2 DEF OutcomeInv, OperatorStops, BeforeGate, LastGate
    <2>8. Released' /\ Compensated'
      BY <2>2, IdleStage DEF Released, Compensated
    <2> QED
      BY <1>5, <1>6, <2>4, <2>5, <2>6, <2>7, <2>8 DEF OutcomeInv
  <1>9. CASE ctl.kind = "finalize"
    <2>1. ctl' = EnterRecovery(ctl.attempted) /\ context' = context
      BY <1>9 DEF GateCheckWorker
    <2>2. /\ ctl'.kind = ctl.kind /\ ctl'.target = ctl.target /\ ctl'.expected = ctl.expected
          /\ ctl'.cleanup_failed = ctl.cleanup_failed /\ ctl'.snap = ctl.snap
          /\ ctl'.stage = "prepare" /\ ctl'.at = "web"
      BY <1>1, <2>1 DEF Controllers, EnterRecovery
    <2>3. ctl.stage = "prior"
      BY <1>1, <1>9 DEF Fits, Gates, Recovery
    <2>4. InOrder' /\ PriorKnown' /\ ReplacedForward' /\ RecoveryFilesNamePrior' /\ NothingLate'
      BY <1>1, <1>2, <1>5, <1>7, <1>9, <2>1, <2>2, <2>3
      DEF OutcomeInv, InOrder, PriorKnown, ReplacedForward, RecoveryFilesNamePrior, NothingLate,
          Gates, Forward, Recovery
    <2>5. Unmoved' /\ Advanced'
      BY <2>2 DEF Unmoved, Read, Advanced, Gates, Forward
    <2>6. Recovering'
      BY <1>5, <1>7, <2>2 DEF Recovering
    <2>7. OperatorStops'
      BY <1>1, <1>2, <1>5, <1>6, <1>9, <2>2, <2>3 DEF OutcomeInv, OperatorStops, BeforeGate, LastGate
    <2>8. Released' /\ Compensated'
      BY <2>2, IdleStage DEF Released, Compensated
    <2> QED
      BY <1>5, <1>6, <2>4, <2>5, <2>6, <2>7, <2>8 DEF OutcomeInv
  <1> QED
    BY <1>4, <1>8, <1>9

---------------------------------------------------------------------------
\* The steps after the last gate that only look at the services.
LEMMA ForwardOutcome ==
  ASSUME DeploymentInv, OutcomeInv, UNCHANGED <<provider, files, last, history>>,
         ctl.stage \in Forward, ctl'.stage \in Forward,
         ctl'.kind = ctl.kind, ctl'.target = ctl.target, ctl'.expected = ctl.expected,
         ctl'.cleanup_failed = ctl.cleanup_failed, ctl'.snap = ctl.snap,
         \A w \in Workloads : ctl'.attempted[w].how = "no" => ctl.attempted[w].how = "no",
         InOrder',
         raced["web"].when # "during"
            /\ (ctl'.stage \in {"worker", "smoke", "terminal", "record"}
                \/ (ctl'.stage = "web" /\ ctl'.at = "bind"))
            => Runs("web", ctl.target),
         raced["worker"].when # "during" /\ ctl'.stage \in {"smoke", "terminal", "record"}
            => Runs("worker", ctl.target)
  PROVE  OutcomeInv'
  <1>1. /\ ecs' = ecs /\ lastId' = lastId /\ late' = late /\ raced' = raced
        /\ replaced' = replaced /\ last' = last
        /\ checkpoint' = checkpoint /\ context' = context /\ record' = record
    BY DEF provider, history, files
  <1>2. /\ EcsShape'
        /\ \A w \in Workloads : Front'[w] = Front[w] /\ (w \in Alone' <=> w \in Alone)
    BY <1>1, SameView DEF OutcomeInv
  <1>3. PriorKnown' /\ ReplacedForward' /\ RecoveryFilesNamePrior' /\ NothingLate'
    BY <1>1 DEF OutcomeInv, PriorKnown, Validated, ReplacedForward, RecoveryFilesNamePrior,
                NothingLate, Gates, Forward, Recovery
  <1>4. Unmoved' /\ Recovering'
    BY <1>1, <1>2 DEF OutcomeInv, Unmoved, Read, Recovering, Gates, Forward, Recovery
  <1>5. Advanced'
    BY <1>1, <1>2 DEF Advanced, Runs
  <1>6. OperatorStops'
    BY <1>1, <1>2 DEF OutcomeInv, OperatorStops, BeforeGate, LastGate, Forward
  <1>7. Released' /\ Compensated'
    BY IdleStage DEF Released, Compensated, Forward
  <1> QED
    BY <1>1, <1>2, <1>3, <1>4, <1>5, <1>6, <1>7 DEF OutcomeInv

\* The receipts and proofs of the forward stages.
LEMMA ForwardStepOutcome ==
  ASSUME DeploymentInv, OutcomeInv,
         \/ BindWebRuntime \/ SmokePassed \/ TerminalCheck
         \/ \E w \in Workloads : ForwardReceipt(w) \/ ForwardStable(w)
  PROVE  OutcomeInv'
  <1>1. /\ ctl \in Controllers /\ EcsInv /\ EcsShape /\ InOrder /\ Advanced
        /\ UNCHANGED <<provider, files, last, history>>
    BY DEF DeploymentInv, CtlInv, OutcomeInv, BindWebRuntime, SmokePassed, TerminalCheck,
           ForwardReceipt, ForwardStable
  <1>2. WebProven => Runs("web", ctl.target)
    BY <1>1, ProvenServes DEF WebProven
  <1>3. CASE BindWebRuntime
    <2>1. /\ Runs("web", ctl.target) /\ ctl.stage \in {"web", "worker"}
          /\ ctl' = IF ctl.stage = "web" THEN [ctl EXCEPT !.stage = "worker", !.at = "revalidate"]
                    ELSE [ctl EXCEPT !.at = "update"]
          /\ ctl.stage = "worker" => ctl.at = "revalidate"
      BY <1>2, <1>3 DEF BindWebRuntime
    <2>2. /\ ctl'.kind = ctl.kind /\ ctl'.target = ctl.target /\ ctl'.expected = ctl.expected
          /\ ctl'.cleanup_failed = ctl.cleanup_failed /\ ctl'.snap = ctl.snap
          /\ ctl'.attempted = ctl.attempted /\ ctl'.stage = "worker"
          /\ ctl'.at \in {"revalidate", "update"}
      BY <1>1, <2>1 DEF Controllers
    <2>3. InOrder'
      BY <1>1, <2>1, <2>2 DEF InOrder, Gates
    <2> QED
      BY <1>1, <2>1, <2>2, <2>3, ForwardOutcome DEF Forward
  <1>4. CASE SmokePassed
    <2>1. /\ ctl.stage = "smoke"
          /\ ctl' = [ctl EXCEPT !.stage = "terminal", !.at = "check_web"]
      BY <1>4 DEF SmokePassed
    <2>2. /\ ctl'.kind = ctl.kind /\ ctl'.target = ctl.target /\ ctl'.expected = ctl.expected
          /\ ctl'.cleanup_failed = ctl.cleanup_failed /\ ctl'.snap = ctl.snap
          /\ ctl'.attempted = ctl.attempted /\ ctl'.stage = "terminal"
      BY <1>1, <2>1 DEF Controllers
    <2>3. InOrder'
      BY <2>2 DEF InOrder, Gates
    <2>4. /\ raced["web"].when # "during" => Runs("web", ctl.target)
          /\ raced["worker"].when # "during" => Runs("worker", ctl.target)
      BY <1>1, <2>1 DEF Advanced
    <2> QED
      BY <1>1, <2>1, <2>2, <2>3, <2>4, ForwardOutcome DEF Forward
  <1>5. CASE TerminalCheck
    <2>1. /\ ctl.stage = "terminal"
          /\ \/ ctl' = [ctl EXCEPT !.at = "check_worker"]
             \/ ctl' = [ctl EXCEPT !.at = "revalidate"]
             \/ ctl' = [ctl EXCEPT !.stage = "record", !.at = ""]
      BY <1>5 DEF TerminalCheck
    <2>2. /\ ctl'.kind = ctl.kind /\ ctl'.target = ctl.target /\ ctl'.expected = ctl.expected
          /\ ctl'.cleanup_failed = ctl.cleanup_failed /\ ctl'.snap = ctl.snap
          /\ ctl'.attempted = ctl.attempted /\ ctl'.stage \in {"terminal", "record"}
      BY <1>1, <2>1 DEF Controllers
    <2>3. InOrder'
      BY <2>2 DEF InOrder, Gates
    <2>4. /\ raced["web"].when # "during" => Runs("web", ctl.target)
          /\ raced["worker"].when # "during" => Runs("worker", ctl.target)
      BY <1>1, <2>1 DEF Advanced
    <2> QED
      BY <1>1, <2>1, <2>2, <2>3, <2>4, ForwardOutcome DEF Forward
  <1>6. ASSUME NEW w \in Workloads, ForwardReceipt(w)
        PROVE  OutcomeInv'
    <2>1. /\ ctl.stage = w
          /\ \E id \in 1 .. lastId :
                ctl' = [ctl EXCEPT !.receipt[w] = id, !.at = "stable",
                                   !.attempted[w] = [how |-> "bound", id |-> id]]
      BY <1>6 DEF ForwardReceipt
    <2>2. /\ ctl'.kind = ctl.kind /\ ctl'.target = ctl.target /\ ctl'.expected = ctl.expected
          /\ ctl'.cleanup_failed = ctl.cleanup_failed /\ ctl'.snap = ctl.snap
          /\ ctl'.attempted[w].how = "bound"
          /\ \A v \in Workloads \ {w} : ctl'.attempted[v] = ctl.attempted[v]
          /\ ctl'.stage = w /\ ctl'.at = "stable"
      BY <1>1, <2>1 DEF Controllers, Attempts
    <2>3. InOrder'
      BY <1>1, <2>1, <2>2 DEF InOrder, Gates
    <2>4. ctl'.stage = "worker" /\ raced["web"].when # "during" => Runs("web", ctl.target)
      BY <1>1, <2>1, <2>2 DEF Advanced
    <2> QED
      BY <1>1, <2>1, <2>2, <2>3, <2>4, ForwardOutcome DEF Forward
  <1>7. ASSUME NEW w \in Workloads, ForwardStable(w)
        PROVE  OutcomeInv'
    <2>1. /\ ctl.stage = w /\ Runs(w, ctl.target)
          /\ w = "worker" => Runs("web", ctl.target)
          /\ ctl' = IF w = "web" THEN [ctl EXCEPT !.at = "bind"]
                    ELSE [ctl EXCEPT !.stage = "smoke", !.at = ""]
      BY <1>1, <1>2, <1>7, ProvenServes DEF ForwardStable, StableOnce
    <2>2. /\ ctl'.kind = ctl.kind /\ ctl'.target = ctl.target /\ ctl'.expected = ctl.expected
          /\ ctl'.cleanup_failed = ctl.cleanup_failed /\ ctl'.snap = ctl.snap
          /\ ctl'.attempted = ctl.attempted
          /\ \/ w = "web" /\ ctl'.stage = "web" /\ ctl'.at = "bind"
             \/ w = "worker" /\ ctl'.stage = "smoke"
      BY <1>1, <2>1 DEF Controllers
    <2>3. InOrder'
      BY <1>1, <2>1, <2>2 DEF InOrder, Gates
    <2> QED
      BY <1>1, <2>1, <2>2, <2>3, ForwardOutcome DEF Forward
  <1> QED
    BY <1>3, <1>4, <1>5, <1>6, <1>7

\* The update of a workload finds what the gate has proven, which is what the
\* files name; nothing of the other workload changes.
LEMMA ForwardUpdateOutcome ==
  ASSUME DeploymentInv, OutcomeInv, NEW w \in Workloads, ForwardUpdate(w)
  PROVE  OutcomeInv'
  <1>1. /\ ctl \in Controllers /\ Fits(ctl, context)
        /\ ctl.stage = w /\ ctl.at = "update" /\ Apply(w, ctl.target)
        /\ ctl' = [ctl EXCEPT !.attempted = Sent(w), !.at = "receipt"]
        /\ replaced' = Replacing(w)
        /\ late' = late /\ last' = last /\ raced' = raced
        /\ checkpoint' = checkpoint /\ context' = context /\ record' = record
    BY DEF ForwardUpdate, DeploymentInv, CtlInv, files
  <1>2. /\ ctl'.kind = ctl.kind /\ ctl'.target = ctl.target /\ ctl'.expected = ctl.expected
        /\ ctl'.cleanup_failed = ctl.cleanup_failed /\ ctl'.snap = ctl.snap
        /\ ctl'.attempted[w].how = "sent"
        /\ \A v \in Workloads \ {w} : ctl'.attempted[v] = ctl.attempted[v]
        /\ ctl'.stage = w /\ ctl'.at = "receipt"
    BY <1>1 DEF Controllers, Sent
  <1>3. /\ EcsShape'
        /\ \A v \in Workloads \ {w} : Front'[v] = Front[v] /\ (v \in Alone' <=> v \in Alone)
    BY <1>1, ApplyView DEF DeploymentInv, OutcomeInv
  <1>4. ctl.kind # "finalize" /\ ctl.attempted[w].how = "no"
    BY <1>1 DEF Fits, Recovery, OutcomeInv, InOrder
  <1>5. raced[w].when # "during" =>
            Primary(w).td = ctl.expected /\ checkpoint = ctl.expected /\ context = ctl.expected
    BY <1>1, <1>4, FrontIs DEF OutcomeInv, Unmoved, PriorKnown, Forward
  <1>6. /\ RecoveryFilesNamePrior'
        /\ replaced' \in [Workloads -> Targets \cup {None}]
    <2>1. Primary(w).td \in Targets
      BY PrimaryServed, ServedTargets DEF DeploymentInv
    <2> QED
      BY <1>1, <1>5, <2>1 DEF Replacing, OutcomeInv, RecoveryFilesNamePrior
  <1>7. InOrder' /\ PriorKnown' /\ ReplacedForward' /\ NothingLate'
    BY <1>1, <1>2, <1>4 DEF OutcomeInv, InOrder, PriorKnown, Validated, ReplacedForward,
                NothingLate, Gates, Forward, Recovery
  <1>8. Unmoved' /\ Recovering'
    BY <1>1, <1>2, <1>3 DEF OutcomeInv, Unmoved, Read, Recovering, Gates, Forward, Recovery
  <1>9. Advanced'
    BY <1>1, <1>2, <1>3 DEF OutcomeInv, Advanced, Runs
  <1>10. OperatorStops'
    BY <1>1, <1>2, <1>3 DEF OutcomeInv, OperatorStops, BeforeGate, LastGate
  <1>11. Released' /\ Compensated'
    BY <1>2, IdleStage DEF Released, Compensated
  <1> QED
    BY <1>1, <1>3, <1>6, <1>7, <1>8, <1>9, <1>10, <1>11 DEF OutcomeInv

\* Recovery starts with every call but the last one answered; that one has not
\* been applied when it is still on its way.
LEMMA EnterOutcome ==
  ASSUME DeploymentInv, OutcomeInv, ctl.stage \in Forward,
         NEW attempted, ctl'.kind = ctl.kind, ctl'.target = ctl.target,
         ctl'.expected = ctl.expected, ctl'.snap = ctl.snap, ctl'.attempted = attempted,
         ctl'.stage = "prepare", ctl'.at = "web",
         checkpoint' = checkpoint, context' = context, last' = last, raced' = raced,
         ~ctl'.cleanup_failed => record' = None,
         EcsShape', replaced' \in [Workloads -> Targets \cup {None}], RecoveryFilesNamePrior',
         \A w \in Workloads :
            \/ late'[w] = None
            \/ /\ attempted[w].how = "sent"
               /\ raced[w].when = "never" => Front'[w].id = ctl.snap[w].id
  PROVE  OutcomeInv'
  <1>1. ctl.kind # "finalize" /\ ctl # Idle
    BY IdleStage DEF DeploymentInv, CtlInv, Fits, Forward, Recovery
  <1>2. last # "released"
    BY <1>1 DEF DeploymentInv, FilesInv
  <1>3. InOrder' /\ PriorKnown' /\ ReplacedForward' /\ NothingLate'
    BY <1>1, <1>2 DEF OutcomeInv, InOrder, PriorKnown, Validated, ReplacedForward,
                      NothingLate, Gates, Forward, Recovery
  <1>4. Unmoved' /\ Advanced'
    BY DEF Unmoved, Read, Advanced, Gates, Forward
  <1>5. Recovering'
    BY DEF Recovering
  <1>6. OperatorStops'
    BY DEF OutcomeInv, OperatorStops, BeforeGate, LastGate, Forward
  <1>7. Released' /\ Compensated'
    BY IdleStage DEF Released, Compensated
  <1> QED
    BY <1>3, <1>4, <1>5, <1>6, <1>7 DEF OutcomeInv

\* An update without an answer.
LEMMA ForwardUpdateLostOutcome ==
  ASSUME DeploymentInv, OutcomeInv, NEW w \in Workloads, ForwardUpdateLost(w)
  PROVE  OutcomeInv'
  <1>1. /\ ctl \in Controllers /\ Fits(ctl, context)
        /\ ctl.stage = w /\ ctl.at = "update"
        /\ ctl' = EnterRecovery(Sent(w))
        /\ replaced' = Replacing(w)
        /\ last' = last /\ raced' = raced
        /\ checkpoint' = checkpoint /\ context' = context /\ record' = record
    BY DEF ForwardUpdateLost, DeploymentInv, CtlInv, files
  <1>2. /\ ctl'.kind = ctl.kind /\ ctl'.target = ctl.target /\ ctl'.expected = ctl.expected
        /\ ctl'.cleanup_failed = ctl.cleanup_failed /\ ctl'.snap = ctl.snap
        /\ ctl'.attempted = Sent(w) /\ Sent(w)[w].how = "sent"
        /\ ctl'.stage = "prepare" /\ ctl'.at = "web"
    BY <1>1 DEF Controllers, EnterRecovery, Sent
  <1>3. ctl.kind # "finalize" /\ ctl.attempted[w].how = "no" /\ ctl.stage \in Forward
    BY <1>1 DEF Fits, Recovery, Forward, OutcomeInv, InOrder
  <1>4. raced[w].when # "during" =>
            Primary(w).td = ctl.expected /\ checkpoint = ctl.expected /\ context = ctl.expected
    BY <1>1, <1>3, FrontIs DEF OutcomeInv, Unmoved, PriorKnown, Forward
  <1>5. /\ RecoveryFilesNamePrior'
        /\ replaced' \in [Workloads -> Targets \cup {None}]
    <2>1. Primary(w).td \in Targets
      BY PrimaryServed, ServedTargets DEF DeploymentInv
    <2> QED
      BY <1>1, <1>4, <2>1 DEF Replacing, OutcomeInv, RecoveryFilesNamePrior
  <1>6. \A v \in Workloads : late[v] = None
    BY <1>3 DEF OutcomeInv, NothingLate, Forward, Recovery
  <1>7. EcsShape' /\ \A v \in Workloads :
            \/ late'[v] = None
            \/ v = w /\ (raced[w].when = "never" => Front'[w].id = ctl.snap[w].id)
    <2>1. CASE Apply(w, ctl.target) /\ UNCHANGED late
      BY <1>6, <2>1, ApplyView DEF DeploymentInv, OutcomeInv
    <2>2. CASE late' = [late EXCEPT ![w] = ctl.target] /\ UNCHANGED <<ecs, lastId>>
      <3>1. EcsShape' /\ Front'[w] = Front[w]
        BY <2>2, SameView DEF OutcomeInv
      <3>2. raced[w].when = "never" => Front[w].id = ctl.snap[w].id
        BY <1>3 DEF OutcomeInv, Unmoved, Read
      <3> QED
        BY <1>6, <2>2, <3>1, <3>2
    <2>3. CASE UNCHANGED provider
      BY <1>6, <2>3, SameView DEF provider, OutcomeInv
    <2> QED
      BY <2>1, <2>2, <2>3 DEF ForwardUpdateLost
  <1>8. ~ctl'.cleanup_failed => record' = None
    BY <1>1, <1>2, <1>3 DEF OutcomeInv, PriorKnown, Forward
  <1> QED
    BY <1>1, <1>2, <1>3, <1>5, <1>7, <1>8, EnterOutcome

\* A failure of a forward stage, or of writing the record.
LEMMA RaiseOutcome ==
  ASSUME DeploymentInv, OutcomeInv, Raise \/ RecordFails
  PROVE  OutcomeInv'
  <1>1. /\ ctl \in Controllers /\ Fits(ctl, context) /\ UNCHANGED <<provider, history>>
        /\ checkpoint' = checkpoint /\ context' = context
    BY DEF Raise, RecordFails, DeploymentInv, CtlInv, files
  <1>2. CASE Raise /\ ~Mutated
    BY <1>1, <1>2, EndOutcome DEF Raise
  <1>3. ASSUME ctl.stage \in Forward, last' = last,
               ctl'.kind = ctl.kind, ctl'.target = ctl.target, ctl'.expected = ctl.expected,
               ctl'.snap = ctl.snap, ctl'.stage = "prepare", ctl'.at = "web",
               ~ctl'.cleanup_failed => record' = None
        PROVE  OutcomeInv'
    <2>1. \A w \in Workloads : late'[w] = None
      BY <1>1, <1>3 DEF OutcomeInv, NothingLate, Forward, Recovery, provider
    <2>2. EcsShape'
      BY <1>1, SameView DEF OutcomeInv, provider
    <2>3. /\ raced' = raced /\ replaced' = replaced
          /\ replaced' \in [Workloads -> Targets \cup {None}] /\ RecoveryFilesNamePrior'
      BY <1>1 DEF OutcomeInv, history, RecoveryFilesNamePrior
    <2> DEFINE attempted == ctl'.attempted
    <2> HIDE DEF attempted
    <2>4. ctl'.attempted = attempted
      BY DEF attempted
    <2> QED
      BY <1>1, <1>3, <2>1, <2>2, <2>3, <2>4, EnterOutcome
  <1>4. CASE Raise /\ Mutated
    <2>1. ctl.stage \in Forward
      BY <1>1, <1>4 DEF Raise, Mutated, Fits
    <2>2. ctl' = EnterRecovery(ctl.attempted) /\ record' = record /\ last' = last
      BY <1>4 DEF Raise, files
    <2>3. /\ ctl'.kind = ctl.kind /\ ctl'.target = ctl.target /\ ctl'.expected = ctl.expected
          /\ ctl'.cleanup_failed = ctl.cleanup_failed /\ ctl'.snap = ctl.snap
          /\ ctl'.stage = "prepare" /\ ctl'.at = "web"
      BY <1>1, <2>2 DEF Controllers, EnterRecovery
    <2>4. ~ctl.cleanup_failed => record = None
      BY <1>1, <2>1 DEF OutcomeInv, PriorKnown, Fits, Forward, Recovery
    <2> QED
      BY <1>3, <2>1, <2>2, <2>3, <2>4
  <1>5. CASE RecordFails
    <2>1. PICK kept \in BOOLEAN :
            /\ record' = IF kept THEN ctl.target ELSE None
            /\ ctl' = [EnterRecovery(ctl.attempted) EXCEPT !.cleanup_failed = kept]
      BY <1>5 DEF RecordFails
    <2>2. /\ ctl'.kind = ctl.kind /\ ctl'.target = ctl.target /\ ctl'.expected = ctl.expected
          /\ ctl'.cleanup_failed = kept /\ ctl'.snap = ctl.snap
          /\ ctl'.stage = "prepare" /\ ctl'.at = "web"
      BY <1>1, <2>1 DEF Controllers, EnterRecovery
    <2>3. ctl.stage \in Forward /\ last' = last
      BY <1>5 DEF RecordFails, Forward
    <2> QED
      BY <1>3, <2>1, <2>2, <2>3
  <1> QED
    BY <1>2, <1>4, <1>5

---------------------------------------------------------------------------
\* A step of recovery: what it must show is what Recovering says.
LEMMA RecoveryOutcome ==
  ASSUME DeploymentInv, OutcomeInv, UNCHANGED <<files, last, raced, replaced>>, EcsShape',
         ctl.stage \in Recovery, ctl'.stage \in Recovery,
         ctl'.kind = ctl.kind, ctl'.target = ctl.target, ctl'.expected = ctl.expected,
         ctl'.cleanup_failed = ctl.cleanup_failed, ctl'.snap = ctl.snap,
         ctl'.stage = "prepare" => ctl'.at \in {"web", "worker"},
         ctl'.stage = "proof" => ctl'.at \in {"check_web", "check_worker"},
         Recovering'
  PROVE  OutcomeInv'
  <1>1. /\ raced' = raced /\ replaced' = replaced /\ last' = last
        /\ checkpoint' = checkpoint /\ context' = context /\ record' = record
    BY DEF files
  <1>2. ctl # Idle /\ ctl' # Idle
    BY IdleStage DEF Recovery
  <1>3. last # "released"
    BY <1>2 DEF DeploymentInv, FilesInv
  <1>4. InOrder' /\ PriorKnown' /\ ReplacedForward' /\ NothingLate' /\ RecoveryFilesNamePrior'
    BY <1>1, <1>3 DEF OutcomeInv, InOrder, PriorKnown, Validated, ReplacedForward,
                      NothingLate, RecoveryFilesNamePrior, Gates, Forward, Recovery
  <1>5. Unmoved' /\ Advanced'
    BY DEF Unmoved, Read, Advanced, Gates, Forward, Recovery
  <1>6. OperatorStops'
    BY <1>1 DEF OutcomeInv, OperatorStops, BeforeGate, LastGate, Recovery
  <1>7. Released' /\ Compensated'
    BY <1>2 DEF Released, Compensated
  <1> QED
    BY <1>1, <1>4, <1>5, <1>6, <1>7 DEF OutcomeInv

\* In recovery every workload is prepared, restored, observed and proven; a step
\* without an error leaves no call outstanding behind it.
LEMMA RecoveryStepOutcome ==
  ASSUME DeploymentInv, OutcomeInv,
         \/ Observed \/ RecoveryProof
         \/ \E w \in Workloads : Prepare(w) \/ SkipRestore(w) \/ RestoreReceipt(w) \/ Observe(w)
  PROVE  OutcomeInv'
  <1>1. /\ ctl \in Controllers /\ EcsInv /\ EcsShape /\ InOrder /\ Recovering
        /\ UNCHANGED <<provider, files, last, raced, replaced>>
    BY DEF DeploymentInv, CtlInv, OutcomeInv, Observed, RecoveryProof, Prepare, SkipRestore,
           RestoreReceipt, Observe, history
  <1>2. late' = late /\ raced' = raced
    BY <1>1 DEF provider
  <1>3. /\ EcsShape'
        /\ \A w \in Workloads : Front'[w] = Front[w] /\ (w \in Alone' <=> w \in Alone)
    BY <1>1, SameView DEF provider
  <1> DEFINE Same == /\ ctl'.kind = ctl.kind /\ ctl'.target = ctl.target
                     /\ ctl'.expected = ctl.expected /\ ctl'.snap = ctl.snap
                     /\ ctl'.cleanup_failed = ctl.cleanup_failed
  <1>4. CASE Observed
    <2>1. ctl.stage = "observe" /\ ctl' = [ctl EXCEPT !.stage = "proof", !.at = "check_web"]
      BY <1>4 DEF Observed
    <2>2. Same /\ ctl'.stage = "proof" /\ ctl'.at = "check_web" /\ ctl'.errors = ctl.errors
      BY <1>1, <2>1 DEF Controllers
    <2>3. Recovering'
      BY <1>1, <1>2, <2>1, <2>2 DEF Recovering, Recovery
    <2> QED
      BY <1>1, <1>3, <2>1, <2>2, <2>3, RecoveryOutcome DEF Recovery
  <1>5. CASE RecoveryProof
    <2>1. PICK w \in Workloads :
            /\ ctl.at = IF w = "web" THEN "check_web" ELSE "check_worker"
            /\ \/ /\ Restored(w)
                  /\ ctl' = [ctl EXCEPT !.stage = IF w = "web" THEN "proof" ELSE "public",
                                        !.at = IF w = "web" THEN "check_worker" ELSE ""]
               \/ ctl' = [ctl EXCEPT !.stage = "public", !.at = "", !.errors = TRUE]
      BY <1>5 DEF RecoveryProof
    <2>2. ctl.stage = "proof"
      BY <1>5 DEF RecoveryProof
    <2>3. CASE Restored(w) /\ ctl' = [ctl EXCEPT !.stage = IF w = "web" THEN "proof" ELSE "public",
                                        !.at = IF w = "web" THEN "check_worker" ELSE ""]
      <3>1. Runs(w, RestoreTarget(w))
        BY <1>1, <2>3, ProvenServes DEF Restored
      <3>2. /\ Same /\ ctl'.errors = ctl.errors
            /\ \/ w = "web" /\ ctl'.stage = "proof" /\ ctl'.at = "check_worker"
               \/ w = "worker" /\ ctl'.stage = "public"
        BY <1>1, <2>3 DEF Controllers
      <3>3. Recovering'
        BY <1>1, <1>2, <1>3, <2>1, <2>2, <3>1, <3>2 DEF Recovering, Recovery, Runs, RestoreTarget
      <3> QED
        BY <1>1, <1>3, <2>2, <3>2, <3>3, RecoveryOutcome DEF Recovery
    <2>4. CASE ctl' = [ctl EXCEPT !.stage = "public", !.at = "", !.errors = TRUE]
      <3>1. Same /\ ctl'.stage = "public" /\ ctl'.errors
        BY <1>1, <2>4 DEF Controllers
      <3>2. Recovering'
        BY <3>1 DEF Recovering
      <3> QED
        BY <1>1, <1>3, <2>2, <3>1, <3>2, RecoveryOutcome DEF Recovery
    <2> QED
      BY <2>1, <2>3, <2>4
  <1>6. ASSUME NEW w \in Workloads, Prepare(w)
        PROVE  OutcomeInv'
    <2> DEFINE stage == IF w = "web" THEN "prepare" ELSE "restore"
               at == IF w = "web" THEN "worker" ELSE "web"
    <2>1. /\ ctl.stage = "prepare" /\ ctl.at = w
          /\ \/ /\ ctl.attempted[w].how # "sent"
                /\ ctl' = [ctl EXCEPT !.stage = stage, !.at = at]
             \/ /\ ctl.attempted[w].how = "sent"
                /\ \E id \in 1 .. lastId :
                     /\ AttemptFound(w, ctl.target, ctl.snap[w].id, id)
                     /\ ctl' = [ctl EXCEPT !.stage = stage, !.at = at,
                                           !.attempted[w] = [how |-> "bound", id |-> id]]
             \/ ctl' = [Failed(w) EXCEPT !.stage = stage, !.at = at]
      BY <1>6 DEF Prepare
    <2>2. /\ Same /\ ctl'.stage = stage /\ ctl'.at = at
          /\ ~ctl'.errors => ~ctl.errors
          /\ \A v \in Workloads \ {w} : ctl'.attempted[v] = ctl.attempted[v]
          /\ ~ctl'.errors => ctl.attempted[w].how # "sent" \/ Front[w].id # ctl.snap[w].id
      <3>1. CASE /\ ctl.attempted[w].how # "sent"
                 /\ ctl' = [ctl EXCEPT !.stage = stage, !.at = at]
        BY <1>1, <3>1 DEF Controllers
      <3>2. CASE \E id \in 1 .. lastId :
                     /\ AttemptFound(w, ctl.target, ctl.snap[w].id, id)
                     /\ ctl' = [ctl EXCEPT !.stage = stage, !.at = at,
                                           !.attempted[w] = [how |-> "bound", id |-> id]]
        BY <1>1, <3>2, FrontIs DEF Controllers, AttemptFound
      <3>3. CASE ctl' = [Failed(w) EXCEPT !.stage = stage, !.at = at]
        BY <1>1, <3>3 DEF Controllers, Failed
      <3> QED
        BY <2>1, <3>1, <3>2, <3>3
    <2>3. ASSUME NEW v \in Workloads, ~ctl'.errors, raced[v].when = "never"
          PROVE  \/ late[v] = None
                 \/ /\ v = "worker" /\ ctl'.stage = "prepare" /\ ctl'.attempted[v].how = "sent"
                    /\ Front[v].id = ctl.snap[v].id
      <3>1. \/ late[v] = None
            \/ /\ ctl.at = "worker" => v = "worker"
               /\ ctl.attempted[v].how = "sent" /\ Front[v].id = ctl.snap[v].id
        BY <1>1, <2>1, <2>2, <2>3 DEF Recovering, Recovery
      <3>2. CASE v = w
        BY <2>2, <2>3, <3>1, <3>2
      <3>3. CASE v # w
        <4>1. ctl.at = w
          BY <2>1
        <4>2. w = "worker" => late[v] = None
          BY <3>1, <3>3, <4>1
        <4>3. w = "web" => v = "worker" /\ ctl'.stage = "prepare"
                           /\ ctl'.attempted[v] = ctl.attempted[v]
          BY <2>2, <3>3
        <4> QED
          BY <3>1, <4>2, <4>3
      <3> QED
        BY <3>2, <3>3
    <2>4. ctl'.stage \in {"prepare", "restore"}
      BY <2>2
    <2>5. Recovering'
      BY <1>2, <1>3, <2>2, <2>3, <2>4 DEF Recovering
    <2> QED
      BY <1>1, <1>3, <2>1, <2>2, <2>5, RecoveryOutcome DEF Recovery
  <1>7. ASSUME NEW w \in Workloads, SkipRestore(w) \/ RestoreReceipt(w)
        PROVE  OutcomeInv'
    <2>1. /\ ctl.stage = "restore"
          /\ \/ ctl' = [ctl EXCEPT !.stage = AfterRestore(w).stage, !.at = AfterRestore(w).at]
             \/ \E id \in 1 .. lastId :
                  ctl' = [ctl EXCEPT !.receipt[w] = id, !.stage = AfterRestore(w).stage,
                                     !.at = AfterRestore(w).at]
             \/ ctl' = [Failed(w) EXCEPT !.stage = AfterRestore(w).stage,
                                         !.at = AfterRestore(w).at]
      BY <1>7 DEF SkipRestore, RestoreReceipt
    <2>2. AfterRestore(w).stage \in {"restore", "observe"}
      BY DEF AfterRestore
    <2>3. Same /\ ctl'.stage \in {"restore", "observe"} /\ (~ctl'.errors => ~ctl.errors)
      BY <1>1, <2>1, <2>2 DEF Controllers, Failed
    <2>4. Recovering'
      BY <1>1, <1>2, <2>1, <2>3 DEF Recovering, Recovery
    <2> QED
      BY <1>1, <1>3, <2>1, <2>3, <2>4, RecoveryOutcome DEF Recovery
  <1>8. ASSUME NEW w \in Workloads, Observe(w)
        PROVE  OutcomeInv'
    <2>1. /\ ctl.stage = "observe"
          /\ ctl' = [ctl EXCEPT !.outcome[w] = "passed"] \/ ctl' = Failed(w)
      BY <1>8 DEF Observe
    <2>2. Same /\ ctl'.stage = "observe" /\ (~ctl'.errors => ~ctl.errors)
      BY <1>1, <2>1 DEF Controllers, Failed
    <2>3. Recovering'
      BY <1>1, <1>2, <2>1, <2>2 DEF Recovering, Recovery
    <2> QED
      BY <1>1, <1>3, <2>1, <2>2, <2>3, RecoveryOutcome DEF Recovery
  <1> QED
    BY <1>4, <1>5, <1>6, <1>7, <1>8

\* The restoring calls; one without an answer is retained as an error.
LEMMA RestoreOutcome ==
  ASSUME DeploymentInv, OutcomeInv, NEW w \in Workloads, Restore(w) \/ RestoreLost(w)
  PROVE  OutcomeInv'
  <1>1. /\ ctl \in Controllers /\ ctl.stage = "restore" /\ EcsInv /\ EcsShape /\ Recovering
        /\ UNCHANGED <<files, last, raced, replaced>>
    BY DEF DeploymentInv, CtlInv, OutcomeInv, Restore, RestoreLost
  <1>2. EcsShape'
    <2>1. CASE Apply(w, RestoreTarget(w))
      BY <1>1, <2>1, ApplyView
    <2>2. CASE UNCHANGED <<ecs, lastId>>
      BY <1>1, <2>2, SameView
    <2> QED
      BY <2>1, <2>2 DEF Restore, RestoreLost, provider
  <1>3. /\ ctl'.kind = ctl.kind /\ ctl'.target = ctl.target /\ ctl'.expected = ctl.expected
        /\ ctl'.cleanup_failed = ctl.cleanup_failed /\ ctl'.snap = ctl.snap
        /\ ctl'.stage \in {"restore", "observe"}
        /\ \/ ctl'.errors
           \/ ctl'.errors = ctl.errors /\ late' = late
    <2>1. CASE Restore(w)
      BY <1>1, <2>1 DEF Restore, Controllers
    <2>2. CASE RestoreLost(w)
      <3>1. ctl' = [Failed(w) EXCEPT !.stage = AfterRestore(w).stage, !.at = AfterRestore(w).at]
        BY <2>2 DEF RestoreLost
      <3>2. AfterRestore(w).stage \in {"restore", "observe"}
        BY DEF AfterRestore
      <3> QED
        BY <1>1, <3>1, <3>2 DEF Controllers, Failed
    <2> QED
      BY <2>1, <2>2
  <1>4. Recovering'
    BY <1>1, <1>3 DEF Recovering, Recovery
  <1> QED
    BY <1>1, <1>2, <1>3, <1>4, RecoveryOutcome DEF Recovery

\* A recovery without an error has put the pair of the context back.
LEMMA EndRecoveryOutcome ==
  ASSUME DeploymentInv, OutcomeInv, EndRecovery
  PROVE  OutcomeInv'
  <1>1. /\ ctl \in Controllers /\ Fits(ctl, context) /\ ctl.stage = "public" /\ ctl' = Idle
        /\ UNCHANGED <<provider, checkpoint, context, history>>
    BY DEF DeploymentInv, CtlInv, EndRecovery
  <1>2. PICK errors \in {ctl.errors, TRUE} :
        /\ last' = IF errors THEN "compensation_failed"
                   ELSE IF ctl.kind = "finalize" THEN "restored"
                   ELSE IF ctl.cleanup_failed THEN "cleanup_failed" ELSE "compensated"
        /\ record' = IF ctl.kind = "finalize" /\ ~errors THEN None ELSE record
    BY DEF EndRecovery
  <1>3. CASE last' \notin {"compensated", "restored"}
    BY <1>1, <1>2, <1>3, EndOutcome
  <1>4. CASE last' \in {"compensated", "restored"}
    <2>1. ~errors /\ ~ctl.errors /\ (ctl.kind = "finalize" \/ ~ctl.cleanup_failed)
      BY <1>2, <1>4
    <2>2. record' = None
      <3>1. CASE ctl.kind = "finalize"
        BY <1>2, <2>1, <3>1
      <3>2. CASE ctl.kind # "finalize"
        BY <1>1, <1>2, <2>1, <3>2 DEF OutcomeInv, PriorKnown
      <3> QED
        BY <3>1, <3>2
    <2>3. context # None /\ \A w \in Workloads : RestoreTarget(w) = context
      <3>1. context \in Served
        BY <1>1 DEF OutcomeInv, PriorKnown, Validated, Fits, Recovery
      <3>2. context # None
        BY <3>1, ServedTargets DEF DeploymentInv
      <3> QED
        BY <1>1, <3>2 DEF OutcomeInv, PriorKnown, Validated, RestoreTarget, Recovery
    <2>4. /\ ecs' = ecs /\ lastId' = lastId /\ late' = late /\ raced' = raced
          /\ replaced' = replaced /\ ctl'.stage = "idle" /\ context' = context
          /\ checkpoint' = checkpoint
      BY <1>1, IdleStage DEF provider, history
    <2>5. /\ EcsShape'
          /\ \A w \in Workloads : Front'[w] = Front[w] /\ (w \in Alone' <=> w \in Alone)
      BY <2>4, SameView DEF OutcomeInv
    <2>6. Compensated'
      BY <1>1, <2>1, <2>2, <2>3, <2>4, <2>5
      DEF Compensated, Unraced, Runs, OutcomeInv, Recovering, Recovery
    <2>7. (InOrder /\ PriorKnown /\ NothingLate /\ Unmoved /\ Advanced /\ Recovering
           /\ ReplacedForward)'
      BY <1>4, <2>4 DEF InOrder, PriorKnown, Validated, NothingLate, Unmoved, Read, Advanced,
                  Recovering, ReplacedForward, Gates, Forward, Recovery
    <2>8. OperatorStops' /\ RecoveryFilesNamePrior' /\ Released'
      BY <1>4, <2>4, <2>5 DEF OutcomeInv, OperatorStops, RecoveryFilesNamePrior, Released
    <2> QED
      BY <2>4, <2>5, <2>6, <2>7, <2>8 DEF OutcomeInv
  <1> QED
    BY <1>3, <1>4

\* The record is written when both services have been proven.
LEMMA WriteRecordOutcome ==
  ASSUME DeploymentInv, OutcomeInv, WriteRecord
  PROVE  OutcomeInv'
  <1>1. /\ ctl \in Controllers /\ Fits(ctl, context) /\ ctl.stage = "record" /\ ctl' = Idle
        /\ record' = ctl.target /\ last' = "released"
        /\ UNCHANGED <<provider, checkpoint, context, history>>
    BY DEF DeploymentInv, CtlInv, WriteRecord
  <1>2. /\ ecs' = ecs /\ lastId' = lastId /\ late' = late /\ raced' = raced
        /\ replaced' = replaced /\ ctl'.stage = "idle"
        /\ checkpoint' = checkpoint /\ context' = context
    BY <1>1, IdleStage DEF provider, history
  <1>3. /\ EcsShape'
        /\ \A w \in Workloads : Front'[w] = Front[w] /\ (w \in Alone' <=> w \in Alone)
    BY <1>2, SameView DEF OutcomeInv
  <1>4. \A w \in Workloads : late[w] = None
    BY <1>1 DEF OutcomeInv, NothingLate, Recovery
  <1>5. record' # None
    BY <1>1, ServedTargets DEF Fits, Forward, DeploymentInv, Served
  <1>6. Released'
    BY <1>1, <1>2, <1>3, <1>4, <1>5 DEF Released, Undisturbed, Runs, OutcomeInv, Advanced
  <1>7. (InOrder /\ PriorKnown /\ NothingLate /\ Unmoved /\ Advanced /\ Recovering
         /\ ReplacedForward)'
    BY <1>2, <1>4 DEF InOrder, PriorKnown, Validated, NothingLate, Unmoved, Read, Advanced,
                Recovering, ReplacedForward, Gates, Forward, Recovery
  <1>8. OperatorStops' /\ RecoveryFilesNamePrior' /\ Compensated'
    BY <1>1, <1>2, <1>3 DEF OutcomeInv, OperatorStops, RecoveryFilesNamePrior, Compensated
  <1> QED
    BY <1>2, <1>3, <1>6, <1>7, <1>8 DEF OutcomeInv

\* A command starts afresh; the recovery of a finalization keeps the files.
LEMMA CommandsOutcome ==
  ASSUME DeploymentInv, OutcomeInv, Commands
  PROVE  OutcomeInv'
  <1>1. ecs' = ecs /\ lastId' = lastId /\ late' = late
    BY DEF Commands, StartPromote, StartRollback, Start, Finalize, StartFinalizationRecovery,
           provider
  <1>2. /\ EcsShape'
        /\ \A w \in Workloads : Front'[w] = Front[w] /\ (w \in Alone' <=> w \in Alone)
    BY <1>1, SameView DEF OutcomeInv
  <1>3. ASSUME NEW kind, NEW target, NEW expected,
               ctl' = [Idle EXCEPT !.kind = kind, !.target = target, !.expected = expected,
                                   !.stage = "prior", !.at = "web"],
               \A w \in Workloads : late[w] = None, raced' = NoRace,
               replaced' \in [Workloads -> Targets \cup {None}], RecoveryFilesNamePrior',
               \/ /\ kind # "finalize" /\ checkpoint' = expected /\ record' = None
                  /\ \A w \in Workloads : replaced'[w] = None
               \/ kind = "finalize" /\ context' = target
        PROVE  OutcomeInv'
    <2>1. /\ ctl'.kind = kind /\ ctl'.target = target /\ ctl'.expected = expected
          /\ ctl'.stage = "prior" /\ ctl'.at = "web"
      BY <1>3 DEF Idle
    <2>2. /\ raced' \in [Workloads -> Races]
          /\ \A w \in Workloads : raced'[w].when = "never"
      BY <1>3 DEF NoRace, Races
    <2>3. InOrder' /\ PriorKnown' /\ NothingLate' /\ ReplacedForward'
      BY <1>1, <1>3, <2>1 DEF InOrder, PriorKnown, Validated, NothingLate, ReplacedForward,
                              Gates, Forward, Recovery
    <2>4. Unmoved' /\ Advanced' /\ Recovering' /\ OperatorStops'
      BY <2>1, <2>2 DEF Unmoved, Read, Advanced, Recovering, OperatorStops, Gates, Forward, Recovery
    <2>5. Released' /\ Compensated'
      BY <2>1, IdleStage DEF Released, Compensated
    <2> QED
      BY <1>2, <1>3, <2>2, <2>3, <2>4, <2>5 DEF OutcomeInv
  <1>4. ASSUME NEW kind, NEW target, NEW expected, Start(kind, target, expected),
               kind # "finalize"
        PROVE  OutcomeInv'
    <2>1. /\ replaced' \in [Workloads -> Targets \cup {None}]
          /\ \A w \in Workloads : replaced'[w] = None
      BY <1>4 DEF Start
    <2>2. RecoveryFilesNamePrior'
      BY <2>1 DEF RecoveryFilesNamePrior
    <2> QED
      BY <1>3, <1>4, <2>1, <2>2 DEF Start
  <1>5. CASE StartPromote \/ StartRollback
    BY <1>4, <1>5 DEF StartPromote, StartRollback
  <1>6. CASE StartFinalizationRecovery
    <2>1. /\ \A w \in Workloads : late[w] = None
          /\ context' = context /\ replaced' = replaced
          /\ RecoveryFilesNamePrior' /\ replaced' \in [Workloads -> Targets \cup {None}]
      BY <1>6 DEF StartFinalizationRecovery, OutcomeInv, NothingLate, RecoveryFilesNamePrior, files
    <2> QED
      BY <1>3, <1>6, <2>1 DEF StartFinalizationRecovery
  <1>7. CASE Finalize
    <2>1. /\ last = "released" /\ last' = "finalized" /\ ctl' = ctl /\ ctl.stage = "idle"
          /\ ctl = Idle /\ raced' = raced /\ replaced' = replaced
          /\ checkpoint' = checkpoint /\ context' = context /\ record' = record
      BY <1>7, IdleStage DEF Finalize, history
    <2>2. (InOrder /\ PriorKnown /\ NothingLate /\ Unmoved /\ Advanced /\ Recovering
           /\ ReplacedForward)'
      BY <2>1 DEF InOrder, PriorKnown, Validated, NothingLate, Unmoved, Read, Advanced,
                  Recovering, ReplacedForward, Gates, Forward, Recovery
    <2>3. OperatorStops' /\ RecoveryFilesNamePrior' /\ Compensated'
      BY <1>1, <1>2, <2>1 DEF OutcomeInv, OperatorStops, RecoveryFilesNamePrior, Compensated
    <2>4. Released'
      BY <1>1, <1>2, <2>1 DEF OutcomeInv, Released, Undisturbed, Runs
    <2> QED
      BY <1>2, <2>1, <2>2, <2>3, <2>4 DEF OutcomeInv
  <1> QED
    BY <1>5, <1>6, <1>7 DEF Commands

\* Nothing has happened yet.
LEMMA OutcomeInit == Init => OutcomeInv
  <1> SUFFICES ASSUME Init PROVE OutcomeInv
    OBVIOUS
  <1>1. /\ ctl = Idle /\ ctl.stage = "idle" /\ raced = NoRace /\ last = "none" /\ lastId = 2
        /\ replaced = [w \in Workloads |-> None]
    BY IdleStage DEF Init
  <1>2. EcsShape
    <2> DEFINE d(w) == Serving(left.start, IF w = "web" THEN 1 ELSE 2)
    <2>1. \A w \in Workloads : ecs[w] = {d(w)} /\ d(w).id <= 2
      BY DEF Init, Serving
    <2> HIDE DEF d
    <2> QED
      BY <1>1, <2>1 DEF EcsShape
  <1>3. raced \in [Workloads -> Races] /\ \A w \in Workloads : raced[w].when = "never"
    BY <1>1 DEF NoRace, Races
  <1>4. InOrder /\ PriorKnown /\ NothingLate /\ ReplacedForward /\ RecoveryFilesNamePrior
    BY <1>1 DEF InOrder, PriorKnown, Validated, NothingLate, ReplacedForward,
                RecoveryFilesNamePrior, Gates, Forward, Recovery
  <1>5. Unmoved /\ Advanced /\ Recovering /\ OperatorStops
    BY <1>1, <1>3 DEF Unmoved, Read, Advanced, Recovering, OperatorStops, Gates, Forward, Recovery
  <1>6. Released /\ Compensated
    BY <1>1 DEF Released, Compensated
  <1> QED
    BY <1>1, <1>2, <1>3, <1>4, <1>5, <1>6 DEF OutcomeInv

\* OutcomeInv is inductive relative to DeploymentInv.
LEMMA OutcomeStep == DeploymentInv /\ OutcomeInv /\ [Next]_vars => OutcomeInv'
  <1> SUFFICES ASSUME DeploymentInv, OutcomeInv, [Next]_vars PROVE OutcomeInv'
    OBVIOUS
  <1>1. CASE UNCHANGED vars
    <2>1. ecs' = ecs /\ lastId' = lastId /\ UNCHANGED <<late, ctl, files, last, history>>
      BY <1>1 DEF vars, files, history
    <2>2. /\ EcsShape'
          /\ \A w \in Workloads : Front'[w] = Front[w] /\ (w \in Alone' <=> w \in Alone)
      BY <2>1, SameView DEF OutcomeInv
    <2> QED
      BY <2>1, <2>2, QuietOutcome
  <1>2. CASE MigrationExits
    <2>1. ecs' = ecs /\ lastId' = lastId /\ UNCHANGED <<late, ctl, files, last, history>>
      BY <1>2 DEF MigrationExits, provider
    <2>2. /\ EcsShape'
          /\ \A w \in Workloads : Front'[w] = Front[w] /\ (w \in Alone' <=> w \in Alone)
      BY <2>1, SameView DEF OutcomeInv
    <2> QED
      BY <2>1, <2>2, QuietOutcome
  <1>3. ASSUME NEW w \in Workloads,
               EcsRollOut(w) \/ EcsStopTask(w) \/ EcsForget(w) \/ EcsFail(w)
        PROVE  OutcomeInv'
    <2>1. UNCHANGED <<late, ctl, files, last, history>>
      BY <1>3 DEF EcsRollOut, EcsStopTask, EcsForget, EcsFail
    <2> QED
      BY <1>3, <2>1, QuietView, QuietOutcome DEF DeploymentInv, OutcomeInv
  <1>4. CASE Provider
    BY <1>2, <1>3, <1>4, LateOutcome DEF Provider
  <1>5. CASE Crash
    BY <1>5, EndOutcome DEF Crash, files
  <1>6. CASE StopMigration
    BY <1>6, EndOutcome DEF StopMigration, files
  <1>7. CASE Controller
    BY <1>6, <1>7, GateCheckWebOutcome, GateCheckWorkerOutcome, EarlyOutcome, GateReadOutcome,
       ForwardStepOutcome, ForwardUpdateOutcome, ForwardUpdateLostOutcome, RaiseOutcome,
       RecoveryStepOutcome, RestoreOutcome, EndRecoveryOutcome, WriteRecordOutcome
    DEF Controller
  <1> QED
    BY <1>1, <1>4, <1>5, <1>7, CommandsOutcome, OperatorOutcome DEF Next

\* OutcomeInv holds throughout.
THEOREM OutcomeInvariant == Spec => []OutcomeInv
  BY DeploymentInvariant, OutcomeInit, OutcomeStep, PTL DEF Spec

\* What Runs says of Front and Alone is what ServesAlone says of the services.
LEMMA RunsServes == \A td : \A w \in Workloads : Runs(w, td) <=> ServesAlone(w, td)
  BY FrontIs DEF Runs, ServesAlone

\* However updates, failures, lost calls and rollouts interleave, a release that ended
\* green and that no operator disturbed behind its gate is what both services run alone,
\* and the record names it.
THEOREM GreenReleaseServes == Spec => []ReleasedPairServes
  <1>1. OutcomeInv => ReleasedPairServes
    BY RunsServes DEF OutcomeInv, Released, ReleasedPairServes, PairServes
  <1> QED
    BY <1>1, OutcomeInvariant, PTL

\* A compensation or a restoration that reports success has put back the pair of the
\* context, alone, with no call still on its way.
THEOREM CompensationRestores == Spec => []CompensatedPairServes
  <1>1. OutcomeInv => CompensatedPairServes
    BY RunsServes DEF OutcomeInv, Compensated, CompensatedPairServes, PairServes
  <1> QED
    BY <1>1, OutcomeInvariant, PTL

\* No command overwrites what an operator deployed before its last gate.
THEOREM OperatorNotOverwritten == Spec => []OperatorChangeKept
  <1>1. OutcomeInv => OperatorChangeKept
    BY FrontIs DEF OutcomeInv, OperatorStops, OperatorChangeKept
  <1> QED
    BY <1>1, OutcomeInvariant, PTL

\* The worker's forward update finds web on the new release, alone, and web stays so.
THEOREM WebFirst == Spec => []WebLeadsWorker
  <1>1. OutcomeInv => WebLeadsWorker
    <2> SUFFICES ASSUME OutcomeInv, ctl.stage \in Forward, ctl.attempted["worker"].how # "no",
                        raced["web"].when # "during"
                 PROVE  ServesAlone("web", ctl.target)
      BY DEF WebLeadsWorker
    <2>1. ctl.stage # "web"
      BY DEF OutcomeInv, InOrder
    <2>2. Runs("web", ctl.target)
      BY <2>1 DEF OutcomeInv, Advanced, Forward
    <2> QED
      BY <2>2, RunsServes
  <1> QED
    BY <1>1, OutcomeInvariant, PTL

\* Wherever the runner dies after an update, checkpoint and context name what it replaced.
THEOREM FilesNamePrior == Spec => []RecoveryFilesNamePrior
  <1>1. OutcomeInv => RecoveryFilesNamePrior
    BY DEF OutcomeInv
  <1> QED
    BY <1>1, OutcomeInvariant, PTL

---------------------------------------------------------------------------
(* The worker has one task at a time.                                       *)

\* At most one of the deployments runs a task.
Lone(S) == \A d, e \in S : d.run = 1 /\ e.run = 1 => d.id = e.id

\* No rollout is under way.
Calm(S) == \A d \in S : d.primary => d.state # "IN_PROGRESS"

\* The stages behind the last gate.
Behind == Forward \cup Recovery

\* From the last gate on, and once it is called for until the next command, the
\* worker runs one task, and as long as its service may start a second one beside
\* it nothing makes it do so.  No call is made before that gate.
WorkerInv ==
    /\ ctl.stage \notin {"idle"} \cup Behind => "worker" \notin called
    /\ raced["worker"].when # "during" /\ ("worker" \in called \/ ctl.stage \in Behind) =>
        Lone(ecs["worker"]) /\ (room["worker"] = 1 \/ Calm(ecs["worker"]))

\* A step of the controller that calls nobody and does not pass the last gate.
LEMMA StageWorker ==
  ASSUME WorkerInv, UNCHANGED <<ecs, room, raced, called>>,
         ctl'.stage \in Behind => ctl.stage \in Behind,
         ctl'.stage \notin {"idle"} \cup Behind => ctl.stage \notin {"idle"} \cup Behind
  PROVE  WorkerInv'
  BY DEF WorkerInv

\* An update starts no task, and the controller's leaves room for one.
LEMMA AppliedWorker ==
  ASSUME EcsInv, NEW w \in Workloads, NEW td, Apply(w, td), room' = Configured(w)
  PROVE  /\ w # "worker" => ecs'["worker"] = ecs["worker"] /\ room' = room
         /\ w = "worker" => /\ room'["worker"] = 1
                            /\ Lone(ecs["worker"]) => Lone(ecs'["worker"])
  <1>1. w # "worker" => ecs'["worker"] = ecs["worker"] /\ room' = room
    BY ConfiguredFits DEF Apply, EcsInv
  <1>2. ASSUME w = "worker", Lone(ecs["worker"])
        PROVE  Lone(ecs'["worker"])
    <2> DEFINE new == [id |-> lastId + 1, td |-> td, run |-> 0,
                       state |-> "IN_PROGRESS", primary |-> TRUE]
    <2>1. ecs'["worker"] = Demoted(ecs["worker"]) \cup {new} /\ new.run = 0
      BY <1>2 DEF Apply, Updated, Demoted, EcsInv
    <2> HIDE DEF new
    <2>2. \A d \in Demoted(ecs["worker"]) : \E e \in ecs["worker"] : d.id = e.id /\ d.run = e.run
      <3> SUFFICES ASSUME NEW e \in ecs["worker"]
                   PROVE  LET d == [e EXCEPT !.primary = FALSE] IN d.id = e.id /\ d.run = e.run
        BY DEF Demoted
      <3>1. e \in Deployments
        BY DEF EcsInv
      <3> QED
        BY <3>1 DEF Deployments
    <2>3. \A d \in ecs'["worker"] :
            d.run = 1 => \E e \in ecs["worker"] : d.id = e.id /\ e.run = 1
      BY <2>1, <2>2
    <2> QED
      BY <1>2, <2>3 DEF Lone
  <1> QED
    BY <1>1, <1>2, ConfiguredFits

\* A call of update_service behind the last gate, applied or not.
LEMMA SendWorker ==
  ASSUME EcsInv, WorkerInv, NEW w \in Workloads, NEW td,
         ctl.stage \in Behind, ctl'.stage \in Behind, raced' = raced,
         \/ Apply(w, td) /\ room' = Configured(w)
         \/ UNCHANGED <<ecs, room>>
  PROVE  WorkerInv'
  BY AppliedWorker DEF WorkerInv

\* ECS by itself: a rollout beside a running task needs the room for it.
LEMMA QuietWorker ==
  ASSUME EcsInv, EcsShape, WorkerInv, NEW w \in Workloads,
         \/ EcsRollOut(w) \/ EcsStopTask(w) \/ EcsForget(w)
         \/ EcsFail(w) \/ EcsApplyLate(w) \/ EcsDropLate(w)
  PROVE  WorkerInv'
  <1>0. /\ UNCHANGED <<ctl, raced, called>>
        /\ ecs["worker"] \subseteq Deployments
    BY DEF EcsRollOut, EcsStopTask, EcsForget, EcsFail, EcsApplyLate, EcsDropLate, history, EcsInv
  <1>1. CASE EcsApplyLate(w)
    BY <1>0, <1>1, AppliedWorker DEF EcsApplyLate, WorkerInv
  <1>2. CASE ecs'["worker"] = ecs["worker"] /\ room' = room
    BY <1>0, <1>2 DEF WorkerInv
  <1>3. ASSUME NEW d \in ecs[w], NEW e, Replace(w, d, e), room' = room, w = "worker",
               e.id = d.id, e.primary = d.primary, Lone(ecs[w]),
               e.run = 1 => d.run = 1 \/ \A x \in ecs[w] : x.run # 1
        PROVE  Lone(ecs'["worker"])
    <2>1. ecs'["worker"] = (ecs["worker"] \ {d}) \cup {e}
      BY <1>3 DEF Replace, EcsInv
    <2> QED
      BY <1>3, <2>1 DEF Lone
  <1>4. CASE EcsRollOut("worker") /\ w = "worker"
    <2>1. PICK d \in ecs["worker"] :
            /\ d.primary /\ d.state = "IN_PROGRESS"
            /\ Cardinality({x \in ecs["worker"] : x.run = 1}) + Desired(d.td) <= room["worker"]
            /\ Replace("worker", d, [d EXCEPT !.run = Desired(d.td), !.state = "COMPLETED"])
      BY <1>4 DEF EcsRollOut
    <2> DEFINE e == [d EXCEPT !.run = Desired(d.td), !.state = "COMPLETED"]
               running == {x \in ecs["worker"] : x.run = 1}
    <2>2. room' = room /\ ~Calm(ecs["worker"])
      BY <1>4, <2>1 DEF EcsRollOut, Calm
    <2>3. e.id = d.id /\ e.primary = d.primary /\ e.run = Desired(d.td)
      BY <1>0 DEF Deployments
    <2>4. ASSUME room["worker"] = 1, e.run = 1 PROVE \A x \in ecs["worker"] : x.run # 1
      <3>1. IsFiniteSet(running)
        BY FS_Subset DEF EcsInv
      <3>2. Cardinality(running) \in Nat
        BY <3>1, FS_CardinalityType
      <3>3. Cardinality(running) = 0
        BY <2>1, <2>3, <2>4, <3>2
      <3> QED
        BY <3>1, <3>3, FS_EmptySet
    <2>5. Replace("worker", d, e)
      BY <2>1
    <2> HIDE DEF e
    <2> QED
      BY <1>0, <1>3, <1>4, <2>2, <2>3, <2>4, <2>5 DEF WorkerInv
  <1>5. CASE EcsStopTask("worker") /\ w = "worker"
    <2>1. PICK d \in ecs["worker"] : ~d.primary /\ Replace("worker", d, [d EXCEPT !.run = 0])
      BY <1>5 DEF EcsStopTask
    <2> DEFINE e == [d EXCEPT !.run = 0]
    <2>2. /\ room' = room /\ e.id = d.id /\ e.primary = d.primary /\ e.run = 0 /\ ~e.primary
          /\ Replace("worker", d, e)
      BY <1>0, <1>5, <2>1 DEF EcsStopTask, Deployments
    <2> HIDE DEF e
    <2>3. Calm(ecs["worker"]) => Calm(ecs'["worker"])
      BY <2>2 DEF Replace, EcsInv, Calm
    <2> QED
      BY <1>0, <1>3, <1>5, <2>2, <2>3 DEF WorkerInv
  <1>6. CASE EcsForget("worker") /\ w = "worker"
    <2>1. room' = room /\ ecs'["worker"] \subseteq ecs["worker"]
      BY <1>6 DEF EcsForget, EcsInv
    <2> QED
      BY <1>0, <2>1 DEF WorkerInv, Lone, Calm
  <1>7. CASE EcsFail("worker") /\ w = "worker"
    <2>1. PICK d \in ecs["worker"] : /\ d.primary /\ d.state = "IN_PROGRESS"
                                     /\ Replace("worker", d, [d EXCEPT !.state = "FAILED"])
      BY <1>7 DEF EcsFail
    <2> DEFINE e == [d EXCEPT !.state = "FAILED"]
    <2>2. /\ room' = room /\ e.id = d.id /\ e.primary = d.primary /\ e.run = d.run
          /\ Replace("worker", d, e) /\ ~Calm(ecs["worker"])
      BY <1>0, <1>7, <2>1 DEF EcsFail, Deployments, Calm
    <2> HIDE DEF e
    <2> QED
      BY <1>0, <1>3, <1>7, <2>2 DEF WorkerInv
  <1>8. w # "worker" /\ ~EcsApplyLate(w) => ecs'["worker"] = ecs["worker"] /\ room' = room
    BY DEF EcsRollOut, EcsStopTask, EcsForget, EcsFail, EcsDropLate, Replace, EcsInv
  <1>9. EcsDropLate(w) => ecs' = ecs /\ room' = room
    BY DEF EcsDropLate
  <1> QED
    BY <1>1, <1>2, <1>4, <1>5, <1>6, <1>7, <1>8, <1>9

\* The gate proves the worker alone and at rest before anything is sent.
LEMMA GateWorker ==
  ASSUME DeploymentInv, EcsShape, WorkerInv, GateCheckWorker
  PROVE  WorkerInv'
  <1>1. /\ ctl.stage \in Gates /\ ctl \in Controllers
        /\ ProvenTerminal("worker", ctl.snap["worker"].td, Primary("worker").id, {})
        /\ UNCHANGED <<ecs, room, raced, called>>
    BY DEF GateCheckWorker, DeploymentInv, CtlInv, provider, history
  <1>2. \A d \in ecs["worker"] : d = Primary("worker")
    BY <1>1, PrimaryIs DEF ProvenTerminal, Others, DeploymentInv
  <1>3. Lone(ecs["worker"]) /\ Calm(ecs["worker"])
    BY <1>1, <1>2 DEF ProvenTerminal, Captured, Lone, Calm
  <1>4. ctl.stage \notin {"idle"} \cup Behind
    BY <1>1 DEF Gates, Behind, Forward, Recovery
  <1>5. "worker" \notin called
    BY <1>4 DEF WorkerInv
  <1> QED
    BY <1>1, <1>3, <1>5 DEF WorkerInv

\* An operator's update is before the gate, or disturbs the command.
LEMMA OperatorWorker ==
  ASSUME DeploymentInv, OutcomeInv, WorkerInv, NEW w \in Workloads, OperatorUpdate(w)
  PROVE  WorkerInv'
  <1>1. PICK td \in migrated, tasks \in {1, 2} :
            /\ Apply(w, td) /\ room' = [room EXCEPT ![w] = tasks]
            /\ raced' = [raced EXCEPT ![w] =
                            [when |-> IF BeforeGate(w) THEN "before" ELSE "during",
                             id |-> lastId + 1, td |-> td, over |-> ctl.expected]]
    BY DEF OperatorUpdate
  <1>2. ctl' = ctl /\ called' = called /\ EcsInv /\ raced \in [Workloads -> Races]
    BY DEF OperatorUpdate, DeploymentInv, OutcomeInv
  <1>3. CASE w # "worker"
    <2>1. /\ ecs'["worker"] = ecs["worker"] /\ room'["worker"] = room["worker"]
          /\ raced'["worker"] = raced["worker"]
      BY <1>1, <1>2, <1>3 DEF Apply, EcsInv
    <2> QED
      BY <1>2, <2>1 DEF WorkerInv
  <1>4. CASE w = "worker"
    <2>1. raced'["worker"].when = IF BeforeGate("worker") THEN "before" ELSE "during"
      BY <1>1, <1>2, <1>4
    <2>2. BeforeGate("worker") => ctl.stage \notin {"idle"} \cup Behind
      BY DEF BeforeGate, LastGate, Behind, Forward, Recovery
    <2> QED
      BY <1>2, <2>1, <2>2 DEF WorkerInv
  <1> QED
    BY <1>3, <1>4

\* The controller's calls.
LEMMA CallsWorker ==
  ASSUME DeploymentInv, WorkerInv, NEW w \in Workloads,
         \/ ForwardUpdate(w) \/ ForwardUpdateLost(w)
         \/ Restore(w) \/ RestoreLost(w)
  PROVE  WorkerInv'
  <1>1. ctl \in Controllers /\ EcsInv
    BY DEF DeploymentInv, CtlInv
  <1>2. ctl.stage \in Behind /\ raced' = raced
    BY DEF ForwardUpdate, ForwardUpdateLost, Restore, RestoreLost, Behind, Forward, Recovery
  <1>3. ctl'.stage \in Behind
    <2>1. CASE ForwardUpdate(w) \/ Restore(w)
      BY <1>1, <1>2, <2>1 DEF ForwardUpdate, Restore, Controllers
    <2>2. CASE ForwardUpdateLost(w)
      BY <1>1, <2>2 DEF ForwardUpdateLost, EnterRecovery, Controllers, Behind, Recovery
    <2>3. CASE RestoreLost(w)
      <3>1. /\ ctl' = [Failed(w) EXCEPT !.stage = AfterRestore(w).stage, !.at = AfterRestore(w).at]
            /\ AfterRestore(w).stage \in Recovery
        BY <2>3 DEF RestoreLost, AfterRestore, Recovery
      <3> QED
        BY <1>1, <3>1, FailedFits DEF Controllers, Behind
    <2> QED
      BY <2>1, <2>2, <2>3
  <1>4. \E td : \/ Apply(w, td) /\ room' = Configured(w)
                \/ UNCHANGED <<ecs, room>>
    BY DEF ForwardUpdate, ForwardUpdateLost, Restore, RestoreLost, provider
  <1> QED
    BY <1>1, <1>2, <1>3, <1>4, SendWorker

\* Where the other steps of the controller lead.
LEMMA MovesWorker ==
  ASSUME DeploymentInv, WorkerInv,
         \/ GateCheckWeb \/ Register \/ LaunchMigration \/ MigrationPassed \/ StopMigration
         \/ BindWebRuntime \/ SmokePassed \/ TerminalCheck \/ WriteRecord \/ RecordFails \/ Raise
         \/ Observed \/ RecoveryProof \/ EndRecovery \/ Crash \/ Finalize
         \/ \E w \in Workloads : \/ GateRead(w) \/ ForwardReceipt(w) \/ ForwardStable(w)
                                 \/ Prepare(w) \/ SkipRestore(w) \/ RestoreReceipt(w) \/ Observe(w)
  PROVE  WorkerInv'
  <1> DEFINE Early(st) == st \notin {"idle"} \cup Behind
             Fine == /\ ctl'.stage \in Behind => ctl.stage \in Behind
                     /\ Early(ctl'.stage) => Early(ctl.stage)
  <1>1. ctl \in Controllers /\ Fits(ctl, context) /\ Idle.stage = "idle"
    BY IdleStage DEF DeploymentInv, CtlInv
  <1>2. UNCHANGED <<ecs, room, raced, called>>
    BY DEF GateCheckWeb, Register, LaunchMigration, MigrationPassed, StopMigration,
           BindWebRuntime, SmokePassed, TerminalCheck, WriteRecord, RecordFails, Raise, Observed,
           RecoveryProof, EndRecovery, Crash, Finalize, GateRead, ForwardReceipt, ForwardStable,
           Prepare, SkipRestore, RestoreReceipt, Observe, provider, history
  <1>3. CASE GateCheckWeb \/ Register \/ LaunchMigration \/ MigrationPassed
    <2>1. Early(ctl.stage) /\ Early(ctl'.stage)
      BY <1>1, <1>3 DEF GateCheckWeb, Register, LaunchMigration, MigrationPassed, Controllers,
                        Gates, Behind, Forward, Recovery
    <2> QED
      BY <1>2, <2>1, StageWorker
  <1>4. CASE \E w \in Workloads : GateRead(w)
    <2>1. Early(ctl.stage) /\ Early(ctl'.stage)
      BY <1>1, <1>4 DEF GateRead, Controllers, Gates, Behind, Forward, Recovery
    <2> QED
      BY <1>2, <2>1, StageWorker
  <1>5. CASE StopMigration \/ WriteRecord \/ EndRecovery \/ Crash \/ Finalize
    <2>1. ctl'.stage = "idle"
      BY <1>1, <1>5 DEF StopMigration, WriteRecord, EndRecovery, Crash, Finalize
    <2> QED
      BY <1>2, <2>1, StageWorker DEF Behind, Forward, Recovery
  <1>6. CASE \/ BindWebRuntime \/ SmokePassed \/ TerminalCheck
             \/ \E w \in Workloads : ForwardReceipt(w) \/ ForwardStable(w)
    <2>1. ctl.stage \in Behind /\ ctl'.stage \in Behind
      BY <1>1, <1>6 DEF BindWebRuntime, SmokePassed, TerminalCheck, ForwardReceipt, ForwardStable,
                        Controllers, Behind, Forward
    <2> QED
      BY <1>2, <2>1, StageWorker
  <1>7. CASE RecordFails
    <2>1. ctl.stage \in Behind /\ ctl'.stage \in Behind
      BY <1>1, <1>7 DEF RecordFails, EnterRecovery, Controllers, Behind, Forward, Recovery
    <2> QED
      BY <1>2, <2>1, StageWorker
  <1>8. CASE Raise
    <2>1. CASE Mutated
      <3>1. ctl.stage \in Behind
        BY <1>1, <2>1 DEF Mutated, Fits, Behind
      <3>2. ctl'.stage \in Behind
        BY <1>1, <1>8, <2>1 DEF Raise, EnterRecovery, Controllers, Behind, Recovery
      <3> QED
        BY <1>2, <3>1, <3>2, StageWorker
    <2>2. CASE ~Mutated
      <3>1. ctl'.stage = "idle"
        BY <1>1, <1>8, <2>2 DEF Raise
      <3> QED
        BY <1>2, <3>1, StageWorker DEF Behind, Forward, Recovery
    <2> QED
      BY <2>1, <2>2
  <1>9. CASE \/ Observed \/ RecoveryProof
             \/ \E w \in Workloads : Prepare(w) \/ SkipRestore(w) \/ RestoreReceipt(w) \/ Observe(w)
    <2>1. ctl.stage \in Recovery
      BY <1>9 DEF Observed, RecoveryProof, Prepare, SkipRestore, RestoreReceipt, Observe, Recovery
    <2>2. ctl'.stage \in Recovery
      <3>1. CASE Observed \/ RecoveryProof
        BY <1>1, <3>1 DEF Observed, RecoveryProof, Controllers, Recovery
      <3>2. ASSUME NEW w \in Workloads, Prepare(w) PROVE ctl'.stage \in Recovery
        BY <1>1, <3>2, FailedFits DEF Prepare, Controllers, Recovery
      <3>3. ASSUME NEW w \in Workloads, SkipRestore(w) \/ RestoreReceipt(w)
            PROVE  ctl'.stage \in Recovery
        <4>1. AfterRestore(w).stage \in Recovery
          BY DEF AfterRestore, Recovery
        <4> QED
          BY <1>1, <3>3, <4>1, FailedFits DEF SkipRestore, RestoreReceipt, Controllers
      <3>4. ASSUME NEW w \in Workloads, Observe(w) PROVE ctl'.stage \in Recovery
        BY <1>1, <2>1, <3>4, FailedFits DEF Observe, Controllers
      <3> QED
        BY <1>9, <3>1, <3>2, <3>3, <3>4
    <2> QED
      BY <1>2, <2>1, <2>2, StageWorker DEF Behind
  <1> QED
    BY <1>3, <1>4, <1>5, <1>6, <1>7, <1>8, <1>9

\* WorkerInv is inductive relative to the other two.
LEMMA WorkerStep == DeploymentInv /\ OutcomeInv /\ WorkerInv /\ [Next]_vars => WorkerInv'
  <1> SUFFICES ASSUME DeploymentInv, OutcomeInv, WorkerInv, [Next]_vars PROVE WorkerInv'
    OBVIOUS
  <1>1. CASE UNCHANGED vars \/ MigrationExits
    <2>1. UNCHANGED <<ecs, room, raced, called, ctl>>
      BY <1>1 DEF vars, MigrationExits, provider, history
    <2> QED
      BY <2>1, StageWorker
  <1>2. CASE Provider
    BY <1>1, <1>2, QuietWorker DEF Provider, DeploymentInv, OutcomeInv
  <1>3. CASE StartPromote \/ StartRollback \/ StartFinalizationRecovery
    <2>1. called' = {} /\ ctl'.stage = "prior"
      BY <1>3 DEF StartPromote, StartRollback, Start, StartFinalizationRecovery, Idle
    <2> QED
      BY <2>1 DEF WorkerInv, Behind, Forward, Recovery
  <1>4. CASE Controller \/ Crash \/ Finalize
    BY <1>4, GateWorker, CallsWorker, MovesWorker DEF Controller, OutcomeInv
  <1> QED
    BY <1>1, <1>2, <1>3, <1>4, OperatorWorker DEF Next, Commands

\* Whatever percentages the worker's service had before: once the command has called
\* update_service for the worker, through rollouts, compensations, lost and late calls
\* and crashes, one task of the worker runs at most, unless an operator raced it.
THEOREM OneWorker == Spec => []WorkerSingleton
  <1>1. Init => WorkerInv
    <2> SUFFICES ASSUME Init PROVE WorkerInv
      OBVIOUS
    <2>1. called = {} /\ ctl.stage = "idle"
      BY IdleStage DEF Init
    <2> QED
      BY <2>1 DEF WorkerInv, Behind, Forward, Recovery
  <1>2. WorkerInv => WorkerSingleton
    BY DEF WorkerInv, WorkerSingleton, Lone
  <1> QED
    BY <1>1, <1>2, DeploymentInvariant, OutcomeInvariant, WorkerStep, PTL DEF Spec
=============================================================================
