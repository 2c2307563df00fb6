# A specification of litestream-operator

The operator replicates the SQLite database of an application with a Litestream
sidecar, and restores it. Its correctness is a matter of order: who may write the
database at a moment, and what is left when a call, a container or a cache is not
where the code expects it. These TLA+ modules state that order, TLC checks it on
small instances, and TLAPS proves every safety property of the regular runs for
all of them.

## The system

| Part | State it keeps | Operations | Interacts with |
|---|---|---|---|
| Restore controller (`litestreamrestore_controller.go`) | `status.phase`, `originalReplicas`, `jobName` of each LitestreamRestore; the Lease `litestream-restore-<source>`; the Job `<restore>-restore` | one handler per phase (Pending, AcquiringLock, Fencing, Restoring, Resuming), finalization | sets the pause annotation on the source, scales the workload, waits for the ConfigMap |
| Replica controller (`litestreamreplica_controller.go`, `workload.go`) | ConfigMaps `<replica>-litestream` and `-bootstrap-sql`; annotations on the pod template; status | render, annotate, report, finalization | reads the pause annotation, triggers rollouts |
| Restore Job (`buildRestoreJob`) | the database file on the volume | a shell script: guard, `litestream restore`, clean-up; up to `backoffLimit` restarts | the archive in S3 |
| Sidecar injector (`sidecar_injector.go`) | none | admits each new pod with the annotation; gives it the sidecar and the init containers `litestream-restore` and `db-bootstrap` | reads the LitestreamReplica, uncached; the containers write the database file |
| Replica admission (`litestreamreplica_webhook.go`) | none | admits each create and update, those of the operator too | reads the workload, cached |
| Restore admission (`litestreamrestore_webhook.go`) | none | checks the spec of a LitestreamRestore | - |
| Manager (`cmd/main.go`) | informer cache | one worker per controller | all of the above |

Hard in this system: every `Get` of the controllers reads an informer cache that
may be old; every call can stop between two writes; statuses are written by merge
patches against the copy read at the start; several restores of one source, and
the replica controller, act on the same workload; Job and init containers of a
pod are killed between two commands and run again from the start; the user and
the garbage collector act at any time. `PROJECT.json` lists these hazards line by
line, each with the properties that watch it.

What makes the parts correct: one InPlace restore at a time per source; the
application is down and replication paused while a Job writes the database; no
scale-up without a successful restore; nothing stays locked or paused; every
restore ends. For the replica: a pod that gets the sidecar finds its ConfigMaps;
no template names a replica that is gone; the parts of the status agree, but in the
phase Error, and end up true; a changed spec reaches the pods. For the database: a restore error never
becomes a fresh database; a Job that succeeded has restored the file that was
asked for; without `force` a file that was there stays as it was.

## Modules

Restore side:

- `Cluster`: the objects around one source LitestreamReplica (restores, Lease,
  Jobs, ConfigMap, workload and pods), each as stored and as the cache shows it,
  and the steps of everybody who is not the operator.
- `RestoreController`: `Reconcile` of a LitestreamRestore. `Begin` reads the
  restore and its source and branches as `Reconcile` does; after that each action
  is the part of the call from one write to the API server to the next, with the
  reads before it. `pc` says where the call is, `my` is its copy of the restore.
  `Abort` ends a call anywhere (an API error, a crash).
- `RestoreSystem`: the two together with the replica controller as far as restores
  meet it: a call of it reads the pause annotation (`ReadReplica`), and writes
  `litestream.yml` in a later step (`ReconcileLitestreamConfig`), so the restore
  controller acts in between. Properties, fairness. `MCRestoreSystem` names the
  model values.
- `RestoreLock`: the abstract specification, a lock that clients take when it is
  free, enter a section under, and give back after it. `RestoreSystem` implements
  it: `holder` is the Lease, `inside` the restores from Fencing until their Job has
  ended or somebody deletes them (`Critical`).

Replica side:

- `ReplicaCluster`: the LitestreamReplicas that name one workload, their
  ConfigMaps, the pod template, the pods and how each workload kind replaces
  them, the injector (`Handle`) and the admission check (`Validated`).
- `ReplicaController`: `Reconcile` of a LitestreamReplica, in the same way.
- `ReplicaSystem`: properties and fairness. `MCReplicaSystem`: model values.

Database:

- `Volume`: the file at each place (a volume and a directory), which mount of the
  workload covers the database path (`findVolumeForPath`,
  `resolveRestoreTarget`), what the specs say and which of them admission lets in.
- `RestoreJob`: the script of `buildRestoreJob`, one action per command, and the
  Job controller with its `backoffLimit`.
- `PodStartup`: the init containers the injector adds, their scripts command by
  command, the application and the sidecar.
- `DatabaseSystem`: these two around one database, with the workload controller, a
  user, and the restore controller phase by phase, reduced to what it does to them
  (the check for a backup that every call begins with included: `NoBackup`). The
  user scales, pauses and removes the database at any moment, in mid-restore too:
  nothing in `reconcileRestoring` looks at the workload again. `breached` is a
  history variable: he has scaled the application up under the Job of a restore in
  place. `MCDatabaseSystem`: the ways to mount a volume.

Proofs: `RestoreProofs` (types), `RestoreLockProofs`, `RestoreOutcomeProofs`,
`RestoreRefinementProofs`, `RestoreSafetyProofs`; `ReplicaProofs` (types),
`ReplicaSafetyProofs`; `DatabaseProofs`.

### How state and actions correspond to the code

| Module state | Code |
|---|---|
| `restore[r].phase`, `.originalReplicas`, `.jobName`, `.conditions` | the status subresource |
| `lease` | `holderIdentity` of the Lease, or none |
| `config`, `configMap[r]` | what `litestream.yml` holds: `dbs: []`, or the full rendering; in `DatabaseSystem` `config` stands for the pause annotation as well |
| `bootstrapMap[r]` | the spec the ConfigMap `<replica>-bootstrap-sql` was written from |
| `render` | what a call of the replica controller is about to write there |
| `workload.replicas`, `.active`, `.terminating` | `spec.replicas`; pods `status.replicas` counts for both kinds; pods only a StatefulSet's counts |
| `workload.template` | the annotations `inject`, `config`, `injection-spec-hash` |
| `cache`, `Seen...` | the informer cache: a kind in `Lagging` shows an old object until `SyncCache`, others are current |
| `my`, `MergePatch`, `MergeStatus` | the copy of a call and `client.MergeFrom`: only fields that differ from the base are written |
| `generation`, `sidecar`, `injection` of a replica | the number of the last change of any field, of one the injector uses, of one `injectionSpecHash` covers |
| `sql` of a replica, of a pod | `spec.bootstrap.sql` is set; it was when the injector let the pod in, so the pod mounts that ConfigMap |
| `original` in `DatabaseSystem` | `status.originalReplicas` |
| `volume[place]` | the database file there: who made it, and whether it is whole |
| `Home`, `Wanted`, `JobPlace` | where the application has it, where `resolveRestoreTarget` wants it, where the mounts of the Job put it |
| `step`, `restarts` / `todo`, `at` | the next command of the Job's script and its restarts / the init containers left and the command of the first |

Names of actions are those of the handlers and of what they do: `CreateLease`,
`LeaseIsOurs`, `LeaseIsHeld` are the branches of `reconcileAcquiringLock`;
`PauseAgain`, `AwaitPausedConfig`, `ScaleDown`, `CreateJob`, `EnterRestoring` the
writes and returns of `reconcileFencing`; `ReportMissing`, `ReportTooMany`,
`ReportUnsafe`, `ReportPaused`, `ReportRunning` the five ways out of
`updateStatus`; `Guard`, `LitestreamRestores`, `LitestreamFails`, `CleanUp` the
commands of the Job.

### Abstractions

- `Begin` reads the restore and its source at once.
- Times, messages and events are left out; so is the ConfigMap a restore Job
  mounts (written just before the Job, in `CreateJob`).
- `reconcileAcquiringLock` also has a branch for ToPVC restores, which nothing
  reaches: `mode` cannot be changed.
- The workload's status is current except through the cache. `Replicas` is 1 in
  the runs: the admission check refuses more. On the replica side `readyReplicas`
  is counted from the pods the Pod cache shows, instead of the number the workload
  controller stores from them.
- resourceVersions are compared by value: an update, or a `CreateOrUpdate`, from an
  old copy is refused if the object now differs from it (`UpdateAccepted`,
  `Refused`), and `CreateOrUpdate` writes nothing if its copy already holds what is
  wanted (`Written`). An object that has changed and changed back passes for
  unchanged; the code would be refused and try again.
- On the replica side one workload, webhooks that are always up, and specs that
  are otherwise valid; the metrics are one bit, `behind`. "RollingUpdate" stands
  for a Deployment with `maxSurge` > 0, "Recreate" for one `isRolloutStrategySafe`
  accepts; the latter also accepts RollingUpdate with `maxSurge: 0`, whose pods
  are not modelled. The same number stands for a spec value only once: a change
  back to an earlier value is a new number.
- Names of restores and replicas are used once.
- `litestream` and `sqlite3` are not in this repository. `CheckFirst` leaves open
  whether `litestream restore -integrity-check` puts a file in place before or
  after the check: properties that hold are checked and proved for either. A
  restored file lies at its final place at once (litestream renames it there); the
  archive is missing, sound or damaged. A check whose file has been removed
  meanwhile fails.
- `DatabaseSystem` has one restore and no lock, deletion, abort or stale cache:
  `RestoreSystem` has these, with Jobs that merely succeed or fail. The specs do
  not change while a restore is under way; everything else the user may do, he may
  do at any moment, but the database file is removed only while no pod runs
  ("Scale to 0, delete the DB file"). A call of the restore controller is one
  step: who scales the application up between its scale-down and the creation of
  the Job appears as one who does so right after.

## Runs

`CHECK_DEADLOCK FALSE` throughout: restores end, and the bounds on changes and
faults run out. Bounds: `MaxFaults`, `MaxFailures`, `MaxChanges` (how many faults
and changes a behaviour has), `MaxTerminating`, `MaxPods`. Two restores are enough
for every conflict over one lock; a third would only wait. Two replicas are enough
for one to undo the other's annotations. They start alike in `replica_pods`, both
with `bootstrap.sql`, so TLC treats them as symmetric there. One failure hits each
command of each script in turn; the Job's own restarts are not counted against it.
Faults are spent where the property is at risk; each run's `about` in
`PROJECT.json` says what it allows.

Passing:

| Run | Lags, fails, acts | Shows |
|---|---|---|
| `restore_faults` | two calls stop; restores are deleted | types; the lock holds in Fencing; Job only when fenced; complete only after success, and scale-up only then; no ended restore keeps the Lease, and nothing stays paused; a Job runs under its Lease |
| `restore_caches` | the caches of Lease, ConfigMap and source lag; one call stops or an error is ignored; the user scales the workload | the refinement of `RestoreLock` and the inductive invariants of the lock; the Lease, which the cache may show wrongly, is deleted for its holder only; no two Jobs together; the first Job starts under the paused `litestream.yml` |
| `restore_modes` | the Job cache lags; one call stops or cannot read the workload; restores and source are deleted, the backup disabled, the operator upgraded | an InPlace and a ToPVC restore: phases keep their order; `OutcomeInv`, no restore past Restoring on a Job the cache shows wrongly; the ToPVC restore leaves the application alone; `CallInv`, what the steps of a call rely on |
| `restore_liveness` | restores and the workload are deleted | every restore ends; every pause ends, unless a restore is deleted half way; one active restore, no pod under a Job, and as long as nobody deletes a restore no replication either, with `FencedWhileRestoring`, which keeps the pods away |
| `replica_pods` | the ConfigMap cache lags; one call stops; two deletions, edits of `bootstrap.sql` or new deployments | two replicas: types; a pod finds `litestream.yml`, and `bootstrap.sql` unless that is newer than its template; no template names a replica that is gone |
| `replica_status` | the Pod and workload caches lag; a call stops, or the clean-up or the scrape fails; two changes of any kind | the parts of the status agree with the phases Ready, Pending and Paused, the ready flag with every phase |
| `replica_converges` | the replica cache lags; two changes: `bootstrap.sql`, pause, replica count, lag, deletions | status, ConfigMap and sidecar end up right although patches are made against old copies; a deleted replica goes, unless the validator refuses it |
| `database` | one container fails or is killed; two acts of the user at any moment | no fresh database beside an archive, but for a user who scales up under the Job; success means restored and whole; without `force` nothing is lost, with the same exception; restores end, and applications start. All recovery modes, bootstrap or not, backup or not, mounts at the database path, a `subPath`, no claim, no mount |

The largest, `restore_modes` and `replica_pods`, have about two million distinct
states each. A lagging cache of the workload is beyond the runs on the restore side
(too many states beside the others); the proofs allow it.

### Disagreements between code and documents

Four are runs TLC refutes, with the quoted line in `PROJECT.json`:

- `queued_restore`: a restore queued behind another records zero replicas and
  completes with the application down.
- `deleted_waiting`: deleting a waiting or finished restore resumes replication
  under the Job of another.
- `misplaced_restore`: with the volume mounted above the database path the Job
  writes to its root: it succeeds, and the application resumes on the old file.
- `bootstrap_manual`: with manual recovery the bootstrap SQL runs although there
  is an archive.

The others are configurations beside the regular runs; TLC refutes each of them
with `tlc -config <name>.cfg` and `MCRestoreSystem`, `MCReplicaSystem` or
`MCDatabaseSystem`.

Restores:

- `conditions_shown`: conditions of a restore are never stored; `setStatus` takes
  the base of its patch after they were set.
- `terminal_final`: deleting the source turns a Completed restore into a Failed
  one ("Terminal phases - nothing more to do", restore controller, line 114).
- `crash_resuming`: a crash between release of the lock and Completed lets the
  first restore scale the application up under the Job of the second.
- `crash_livelock`: after that crash the two can undo each other's pause
  annotation for ever, even with a replica controller that sees every change.
- `stale_job`: a Job the cache does not show yet fails its restore, and the lock
  is free while it runs.
- `deleted_restoring`: deleting a restore frees the lock before its Job is gone.
- `backup_disabled`: a restore failed by `failRestore` keeps the lock
  (docs/USAGE.md:282-288 tells the user to look for an active restore).
- `deployment_fenced`: a Deployment's `status.replicas` leaves out pods that
  still terminate when the Job is created ("All pods terminated", line 471).
- `late_config`: a call of the replica controller that read the annotation before
  a second restore paused the source again writes the full `litestream.yml` after
  that restore has seen the paused one ("Verify ConfigMap reflects the pause").

Replicas:

- `missing_target`: a missing workload is never reported.
- `ready_mirrors`: `status.ready` is false and the condition Ready is True
  (litestreamreplica_types.go:278).
- `hash_applied`: under pause the status keeps the old hash (types, line 291).
- `deletion_blocked`: the validator refuses the removal of the finalizer while
  the workload has two replicas.
- `orphan_injection`: annotations that could not be removed outlive the replica.
- `unhashed_field`: some fields the injector uses roll nothing out (replica
  controller, line 655).
- `unsafe_rollout`: the operator starts the rollout before it looks at the
  strategy.
- `late_bootstrap`: `bootstrap.sql` is added to a replica that is annotated
  already. The injector goes by the new spec at once, so a pod that is created
  before the controller has written `<replica>-bootstrap-sql` waits for it.

The database:

- `misplaced_copy`: a ToPVC target in a directory: only the file name of
  `targetPath` is used, the copy lies at the root of the volume.
- `forced_failure`: "cleans up partial output files": with `force` a failed
  restore has removed the database that was to be replaced.
- `refused_retry`: the container dies after litestream has put the file in place;
  the next tries find the file and refuse it, and the Job fails although the
  database is restored.
- `half_bootstrap`: sqlite3 stops half way, and the application starts on what is
  there; the script looks at no exit code.
- `unchecked_start`: only if litestream checks after it puts the file in place
  (`CheckFirst = FALSE`): a kill in between leaves a file the next try takes as it
  is ("will NOT start against unverified data").
- `scaled_up`: the user scales the application up while a forced restore in place
  runs. The pod passes its restore container, since the old file is there; the
  restore fails, `rm -f` removes that file, and the application creates a new
  database beside the archive ("never converts a restore error into a fresh
  database", README.md:304 of the operator).

They also say under which assumptions the passing runs hold. For instance
`restore_caches` leaves the Job cache current because of `stale_job`, and
`restore_liveness` has no stopped calls because of `crash_livelock`.

### Fairness

The `FairSpec`s of the controllers assume: a call runs to its end (`WF` of
`CallStep`); another call follows (`SF` of `Begin` for each object: each handler of
a phase that is not terminal asks for the next call or returns an error, which is
retried, the replica controller requeues after `statusSyncInterval`, and the work
queue is served in turn, so an object gets its call although others are being
reconciled; the guard of `Begin` is false during a call, hence strong fairness);
workload controller, kubelet, Job controller, garbage collector and watches do
their work. A Job ends: `RestoreJob` shows that its `backoffLimit` bounds its
tries, and that a try ends is assumed. `PromptSpec` adds that the replica
controller follows every change of the annotation; it is used only to show that
the livelock is not its fault. In `DatabaseSystem` scripts, kubelet, workload and
Job controllers and the restore controller go on; nothing has to fail, and no user
has to act.

## Proofs

Those of the restore controller hold for any set of restores, any mixture of
InPlace and ToPVC, any number of faults and any `Lagging` that satisfies the
stated assumption.

- `RestoreProofs!TypeCorrect`: `Spec => []TypeOK`. The lemmas on `MergePatch` and
  `SetStatus` carry it: a patch merged into a restore that has changed since
  still gives a restore of the right type.
- `RestoreLockProofs!LockInvariant`: `Spec => []LockInv`, if the cache is current
  in the restores themselves. `FencingHoldsLock` alone is not inductive: the
  release reads the holder from the cache and deletes by name. `LockInv` adds what
  makes that safe. The copy of a call differs from its restore only in that the
  restore may have been deleted (`CopyAgrees`); each step belongs to one phase
  (`StepFitsPhase`), so a release comes only from a restore past Fencing or being
  deleted; the cached Lease is the present one or an earlier one only while no
  Lease exists (`CacheBehind`), because a Lease is created only after the cache
  showed none; a restore not past AcquiringLock that sees itself as holder is the
  holder (`EarlyHolder`). `UnbornIsNew` gives the base of the last.
- `RestoreLockProofs!FencingIsLocked`, `OnlyHolderReleasesLock`: the invariant
  `FencingHoldsLock` and the action property `OnlyHolderReleases` from it.
- `RestoreOutcomeProofs!OutcomeInvariant`, `CompletedIsRestored`: a restore is
  Completed only if its Job has succeeded. `OutcomeInv` adds that a Job the cache
  shows as complete is complete, as long as its restore is there.
- `RestoreRefinementProofs!JobInvariant`: `Spec => []JobInv`, a restore in
  Restoring has stored the name of a Job that exists. It is what keeps a release
  from coming while the Job runs: a Job that is not found has ended.
- `RestoreRefinementProofs!LeaseIsALock`: `Spec => ImplementsRestoreLock`, the
  refinement. Each action is shown to take, enter, leave or release the abstract
  lock, or to change neither the Lease nor `Critical`.
- `RestoreRefinementProofs!RestoringIsLocked`: every restore in `Critical` holds
  the Lease, so there is never more than one; proved about `RestoreLock` and
  carried over by the refinement.

The assumption that the cache is current in restores is needed: with an old copy
of the restore a call may run a phase that is over. The refinement also needs a
current cache of Jobs, as `stale_job` shows.

### What the lock is for

`RestoreSafetyProofs` goes on from there. Its first lemmas say once what every step
does to each object (`OutsideMoves` for everybody else; `LeaseOfCall`,
`JobOfCall`, `RestoresOfCall`, `OthersOfCall`, `StepOfCall` for a call), and the
invariants are proved over these few ways instead of over all actions.
`CallInv` is the common strengthening: a restore keeps object and finalizer until
the call that removes it, an InPlace Job is created under the Lease, and a call
that resumes has a Job that succeeded, even if its restore is deleted meanwhile.

| Theorem | Property | Beside a current cache of restores it assumes | Inductive invariant, beside the ones above |
|---|---|---|---|
| `PhasesInOrder` | `PhaseOrder` | - | `CallInv` |
| `ToPVCIsBeside` | `ToPVCLeavesApplicationAlone` | - | `CallInv` |
| `ScaledUpAfterSuccess` | `ScaleUpOnlyAfterSuccess` | the user does not scale | `CallInv` |
| `JobStartsAtZero` | `JobStartsFenced` | StatefulSet, current workload; the user neither scales nor deletes it | `FencedAtStart` |
| `JobIsLocked`, `OneJob` | `JobHoldsLock`, `OneJobAtATime` | current Jobs; for the second, no restore is deleted | `JobHoldsLock` |
| `OneRestoreIsActive` | `OneActiveRestore` | no call is cut short | `ActiveInv` |
| `NoPodsWhileJobRuns` | `NoPodsWhileRestoring` | current Jobs and workload, StatefulSet, no call cut short, the user does not scale | `FencedWhileRestoring`, `ActiveInv`, `JobHoldsLock` |
| `ReplicationStaysPaused` | `PausedUnlessDeleted` | current Jobs and replica, no call cut short, the source is not deleted | `PauseInv`, `ActiveInv`, `JobHoldsLock` |
| `HolderIsActive` | `LockHolderIsActive` | current Lease, best-effort writes and reads of the workload succeed, the source and its backup stay | `HolderInv` |
| `NothingIsLeftBehind` | `NothingLeftBehind` | the same, and a current replica | `ResumedInv`, `HolderInv` |
| `FirstJobIsPaused` | `FirstJobStartsPaused` | the source is not deleted | `FirstInv` |

None of these assumptions is there for the prover's sake: each is a thing the code
does not survive. `crash_resuming` shows what a call that is cut short does to the
single active restore, `stale_job` what an old Job cache does, `deleted_restoring`
and `deleted_waiting` what a deletion does, `backup_disabled` what a change of the
source does to the Lease, `deployment_fenced` what a Deployment does to the fence.
Where calls may be cut short (`HolderIsActive`, `NothingIsLeftBehind`,
`JobStartsAtZero`, `OneJob`) they may be so any number of times.

Why the invariants are needed. `OneActiveRestore` says nothing of the Lease; what
keeps the second restore out is that the first holds the Lease until the very call
that ends it, so `ActiveInv` follows that call step by step. `NoPodsWhileRestoring`
is not inductive because a pod could start if the replica count were not zero, and
that stays zero because only the holder of the Lease scales up, with its own Job
complete. `NothingLeftBehind` needs that every call sees a pause annotation that is
there (`ResumedInv`), since `resumeReplication` does nothing if its copy shows none.

### Replicas

`ReplicaProofs` and `ReplicaSafetyProofs` hold for any set of replicas, any number
of pods, changes and faults, and every strategy:

- `TypeCorrect`: `Spec => []TypeOK`.
- `ConfigInvariant`: `[]ConfigInv`, the part about `litestream.yml`, whatever lags,
  fails or is edited. The template, each pod and the call about to annotate find it
  until the replica is gone, because the ConfigMap is never removed before that:
  so a cache that shows one, however old, is right that there is one, and a call
  that skips its write may go on to annotate.
- `PodsFindConfig`: `[]PodsFindTheirConfig`, if the workload is read as it is. For
  `bootstrap.sql`, which comes and goes, the promise is about a pod whose sidecar
  is no newer than the hash its template was annotated with. `BootstrapInv` says
  why: a copy of the replica, in the cache or in a call, that has the present hash
  has the present `spec.bootstrap.sql` (`CopyOf`), and the hash of the template is
  an earlier one, or the present one with its ConfigMap written (`Covered`). With
  an old copy of the workload a call could take a template for annotated that is
  not.
- `TemplatesFindTheirReplica`: `[]NoOrphanInjection`, if the workload is read as it
  is and the clean-up does not fail (`orphan_injection` shows the latter); the copy
  of the replica may be as old as it likes. `InjectionInv` adds that a template
  names only replicas with a finalizer, and that the call that removes the
  finalizer has first cleaned the template and cannot be overtaken.
- `StatusPartsAgree`: `[]StatusCoherent`, if the copy of the replica is current: in
  the phases Ready, Pending and Paused conditions, health and ready flag are those
  of the phase; in Error only the ready flag is, as `ready_mirrors` shows.
  `BaseIsStored` adds that the base of the status patch is the stored status but
  for the one condition the call has set in its copy.

### The database

`DatabaseProofs` holds for every set of layouts, paths, claims and targets, any
number of failures and of changes of the user, and litestream of either kind:

- `DatabaseTypes`: `Spec => []TypeOK`.
- `DatabaseInvariant`: `[]DatabaseInv`. It adds to what the code says of each
  actor where the others then are: a Job runs only in Restoring; then, for a
  restore in place, there is no pod and none can come; a Job without `force` that
  is past its guard has no file of the application's before it; a pod past its
  restore container without a database has found no archive. One act of the user
  breaks this, and the code does nothing against it: scaling the application up
  under that Job. The last three hold unless `breached`; whatever else he does, and
  whenever, does not matter.
- `NeverAFreshDatabase`, `SuccessIsRestored`, `UnforcedIsSafe`: the action
  properties `FreshOnlyUnderJob`, `RestoredOnSuccess`, `UnforcedKeepsDatabase` from
  it. The first and the last have the same exception, the second has none:
  `scaled_up` refutes `NoFreshDatabase`, which is `FreshOnlyUnderJob` without it.

The last four of them assume `Apart`: a ToPVC restore does not write where the application
has its database. No webhook or handler sees to that. `SuccessIsRestored` also
assumes that the Job writes to the place that was asked for, which
`misplaced_restore` and `misplaced_copy` show is not always so.

TLC checks the same properties; the runs also check the strengthenings `LockInv`,
`JobInv`, `OutcomeInv`, `CallInv`, `JobHoldsLock`, `FencedWhileRestoring` and
`DatabaseInv`. The others (`ActiveInv`, `PauseInv`, `HolderInv`, `ResumedInv`,
`FirstInv`, `ConfigInv`, `BootstrapInv`, `InjectionInv`, `BaseIsStored`) are proved, and can be given
to TLC as an `INVARIANT` of the run that checks their property. Only model-checked
is what the prover does not reach, liveness: `EveryRestoreEnds` (of both systems),
`PauseEnds`, `StatusConverges`, `ConfigConverges`, `RolloutReachesPods`,
`ValidDeletionEnds` and `ApplicationStartsAgain`. The properties of the runs that
TLC refutes cannot be proved, of course.

## Not modelled

- Restores and replicas whose names are used again: a Job or Lease the garbage
  collector has not got to yet would be taken for the new object's own.
- A lagging copy of the restore itself in the runs (`"restore"` in `Lagging` is
  possible; an old phase then overwrites a newer one), a `status.replicas` that
  has not caught up with `spec.replicas`, and a scale-down that is skipped because
  the cached workload still shows zero.
- Two LitestreamReplicas of one workload on the restore side: their restores have
  different Leases.
- A pause or unpause the validator refuses because the workload has been scaled to
  two: for the restore controller an error like those `Faults` has.
- Checks of single fields; S3; leader election (one operator process); generated
  code, manifests, flags, certificates.

## Plan

1. Proofs: `FencedWhileRestoring` for calls that are cut short elsewhere than in
   Resuming; an abstract specification of the fence (application, Job and archive
   writer exclude one another) that `RestoreSystem` implements, like `RestoreLock`.
2. `Operator`: both controllers over one cluster, the validator between them.
3. Names that are used again, with Jobs and Leases that know their owner.
