----------------------------- MODULE DatabaseSystem -----------------------------
(***************************************************************************)
(* One LitestreamReplica, one LitestreamRestore and the database both are  *)
(* about: the pod of the application with its init containers, the restore *)
(* Job, and the user.  The restore controller appears as what it does to   *)
(* these; RestoreSystem has it in full.                                    *)
(***************************************************************************)
EXTENDS RestoreJob, PodStartup

VARIABLES
  replicas, \* spec.replicas of the workload
  phase,    \* status.phase of the LitestreamRestore
  original, \* its status.originalReplicas
  breached  \* history: the user has scaled the application up while the Job of a
            \* restore in place runs, or is about to be seen to have ended

restoreVars == <<phase, original>>
vars == <<specs, volume, archive, config, failures, changes, jobVars, podVars, replicas,
          restoreVars, breached>>

Phases == {"Pending", "AcquiringLock", "Fencing", "Restoring", "Resuming", "Completed", "Failed"}

TypeOK ==
  /\ VolumeTypeOK /\ JobTypeOK /\ PodTypeOK
  /\ replicas \in 0..1
  /\ phase \in Phases /\ original \in 0..1
  /\ breached \in BOOLEAN

Init ==
  /\ VolumeInit /\ JobInit /\ PodInit
  /\ replicas = 1 /\ phase = "Pending" /\ original = 0 /\ breached = FALSE

-----------------------------------------------------------------------------
(***************************************************************************)
(* The restore controller.  A call looks for a backup first, whatever the  *)
(* phase.                                                                  *)
(***************************************************************************)
InPlace == request.mode = "InPlace"

In(where) == phase = where /\ replica.backup

NoBackup ==
  /\ phase \notin {"Completed", "Failed"} /\ ~replica.backup
  /\ phase' = "Failed"
  /\ UNCHANGED <<config, replicas, original, jobVars>>

ResolveFails ==
  /\ In("Pending") /\ ~Resolves
  /\ phase' = "Failed"
  /\ UNCHANGED <<config, replicas, original, jobVars>>

EnterAcquiringLock ==
  /\ In("Pending") /\ Resolves /\ InPlace
  /\ phase' = "AcquiringLock" /\ original' = replicas
  /\ UNCHANGED <<config, replicas, jobVars>>

\* Nobody else wants the lock here.
EnterFencing ==
  /\ In("AcquiringLock")
  /\ phase' = "Fencing" /\ config' = "paused"
  /\ UNCHANGED <<replicas, original, jobVars>>

PauseAgain ==
  /\ In("Fencing") /\ config = "full"
  /\ config' = "paused"
  /\ UNCHANGED <<replicas, restoreVars, jobVars>>

ScaleDown ==
  /\ In("Fencing") /\ config = "paused" /\ pod # "none"
  /\ replicas' = 0
  /\ UNCHANGED <<config, restoreVars, jobVars>>

\* Mutant: the pods are not waited for.
CreateJob_AtOnce ==
  /\ \/ In("Fencing") /\ config = "paused" /\ replicas' = 0
     \/ In("Pending") /\ ~InPlace /\ UNCHANGED replicas
  /\ phase' = "Restoring" /\ job' = "running"
  /\ UNCHANGED <<config, original, step, restarts>>

CreateJob ==
  /\ \/ In("Fencing") /\ config = "paused" /\ pod = "none" /\ replicas' = 0
     \/ In("Pending") /\ ~InPlace /\ UNCHANGED replicas
  /\ phase' = "Restoring" /\ job' = "running"
  /\ UNCHANGED <<config, original, step, restarts>>

JobSucceeded ==
  /\ In("Restoring") /\ job = "complete"
  /\ phase' = IF InPlace THEN "Resuming" ELSE "Completed"
  /\ UNCHANGED <<config, replicas, original, jobVars>>

\* Replication goes on; the workload stays where it is.
JobFailed ==
  /\ In("Restoring") /\ job = "failed"
  /\ phase' = "Failed" /\ config' = IF InPlace THEN "full" ELSE config
  /\ UNCHANGED <<replicas, original, jobVars>>

Resume ==
  /\ In("Resuming")
  /\ phase' = "Completed" /\ config' = "full"
  /\ replicas' = IF original > 0 THEN original ELSE replicas
  /\ UNCHANGED <<original, jobVars>>

ControllerStep ==
  /\ \/ NoBackup \/ ResolveFails \/ EnterAcquiringLock \/ EnterFencing
     \/ PauseAgain \/ ScaleDown \/ CreateJob \/ JobSucceeded \/ JobFailed \/ Resume
  /\ UNCHANGED <<specs, data, failures, changes, podVars, breached>>

-----------------------------------------------------------------------------
(***************************************************************************)
(* The workload controller.                                                *)
(***************************************************************************)
StartPod ==
  /\ replicas = 1
  /\ CreatePod
  /\ UNCHANGED <<specs, config, changes>>

StopPod ==
  /\ replicas = 0 /\ pod # "none"
  /\ pod' = "none" /\ todo' = <<>> /\ at' = "check"
  /\ UNCHANGED <<specs, data, config, failures, changes>>

(***************************************************************************)
(* The user, at any time: nothing keeps him from it in mid-restore.        *)
(***************************************************************************)
UserScales ==
  /\ Change
  /\ replicas' = 1 - replicas
  /\ breached' = (breached \/ (InPlace /\ phase = "Restoring" /\ replicas = 0))
  /\ UNCHANGED <<specs, data, config, failures, podVars>>

\* "Scale to 0, delete the DB file", or a new volume.
UserRemovesDatabase ==
  /\ Change
  /\ replicas = 0 /\ pod = "none"
  /\ Covering # {} /\ Exists(Home)
  /\ Put(Home, NoFile)
  /\ UNCHANGED <<specs, archive, config, failures, podVars, replicas, breached>>

UserPauses ==
  /\ Change
  /\ config' = IF config = "full" THEN "paused" ELSE "full"
  /\ UNCHANGED <<specs, data, failures, podVars, replicas, breached>>

UserStep == UserScales \/ UserRemovesDatabase \/ UserPauses

Next ==
  \/ JobStep /\ UNCHANGED <<podVars, replicas, restoreVars, breached>>
  \/ PodStep /\ UNCHANGED <<jobVars, replicas, restoreVars, breached>>
  \/ ControllerStep
  \/ (StartPod \/ StopPod) /\ UNCHANGED <<jobVars, replicas, restoreVars, breached>>
  \/ UserStep /\ UNCHANGED <<jobVars, restoreVars>>

Spec == Init /\ [][Next]_vars

(***************************************************************************)
(* Fairness: scripts, kubelet, workload and Job controllers, and the       *)
(* restore controller go on.  Nothing has to fail, and nobody has to act.  *)
(***************************************************************************)
Rest == <<replicas, restoreVars, breached>>

Fairness ==
  /\ WF_vars((Script \/ GivesUp) /\ UNCHANGED <<specs, config, changes, podVars, Rest>>)
  /\ WF_vars((InitContainerStep \/ ApplicationStarts)
             /\ UNCHANGED <<specs, config, changes, jobVars, Rest>>)
  /\ WF_vars(ControllerStep)
  /\ WF_vars((StartPod \/ StopPod) /\ UNCHANGED <<jobVars, Rest>>)

FairSpec == Spec /\ Fairness

-----------------------------------------------------------------------------
(***************************************************************************)
(* What happens to the database.                                           *)
(***************************************************************************)

\* Why neither the pod nor the Job is in the way of the other.  The Job of a
\* restore in place has the workload at zero and no pod beside it; a Job that may
\* not overwrite has seen no file of the application's after its first command;
\* and a pod is past its restore container without a database only if there was
\* nothing to restore.  Nothing in Restoring looks at the workload again, so all
\* of it is for a user who has not scaled the application up under such a Job;
\* what else he does, and when, does not matter.
DatabaseInv ==
  /\ job # "running" => step = "guard"
  /\ job = "running" => phase = "Restoring"
  /\ phase \in {"AcquiringLock", "Fencing", "Restoring", "Resuming"} => Resolves /\ replica.backup
  /\ phase \in {"AcquiringLock", "Fencing", "Resuming"} => InPlace
  /\ pod # "none" => Covering # {}
  /\ InPlace /\ phase = "Restoring" => breached \/ (replicas = 0 /\ pod = "none")
  /\ job = "running" /\ ~request.force /\ step # "guard"
       => breached \/ volume[JobPlace].origin \notin {"application", "bootstrap"}
  /\ /\ replica.backup /\ replica.recovery = "automatic"
     /\ pod = "starting" /\ todo \in {<<>>, <<Bootstrap>>} /\ ~Exists(Home)
     => breached \/ archive = "none"

\* A new database comes into being at the place of the application's.
NewDatabase ==
  /\ Covering # {}
  /\ volume[Home] = NoFile /\ volume'[Home].origin \in {"application", "bootstrap"}

\* "the operator never converts a restore error into a fresh database": with
\* backups and automatic recovery one is made only if there is no archive,
\* whatever fails, is paused or is killed (injectAutoRestoreContainer).  A user
\* who scales the application up under the Job gets one all the same: its rm -f
\* takes the file away behind the restore container.
NoFreshDatabase ==
  [][replica.backup /\ replica.recovery = "automatic" /\ NewDatabase => archive = "none"]_vars

\* So nobody but that user gets one.
FreshOnlyUnderJob ==
  [][replica.backup /\ replica.recovery = "automatic" /\ NewDatabase
       => breached \/ archive = "none"]_vars

\* "The SQL runs ONLY when no local database file exists AND no remote archive
\* is available" (injectBootstrapContainer).
BootstrapOnlyWhenNew ==
  [][replica.backup /\ NewDatabase /\ volume'[Home].origin = "bootstrap"
       => archive = "none"]_vars

\* When the Job has succeeded, a file restored from the archive and found whole
\* is where it was asked for (buildRestoreJob).
RestoredOnSuccess ==
  [][job = "running" /\ job' = "complete" => volume'[Wanted] = Made("archive", TRUE)]_vars

\* Without spec.force no command of the Job, however often it is killed and
\* restarted, changes or removes a database of the application's, one that was
\* there before it or not, unless the user has scaled the application up under it.
UnforcedKeepsDatabase ==
  [][JobStep /\ ~request.force /\ ~breached
       /\ volume[JobPlace].origin \in {"application", "bootstrap"}
            => volume'[JobPlace] = volume[JobPlace]]_vars

\* The script "cleans up partial output files on failure": the database that was
\* to be replaced is not one.
CleanUpKeepsDatabase ==
  [][job = "running" /\ volume[JobPlace].origin \in {"application", "bootstrap"}
       => volume'[JobPlace] # NoFile]_vars

\* "the application will NOT start against unverified data."
NoUnverifiedStart ==
  pod = "running" /\ volume[Home].origin = "archive" => volume[Home].whole

\* The application does not start on a database whose bootstrap was cut short.
NoHalfBootstrap ==
  pod = "running" /\ volume[Home].origin = "bootstrap" => volume[Home].whole

\* A Job fails only if the database has not been restored.
FailedMeansNotRestored ==
  job = "failed" => volume[Wanted] # Made("archive", TRUE)

\* The restore ends: its Job has so many tries, and a try does not hang.
EveryRestoreEnds == phase = "Pending" ~> phase \in {"Completed", "Failed"}

\* Nothing will start: the pod is refused, or the archive is damaged and the
\* database missing.
Blocked == Covering = {} \/ (~Exists(Home) /\ archive = "damaged")

\* The application starts, unless it is scaled down, paused, or must not start
\* because its archive is damaged and its database missing.
ApplicationStartsAgain ==
  replicas = 1 ~> pod = "running" \/ replicas = 0 \/ config = "paused" \/ Blocked
=============================================================================
