--------------------------- MODULE RestoreController ---------------------------
(***************************************************************************)
(* LitestreamRestoreReconciler: the controller that drives a               *)
(* LitestreamRestore from Pending to Completed or Failed.                  *)
(*                                                                         *)
(* One worker runs one Reconcile call at a time.  Begin is the start of a  *)
(* call: it copies the restore and its source LitestreamReplica into my    *)
(* and source and picks the branch.  Each later action is the call from    *)
(* one write to the API server to the next, and pc names the action to     *)
(* come; the other actors step in between.  The call may stop anywhere,    *)
(* because an API request fails or because the operator dies; what it has  *)
(* written stays and what it has read is lost.                             *)
(***************************************************************************)
EXTENDS Cluster

CONSTANTS
  Faults,     \* "abort": a call stops; "ignored": a best-effort write fails;
              \* "read": a Get of the workload fails
  MaxFaults   \* bound: how many faults happen

ASSUME FaultsAssumption ==
  Faults \subseteq {"abort", "ignored", "read"} /\ MaxFaults \in Nat

VARIABLES
  pc,      \* where the running Reconcile call is, "idle" if none runs
  cur,     \* the restore it reconciles
  my,      \* its copy of the restore
  source,  \* its copy of the source LitestreamReplica
  faults   \* faults so far

call == <<pc, cur, my, source>>
vars == <<restore, replica, lease, job, config, workload, cache,
          pc, cur, my, source, faults>>

Steps == {"idle", "addFinalizer", "finalize", "finalizeResume",
          "removeFinalizer", "fail", "pending", "lockPhase", "acquireLock",
          "pause", "fencingPhase", "fence", "createJob", "restoringPhase",
          "restoring", "cleanupResume", "cleanupFail", "validating", "resume",
          "scaleUp", "release", "complete"}

ControllerTypeOK ==
  /\ pc \in Steps
  /\ cur \in Holder /\ (pc # "idle" => cur \in Restore)
  /\ my \in RestoreObject
  /\ source \in ReplicaObject
  /\ faults \in 0..MaxFaults

ControllerInit ==
  /\ pc = "idle" /\ cur = NoRestore /\ my = NewRestore /\ source = NoReplica
  /\ faults = 0

-----------------------------------------------------------------------------
(***************************************************************************)
(* Control of a call.                                                      *)
(***************************************************************************)

Return == pc' = "idle" /\ cur' = NoRestore /\ my' = NewRestore /\ source' = NoReplica

Continue(step) == pc' = step /\ UNCHANGED <<cur, my, source>>

Fault(kind) == kind \in Faults /\ faults < MaxFaults /\ faults' = faults + 1

(***************************************************************************)
(* Writes.  A merge patch carries the fields in which the modified object  *)
(* differs from the base it was copied from, and the API server puts them  *)
(* into the object it stores, whatever has happened to that since.         *)
(***************************************************************************)

MergePatch(object, base, new) ==
  LET Merge(old, from, to) == IF to # from THEN to ELSE old IN
  [object EXCEPT
     !.phase = Merge(@, base.phase, new.phase),
     !.resolved = Merge(@, base.resolved, new.resolved),
     !.originalReplicas = Merge(@, base.originalReplicas, new.originalReplicas),
     !.jobName = Merge(@, base.jobName, new.jobName),
     !.conditions = Merge(@, base.conditions, new.conditions)]

PatchRestore(base, new) ==
  restore' = [restore EXCEPT ![cur] =
    IF restore[cur].life \in Present
    THEN MergePatch(restore[cur], base, new) ELSE restore[cur]]

\* setStatus.  The caller has already applied setCondition to its copy, and
\* the base of the patch is taken from that copy.
SetStatus(conditions, phase, originalReplicas, jobName) ==
  LET base == [my EXCEPT !.conditions = conditions]
      new  == [base EXCEPT
                 !.phase = phase,
                 !.jobName = base.jobName \/ jobName,
                 !.originalReplicas = IF base.originalReplicas = Nil
                                      THEN originalReplicas
                                      ELSE base.originalReplicas]
  IN  PatchRestore(base, new)

\* What Update stores: the resourceVersion must still be that of the copy.
Conflict == restore[cur] # my

\* Mutants of releaseRestoreLock: without the test of the holder; never deletes.
ReleaseRestoreLock_OfAnyone == lease' = NoRestore /\ UNCHANGED faults
ReleaseRestoreLock_Never == UNCHANGED <<lease, faults>>

\* releaseRestoreLock deletes the Lease by name; errors are ignored.
ReleaseRestoreLock ==
  \/ /\ lease' = IF SeenLease = cur THEN NoRestore ELSE lease
     /\ UNCHANGED faults
  \/ /\ SeenLease = cur
     /\ Fault("ignored")
     /\ UNCHANGED lease

\* pauseReplication.
ReplicationPaused ==
  IF source.pause THEN replica ELSE [replica EXCEPT !.pause = replica.exists]

\* resumeReplication, when no request of it fails.
ReplicationResumed ==
  [replica EXCEPT !.pause = replica.pause /\ ~(source.pause /\ SeenReplica.pause)]

ResumeFails == source.pause /\ ~(SeenReplica.exists /\ replica.exists)

\* resumeReplication where the caller only logs its error.
ResumeReplicationBestEffort ==
  \/ /\ replica' = IF ResumeFails THEN replica ELSE ReplicationResumed
     /\ UNCHANGED faults
  \/ source.pause /\ Fault("ignored") /\ UNCHANGED replica

\* The replica count reconcileResuming scales the workload to.
ScaleTarget == IF my.originalReplicas = Nil THEN 1 ELSE my.originalReplicas

\* Mutants: pods that are being deleted do not count; nothing counts.
Fenced_NoneActive(w) == w.active = 0
Fenced_Always(w) == TRUE

\* What reconcileFencing takes for "all pods terminated".
Fenced(w) == RunningReplicas(w) = 0

-----------------------------------------------------------------------------
(***************************************************************************)
(* Reconcile.                                                              *)
(***************************************************************************)

PhaseStep(phase) ==
  CASE phase \in {"", "Pending"} -> "pending"
    [] phase = "AcquiringLock"   -> "acquireLock"
    [] phase = "Fencing"         -> "fence"
    [] phase = "Restoring"       -> "restoring"
    [] phase = "Validating"      -> "validating"
    [] phase = "Resuming"        -> "resume"
    [] OTHER                     -> "idle"

\* The order of the checks at the head of Reconcile.
FirstStep(r, db) ==
  IF ~r.finalizer THEN "addFinalizer"
  ELSE IF r.life = "deleting" THEN "finalize"
  ELSE IF ~db.exists THEN "fail"
  ELSE IF r.phase \in Terminal THEN "idle"
  ELSE IF ~db.backup THEN "fail"
  ELSE PhaseStep(r.phase)

Begin(r) ==
  /\ pc = "idle"
  /\ SeenRestore[r].life \in Present
  /\ FirstStep(SeenRestore[r], SeenReplica) # "idle"
  /\ pc' = FirstStep(SeenRestore[r], SeenReplica)
  /\ cur' = r /\ my' = SeenRestore[r] /\ source' = SeenReplica
  /\ UNCHANGED <<stored, cache, faults>>

\* An API request fails and the call returns the error, or the operator dies.
Abort ==
  /\ pc # "idle"
  /\ Fault("abort")
  /\ Return
  /\ UNCHANGED <<stored, cache>>

AddFinalizer ==
  /\ pc = "addFinalizer"
  /\ restore' = IF Conflict THEN restore
                ELSE [restore EXCEPT ![cur].finalizer = TRUE]
  /\ Return
  /\ UNCHANGED <<replica, lease, job, config, workload, cache, faults>>

FailRestore ==
  /\ pc = "fail"
  /\ SetStatus(my.conditions, "Failed", Nil, FALSE)
  /\ Return
  /\ UNCHANGED <<replica, lease, job, config, workload, cache, faults>>

-----------------------------------------------------------------------------
(***************************************************************************)
(* handleFinalization.                                                     *)
(***************************************************************************)

MidRestore(phase) == phase \in {"Fencing", "Restoring", "Validating"}

\* Mutant: the mode of the restore is not looked at.
FinalizeRelease_AnyMode ==
  /\ pc = "finalize"
  /\ ReleaseRestoreLock
  /\ Continue(IF source.exists /\ ~MidRestore(my.phase)
              THEN "finalizeResume" ELSE "removeFinalizer")
  /\ UNCHANGED <<restore, replica, job, config, workload, cache>>

FinalizeRelease ==
  /\ pc = "finalize"
  /\ IF cur \in InPlace
     THEN /\ ReleaseRestoreLock
          /\ Continue(IF source.exists /\ ~MidRestore(my.phase)
                      THEN "finalizeResume" ELSE "removeFinalizer")
     ELSE Continue("removeFinalizer") /\ UNCHANGED <<lease, faults>>
  /\ UNCHANGED <<restore, replica, job, config, workload, cache>>

FinalizeResume ==
  /\ pc = "finalizeResume"
  /\ ResumeReplicationBestEffort
  /\ Continue("removeFinalizer")
  /\ UNCHANGED <<restore, lease, job, config, workload, cache>>

\* Without its last finalizer the object is removed.
RemoveFinalizer ==
  /\ pc = "removeFinalizer"
  /\ restore' = IF Conflict THEN restore
                ELSE [restore EXCEPT ![cur].finalizer = FALSE, ![cur].life = "gone"]
  /\ Return
  /\ UNCHANGED <<replica, lease, job, config, workload, cache, faults>>

-----------------------------------------------------------------------------
(***************************************************************************)
(* reconcilePending.                                                       *)
(***************************************************************************)

\* resolveRestoreTarget, and the patch that stores what it resolved; the
\* answer to the patch replaces the copy of the restore.
ResolveTarget ==
  /\ pc = "pending"
  /\ IF cur \in InPlace /\ ~SeenWorkload.exists
     THEN Continue("fail") /\ UNCHANGED restore
     ELSE /\ IF my.resolved THEN UNCHANGED restore
             ELSE PatchRestore(my, [my EXCEPT !.resolved = TRUE])
          /\ IF my.resolved \/ restore[cur].life \in Present
             THEN /\ pc' = IF cur \in InPlace THEN "lockPhase" ELSE "createJob"
                  /\ my' = IF my.resolved THEN my ELSE restore'[cur]
                  /\ UNCHANGED <<cur, source>>
             ELSE Return
  /\ UNCHANGED <<replica, lease, job, config, workload, cache, faults>>

\* InPlace: record the replica count and queue for the lock.
EnterAcquiringLock ==
  /\ pc = "lockPhase"
  /\ SetStatus(my.conditions, "AcquiringLock",
               IF SeenWorkload.exists THEN SeenWorkload.replicas ELSE 0, FALSE)
  /\ Return
  /\ UNCHANGED <<replica, lease, job, config, workload, cache, faults>>

-----------------------------------------------------------------------------
(***************************************************************************)
(* reconcileAcquiringLock.                                                 *)
(***************************************************************************)

\* Mutant: AlreadyExists counts as success.
CreateLease_AlreadyExistsIsFine ==
  /\ pc = "acquireLock"
  /\ SeenLease = NoRestore
  /\ lease' = IF lease = NoRestore THEN cur ELSE lease
  /\ Continue("pause")
  /\ UNCHANGED <<restore, replica, job, config, workload, cache, faults>>

\* Get finds no Lease: create it, or retry if it was there all the same.
CreateLease ==
  /\ pc = "acquireLock"
  /\ SeenLease = NoRestore
  /\ IF lease = NoRestore THEN lease' = cur /\ Continue("pause")
                          ELSE UNCHANGED lease /\ Return
  /\ UNCHANGED <<restore, replica, job, config, workload, cache, faults>>

\* Mutant: a Lease that exists is taken for this restore's.
LeaseIsOurs_AnyHolder ==
  /\ pc = "acquireLock"
  /\ SeenLease # NoRestore
  /\ Continue("pause")
  /\ UNCHANGED <<stored, cache, faults>>

\* The Lease is this restore's already.
LeaseIsOurs ==
  /\ pc = "acquireLock"
  /\ SeenLease = cur
  /\ Continue("pause")
  /\ UNCHANGED <<stored, cache, faults>>

\* Another restore holds the Lease: Locked is False, and try again later.
LeaseIsHeld ==
  /\ pc = "acquireLock"
  /\ SeenLease \notin {cur, NoRestore}
  /\ SetStatus(my.conditions \ {"Locked"}, "AcquiringLock", my.originalReplicas, FALSE)
  /\ Return
  /\ UNCHANGED <<replica, lease, job, config, workload, cache, faults>>

PauseReplication ==
  /\ pc = "pause"
  /\ replica' = ReplicationPaused
  /\ IF source.pause \/ replica.exists THEN Continue("fencingPhase") ELSE Return
  /\ UNCHANGED <<restore, lease, job, config, workload, cache, faults>>

\* Mutant: the name of the condition for that of the phase.
EnterFencing_Misnamed ==
  /\ pc = "fencingPhase"
  /\ SetStatus(my.conditions \cup {"Locked"}, "Locked", my.originalReplicas, FALSE)
  /\ Return
  /\ UNCHANGED <<replica, lease, job, config, workload, cache, faults>>

EnterFencing ==
  /\ pc = "fencingPhase"
  /\ SetStatus(my.conditions \cup {"Locked"}, "Fencing", my.originalReplicas, FALSE)
  /\ Return
  /\ UNCHANGED <<replica, lease, job, config, workload, cache, faults>>

-----------------------------------------------------------------------------
(***************************************************************************)
(* reconcileFencing.                                                       *)
(***************************************************************************)

\* Somebody removed the pause annotation: set it again, and start over.
PauseAgain ==
  /\ pc = "fence"
  /\ ~source.pause
  /\ replica' = ReplicationPaused
  /\ Return
  /\ UNCHANGED <<restore, lease, job, config, workload, cache, faults>>

\* The replica controller has not written dbs: [] yet.
AwaitPausedConfig ==
  /\ pc = "fence"
  /\ source.pause /\ SeenConfig # "paused"
  /\ Return
  /\ UNCHANGED <<stored, cache, faults>>

\* Mutant: the content of the ConfigMap is not looked at.
ScaleDown_AnyConfig ==
  /\ pc = "fence"
  /\ source.pause
  /\ workload' = IF SeenWorkload.exists THEN [workload EXCEPT !.replicas = 0] ELSE workload
  /\ IF Fenced(SeenWorkload) THEN Continue("createJob") ELSE Return
  /\ UNCHANGED <<restore, replica, lease, job, config, cache, faults>>

\* Scale the workload to zero.  The replica count that decides whether to go
\* on comes with the answer to the patch, or from the cache if none was needed.
ScaleDown ==
  /\ pc = "fence"
  /\ source.pause /\ SeenConfig = "paused"
  /\ IF ~SeenWorkload.exists
     THEN UNCHANGED workload /\ Continue("createJob")
     ELSE IF SeenWorkload.replicas = 0
     THEN /\ UNCHANGED workload
          /\ IF Fenced(SeenWorkload) THEN Continue("createJob") ELSE Return
     ELSE /\ workload' = [workload EXCEPT !.replicas = 0]
          /\ IF workload.exists /\ Fenced(workload)
             THEN Continue("createJob") ELSE Return
  /\ UNCHANGED <<restore, replica, lease, job, config, cache, faults>>

\* Create <restore>-restore; that it exists already is no error.
CreateJob ==
  /\ pc = "createJob"
  /\ job' = [job EXCEPT ![cur] = IF @ = "none" THEN "running" ELSE @]
  /\ Continue("restoringPhase")
  /\ UNCHANGED <<restore, replica, lease, config, workload, cache, faults>>

\* Mutant: the name of the Job is not stored.
EnterRestoring_Nameless ==
  /\ pc = "restoringPhase"
  /\ SetStatus(my.conditions, "Restoring", my.originalReplicas, FALSE)
  /\ Return
  /\ UNCHANGED <<replica, lease, job, config, workload, cache, faults>>

EnterRestoring ==
  /\ pc = "restoringPhase"
  /\ SetStatus(IF cur \in InPlace THEN my.conditions \cup {"ApplicationFenced"}
                                  ELSE my.conditions,
               "Restoring", my.originalReplicas, TRUE)
  /\ Return
  /\ UNCHANGED <<replica, lease, job, config, workload, cache, faults>>

\* A Get of the workload fails other than with NotFound: the restore fails
\* (reconcilePending, reconcileFencing), or is completed without the scale-up
\* (reconcileResuming).
WorkloadReadFails ==
  /\ \/ pc \in {"pending", "lockPhase"} /\ cur \in InPlace /\ Continue("fail")
     \/ pc = "fence" /\ source.pause /\ SeenConfig = "paused" /\ Continue("fail")
     \/ pc = "scaleUp" /\ SeenConfig = "full" /\ ScaleTarget > 0 /\ Continue("release")
  /\ Fault("read")
  /\ UNCHANGED <<stored, cache>>

-----------------------------------------------------------------------------
(***************************************************************************)
(* reconcileRestoring and failRestoreWithCleanup.                          *)
(***************************************************************************)

\* Mutant: a Job that has finished counts as complete, however it finished.
JobSeen_Finished ==
  IF my.jobName /\ SeenJob[cur] = "failed" THEN "complete" ELSE SeenJob[cur]

\* Mutant: a Job that is not found counts as complete and cleaned up.
JobSeen_Gone == IF my.jobName /\ SeenJob[cur] # "none" THEN SeenJob[cur] ELSE "complete"

\* What the Get of status.jobName finds.
JobSeen == IF my.jobName THEN SeenJob[cur] ELSE "none"

JobStillRuns ==
  /\ pc = "restoring"
  /\ JobSeen = "running"
  /\ Return
  /\ UNCHANGED <<stored, cache, faults>>

\* Mutant: the modes are swapped.
JobSucceeded_Swapped ==
  /\ pc = "restoring"
  /\ JobSeen = "complete"
  /\ SetStatus(my.conditions \cup {"RestoreSucceeded"},
               IF cur \in InPlace THEN "Completed" ELSE "Resuming",
               my.originalReplicas, FALSE)
  /\ Return
  /\ UNCHANGED <<replica, lease, job, config, workload, cache, faults>>

JobSucceeded ==
  /\ pc = "restoring"
  /\ JobSeen = "complete"
  /\ SetStatus(my.conditions \cup {"RestoreSucceeded"},
               IF cur \in InPlace THEN "Resuming" ELSE "Completed",
               my.originalReplicas, FALSE)
  /\ Return
  /\ UNCHANGED <<replica, lease, job, config, workload, cache, faults>>

\* The Job failed, or is not found.
JobFailed ==
  /\ pc = "restoring"
  /\ JobSeen \in {"failed", "none"}
  /\ IF cur \in InPlace
     THEN ReleaseRestoreLock /\ Continue("cleanupResume")
     ELSE UNCHANGED <<lease, faults>> /\ Continue("cleanupFail")
  /\ UNCHANGED <<restore, replica, job, config, workload, cache>>

\* Mutant: the application is brought back after a failure.
CleanupResume_ScalesUp ==
  /\ pc = "cleanupResume"
  /\ ResumeReplicationBestEffort
  /\ workload' = [workload EXCEPT !.replicas = ScaleTarget]
  /\ Continue("cleanupFail")
  /\ UNCHANGED <<restore, lease, job, config, cache>>

CleanupResume ==
  /\ pc = "cleanupResume"
  /\ ResumeReplicationBestEffort
  /\ Continue("cleanupFail")
  /\ UNCHANGED <<restore, lease, job, config, workload, cache>>

\* The workload stays at zero.
CleanupFail ==
  /\ pc = "cleanupFail"
  /\ SetStatus(my.conditions, "Failed", my.originalReplicas, FALSE)
  /\ Return
  /\ UNCHANGED <<replica, lease, job, config, workload, cache, faults>>

\* The phase only earlier versions of the operator set.
SkipValidation ==
  /\ pc = "validating"
  /\ SetStatus(my.conditions, IF cur \in InPlace THEN "Resuming" ELSE "Completed",
               my.originalReplicas, FALSE)
  /\ Return
  /\ UNCHANGED <<replica, lease, job, config, workload, cache, faults>>

-----------------------------------------------------------------------------
(***************************************************************************)
(* reconcileResuming.                                                      *)
(***************************************************************************)

\* Mutant: replication is not resumed.
ResumeReplication_Skipped ==
  /\ pc = "resume"
  /\ Continue("release")
  /\ UNCHANGED <<stored, cache, faults>>

ResumeReplication ==
  /\ pc = "resume"
  /\ IF ResumeFails THEN UNCHANGED replica /\ Return
                    ELSE replica' = ReplicationResumed /\ Continue("scaleUp")
  /\ UNCHANGED <<restore, lease, job, config, workload, cache, faults>>

\* Once litestream.yml is the full one, scale the workload to the recorded
\* count; a workload that is gone is skipped.
ScaleUp ==
  /\ pc = "scaleUp"
  /\ LET needed == /\ ScaleTarget > 0
                   /\ SeenWorkload.exists
                   /\ SeenWorkload.replicas # ScaleTarget
     IN  /\ workload' = IF SeenConfig = "full" /\ needed /\ workload.exists
                        THEN [workload EXCEPT !.replicas = ScaleTarget]
                        ELSE workload
         /\ IF SeenConfig = "full" /\ (needed => workload.exists)
            THEN Continue("release") ELSE Return
  /\ UNCHANGED <<restore, replica, lease, job, config, cache, faults>>

ReleaseAfterScaleUp ==
  /\ pc = "release"
  /\ ReleaseRestoreLock
  /\ Continue("complete")
  /\ UNCHANGED <<restore, replica, job, config, workload, cache>>

Complete ==
  /\ pc = "complete"
  /\ SetStatus(my.conditions \cup {"ApplicationResumed"}, "Completed",
               my.originalReplicas, FALSE)
  /\ Return
  /\ UNCHANGED <<replica, lease, job, config, workload, cache, faults>>

-----------------------------------------------------------------------------
Finalization == FinalizeRelease \/ FinalizeResume \/ RemoveFinalizer
Pending      == ResolveTarget \/ EnterAcquiringLock
Locking      == CreateLease \/ LeaseIsOurs \/ LeaseIsHeld \/ PauseReplication \/ EnterFencing
Fencing      == PauseAgain \/ AwaitPausedConfig \/ ScaleDown \/ CreateJob \/ EnterRestoring
Restoring    == JobStillRuns \/ JobSucceeded \/ JobFailed \/ CleanupResume \/ CleanupFail
                \/ SkipValidation
Resuming     == ResumeReplication \/ ScaleUp \/ ReleaseAfterScaleUp \/ Complete

\* The rest of a call that is under way, when nothing goes wrong in it.
CallStep == AddFinalizer \/ FailRestore \/ Finalization \/ Pending \/ Locking
            \/ Fencing \/ Restoring \/ Resuming

ReconcilerStep == (\E r \in Restore : Begin(r)) \/ CallStep \/ Abort \/ WorkloadReadFails
=============================================================================
