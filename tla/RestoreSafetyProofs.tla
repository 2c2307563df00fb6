--------------------------- MODULE RestoreSafetyProofs ---------------------------
(***************************************************************************)
(* What the lock is for: the order of the phases, the Jobs, the workload   *)
(* and the pause annotation, for every set of restores.                    *)
(*                                                                         *)
(* As in RestoreLockProofs the cache is current in the restores            *)
(* themselves.  Each theorem says what else it assumes; the runs           *)
(* crash_resuming, stale_job, deleted_restoring, backup_disabled and       *)
(* deployment_fenced show what happens otherwise.                          *)
(***************************************************************************)
EXTENDS RestoreOutcomeProofs, RestoreRefinementProofs

(***************************************************************************)
(* The actions of a call, by what they do to the restores.                 *)
(***************************************************************************)

\* Lives, finalizers and phases stay.
Untouched ==
  \A r \in Restore : /\ restore'[r].life = restore[r].life
                     /\ restore'[r].finalizer = restore[r].finalizer
                     /\ restore'[r].phase = restore[r].phase

\* The restore of the call, if it is still there, is in this phase afterwards.
Written(phase) ==
  \A r \in Restore :
    /\ restore'[r].life = restore[r].life
    /\ restore'[r].finalizer = restore[r].finalizer
    /\ restore'[r].phase = IF r = cur /\ restore[r].life \in Present THEN phase
                                                                   ELSE restore[r].phase

LEMMA PatchWrites ==
  ASSUME restore \in Restores, cur \in Restore,
         NEW base \in RestoreObject, NEW new \in RestoreObject, PatchRestore(base, new)
  PROVE  \A r \in Restore :
           /\ restore'[r].life = restore[r].life
           /\ restore'[r].finalizer = restore[r].finalizer
           /\ restore'[r].phase = IF /\ r = cur /\ restore[r].life \in Present
                                     /\ new.phase # base.phase
                                  THEN new.phase ELSE restore[r].phase
BY MergePatchType DEF PatchRestore, Restores

\* setStatus puts the restore into the phase it is told.
LEMMA StatusWrites ==
  ASSUME RestoreTypeOK, LockInv, pc # "idle",
         NEW conditions \in SUBSET Conditions, NEW phase \in Phases,
         NEW originalReplicas \in Nat \cup {Nil}, NEW jobName \in BOOLEAN,
         SetStatus(conditions, phase, originalReplicas, jobName)
  PROVE  Written(phase)
<1> DEFINE base == [my EXCEPT !.conditions = conditions]
           new  == [base EXCEPT
                      !.phase = phase,
                      !.jobName = base.jobName \/ jobName,
                      !.originalReplicas = IF base.originalReplicas = Nil
                                           THEN originalReplicas
                                           ELSE base.originalReplicas]
<1>1. cur \in Restore /\ restore \in Restores /\ my \in RestoreObject
  BY DEF RestoreTypeOK, ClusterTypeOK, ControllerTypeOK
<1>2. base \in RestoreObject /\ base.phase = my.phase
  BY <1>1 DEF RestoreObject
<1>3. new \in RestoreObject /\ new.phase = phase
  <2>1. (base.jobName \/ jobName) \in BOOLEAN
    BY <1>2 DEF RestoreObject
  <2>2. (IF base.originalReplicas = Nil THEN originalReplicas ELSE base.originalReplicas)
          \in Nat \cup {Nil}
    BY <1>2 DEF RestoreObject
  <2> HIDE DEF base
  <2> QED
    BY <1>2, <2>1, <2>2 DEF RestoreObject
<1>4. PatchRestore(base, new)
  BY DEF SetStatus
<1>5. my.phase = restore[cur].phase
  BY DEF LockInv, CopyAgrees
<1> HIDE DEF base, new
<1> QED
  BY <1>1, <1>2, <1>3, <1>4, <1>5, PatchWrites DEF Written

\* The phase each of the actions writes that end a call with a status patch.
LEMMA PhasesWritten ==
  ASSUME RestoreTypeOK, LockInv
  PROVE  /\ FailRestore \/ CleanupFail => Written("Failed")
         /\ EnterAcquiringLock \/ LeaseIsHeld => Written("AcquiringLock")
         /\ EnterFencing => Written("Fencing")
         /\ EnterRestoring => Written("Restoring")
         /\ JobSucceeded \/ SkipValidation
              => Written(IF cur \in InPlace THEN "Resuming" ELSE "Completed")
         /\ Complete => Written("Completed")
<1> USE MyType
<1>1. FailRestore \/ CleanupFail => Written("Failed")
  BY StatusWrites DEF FailRestore, CleanupFail, Phases
<1>2. EnterAcquiringLock => Written("AcquiringLock")
  <2>1. (IF SeenWorkload.exists THEN SeenWorkload.replicas ELSE 0) \in Nat
    BY SeenType DEF RestoreTypeOK, WorkloadObject
  <2> QED
    BY <2>1, StatusWrites DEF EnterAcquiringLock, Phases
<1>3. LeaseIsHeld => Written("AcquiringLock")
  BY StatusWrites DEF LeaseIsHeld, Phases, Conditions
<1>4. EnterFencing => Written("Fencing")
  BY StatusWrites DEF EnterFencing, Phases, Conditions
<1>5. EnterRestoring => Written("Restoring")
  <2>1. (IF cur \in InPlace THEN my.conditions \cup {"ApplicationFenced"}
                            ELSE my.conditions) \in SUBSET Conditions
    BY DEF Conditions
  <2> QED
    BY <2>1, StatusWrites DEF EnterRestoring, Phases
<1>6. JobSucceeded => Written(IF cur \in InPlace THEN "Resuming" ELSE "Completed")
  BY StatusWrites DEF JobSucceeded, Phases, Conditions
<1>7. SkipValidation => Written(IF cur \in InPlace THEN "Resuming" ELSE "Completed")
  BY StatusWrites DEF SkipValidation, Phases
<1>8. Complete => Written("Completed")
  BY StatusWrites DEF Complete, Phases, Conditions
<1> QED
  BY <1>1, <1>2, <1>3, <1>4, <1>5, <1>6, <1>7, <1>8

\* The other actions that write a restore.
LEMMA RestoresWritten ==
  ASSUME RestoreTypeOK, LockInv
  PROVE  /\ ResolveTarget =>
              /\ Untouched
              /\ \/ /\ UNCHANGED cur /\ my'.phase = my.phase
                    /\ pc' \in {"fail", IF cur \in InPlace THEN "lockPhase" ELSE "createJob"}
                    /\ pc' = "fail" => cur \in InPlace
                 \/ Return
         /\ AddFinalizer \/ RemoveFinalizer =>
              \A r \in Restore :
                /\ restore'[r].phase = restore[r].phase
                /\ r # cur => restore'[r] = restore[r]
         /\ AddFinalizer =>
              /\ restore'[cur].life = restore[cur].life
              /\ restore[cur].finalizer => restore'[cur].finalizer
         /\ RemoveFinalizer =>
              \/ restore'[cur] = restore[cur]
              \/ restore[cur].life = "deleting" /\ restore'[cur].life = "gone"
<1> DEFINE resolvedMy == [my EXCEPT !.resolved = TRUE]
<1>1. restore \in Restores /\ my \in RestoreObject
  BY DEF RestoreTypeOK, ClusterTypeOK, ControllerTypeOK
<1>2. resolvedMy \in RestoreObject /\ resolvedMy.phase = my.phase
  BY <1>1 DEF RestoreObject
<1>3. ASSUME ResolveTarget
      PROVE  /\ Untouched
             /\ \/ /\ UNCHANGED cur /\ my'.phase = my.phase
                   /\ pc' \in {"fail", IF cur \in InPlace THEN "lockPhase" ELSE "createJob"}
                   /\ pc' = "fail" => cur \in InPlace
                \/ Return
  <2>1. pc = "pending" /\ cur \in Restore
    BY <1>3 DEF ResolveTarget, RestoreTypeOK, ControllerTypeOK
  <2>2. my.phase = restore[cur].phase
    BY <2>1 DEF LockInv, CopyAgrees
  <2>3. UNCHANGED restore \/ PatchRestore(my, resolvedMy)
    BY <1>3 DEF ResolveTarget
  <2>4. Untouched
    <3> HIDE DEF resolvedMy
    <3> QED
      BY <1>1, <1>2, <2>1, <2>3, PatchWrites DEF Untouched
  <2>5. \/ Continue("fail") /\ cur \in InPlace
        \/ Return
        \/ /\ pc' = IF cur \in InPlace THEN "lockPhase" ELSE "createJob"
           /\ my' \in {my, restore'[cur]} /\ UNCHANGED cur
    BY <1>3 DEF ResolveTarget
  <2> QED
    BY <2>1, <2>2, <2>4, <2>5 DEF Untouched, Continue
<1>4. ASSUME AddFinalizer \/ RemoveFinalizer
      PROVE  /\ \A r \in Restore : /\ restore'[r].phase = restore[r].phase
                                   /\ r # cur => restore'[r] = restore[r]
             /\ AddFinalizer => /\ restore'[cur].life = restore[cur].life
                                /\ restore[cur].finalizer => restore'[cur].finalizer
             /\ RemoveFinalizer =>
                  \/ restore'[cur] = restore[cur]
                  \/ restore[cur].life = "deleting" /\ restore'[cur].life = "gone"
  <2>1. cur \in Restore
    BY <1>4 DEF AddFinalizer, RemoveFinalizer, RestoreTypeOK, ControllerTypeOK
  <2>2. CASE AddFinalizer
    BY <1>1, <2>1, <2>2 DEF AddFinalizer, RemoveFinalizer, Restores, RestoreObject
  <2>3. CASE RemoveFinalizer
    <3>1. Conflict \/ restore[cur].life = "deleting"
      BY <2>3 DEF RemoveFinalizer, Conflict, LockInv, StepFitsPhase
    <3>2. pc = "removeFinalizer" /\ ~AddFinalizer
      BY <2>3 DEF RemoveFinalizer, AddFinalizer
    <3> QED
      BY <1>1, <2>1, <2>3, <3>1, <3>2 DEF RemoveFinalizer, Restores, RestoreObject
  <2> QED
    BY <1>4, <2>2, <2>3
<1> QED
  BY <1>3, <1>4

-----------------------------------------------------------------------------
(***************************************************************************)
(* The steps of everybody else.                                            *)
(***************************************************************************)

OutsideStep ==
  \/ EnvironmentStep /\ UNCHANGED render
  \/ (\E r \in Restore : UpgradeInValidating(r)) /\ UNCHANGED render
  \/ ReplicaStep \/ UNCHANGED system

\* Restores are created, deleted, and taken over from an earlier version.
RestoreMoves ==
  \A r \in Restore :
    /\ restore'[r].finalizer = restore[r].finalizer
    /\ \/ restore'[r].life = restore[r].life
       \/ restore[r].life = "unborn" /\ restore'[r].life = "live"
       \/ /\ "deleteRestore" \in UserActions /\ restore[r].life = "live"
          /\ restore'[r].life = IF restore[r].finalizer THEN "deleting" ELSE "gone"
    /\ \/ restore'[r].phase = restore[r].phase
       \/ /\ pc = "idle" /\ restore[r].life = "live" /\ job[r] = "complete"
          /\ restore[r].phase = "Restoring" /\ restore'[r].phase = "Validating"

\* Jobs and the Lease go once their restore is gone.
JobMoves ==
  \A r \in Restore : \/ job'[r] = job[r]
                     \/ job[r] = "running" /\ job'[r] \in {"complete", "failed"}
                     \/ restore[r].life = "gone" /\ job'[r] = "none"

LeaseMoves ==
  lease' = lease \/ (lease # NoRestore /\ restore[lease].life = "gone" /\ lease' = NoRestore)

ReplicaMoves ==
  \/ replica' = replica
  \/ "deleteReplica" \in UserActions /\ replica' = NoReplica
  \/ "disableBackup" \in UserActions /\ replica' = [replica EXCEPT !.backup = FALSE]

\* Only the user scales a workload up, and one at zero gets no pods.
WorkloadMoves ==
  /\ workload'.replicas > workload.replicas => "scaleWorkload" \in UserActions
  /\ workload.exists /\ ~workload'.exists => "deleteWorkload" \in UserActions
  /\ workload'.exists => workload.exists
  /\ AtZero => AtZero' \/ "scaleWorkload" \in UserActions

LEMMA OutsideMoves ==
  ASSUME RestoreTypeOK, OutsideStep
  PROVE  /\ UNCHANGED call
         /\ RestoreMoves /\ JobMoves /\ LeaseMoves /\ ReplicaMoves /\ WorkloadMoves
<1>1. /\ restore \in Restores /\ job \in Jobs /\ workload \in WorkloadObject
      /\ workload.replicas \in Nat
  BY DEF RestoreTypeOK, ClusterTypeOK, WorkloadObject
<1>2. ~(workload.replicas > workload.replicas)
  BY <1>1
<1> DEFINE Moves == RestoreMoves /\ JobMoves /\ LeaseMoves /\ ReplicaMoves /\ WorkloadMoves
<1>3. ASSUME UNCHANGED stored PROVE Moves
  BY <1>2, <1>3 DEF stored, RestoreMoves, JobMoves, LeaseMoves, ReplicaMoves, WorkloadMoves,
     AtZero
<1>4. ASSUME StartPod \/ DeletePod \/ PodExits \/ UserDeletesWorkload \/ UserScalesWorkload
      PROVE  Moves
  <2>1. UNCHANGED <<restore, replica, lease, job>>
    BY <1>4 DEF StartPod, DeletePod, PodExits, UserDeletesWorkload, UserScalesWorkload
  <2>2. RestoreMoves /\ JobMoves /\ LeaseMoves /\ ReplicaMoves
    BY <2>1 DEF RestoreMoves, JobMoves, LeaseMoves, ReplicaMoves
  <2>3. ASSUME StartPod PROVE WorkloadMoves
    <3>1. /\ workload' = [workload EXCEPT !.active = @ + 1] /\ workload.exists
          /\ RunningReplicas(workload) < workload.replicas
      BY <2>3 DEF StartPod
    <3>2. workload.active \in Nat /\ workload.terminating \in Nat
      BY <1>1 DEF WorkloadObject
    <3>3. /\ workload'.replicas = workload.replicas /\ workload'.exists = workload.exists
      BY <1>1, <3>1 DEF WorkloadObject
    <3>4. workload.replicas # 0
      BY <1>1, <3>1, <3>2 DEF RunningReplicas
    <3> QED
      BY <1>2, <3>1, <3>3, <3>4 DEF WorkloadMoves, AtZero
  <2>4. ASSUME DeletePod \/ PodExits PROVE WorkloadMoves
    <3>1. workload.active \in Nat /\ workload.terminating \in Nat
      BY <1>1 DEF WorkloadObject
    <3>2. workload'.replicas = workload.replicas /\ workload'.exists = workload.exists
      BY <1>1, <2>4 DEF DeletePod, PodExits, WorkloadObject
    <3>3. workload.active + workload.terminating # 0
      BY <1>1, <2>4, <3>1 DEF DeletePod, PodExits
    <3> QED
      BY <1>2, <3>2, <3>3 DEF WorkloadMoves, AtZero, Pods
  <2>5. ASSUME UserDeletesWorkload PROVE WorkloadMoves
    BY <1>1, <2>5 DEF UserDeletesWorkload, WorkloadMoves, AtZero, WorkloadObject
  <2>6. ASSUME UserScalesWorkload PROVE WorkloadMoves
    <3>1. workload'.exists = workload.exists /\ "scaleWorkload" \in UserActions
      BY <1>1, <2>6 DEF UserScalesWorkload, WorkloadObject
    <3> QED
      BY <3>1 DEF WorkloadMoves
  <2> QED
    BY <1>4, <2>2, <2>3, <2>4, <2>5, <2>6
<1>5. ASSUME NEW r \in Restore, JobEnds(r) \/ CollectJob(r) PROVE Moves
  <2>1. UNCHANGED <<restore, replica, lease, workload>>
    BY <1>5 DEF JobEnds, CollectJob
  <2>2. JobMoves
    BY <1>1, <1>5 DEF JobEnds, CollectJob, JobMoves, Jobs
  <2> QED
    BY <1>2, <2>1, <2>2 DEF RestoreMoves, LeaseMoves, ReplicaMoves, WorkloadMoves, AtZero
<1>6. ASSUME CollectLease PROVE Moves
  BY <1>2, <1>6 DEF CollectLease, RestoreMoves, JobMoves, LeaseMoves, ReplicaMoves,
     WorkloadMoves, AtZero
<1>7. ASSUME NEW r \in Restore, UserCreatesRestore(r) \/ UserDeletesRestore(r) PROVE Moves
  <2>1. UNCHANGED <<replica, lease, job, workload>>
    BY <1>7 DEF UserCreatesRestore, UserDeletesRestore
  <2>2. RestoreMoves
    BY <1>1, <1>7 DEF UserCreatesRestore, UserDeletesRestore, RestoreMoves, Restores,
       RestoreObject
  <2> QED
    BY <1>2, <2>1, <2>2 DEF JobMoves, LeaseMoves, ReplicaMoves, WorkloadMoves, AtZero
<1>8. ASSUME UserDeletesReplica \/ UserDisablesBackup PROVE Moves
  BY <1>2, <1>8 DEF UserDeletesReplica, UserDisablesBackup, RestoreMoves, JobMoves,
     LeaseMoves, ReplicaMoves, WorkloadMoves, AtZero
<1>9. ASSUME NEW r \in Restore, UpgradeInValidating(r) PROVE Moves
  <2>1. UNCHANGED <<replica, lease, job, workload>>
    BY <1>9 DEF UpgradeInValidating
  <2>2. RestoreMoves
    BY <1>1, <1>9 DEF UpgradeInValidating, RestoreMoves, Restores, RestoreObject
  <2> QED
    BY <1>2, <2>1, <2>2 DEF JobMoves, LeaseMoves, ReplicaMoves, WorkloadMoves, AtZero
<1>10. ASSUME \/ (\E kind \in CacheKinds : SyncCache(kind)) \/ CollectConfig
              \/ ReplicaStep \/ UNCHANGED system
       PROVE  Moves
  <2>1. UNCHANGED <<restore, replica, lease, job, workload>>
    BY <1>10 DEF SyncCache, CollectConfig, ReplicaStep, ReadReplica,
       ReconcileLitestreamConfig, RenderingStops, system, vars, stored
  <2> QED
    BY <1>2, <2>1 DEF RestoreMoves, JobMoves, LeaseMoves, ReplicaMoves, WorkloadMoves, AtZero
<1>11. UNCHANGED call
  BY DEF OutsideStep, EnvironmentStep, UpgradeInValidating, ReplicaStep, ReadReplica,
     ReconcileLitestreamConfig, RenderingStops, system, vars, call
<1> QED
  BY <1>3, <1>4, <1>5, <1>6, <1>7, <1>8, <1>9, <1>10, <1>11
  DEF OutsideStep, EnvironmentStep, KubernetesStep, UserStep

-----------------------------------------------------------------------------
(***************************************************************************)
(* What the steps of a call rely on.                                       *)
(***************************************************************************)

\* The part of CallInv that speaks of the objects, and not of the call.
PhasesInv ==
  \A r \in Restore :
    /\ restore[r].phase # "Pending"
    /\ r \notin InPlace => restore[r].phase \notin {"AcquiringLock", "Fencing", "Resuming"}
    /\ restore[r].life = "unborn" => job[r] = "none"

LEMMA CallReturns ==
  ASSUME Return, PhasesInv'
  PROVE  CallInv'
BY DEF Return, CallInv, PhasesInv

LEMMA CallOutside ==
  ASSUME RestoreTypeOK, LockInv, CallInv, OutsideStep
  PROVE  CallInv'
<1>1. /\ UNCHANGED call /\ RestoreMoves /\ JobMoves /\ LeaseMoves
      /\ (pc # "idle" => cur \in Restore)
  BY OutsideMoves DEF RestoreTypeOK, ControllerTypeOK
<1>2. PhasesInv'
  <2> SUFFICES ASSUME NEW r \in Restore
               PROVE  /\ restore'[r].phase # "Pending"
                      /\ r \notin InPlace =>
                           restore'[r].phase \notin {"AcquiringLock", "Fencing", "Resuming"}
                      /\ restore'[r].life = "unborn" => job'[r] = "none"
    BY DEF PhasesInv
  <2>1. restore'[r].phase \in {restore[r].phase, "Validating"}
    BY <1>1 DEF RestoreMoves
  <2>2. restore'[r].life = "unborn" => restore[r].life = "unborn"
    BY <1>1 DEF RestoreMoves
  <2>3. job'[r] # "none" => job[r] # "none"
    BY <1>1 DEF JobMoves
  <2> QED
    BY <2>1, <2>2, <2>3 DEF CallInv
<1>3. /\ pc \notin {"idle", "addFinalizer"} =>
           restore'[cur].life \in Present /\ restore'[cur].finalizer
      /\ pc \in {"fence", "createJob", "restoringPhase"} /\ cur \in InPlace => lease' = cur
      /\ pc \in {"resume", "scaleUp", "release", "complete"} => job'[cur] = "complete"
  BY <1>1 DEF CallInv, RestoreMoves, JobMoves, LeaseMoves, Present
<1> QED
  BY <1>1, <1>2, <1>3 DEF CallInv, PhasesInv, call

LEMMA CallBegins ==
  ASSUME RestoreTypeOK, LockInv, OutcomeInv, CallInv, "restore" \notin Lagging,
         NEW r \in Restore, Begin(r)
  PROVE  CallInv'
<1>1. /\ cur' = r /\ my' = restore[r] /\ source' = SeenReplica
      /\ pc' = FirstStep(restore[r], SeenReplica) /\ pc' # "idle"
      /\ restore[r].life \in Present /\ UNCHANGED <<restore, lease, job>>
  BY DEF Begin, SeenRestore, Seen, stored
<1>2. pc' \notin {"idle", "addFinalizer"} => restore[r].finalizer
  BY <1>1 DEF FirstStep
<1>3. /\ pc' \notin {"finalizeResume", "lockPhase", "cleanupResume", "createJob",
                     "restoringPhase", "scaleUp", "release", "complete"}
      /\ pc' \in {"fence", "resume"} => restore[r].life = "live"
      /\ pc' = "fence" => restore[r].phase = "Fencing"
      /\ pc' = "resume" => restore[r].phase = "Resuming"
      /\ pc' = "fail" /\ restore[r].phase = "Completed" => ~SeenReplica.exists
  BY <1>1 DEF FirstStep, PhaseStep, Present, Terminal
<1>4. pc' = "fence" /\ r \in InPlace => lease = r
  BY <1>3 DEF LockInv, FencingHoldsLock, InPhase
<1>5. pc' = "resume" => job[r] = "complete"
  BY <1>3 DEF OutcomeInv
<1> QED
  BY <1>1, <1>2, <1>3, <1>4, <1>5 DEF CallInv

\* The actions that end a call with a write to its restore.
LEMMA CallWrites ==
  ASSUME RestoreTypeOK, LockInv, JobInv, CallInv,
         \/ AddFinalizer \/ RemoveFinalizer \/ FailRestore \/ CleanupFail
         \/ EnterAcquiringLock \/ LeaseIsHeld \/ EnterFencing \/ EnterRestoring
         \/ JobSucceeded \/ SkipValidation \/ Complete
  PROVE  CallInv'
<1>1. Return /\ UNCHANGED job
  BY DEF AddFinalizer, RemoveFinalizer, FailRestore, CleanupFail, EnterAcquiringLock,
     LeaseIsHeld, EnterFencing, EnterRestoring, JobSucceeded, SkipValidation, Complete
<1>2. pc # "idle" /\ cur \in Restore /\ my.phase = restore[cur].phase
  BY DEF AddFinalizer, RemoveFinalizer, FailRestore, CleanupFail, EnterAcquiringLock,
     LeaseIsHeld, EnterFencing, EnterRestoring, JobSucceeded, SkipValidation, Complete,
     RestoreTypeOK, ControllerTypeOK, LockInv, CopyAgrees
<1>3. ASSUME NEW phase, Written(phase), phase # "Pending",
             cur \in InPlace \/ phase \notin {"AcquiringLock", "Fencing", "Resuming"}
      PROVE  PhasesInv'
  BY <1>1, <1>3 DEF Written, CallInv, PhasesInv
<1>4. CASE AddFinalizer \/ RemoveFinalizer
  BY <1>1, <1>2, <1>4, RestoresWritten, CallReturns DEF CallInv, PhasesInv
<1>5. CASE FailRestore \/ CleanupFail \/ EnterRestoring \/ Complete
  BY <1>1, <1>3, <1>5, PhasesWritten, CallReturns
<1>6. CASE EnterAcquiringLock \/ LeaseIsHeld \/ EnterFencing
  <2>1. cur \in InPlace
    BY <1>2, <1>6 DEF EnterAcquiringLock, LeaseIsHeld, EnterFencing, CallInv, LockInv,
       StepFitsPhase
  <2> QED
    BY <1>1, <1>3, <1>6, <2>1, PhasesWritten, CallReturns
<1>7. CASE JobSucceeded \/ SkipValidation
  BY <1>1, <1>3, <1>7, PhasesWritten, CallReturns
<1> QED
  BY <1>4, <1>5, <1>6, <1>7

\* The other steps of a call.
LEMMA CallGoesOn ==
  ASSUME RestoreTypeOK, LockInv, JobInv, CallInv, CallStep \/ Abort \/ WorkloadReadFails
  PROVE  CallInv'
<1>1. pc # "idle" => cur \in Restore /\ my.phase = restore[cur].phase
  BY DEF RestoreTypeOK, ControllerTypeOK, LockInv, CopyAgrees
<1>2. ASSUME UNCHANGED <<restore, job>> PROVE PhasesInv'
  BY <1>2 DEF CallInv, PhasesInv
<1>3. CASE Abort
  BY <1>2, <1>3, CallReturns DEF Abort, stored
<1>4. CASE WorkloadReadFails
  <2>1. /\ UNCHANGED <<restore, job, lease, cur, my, source>>
        /\ \/ pc \in {"pending", "lockPhase", "fence"} /\ pc' = "fail"
           \/ pc = "scaleUp" /\ pc' = "release"
    BY <1>4 DEF WorkloadReadFails, Continue, stored
  <2>2. pc \in {"pending", "lockPhase", "fence"} => my.phase # "Completed"
    BY DEF LockInv, StepFitsPhase, JobInv
  <2> QED
    BY <2>1, <2>2 DEF CallInv
<1>5. CASE ResolveTarget
  <2>1. pc = "pending" /\ UNCHANGED job /\ Untouched
    BY <1>5, RestoresWritten DEF ResolveTarget
  <2>2. PhasesInv'
    BY <2>1 DEF Untouched, CallInv, PhasesInv
  <2>3. my.phase = ""
    BY <1>1, <2>1 DEF LockInv, StepFitsPhase, CallInv
  <2>4. CASE Return
    BY <2>2, <2>4, CallReturns
  <2>5. CASE /\ UNCHANGED cur /\ my'.phase = my.phase
             /\ pc' \in {"fail", IF cur \in InPlace THEN "lockPhase" ELSE "createJob"}
    BY <1>1, <2>1, <2>2, <2>3, <2>5 DEF Untouched, CallInv, PhasesInv
  <2> QED
    BY <1>5, <2>4, <2>5, RestoresWritten
<1>6. CASE FinalizeRelease \/ FinalizeResume
  <2>1. /\ UNCHANGED <<restore, job, cur, my, source>> /\ pc \in {"finalize", "finalizeResume"}
        /\ \/ pc' = "finalizeResume" /\ cur \in InPlace
           \/ pc' = "removeFinalizer"
    BY <1>6 DEF FinalizeRelease, FinalizeResume, Continue
  <2> QED
    BY <2>1 DEF CallInv
<1>7. CASE CreateLease \/ LeaseIsOurs \/ PauseReplication
  <2>1. /\ UNCHANGED <<restore, job>> /\ pc \in {"acquireLock", "pause"}
        /\ Return \/ (UNCHANGED <<cur, my, source>> /\ pc' \in {"pause", "fencingPhase"})
    BY <1>7 DEF CreateLease, LeaseIsOurs, PauseReplication, Continue, stored
  <2> QED
    BY <1>2, <2>1, CallReturns DEF CallInv
<1>8. CASE PauseAgain \/ AwaitPausedConfig \/ ScaleDown
  <2>1. /\ UNCHANGED <<restore, job, lease>> /\ pc = "fence"
        /\ Return \/ (UNCHANGED <<cur, my, source>> /\ pc' = "createJob")
    BY <1>8 DEF PauseAgain, AwaitPausedConfig, ScaleDown, Continue, stored
  <2>2. cur \in InPlace
    BY <1>1, <2>1 DEF JobInv, CallInv
  <2> QED
    BY <1>2, <2>1, <2>2, CallReturns DEF CallInv
<1>9. CASE CreateJob
  <2>1. /\ pc = "createJob" /\ pc' = "restoringPhase"
        /\ UNCHANGED <<restore, lease, cur, my, source>>
        /\ \A r \in Restore \ {cur} : job'[r] = job[r]
    BY <1>9 DEF CreateJob, Continue, RestoreTypeOK, ClusterTypeOK, Jobs
  <2>2. restore[cur].life # "unborn"
    BY <2>1 DEF CallInv, Present
  <2> QED
    BY <1>1, <2>1, <2>2 DEF CallInv
<1>10. CASE JobStillRuns \/ JobFailed \/ CleanupResume
  <2>1. /\ UNCHANGED <<restore, job>> /\ pc \in {"restoring", "cleanupResume"}
        /\ \/ Return
           \/ UNCHANGED <<cur, my, source>> /\ pc' = "cleanupResume" /\ cur \in InPlace
           \/ UNCHANGED <<cur, my, source>> /\ pc' = "cleanupFail"
    BY <1>10 DEF JobStillRuns, JobFailed, CleanupResume, Continue, stored
  <2> QED
    BY <1>2, <2>1, CallReturns DEF CallInv
<1>11. CASE ResumeReplication \/ ScaleUp \/ ReleaseAfterScaleUp
  <2>1. /\ UNCHANGED <<restore, job>> /\ pc \in {"resume", "scaleUp", "release"}
        /\ Return \/ (UNCHANGED <<cur, my, source>> /\ pc' \in {"scaleUp", "release", "complete"})
    BY <1>11 DEF ResumeReplication, ScaleUp, ReleaseAfterScaleUp, Continue
  <2> QED
    BY <1>2, <2>1, CallReturns DEF CallInv
<1> QED
  BY <1>3, <1>4, <1>5, <1>6, <1>7, <1>8, <1>9, <1>10, <1>11, CallWrites
  DEF CallStep, Finalization, Pending, Locking, Fencing, Restoring, Resuming

\* Every step is one of these.
LEMMA EveryStep ==
  ASSUME [Next]_system
  PROVE  \/ OutsideStep \/ CallStep \/ Abort \/ WorkloadReadFails
         \/ \E r \in Restore : Begin(r)
BY DEF Next, RestoreStep, ReconcilerStep, OutsideStep

\* A restore keeps its object until its finalizer has been removed, its Job is
\* created under the lock, and it resumes only after its Job has succeeded, even
\* if it is deleted in the middle of the call (Reconcile, handleFinalization).
THEOREM CallInvariant ==
  ASSUME "restore" \notin Lagging
  PROVE  Spec => []CallInv
<1>1. Init => CallInv
  <2> SUFFICES ASSUME Init PROVE CallInv
    OBVIOUS
  <2>1. pc = "idle" /\ \A r \in Restore : restore[r].phase = "" /\ job[r] = "none"
    BY DEF Init, ClusterInit, ControllerInit, NewRestore
  <2> QED
    BY <2>1 DEF CallInv
<1>2. TypeOK /\ LockInv /\ JobInv /\ OutcomeInv /\ CallInv /\ [Next]_system => CallInv'
  BY EveryStep, CallOutside, CallBegins, CallGoesOn DEF TypeOK
<1> QED
  BY <1>1, <1>2, TypeCorrect, LockInvariant, JobInvariant, OutcomeInvariant, PTL DEF Spec

-----------------------------------------------------------------------------
(***************************************************************************)
(* What a call does to each of the objects.                                *)
(***************************************************************************)

CallMoves == CallStep \/ Abort \/ WorkloadReadFails \/ \E r \in Restore : Begin(r)

LEMMA ReleaseMoves ==
  ASSUME RestoreTypeOK, LockInv, pc # "idle", ReleaseRestoreLock
  PROVE  lease' = lease \/ (lease = cur /\ lease' = NoRestore)
BY RestoreAssumption DEF ReleaseRestoreLock, LockInv, CacheBehind, RestoreTypeOK,
   ControllerTypeOK, ClusterTypeOK, Holder

\* The Lease is created when nobody holds it, and released by its holder.
LEMMA LeaseOfCall ==
  ASSUME RestoreTypeOK, LockInv, CallMoves
  PROVE  \/ lease' = lease
         \/ lease = NoRestore /\ lease' = cur /\ CreateLease
         \/ lease = cur /\ lease' = NoRestore /\ (FinalizeRelease \/ JobFailed \/ ReleaseAfterScaleUp)
<1>1. CASE CreateLease
  BY <1>1 DEF CreateLease
<1>2. CASE FinalizeRelease \/ JobFailed \/ ReleaseAfterScaleUp
  <2>1. pc # "idle" /\ (UNCHANGED lease \/ ReleaseRestoreLock)
    BY <1>2 DEF FinalizeRelease, JobFailed, ReleaseAfterScaleUp
  <2> QED
    BY <1>2, <2>1, ReleaseMoves
<1>3. CASE AddFinalizer \/ FailRestore \/ FinalizeResume \/ RemoveFinalizer \/ Pending \/ Fencing
  BY <1>3 DEF AddFinalizer, FailRestore, FinalizeResume, RemoveFinalizer, Pending,
     ResolveTarget, EnterAcquiringLock, Fencing, PauseAgain, AwaitPausedConfig, ScaleDown,
     CreateJob, EnterRestoring, stored
<1>4. CASE \/ LeaseIsOurs \/ LeaseIsHeld \/ PauseReplication \/ EnterFencing
           \/ JobStillRuns \/ JobSucceeded \/ CleanupResume \/ CleanupFail \/ SkipValidation
           \/ ResumeReplication \/ ScaleUp \/ Complete
  BY <1>4 DEF LeaseIsOurs, LeaseIsHeld, PauseReplication, EnterFencing, JobStillRuns,
     JobSucceeded, CleanupResume, CleanupFail, SkipValidation, ResumeReplication, ScaleUp,
     Complete, stored
<1>5. CASE Abort \/ WorkloadReadFails \/ \E r \in Restore : Begin(r)
  BY <1>5 DEF Abort, WorkloadReadFails, Begin, stored
<1> QED
  BY <1>1, <1>2, <1>3, <1>4, <1>5
  DEF CallMoves, CallStep, Finalization, Locking, Restoring, Resuming

\* A Job is created by CreateJob only, for the restore of the call.
LEMMA JobOfCall ==
  ASSUME RestoreTypeOK, CallMoves
  PROVE  \/ job' = job
         \/ CreateJob /\ \A r \in Restore \ {cur} : job'[r] = job[r]
<1>1. CASE CreateJob
  BY <1>1 DEF CreateJob, RestoreTypeOK, ClusterTypeOK, ControllerTypeOK, Jobs
<1>2. CASE AddFinalizer \/ FailRestore \/ Finalization \/ Pending \/ Locking
  BY <1>2 DEF AddFinalizer, FailRestore, Finalization, FinalizeRelease, FinalizeResume,
     RemoveFinalizer, Pending, ResolveTarget, EnterAcquiringLock, Locking, CreateLease,
     LeaseIsOurs, LeaseIsHeld, PauseReplication, EnterFencing, stored
<1>3. CASE PauseAgain \/ AwaitPausedConfig \/ ScaleDown \/ EnterRestoring \/ Restoring
  BY <1>3 DEF PauseAgain, AwaitPausedConfig, ScaleDown, EnterRestoring, Restoring,
     JobStillRuns, JobSucceeded, JobFailed, CleanupResume, CleanupFail, SkipValidation, stored
<1>4. CASE Resuming \/ Abort \/ WorkloadReadFails \/ \E r \in Restore : Begin(r)
  BY <1>4 DEF Resuming, ResumeReplication, ScaleUp, ReleaseAfterScaleUp, Complete, Abort,
     WorkloadReadFails, Begin, stored
<1> QED
  BY <1>1, <1>2, <1>3, <1>4 DEF CallMoves, CallStep, Fencing

\* The writes to a restore, with the phase it has afterwards.
RestoreWrites ==
  \/ Untouched
  \/ (AddFinalizer \/ RemoveFinalizer)
     /\ \A r \in Restore : restore'[r].phase = restore[r].phase
  \/ (FailRestore \/ CleanupFail) /\ Written("Failed")
  \/ (EnterAcquiringLock \/ LeaseIsHeld) /\ Written("AcquiringLock")
  \/ EnterFencing /\ Written("Fencing")
  \/ EnterRestoring /\ Written("Restoring")
  \/ (JobSucceeded \/ SkipValidation)
     /\ Written(IF cur \in InPlace THEN "Resuming" ELSE "Completed")
  \/ Complete /\ Written("Completed")

LEMMA RestoresOfCall ==
  ASSUME RestoreTypeOK, LockInv, CallMoves
  PROVE  /\ RestoreWrites
         /\ \A r \in Restore : \/ restore'[r].life = restore[r].life
                               \/ restore[r].life = "deleting" /\ restore'[r].life = "gone"
<1> DEFINE LivesKept == \A r \in Restore :
                      \/ restore'[r].life = restore[r].life
                      \/ restore[r].life = "deleting" /\ restore'[r].life = "gone"
<1>1. ASSUME UNCHANGED restore PROVE Untouched
  BY <1>1 DEF Untouched
<1>2. Untouched => LivesKept
  BY DEF Untouched
<1>3. ASSUME NEW phase, Written(phase) PROVE LivesKept
  BY <1>3 DEF Written
<1>4. ASSUME AddFinalizer \/ RemoveFinalizer PROVE RestoreWrites /\ LivesKept
  BY <1>4, RestoresWritten DEF RestoreWrites
<1>5. ASSUME \/ FailRestore \/ CleanupFail \/ EnterAcquiringLock \/ LeaseIsHeld
             \/ EnterFencing \/ EnterRestoring \/ JobSucceeded \/ SkipValidation \/ Complete
      PROVE  RestoreWrites /\ LivesKept
  BY <1>3, <1>5, PhasesWritten DEF RestoreWrites
<1>6. ASSUME \/ ResolveTarget
             \/ FinalizeRelease \/ FinalizeResume \/ CreateLease \/ LeaseIsOurs
             \/ PauseReplication \/ PauseAgain \/ AwaitPausedConfig \/ ScaleDown \/ CreateJob
      PROVE  Untouched
  BY <1>1, <1>6, RestoresWritten DEF FinalizeRelease, FinalizeResume, CreateLease, LeaseIsOurs,
     PauseReplication, PauseAgain, AwaitPausedConfig, ScaleDown, CreateJob, stored
<1>7. ASSUME \/ JobStillRuns \/ JobFailed \/ CleanupResume \/ ResumeReplication \/ ScaleUp
             \/ ReleaseAfterScaleUp
             \/ Abort \/ WorkloadReadFails \/ \E r \in Restore : Begin(r)
      PROVE  Untouched
  BY <1>1, <1>7 DEF JobStillRuns, JobFailed, CleanupResume, ResumeReplication, ScaleUp,
     ReleaseAfterScaleUp, Abort, WorkloadReadFails, Begin, stored
<1> HIDE DEF LivesKept
<1>8. RestoreWrites /\ LivesKept
  BY <1>2, <1>4, <1>5, <1>6, <1>7
  DEF RestoreWrites, CallMoves, CallStep, Finalization, Pending, Locking, Fencing, Restoring,
      Resuming
<1> QED
  BY <1>8 DEF LivesKept

\* The pause annotation and the replica count are written by these actions only.
LEMMA OthersOfCall ==
  ASSUME CallMoves
  PROVE  /\ \/ replica' = replica
            \/ FinalizeResume \/ CleanupResume \/ ResumeReplication
            \/ PauseReplication \/ PauseAgain
         /\ workload' = workload \/ ScaleDown \/ ScaleUp
<1>1. CASE AddFinalizer \/ FailRestore \/ Finalization \/ Pending \/ Locking
  BY <1>1 DEF AddFinalizer, FailRestore, Finalization, FinalizeRelease, FinalizeResume,
     RemoveFinalizer, Pending, ResolveTarget, EnterAcquiringLock, Locking, CreateLease,
     LeaseIsOurs, LeaseIsHeld, PauseReplication, EnterFencing, stored
<1>2. CASE Fencing \/ Restoring
  BY <1>2 DEF Fencing, PauseAgain, AwaitPausedConfig, ScaleDown, CreateJob, EnterRestoring,
     Restoring, JobStillRuns, JobSucceeded, JobFailed, CleanupResume, CleanupFail,
     SkipValidation, stored
<1>3. CASE Resuming \/ Abort \/ WorkloadReadFails \/ \E r \in Restore : Begin(r)
  BY <1>3 DEF Resuming, ResumeReplication, ScaleUp, ReleaseAfterScaleUp, Complete, Abort,
     WorkloadReadFails, Begin, stored
<1> QED
  BY <1>1, <1>2, <1>3 DEF CallMoves, CallStep

LEMMA EveryMove ==
  ASSUME [Next]_system
  PROVE  OutsideStep \/ (CallMoves /\ UNCHANGED render)
BY DEF CallMoves, Next, RestoreStep, ReconcilerStep, OutsideStep

-----------------------------------------------------------------------------
(***************************************************************************)
(* Phases, the restores beside the application, and the scale-up.          *)
(***************************************************************************)

\* The phases of a restore come in the order in which Reconcile takes them, and a
\* restore fails out of Completed only if its source is gone (Reconcile).
THEOREM PhasesInOrder ==
  ASSUME "restore" \notin Lagging
  PROVE  Spec => PhaseOrder
<1> DEFINE Ordered == \A r \in Restore : restore'[r].phase # restore[r].phase => InOrder(r)
<1>1. TypeOK /\ LockInv /\ JobInv /\ CallInv /\ [Next]_system => Ordered
  <2> SUFFICES ASSUME TypeOK, LockInv, JobInv, CallInv, [Next]_system,
                      NEW r \in Restore, restore'[r].phase # restore[r].phase
               PROVE  InOrder(r)
    OBVIOUS
  <2> USE DEF TypeOK
  <2>1. CASE OutsideStep
    BY <2>1, OutsideMoves DEF RestoreMoves, InOrder
  <2>2. CASE CallMoves
    <3>1. RestoreWrites
      BY <2>2, RestoresOfCall
    <3>2. ~Untouched
      BY DEF Untouched
    <3>3. \A phase : Written(phase) =>
            r = cur /\ restore'[r].phase = phase
      BY DEF Written
    <3>4. pc # "idle" => my.phase = restore[cur].phase
      BY DEF LockInv, CopyAgrees
    <3>5. CASE FailRestore /\ Written("Failed")
      BY <3>3, <3>4, <3>5 DEF FailRestore, CallInv, InOrder
    <3>6. CASE CleanupFail /\ Written("Failed")
      BY <3>3, <3>4, <3>6 DEF CleanupFail, LockInv, StepFitsPhase, InOrder
    <3>7. CASE EnterAcquiringLock /\ Written("AcquiringLock")
      BY <3>3, <3>4, <3>7 DEF EnterAcquiringLock, LockInv, StepFitsPhase, CallInv, InOrder
    <3>8. CASE LeaseIsHeld /\ Written("AcquiringLock")
      BY <3>3, <3>4, <3>8 DEF LeaseIsHeld, LockInv, StepFitsPhase
    <3>9. CASE EnterFencing /\ Written("Fencing")
      BY <3>3, <3>4, <3>9 DEF EnterFencing, LockInv, StepFitsPhase, InOrder
    <3>10. CASE EnterRestoring /\ Written("Restoring")
      BY <3>3, <3>4, <3>10 DEF EnterRestoring, JobInv, CallInv, InOrder
    <3>11. CASE (JobSucceeded \/ SkipValidation)
                /\ Written(IF cur \in InPlace THEN "Resuming" ELSE "Completed")
      BY <3>3, <3>4, <3>11 DEF JobSucceeded, SkipValidation, LockInv, StepFitsPhase, InOrder
    <3>12. CASE Complete /\ Written("Completed")
      BY <3>3, <3>4, <3>12 DEF Complete, LockInv, StepFitsPhase, InOrder
    <3> QED
      BY <3>1, <3>2, <3>5, <3>6, <3>7, <3>8, <3>9, <3>10, <3>11, <3>12 DEF RestoreWrites
  <2> QED
    BY <2>1, <2>2, EveryMove
<1>2. TypeOK /\ LockInv /\ JobInv /\ CallInv /\ [Next]_system => [Ordered]_vars
  BY <1>1
<1> QED
  BY <1>2, TypeCorrect, LockInvariant, JobInvariant, CallInvariant, PTL DEF Spec, PhaseOrder

\* No call for a restore beside the application changes the Lease, the pause
\* annotation or the workload (handleFinalization, reconcilePending and
\* failRestoreWithCleanup ask for the mode, and no other phase is reached).
THEOREM ToPVCIsBeside ==
  ASSUME "restore" \notin Lagging
  PROVE  Spec => ToPVCLeavesApplicationAlone
<1> DEFINE Beside == pc # "idle" /\ cur \notin InPlace /\ pc' # pc
                       => UNCHANGED <<lease, replica, workload>>
<1>1. TypeOK /\ LockInv /\ JobInv /\ CallInv /\ [Next]_system => [Beside]_vars
  <2> SUFFICES ASSUME TypeOK, LockInv, JobInv, CallInv, [Next]_system,
                      pc # "idle", cur \notin InPlace, pc' # pc
               PROVE  UNCHANGED <<lease, replica, workload>>
    OBVIOUS
  <2> USE DEF TypeOK
  <2>1. CallMoves
    BY EveryMove, OutsideMoves DEF call
  <2>2. cur \in Restore /\ my.phase \notin {"AcquiringLock", "Fencing", "Resuming"}
    BY DEF RestoreTypeOK, ControllerTypeOK, LockInv, CopyAgrees, CallInv
  <2>3. pc \notin {"acquireLock", "pause", "fence", "resume", "scaleUp", "release",
                   "finalizeResume", "cleanupResume"}
    BY <2>2 DEF LockInv, StepFitsPhase, JobInv, CallInv
  <2>4. lease' = lease
    BY <2>1, <2>3, LeaseOfCall DEF CreateLease, FinalizeRelease, JobFailed, ReleaseAfterScaleUp
  <2>5. replica' = replica /\ workload' = workload
    BY <2>1, <2>3, OthersOfCall DEF FinalizeResume, CleanupResume, ResumeReplication,
       PauseReplication, PauseAgain, ScaleDown, ScaleUp
  <2> QED
    BY <2>4, <2>5
<1> QED
  BY <1>1, TypeCorrect, LockInvariant, JobInvariant, CallInvariant, PTL
  DEF Spec, ToPVCLeavesApplicationAlone

\* Unless the user does it, the application is scaled up only for a restore whose
\* Job has succeeded, however calls end (reconcileResuming, failRestoreWithCleanup).
THEOREM ScaledUpAfterSuccess ==
  ASSUME "restore" \notin Lagging, "scaleWorkload" \notin UserActions
  PROVE  Spec => ScaleUpOnlyAfterSuccess
<1> DEFINE Earned == workload'.replicas > workload.replicas
                       => cur \in InPlace /\ job[cur] = "complete"
<1>1. TypeOK /\ LockInv /\ CallInv /\ [Next]_system => [Earned]_vars
  <2> SUFFICES ASSUME TypeOK, LockInv, CallInv, [Next]_system,
                      workload'.replicas > workload.replicas
               PROVE  cur \in InPlace /\ job[cur] = "complete"
    OBVIOUS
  <2> USE DEF TypeOK
  <2>1. workload \in WorkloadObject /\ workload.replicas \in Nat
    BY DEF RestoreTypeOK, ClusterTypeOK, WorkloadObject
  <2>2. CallMoves
    BY EveryMove, OutsideMoves DEF WorkloadMoves
  <2>3. ~ScaleDown /\ workload' # workload
    BY <2>1 DEF ScaleDown, WorkloadObject
  <2>4. pc = "scaleUp"
    BY <2>2, <2>3, OthersOfCall DEF ScaleUp
  <2>5. cur \in Restore /\ restore[cur].phase = "Resuming"
    BY <2>4 DEF RestoreTypeOK, ControllerTypeOK, LockInv, CopyAgrees, StepFitsPhase
  <2> QED
    BY <2>4, <2>5 DEF CallInv
<1> QED
  BY <1>1, TypeCorrect, LockInvariant, CallInvariant, PTL DEF Spec, ScaleUpOnlyAfterSuccess

-----------------------------------------------------------------------------
(***************************************************************************)
(* The Job starts at zero pods.                                            *)
(***************************************************************************)

\* From one step of a call to the next.
GoesOn ==
  \/ FinalizeRelease /\ pc' \in {"finalizeResume", "removeFinalizer"}
  \/ FinalizeResume /\ pc' = "removeFinalizer"
  \/ ResolveTarget /\ pc' \in {"fail", IF cur \in InPlace THEN "lockPhase" ELSE "createJob"}
  \/ (CreateLease \/ LeaseIsOurs) /\ pc' = "pause"
  \/ PauseReplication /\ pc' = "fencingPhase"
  \/ ScaleDown /\ pc' = "createJob"
  \/ CreateJob /\ pc' = "restoringPhase"
  \/ WorkloadReadFails /\ pc' = (IF pc = "scaleUp" THEN "release" ELSE "fail")
  \/ JobFailed /\ pc' = (IF cur \in InPlace THEN "cleanupResume" ELSE "cleanupFail")
  \/ CleanupResume /\ pc' = "cleanupFail"
  \/ ResumeReplication /\ pc' = "scaleUp"
  \/ ScaleUp /\ pc' = "release"
  \/ ReleaseAfterScaleUp /\ pc' = "complete"

LEMMA StepOfCall ==
  ASSUME RestoreTypeOK, LockInv, CallMoves
  PROVE  \/ Return
         \/ \E r \in Restore : Begin(r)
         \/ /\ pc # "idle" /\ UNCHANGED <<cur, source>> /\ my'.phase = my.phase
            /\ GoesOn
<1> DEFINE On == /\ pc # "idle" /\ UNCHANGED <<cur, source>> /\ my'.phase = my.phase
                 /\ GoesOn
<1>1. ASSUME ResolveTarget PROVE Return \/ On
  <2>1. pc = "pending"
    BY <1>1 DEF ResolveTarget
  <2>2. \/ Return
        \/ /\ UNCHANGED cur /\ my'.phase = my.phase
           /\ pc' \in {"fail", IF cur \in InPlace THEN "lockPhase" ELSE "createJob"}
    BY <1>1, RestoresWritten
  <2>3. Return \/ UNCHANGED source
    BY <1>1 DEF ResolveTarget, Continue
  <2> QED
    BY <1>1, <2>1, <2>2, <2>3 DEF GoesOn
<1>2. ASSUME FinalizeRelease \/ FinalizeResume PROVE On
  BY <1>2 DEF FinalizeRelease, FinalizeResume, Continue, GoesOn
<1>3. ASSUME CreateLease \/ LeaseIsOurs \/ PauseReplication PROVE Return \/ On
  BY <1>3 DEF CreateLease, LeaseIsOurs, PauseReplication, Continue, GoesOn
<1>4. ASSUME ScaleDown \/ CreateJob PROVE Return \/ On
  BY <1>4 DEF ScaleDown, CreateJob, Continue, GoesOn
<1>5. ASSUME WorkloadReadFails PROVE On
  BY <1>5 DEF WorkloadReadFails, Continue, GoesOn
<1>6. ASSUME JobFailed \/ CleanupResume PROVE On
  BY <1>6 DEF JobFailed, CleanupResume, Continue, GoesOn
<1>7. ASSUME ResumeReplication \/ ScaleUp \/ ReleaseAfterScaleUp PROVE Return \/ On
  BY <1>7 DEF ResumeReplication, ScaleUp, ReleaseAfterScaleUp, Continue, GoesOn
<1>8. ASSUME \/ AddFinalizer \/ RemoveFinalizer \/ FailRestore \/ EnterAcquiringLock \/ LeaseIsHeld
             \/ EnterFencing \/ PauseAgain \/ AwaitPausedConfig \/ EnterRestoring \/ JobStillRuns
             \/ JobSucceeded \/ CleanupFail \/ SkipValidation \/ Complete \/ Abort
      PROVE  Return
  BY <1>8 DEF AddFinalizer, RemoveFinalizer, FailRestore, EnterAcquiringLock, LeaseIsHeld,
     EnterFencing, PauseAgain, AwaitPausedConfig, EnterRestoring, JobStillRuns, JobSucceeded,
     CleanupFail, SkipValidation, Complete, Abort
<1> HIDE DEF On
<1>9. Return \/ (\E r \in Restore : Begin(r)) \/ On
  BY <1>1, <1>2, <1>3, <1>4, <1>5, <1>6, <1>7, <1>8
  DEF CallMoves, CallStep, Finalization, Pending, Locking, Fencing, Restoring, Resuming
<1> QED
  BY <1>9 DEF On

\* A call that begins, with a cache that shows the restores as they are.
LEMMA BeginsWith ==
  ASSUME "restore" \notin Lagging, NEW r \in Restore, Begin(r)
  PROVE  /\ pc = "idle" /\ UNCHANGED <<stored, cache, faults>>
         /\ cur' = r /\ my' = restore[r] /\ source' = SeenReplica
         /\ pc' = FirstStep(restore[r], SeenReplica)
         /\ restore[r].life \in Present
BY DEF Begin, SeenRestore, Seen

\* Which phase a call begins with each of its steps.
LEMMA FirstStepFits ==
  ASSUME NEW r, NEW db, r.life \in Present
  PROVE  LET step == FirstStep(r, db)
         IN  /\ step \in {"addFinalizer", "finalize", "fail", "idle", "pending", "acquireLock",
                          "fence", "restoring", "validating", "resume"}
             /\ step \in {"pending", "acquireLock", "fence", "restoring", "validating", "resume"}
                  => r.life = "live" /\ db.exists /\ db.backup
             /\ step = "fence" => r.phase = "Fencing"
             /\ step = "restoring" => r.phase = "Restoring"
             /\ step = "resume" => r.phase = "Resuming"
             /\ step = "fail" => ~(db.exists /\ db.backup)
BY DEF FirstStep, PhaseStep, Present

LEMMA FencedAtStartNext ==
  ASSUME RestoreTypeOK, LockInv, JobInv, FencedAtStart, [Next]_system,
         "restore" \notin Lagging, "workload" \notin Lagging,
         Kind = "StatefulSet", "scaleWorkload" \notin UserActions
  PROVE  FencedAtStart'
<1> SUFFICES ASSUME pc' = "createJob", cur' \in InPlace PROVE AtZero'
  BY DEF FencedAtStart
<1>1. CASE OutsideStep
  BY <1>1, OutsideMoves DEF FencedAtStart, WorkloadMoves, call
<1>2. CASE CallMoves
  <2>1. ~Return /\ ~(\E r \in Restore : Begin(r))
    BY BeginsWith, FirstStepFits DEF Return
  <2>2. UNCHANGED cur /\ GoesOn
    BY <1>2, <2>1, StepOfCall
  <2>3. ScaleDown /\ ~Return
    BY <2>1, <2>2 DEF GoesOn
  <2>4. /\ workload.replicas \in Nat /\ workload.active \in Nat /\ workload.terminating \in Nat
        /\ workload \in WorkloadObject
    BY DEF RestoreTypeOK, ClusterTypeOK, WorkloadObject
  <2>5. SeenWorkload = workload
    BY DEF SeenWorkload, Seen
  <2>6. CASE ~workload.exists
    BY <2>3, <2>5, <2>6 DEF ScaleDown, AtZero
  <2>7. CASE workload.exists
    <3>1. RunningReplicas(workload) = 0 /\ workload' \in {workload, [workload EXCEPT !.replicas = 0]}
          /\ workload'.replicas = 0
      BY <2>3, <2>4, <2>5, <2>7 DEF ScaleDown, Fenced, WorkloadObject
    <3>2. workload'.active = workload.active /\ workload'.terminating = workload.terminating
      BY <2>4, <3>1 DEF WorkloadObject
    <3> QED
      BY <3>1, <3>2 DEF AtZero, Pods, RunningReplicas
  <2> QED
    BY <2>6, <2>7
<1> QED
  BY <1>1, <1>2, EveryMove

\* The Job that overwrites the database of a StatefulSet starts under the Lease
\* and only once the application has no pods and is to have none, whatever calls
\* are lost on the way (reconcileFencing).
THEOREM JobStartsAtZero ==
  ASSUME "restore" \notin Lagging, "workload" \notin Lagging, Kind = "StatefulSet",
         {"scaleWorkload", "deleteWorkload"} \cap UserActions = {}
  PROVE  Spec => JobStartsFenced
<1> DEFINE Started == \A r \in InPlace : job[r] = "none" /\ job'[r] = "running" =>
                        /\ lease = r
                        /\ workload.replicas = 0 /\ Pods(workload) = 0
           Exists == workload.exists
<1>1. Init => FencedAtStart /\ Exists
  BY DEF Init, ClusterInit, ControllerInit, FencedAtStart
<1>2. TypeOK /\ LockInv /\ JobInv /\ FencedAtStart /\ [Next]_system => FencedAtStart'
  BY FencedAtStartNext DEF TypeOK
<1>3. TypeOK /\ Exists /\ [Next]_system => Exists'
  <2> SUFFICES ASSUME RestoreTypeOK, workload.exists, [Next]_system PROVE workload'.exists
    BY DEF TypeOK
  <2>1. CASE OutsideStep
    BY <2>1, OutsideMoves DEF WorkloadMoves
  <2>2. CASE CallMoves
    BY <2>2, OthersOfCall DEF ScaleDown, ScaleUp, RestoreTypeOK, ClusterTypeOK, WorkloadObject
  <2> QED
    BY <2>1, <2>2, EveryMove
<1>4. TypeOK /\ CallInv /\ FencedAtStart /\ Exists /\ [Next]_system => [Started]_vars
  <2> SUFFICES ASSUME RestoreTypeOK, CallInv, FencedAtStart, workload.exists, [Next]_system,
                      NEW r \in InPlace, job[r] = "none", job'[r] = "running"
               PROVE  lease = r /\ workload.replicas = 0 /\ Pods(workload) = 0
    BY DEF TypeOK
  <2>1. r \in Restore
    BY RestoreAssumption
  <2>2. CallMoves
    BY <2>1, EveryMove, OutsideMoves DEF JobMoves
  <2>3. CreateJob /\ r = cur
    BY <2>1, <2>2, JobOfCall
  <2> QED
    BY <2>3 DEF CreateJob, CallInv, FencedAtStart, AtZero
<1> HIDE DEF Exists
<1> QED
  BY <1>1, <1>2, <1>3, <1>4, TypeCorrect, LockInvariant, JobInvariant, CallInvariant, PTL
  DEF Spec, JobStartsFenced

-----------------------------------------------------------------------------
(***************************************************************************)
(* One Job, one active restore.                                            *)
(***************************************************************************)

LEMMA JobHoldsLockNext ==
  ASSUME RestoreTypeOK, LockInv, JobInv, CallInv, JobHoldsLock, [Next]_system,
         "job" \notin Lagging
  PROVE  JobHoldsLock'
<1> SUFFICES ASSUME NEW r \in InPlace, job'[r] = "running", restore'[r].life = "live"
             PROVE  lease' = r
  BY DEF JobHoldsLock
<1>1. r \in Restore /\ r # NoRestore
  BY RestoreAssumption
<1>2. CASE OutsideStep
  <2>1. RestoreMoves /\ JobMoves /\ LeaseMoves
    BY <1>2, OutsideMoves
  <2>2. job[r] = "running"
    BY <1>1, <2>1 DEF JobMoves
  <2>3. restore[r].life = "live"
    BY <1>1, <2>1, <2>2 DEF RestoreMoves, CallInv
  <2> QED
    BY <1>1, <2>1, <2>2, <2>3 DEF JobHoldsLock, LeaseMoves
<1>3. CASE CallMoves
  <2>1. restore[r].life = "live"
    BY <1>1, <1>3, RestoresOfCall
  <2>2. CASE job[r] # "running"
    <3>1. CreateJob /\ r = cur
      BY <1>1, <1>3, <2>2, JobOfCall
    <3> QED
      BY <3>1 DEF CreateJob, CallInv
  <2>3. CASE job[r] = "running"
    <3>1. lease = r
      BY <2>1, <2>3 DEF JobHoldsLock
    <3>2. ASSUME cur = r, FinalizeRelease \/ JobFailed \/ ReleaseAfterScaleUp PROVE FALSE
      <4>1. CASE FinalizeRelease
        BY <2>1, <3>2, <4>1 DEF FinalizeRelease, LockInv, StepFitsPhase, CopyAgrees
      <4>2. CASE JobFailed
        <5>1. pc = "restoring" /\ my.phase = "Restoring" /\ JobSeen # "running"
          BY <4>2 DEF JobFailed, LockInv, StepFitsPhase
        <5>2. my.jobName
          BY <2>1, <3>2, <5>1 DEF JobInv
        <5> QED
          BY <2>3, <3>2, <5>1, <5>2 DEF JobSeen, SeenJob, Seen
      <4>3. CASE ReleaseAfterScaleUp
        BY <2>3, <3>2, <4>3 DEF ReleaseAfterScaleUp, CallInv
      <4> QED
        BY <3>2, <4>1, <4>2, <4>3
    <3> QED
      BY <1>1, <1>3, <3>1, <3>2, LeaseOfCall
  <2> QED
    BY <2>2, <2>3
<1> QED
  BY <1>2, <1>3, EveryMove

\* As long as nobody deletes a restore, the Job of a restore in place runs only
\* while the restore holds the Lease, even one that has failed meanwhile because
\* its source is gone.
THEOREM JobIsLocked ==
  ASSUME "restore" \notin Lagging, "job" \notin Lagging
  PROVE  Spec => []JobHoldsLock
<1>1. Init => JobHoldsLock
  BY RestoreAssumption DEF Init, ClusterInit, JobHoldsLock
<1>2. TypeOK /\ LockInv /\ JobInv /\ CallInv /\ JobHoldsLock /\ [Next]_system => JobHoldsLock'
  BY JobHoldsLockNext DEF TypeOK
<1> QED
  BY <1>1, <1>2, TypeCorrect, LockInvariant, JobInvariant, CallInvariant, PTL DEF Spec

\* No restore object is deleted if the user deletes none.
NoneDeleted == \A r \in Restore : restore[r].life \in {"unborn", "live"}

LEMMA NobodyDeletes ==
  ASSUME "restore" \notin Lagging, "deleteRestore" \notin UserActions
  PROVE  Spec => []NoneDeleted
<1>1. Init => NoneDeleted
  <2> SUFFICES ASSUME Init, NEW r \in Restore PROVE restore[r].life \in {"unborn", "live"}
    BY DEF NoneDeleted
  <2> QED
    BY DEF Init, ClusterInit, NewRestore
<1>2. TypeOK /\ LockInv /\ NoneDeleted /\ [Next]_system => NoneDeleted'
  <2> SUFFICES ASSUME RestoreTypeOK, LockInv, NoneDeleted, [Next]_system PROVE NoneDeleted'
    BY DEF TypeOK
  <2>1. CASE OutsideStep
    BY <2>1, OutsideMoves DEF RestoreMoves, NoneDeleted
  <2>2. CASE CallMoves
    BY <2>2, RestoresOfCall DEF NoneDeleted
  <2> QED
    BY <2>1, <2>2, EveryMove
<1> QED
  BY <1>1, <1>2, TypeCorrect, LockInvariant, PTL DEF Spec

\* No two Jobs write the database at a time, unless a restore has been deleted
\* or a cache hides a Job (reconcileAcquiringLock, reconcileRestoring).
THEOREM OneJob ==
  ASSUME "restore" \notin Lagging, "job" \notin Lagging, "deleteRestore" \notin UserActions
  PROVE  Spec => []OneJobAtATime
<1>1. NoneDeleted /\ CallInv /\ JobHoldsLock => OneJobAtATime
  BY RestoreAssumption DEF NoneDeleted, CallInv, JobHoldsLock, OneJobAtATime
<1> QED
  BY <1>1, CallInvariant, JobIsLocked, NobodyDeletes, PTL

\* A call that ends a restore is not cut short, if none is.
LEMMA EndingOfCall ==
  ASSUME CallMoves, "abort" \notin Faults
  PROVE  /\ pc = "cleanupResume" => CleanupResume
         /\ pc = "cleanupFail" => CleanupFail
         /\ pc = "complete" => Complete
<1> SUFFICES ASSUME pc \in {"cleanupResume", "cleanupFail", "complete"}
             PROVE  CleanupResume \/ CleanupFail \/ Complete
  BY DEF CleanupResume, CleanupFail, Complete
<1>1. ~(Abort \/ WorkloadReadFails \/ \E r \in Restore : Begin(r))
  BY DEF Abort, Fault, WorkloadReadFails, Begin
<1>2. ~(AddFinalizer \/ FailRestore \/ Finalization \/ Pending \/ Locking)
  BY DEF AddFinalizer, FailRestore, Finalization, FinalizeRelease, FinalizeResume,
     RemoveFinalizer, Pending, ResolveTarget, EnterAcquiringLock, Locking, CreateLease,
     LeaseIsOurs, LeaseIsHeld, PauseReplication, EnterFencing
<1>3. ~Fencing
  BY DEF Fencing, PauseAgain, AwaitPausedConfig, ScaleDown, CreateJob, EnterRestoring
<1>4. ~(\/ JobStillRuns \/ JobSucceeded \/ JobFailed \/ SkipValidation
        \/ ResumeReplication \/ ScaleUp \/ ReleaseAfterScaleUp)
  BY DEF JobStillRuns, JobSucceeded, JobFailed, SkipValidation, ResumeReplication, ScaleUp,
     ReleaseAfterScaleUp
<1> QED
  BY <1>1, <1>2, <1>3, <1>4 DEF CallMoves, CallStep, Restoring, Resuming

LEMMA ActiveInvNext ==
  ASSUME RestoreTypeOK, LockInv, JobInv, CallInv, ActiveInv, [Next]_system,
         "restore" \notin Lagging, "abort" \notin Faults
  PROVE  ActiveInv'
<1> DEFINE Ending == {"cleanupResume", "cleanupFail", "complete"}
           Holding == {"restoring", "resume", "scaleUp", "release"}
<1>1. CASE OutsideStep
  <2>1. UNCHANGED call /\ RestoreMoves /\ LeaseMoves
    BY <1>1, OutsideMoves
  <2>2. ASSUME NEW r \in InPlace, restore'[r].life = "live", restore'[r].phase \in ActivePhases
        PROVE  lease' = r \/ (cur' = r /\ pc' \in Ending)
    <3>1. r \in Restore /\ r # NoRestore
      BY RestoreAssumption
    <3>2. restore[r].life = "live" /\ restore[r].phase \in ActivePhases
      BY <2>1, <2>2, <3>1 DEF RestoreMoves, LockInv, UnbornIsNew, ActivePhases
    <3> QED
      BY <2>1, <3>1, <3>2 DEF ActiveInv, InPhase, LeaseMoves, call
  <2>3. pc # "idle" => cur \in Restore /\ cur # NoRestore
    BY RestoreAssumption DEF RestoreTypeOK, ControllerTypeOK
  <2>4. /\ cur' \in InPlace /\ pc' \in Ending => lease' \in {NoRestore, cur'}
        /\ cur' \in InPlace /\ pc' \in Holding => lease' = cur'
    BY <2>1, <2>3 DEF ActiveInv, CallInv, LeaseMoves, Present, call
  <2> QED
    BY <2>2, <2>4 DEF ActiveInv, InPhase
<1>2. CASE CallMoves
  <2>1. ~Abort
    BY DEF Abort, Fault
  <2>2. pc # "idle" => cur \in Restore /\ my.phase = restore[cur].phase
    BY DEF RestoreTypeOK, ControllerTypeOK, LockInv, CopyAgrees
  <2>3. ASSUME NEW r \in InPlace, restore'[r].life = "live", restore'[r].phase \in ActivePhases
        PROVE  \/ restore[r].life = "live" /\ restore[r].phase \in ActivePhases
               \/ lease = r /\ UNCHANGED lease
    <3>1. r \in Restore
      BY RestoreAssumption
    <3>2. restore[r].life = "live"
      BY <1>2, <2>3, <3>1, RestoresOfCall
    <3>3. ASSUME restore'[r].phase # restore[r].phase, restore[r].phase \notin ActivePhases
          PROVE  lease = r /\ UNCHANGED lease
      <4>1. RestoreWrites
        BY <1>2, RestoresOfCall
      <4>2. \A phase : Written(phase) => r = cur /\ restore'[r].phase = phase
        BY <3>1, <3>3 DEF Written
      <4>3. CASE EnterFencing
        BY <3>2, <4>1, <4>2, <4>3, <3>1, <3>3
        DEF EnterFencing, LockInv, HolderEntersFencing, RestoreWrites, Untouched, AddFinalizer,
            RemoveFinalizer, FailRestore, CleanupFail, EnterAcquiringLock, LeaseIsHeld,
            EnterRestoring, JobSucceeded, SkipValidation, Complete
      <4>4. CASE EnterRestoring /\ Written("Restoring")
        BY <4>2, <4>4 DEF EnterRestoring, CallInv
      <4>5. CASE (JobSucceeded \/ SkipValidation \/ Complete) /\ \E phase : Written(phase)
        BY <2>2, <3>3, <4>2, <4>5 DEF JobSucceeded, SkipValidation, Complete, LockInv,
           StepFitsPhase, ActivePhases
      <4>6. CASE \E phase \in {"Failed", "AcquiringLock"} : Written(phase)
        BY <2>3, <4>2, <4>6 DEF ActivePhases
      <4> QED
        BY <3>1, <3>3, <4>1, <4>3, <4>4, <4>5, <4>6 DEF RestoreWrites, Untouched
    <3> QED
      BY <2>3, <3>2, <3>3
  <2>4. ASSUME NEW r \in InPlace, restore'[r].life = "live", restore'[r].phase \in ActivePhases
        PROVE  lease' = r \/ (cur' = r /\ pc' \in Ending)
    <3>1. r \in Restore /\ r # NoRestore
      BY RestoreAssumption
    <3>2. restore[r].life = "live"
      BY <1>2, <2>4, <3>1, RestoresOfCall
    <3>3. CASE lease = r /\ lease' # lease
      <4>1. cur = r /\ (FinalizeRelease \/ JobFailed \/ ReleaseAfterScaleUp)
        BY <1>2, <3>1, <3>3, LeaseOfCall
      <4>2. ~FinalizeRelease
        BY <3>2, <4>1 DEF FinalizeRelease, LockInv, StepFitsPhase, CopyAgrees
      <4> QED
        BY <2>4, <4>1, <4>2 DEF JobFailed, ReleaseAfterScaleUp, Continue
    <3>4. CASE cur = r /\ pc \in Ending
      <4>1. CASE pc = "cleanupResume"
        BY <1>2, <3>4, <4>1, EndingOfCall DEF CleanupResume, Continue
      <4>2. CASE pc \in {"cleanupFail", "complete"}
        <5>1. Written("Failed") \/ Written("Completed")
          BY <1>2, <4>2, EndingOfCall, PhasesWritten
        <5> QED
          BY <2>4, <3>1, <3>2, <3>4, <5>1 DEF Written, Present, ActivePhases
      <4> QED
        BY <3>4, <4>1, <4>2
    <3> QED
      BY <2>3, <2>4, <3>3, <3>4 DEF ActiveInv, InPhase
  <2>5. ASSUME cur' \in InPlace, pc' \in Ending PROVE lease' \in {NoRestore, cur'}
    <3>1. ~Return /\ ~(\E r \in Restore : Begin(r))
      BY <2>5, BeginsWith, FirstStepFits DEF Return
    <3>2. UNCHANGED cur /\ GoesOn
      BY <1>2, <3>1, StepOfCall
    <3>3. JobFailed \/ CleanupResume \/ ReleaseAfterScaleUp
      BY <2>5, <3>2 DEF GoesOn
    <3>4. lease \in {NoRestore, cur} /\ pc # "acquireLock"
      BY <2>5, <3>2, <3>3 DEF ActiveInv, JobFailed, CleanupResume, ReleaseAfterScaleUp
    <3> QED
      BY <1>2, <3>2, <3>4, LeaseOfCall DEF CreateLease
  <2>6. ASSUME cur' \in InPlace, pc' \in Holding PROVE lease' = cur'
    <3>1. CASE \E r \in Restore : Begin(r)
      <4>1. PICK r \in Restore : Begin(r)
        BY <3>1
      <4>2. /\ cur' = r /\ pc = "idle" /\ UNCHANGED lease
            /\ pc' = FirstStep(restore[r], SeenReplica) /\ restore[r].life \in Present
        BY <4>1, BeginsWith DEF stored
      <4>3. restore[r].life = "live" /\ restore[r].phase \in {"Restoring", "Resuming"}
        BY <2>6, <4>2, FirstStepFits
      <4> QED
        BY <2>6, <4>2, <4>3 DEF ActiveInv, InPhase, ActivePhases
    <3>2. CASE GoesOn /\ UNCHANGED cur
      <4>1. ResumeReplication \/ ScaleUp \/ (WorkloadReadFails /\ pc = "scaleUp")
        BY <2>6, <3>2 DEF GoesOn
      <4>2. lease' = lease /\ pc \in Holding
        BY <4>1 DEF ResumeReplication, ScaleUp, WorkloadReadFails, stored
      <4> QED
        BY <2>6, <3>2, <4>2 DEF ActiveInv
    <3> QED
      BY <1>2, <2>6, <3>1, <3>2, StepOfCall DEF Return
  <2> QED
    BY <2>4, <2>5, <2>6 DEF ActiveInv, InPhase
<1> QED
  BY <1>1, <1>2, EveryMove

\* The inductive invariant of OneActiveRestore: with no call cut short, a restore
\* from Fencing to Resuming holds the Lease until the last steps of the call that
\* ends it (failRestoreWithCleanup, reconcileResuming).
THEOREM ActiveInvariant ==
  ASSUME "restore" \notin Lagging, "abort" \notin Faults
  PROVE  Spec => []ActiveInv
<1>1. Init => ActiveInv
  <2> SUFFICES ASSUME Init PROVE ActiveInv
    OBVIOUS
  <2>1. pc = "idle" /\ \A r \in Restore : restore[r].life = "unborn"
    BY DEF Init, ClusterInit, ControllerInit, NewRestore
  <2> QED
    BY <2>1, RestoreAssumption DEF ActiveInv, InPhase
<1>2. TypeOK /\ LockInv /\ JobInv /\ CallInv /\ ActiveInv /\ [Next]_system => ActiveInv'
  BY ActiveInvNext DEF TypeOK
<1> QED
  BY <1>1, <1>2, TypeCorrect, LockInvariant, JobInvariant, CallInvariant, PTL DEF Spec

\* "One active InPlace restore per source", as long as no call is cut short; the
\* run crash_resuming shows what a crash does to it.
THEOREM OneRestoreIsActive ==
  ASSUME "restore" \notin Lagging, "abort" \notin Faults
  PROVE  Spec => []OneActiveRestore
<1>1. ActiveInv => OneActiveRestore
  BY RestoreAssumption DEF ActiveInv, OneActiveRestore, InPhase
<1> QED
  BY <1>1, ActiveInvariant, PTL

-----------------------------------------------------------------------------
(***************************************************************************)
(* The application while the Job runs.                                     *)
(***************************************************************************)

LEMMA FencedWhileRestoringNext ==
  ASSUME RestoreTypeOK, LockInv, CallInv, ActiveInv, JobHoldsLock, FencedAtStart,
         FencedWhileRestoring, [Next]_system, "scaleWorkload" \notin UserActions
  PROVE  FencedWhileRestoring'
<1> SUFFICES ASSUME NEW r \in InPlace, job'[r] = "running", restore'[r].life = "live"
             PROVE  AtZero'
  BY DEF FencedWhileRestoring
<1>1. r \in Restore /\ r # NoRestore
  BY RestoreAssumption
<1>2. CASE OutsideStep
  <2>1. RestoreMoves /\ JobMoves /\ WorkloadMoves
    BY <1>2, OutsideMoves
  <2>2. job[r] = "running"
    BY <1>1, <2>1 DEF JobMoves
  <2>3. restore[r].life = "live"
    BY <1>1, <2>1, <2>2 DEF RestoreMoves, CallInv
  <2> QED
    BY <2>1, <2>2, <2>3 DEF FencedWhileRestoring, WorkloadMoves
<1>3. CASE CallMoves
  <2>1. restore[r].life = "live"
    BY <1>1, <1>3, RestoresOfCall
  <2>2. CASE job[r] # "running"
    <3>1. CreateJob /\ r = cur
      BY <1>1, <1>3, <2>2, JobOfCall
    <3> QED
      BY <3>1 DEF CreateJob, FencedAtStart, AtZero, Pods
  <2>3. CASE job[r] = "running"
    <3>1. AtZero /\ lease = r
      BY <2>1, <2>3 DEF FencedWhileRestoring, JobHoldsLock
    <3>2. ~ScaleUp
      <4> SUFFICES ASSUME pc = "scaleUp" PROVE FALSE
        BY DEF ScaleUp
      <4>1. cur \in InPlace /\ job[cur] = "complete"
        BY DEF CallInv, LockInv, CopyAgrees, StepFitsPhase, RestoreTypeOK, ControllerTypeOK
      <4> QED
        BY <2>3, <3>1, <4>1 DEF ActiveInv
    <3>3. ScaleDown => workload' \in {workload, [workload EXCEPT !.replicas = 0]}
      BY DEF ScaleDown
    <3>4. workload \in WorkloadObject
      BY DEF RestoreTypeOK, ClusterTypeOK
    <3> QED
      BY <1>3, <3>1, <3>2, <3>3, <3>4, OthersOfCall DEF AtZero, Pods, WorkloadObject
  <2> QED
    BY <2>2, <2>3
<1> QED
  BY <1>2, <1>3, EveryMove

\* The workload of a restore is to have no pods, and has none, from the creation
\* of its Job to the end of the Job: with no call cut short, only the call of a
\* restore whose Job has succeeded scales the workload up (reconcileResuming).
THEOREM FencedWhileJobRuns ==
  ASSUME {"restore", "job", "workload"} \cap Lagging = {}, "abort" \notin Faults,
         Kind = "StatefulSet", "scaleWorkload" \notin UserActions
  PROVE  Spec => []FencedWhileRestoring
<1>1. Init => FencedAtStart /\ FencedWhileRestoring
  BY RestoreAssumption DEF Init, ClusterInit, ControllerInit, FencedAtStart, FencedWhileRestoring
<1>2. TypeOK /\ LockInv /\ JobInv /\ FencedAtStart /\ [Next]_system => FencedAtStart'
  BY FencedAtStartNext DEF TypeOK
<1>3. TypeOK /\ LockInv /\ CallInv /\ ActiveInv /\ JobHoldsLock /\ FencedAtStart
      /\ FencedWhileRestoring /\ [Next]_system => FencedWhileRestoring'
  BY FencedWhileRestoringNext DEF TypeOK
<1>4. "restore" \notin Lagging /\ "job" \notin Lagging
  OBVIOUS
<1> QED
  BY <1>1, <1>2, <1>3, <1>4, TypeCorrect, LockInvariant, JobInvariant, CallInvariant,
     ActiveInvariant, JobIsLocked, PTL DEF Spec

\* While the Job of a restore writes the database no pod of the StatefulSet runs,
\* unless the restore has been deleted (reconcileFencing, reconcileRestoring).
THEOREM NoPodsWhileJobRuns ==
  ASSUME {"restore", "job", "workload"} \cap Lagging = {}, "abort" \notin Faults,
         Kind = "StatefulSet", "scaleWorkload" \notin UserActions
  PROVE  Spec => []NoPodsWhileRestoring
<1>1. FencedWhileRestoring => NoPodsWhileRestoring
  BY DEF FencedWhileRestoring, NoPodsWhileRestoring, AtZero
<1> QED
  BY <1>1, FencedWhileJobRuns, PTL

-----------------------------------------------------------------------------
(***************************************************************************)
(* The pause annotation.                                                   *)
(***************************************************************************)

\* The LitestreamReplica stays what it is, unless the user says otherwise.
SourceStays ==
  /\ "deleteReplica" \notin UserActions => replica.exists /\ cache.replica.exists
  /\ {"deleteReplica", "disableBackup"} \cap UserActions = {}
       => replica.backup /\ cache.replica.backup

\* Only the pause annotation of it is written by a call.
LEMMA ReplicaOfCall ==
  ASSUME RestoreTypeOK, CallMoves
  PROVE  /\ replica'.exists = replica.exists /\ replica'.backup = replica.backup
         /\ UNCHANGED <<cache, config>>
<1>1. replica \in ReplicaObject
  BY DEF RestoreTypeOK, ClusterTypeOK
<1>2. /\ ReplicationPaused.exists = replica.exists /\ ReplicationPaused.backup = replica.backup
      /\ ReplicationResumed.exists = replica.exists
      /\ ReplicationResumed.backup = replica.backup
  BY <1>1 DEF ReplicationPaused, ReplicationResumed, ReplicaObject
<1>3. replica' \in {replica, ReplicationPaused, ReplicationResumed}
  BY OthersOfCall DEF FinalizeResume, CleanupResume, ResumeReplication, PauseReplication,
     PauseAgain, ResumeReplicationBestEffort
<1>4. UNCHANGED <<cache, config>>
  <2>1. CASE AddFinalizer \/ FailRestore \/ Finalization \/ Pending \/ Locking
    BY <2>1 DEF AddFinalizer, FailRestore, Finalization, FinalizeRelease, FinalizeResume,
       RemoveFinalizer, Pending, ResolveTarget, EnterAcquiringLock, Locking, CreateLease,
       LeaseIsOurs, LeaseIsHeld, PauseReplication, EnterFencing, stored
  <2>2. CASE Fencing \/ Restoring
    BY <2>2 DEF Fencing, PauseAgain, AwaitPausedConfig, ScaleDown, CreateJob, EnterRestoring,
       Restoring, JobStillRuns, JobSucceeded, JobFailed, CleanupResume, CleanupFail,
       SkipValidation, stored
  <2>3. CASE Resuming \/ Abort \/ WorkloadReadFails \/ \E r \in Restore : Begin(r)
    BY <2>3 DEF Resuming, ResumeReplication, ScaleUp, ReleaseAfterScaleUp, Complete, Abort,
       WorkloadReadFails, Begin, stored
  <2> QED
    BY <2>1, <2>2, <2>3 DEF CallMoves, CallStep
<1> QED
  BY <1>2, <1>3, <1>4

LEMMA CacheMoves ==
  ASSUME RestoreTypeOK, OutsideStep
  PROVE  cache'.replica \in {cache.replica, replica}
<1>1. cache \in CacheObject
  BY DEF RestoreTypeOK, ClusterTypeOK
<1>2. UNCHANGED cache \/ \E kind \in CacheKinds : SyncCache(kind)
  BY DEF OutsideStep, EnvironmentStep, KubernetesStep, UserStep, StartPod, DeletePod, PodExits,
     JobEnds, CollectJob, CollectLease, CollectConfig, UserCreatesRestore, UserDeletesRestore,
     UserDeletesReplica, UserDisablesBackup, UserDeletesWorkload, UserScalesWorkload,
     UpgradeInValidating, ReplicaStep, ReadReplica, ReconcileLitestreamConfig, RenderingStops,
     system, vars
<1> QED
  BY <1>1, <1>2 DEF SyncCache, CacheKinds, CacheObject

LEMMA SourceInvariant == Spec => []SourceStays
<1>1. Init => SourceStays
  BY DEF Init, ClusterInit, SourceStays
<1>2. TypeOK /\ SourceStays /\ [Next]_system => SourceStays'
  <2> SUFFICES ASSUME RestoreTypeOK, SourceStays, [Next]_system PROVE SourceStays'
    BY DEF TypeOK
  <2>1. CASE OutsideStep
    <3>1. ReplicaMoves /\ cache'.replica \in {cache.replica, replica}
      BY <2>1, OutsideMoves, CacheMoves
    <3>2. replica \in ReplicaObject
      BY DEF RestoreTypeOK, ClusterTypeOK
    <3> QED
      BY <3>1, <3>2 DEF SourceStays, ReplicaMoves, ReplicaObject
  <2>2. CASE CallMoves
    BY <2>2, ReplicaOfCall DEF SourceStays
  <2> QED
    BY <2>1, <2>2, EveryMove
<1> QED
  BY <1>1, <1>2, TypeCorrect, PTL DEF Spec

\* Nobody but the operator touches the pause annotation.
LEMMA PauseStays ==
  ASSUME RestoreTypeOK, OutsideStep, "deleteReplica" \notin UserActions
  PROVE  replica'.pause = replica.pause
BY OutsideMoves DEF ReplicaMoves, RestoreTypeOK, ClusterTypeOK, ReplicaObject

LEMMA PauseInvNext ==
  ASSUME RestoreTypeOK, LockInv, JobInv, CallInv, ActiveInv, JobHoldsLock, SourceStays,
         PauseInv, [Next]_system,
         {"restore", "job", "replica"} \cap Lagging = {}, "deleteReplica" \notin UserActions
  PROVE  PauseInv'
<1>1. "restore" \notin Lagging /\ SeenReplica = replica /\ SeenJob = job /\ replica.exists
  BY DEF SeenReplica, SeenJob, Seen, SourceStays
<1>2. CASE OutsideStep
  <2>1. UNCHANGED call /\ RestoreMoves /\ JobMoves /\ replica'.pause = replica.pause
    BY <1>2, OutsideMoves, PauseStays
  <2>2. pc = "cleanupResume" /\ restore'[cur].life = "live" => job'[cur] # "running"
    BY <2>1 DEF PauseInv, CallInv, RestoreMoves, JobMoves, Present, RestoreTypeOK,
       ControllerTypeOK
  <2>3. ASSUME NEW r \in InPlace, job'[r] = "running",
               \A s \in InPlace : restore'[s].life \in {"unborn", "live"}
        PROVE  replica'.pause
    <3>1. \A s \in InPlace : restore[s].life \in {"unborn", "live"}
      BY <2>1, <2>3, RestoreAssumption DEF RestoreMoves
    <3>2. job[r] = "running"
      BY <2>1, <2>3, RestoreAssumption DEF JobMoves
    <3> QED
      BY <2>1, <3>1, <3>2 DEF PauseInv, PausedUnlessDeleted, PausedWhileRestoring
  <2> QED
    BY <2>1, <2>2, <2>3 DEF PauseInv, PausedUnlessDeleted, PausedWhileRestoring, call
<1>3. CASE CallMoves
  <2>1. ASSUME pc' = "fence", source'.pause PROVE replica'.pause
    <3>1. ~Return /\ ~GoesOn
      BY <2>1 DEF Return, GoesOn
    <3> QED
      BY <1>1, <1>3, <2>1, <3>1, StepOfCall, BeginsWith DEF stored
  <2>2. ASSUME pc' = "createJob", cur' \in InPlace PROVE replica'.pause
    <3>1. ~Return /\ ~(\E r \in Restore : Begin(r))
      BY <1>1, <2>2, BeginsWith, FirstStepFits DEF Return
    <3>2. UNCHANGED cur /\ ScaleDown
      BY <1>3, <2>2, <3>1, StepOfCall DEF GoesOn
    <3> QED
      BY <3>2 DEF ScaleDown, PauseInv
  <2>3. ASSUME pc' = "cleanupResume", restore'[cur'].life = "live" PROVE job'[cur'] # "running"
    <3>1. ~Return /\ ~(\E r \in Restore : Begin(r))
      BY <1>1, <2>3, BeginsWith, FirstStepFits DEF Return
    <3>2. UNCHANGED cur /\ JobFailed
      BY <1>3, <2>3, <3>1, StepOfCall DEF GoesOn
    <3>3. pc = "restoring" /\ my.phase = "Restoring" /\ JobSeen # "running"
          /\ UNCHANGED <<restore, job>>
      BY <3>2 DEF JobFailed, LockInv, StepFitsPhase
    <3>4. my.jobName
      BY <2>3, <3>2, <3>3 DEF JobInv
    <3> QED
      BY <1>1, <3>2, <3>3, <3>4 DEF JobSeen
  <2>4. ASSUME NEW r \in InPlace, job'[r] = "running",
               \A s \in InPlace : restore'[s].life \in {"unborn", "live"}
        PROVE  replica'.pause
    <3>1. \A s \in InPlace : s \in Restore /\ restore[s].life \in {"unborn", "live"}
      BY <1>3, <2>4, RestoresOfCall, RestoreAssumption
    <3>2. CASE job[r] # "running"
      <4>1. CreateJob /\ r = cur
        BY <1>3, <2>4, <3>1, <3>2, JobOfCall
      <4> QED
        BY <4>1 DEF CreateJob, PauseInv
    <3>3. CASE job[r] = "running"
      <4>1. replica.pause /\ lease = r /\ r # NoRestore
        BY <3>1, <3>3, RestoreAssumption
        DEF PauseInv, PausedUnlessDeleted, PausedWhileRestoring, CallInv, JobHoldsLock
      <4>2. ~FinalizeResume
        BY <3>1 DEF FinalizeResume, CallInv, LockInv, StepFitsPhase, CopyAgrees
      <4>3. ~CleanupResume
        <5> SUFFICES ASSUME pc = "cleanupResume" PROVE FALSE
          BY DEF CleanupResume
        <5>1. cur \in InPlace /\ restore[cur].life = "live" /\ job[cur] # "running"
          BY <3>1 DEF CallInv, Present, PauseInv
        <5> QED
          BY <3>3, <4>1, <5>1 DEF ActiveInv
      <4>4. ~ResumeReplication
        <5> SUFFICES ASSUME pc = "resume" PROVE FALSE
          BY DEF ResumeReplication
        <5>1. cur \in InPlace /\ job[cur] = "complete"
          BY DEF CallInv, LockInv, CopyAgrees, StepFitsPhase, RestoreTypeOK, ControllerTypeOK
        <5> QED
          BY <3>3, <4>1, <5>1 DEF ActiveInv
      <4>5. ReplicationPaused.pause
        BY <1>1, <4>1 DEF ReplicationPaused, RestoreTypeOK, ClusterTypeOK, ReplicaObject
      <4> QED
        BY <1>3, <4>1, <4>2, <4>3, <4>4, <4>5, OthersOfCall DEF PauseReplication, PauseAgain
    <3> QED
      BY <3>2, <3>3
  <2> QED
    BY <2>1, <2>2, <2>3, <2>4 DEF PauseInv, PausedUnlessDeleted, PausedWhileRestoring
<1> QED
  BY <1>2, <1>3, EveryMove

\* The inductive invariant of PausedUnlessDeleted: the call of a restore in place
\* gets to its Job only under the pause annotation, and takes the annotation away
\* after a failure only when its Job has ended (reconcileFencing,
\* failRestoreWithCleanup).
THEOREM PauseInvariant ==
  ASSUME {"restore", "job", "replica"} \cap Lagging = {}, "abort" \notin Faults,
         "deleteReplica" \notin UserActions
  PROVE  Spec => []PauseInv
<1>1. Init => PauseInv
  BY RestoreAssumption DEF Init, ClusterInit, ControllerInit, PauseInv, PausedUnlessDeleted,
     PausedWhileRestoring
<1>2. TypeOK /\ LockInv /\ JobInv /\ CallInv /\ ActiveInv /\ JobHoldsLock /\ SourceStays
      /\ PauseInv /\ [Next]_system => PauseInv'
  BY PauseInvNext DEF TypeOK
<1>3. "restore" \notin Lagging /\ "job" \notin Lagging
  OBVIOUS
<1> QED
  BY <1>1, <1>2, <1>3, TypeCorrect, LockInvariant, JobInvariant, CallInvariant,
     ActiveInvariant, JobIsLocked, SourceInvariant, PTL DEF Spec

\* Replication stays paused while a Job writes the database, as long as nobody
\* deletes a restore: whoever removes the annotation has to hold the Lease, and
\* its Job has ended (reconcileResuming, failRestoreWithCleanup).
THEOREM ReplicationStaysPaused ==
  ASSUME {"restore", "job", "replica"} \cap Lagging = {}, "abort" \notin Faults,
         "deleteReplica" \notin UserActions
  PROVE  Spec => []PausedUnlessDeleted
<1>1. PauseInv => PausedUnlessDeleted
  BY DEF PauseInv
<1> QED
  BY <1>1, PauseInvariant, PTL

-----------------------------------------------------------------------------
(***************************************************************************)
(* Nothing is left behind.                                                 *)
(***************************************************************************)

LEMMA HolderInvNext ==
  ASSUME RestoreTypeOK, LockInv, CallInv, JobInv, SourceStays, HolderInv, [Next]_system,
         {"restore", "lease"} \cap Lagging = {}, {"ignored", "read"} \cap Faults = {},
         {"deleteReplica", "disableBackup"} \cap UserActions = {}
  PROVE  HolderInv'
<1>1. /\ "restore" \notin Lagging /\ SeenLease = lease
      /\ SeenReplica.exists /\ SeenReplica.backup
      /\ ~WorkloadReadFails
  BY DEF SeenLease, SeenReplica, Seen, SourceStays, WorkloadReadFails, Fault
<1>2. CASE OutsideStep
  <2>1. UNCHANGED call /\ RestoreMoves /\ LeaseMoves
    BY <1>2, OutsideMoves
  <2>2. ASSUME lease' # NoRestore
        PROVE  lease' \in InPlace /\ restore'[lease'].phase \in HolderPhases
    BY <2>1, <2>2, RestoreAssumption DEF HolderInv, LeaseMoves, RestoreMoves, HolderPhases,
       ActivePhases
  <2>3. pc \in {"cleanupResume", "cleanupFail", "complete"} => lease' # cur
    BY <2>1, RestoreAssumption DEF HolderInv, LeaseMoves, RestoreTypeOK, ControllerTypeOK
  <2> QED
    BY <2>1, <2>2, <2>3 DEF HolderInv, call
<1>3. CASE CallMoves
  <2>1. pc # "idle" => cur \in Restore /\ cur # NoRestore /\ my.phase = restore[cur].phase
    BY RestoreAssumption DEF RestoreTypeOK, ControllerTypeOK, LockInv, CopyAgrees
  <2>2. ASSUME lease' # NoRestore
        PROVE  lease' \in InPlace /\ restore'[lease'].phase \in HolderPhases
    <3>1. CASE lease' # lease
      <4>1. lease' = cur /\ CreateLease
        BY <1>3, <2>2, <3>1, LeaseOfCall
      <4> QED
        BY <2>1, <4>1 DEF CreateLease, LockInv, StepFitsPhase, CallInv, HolderPhases
    <3>2. CASE lease' = lease
      <4>1. lease \in InPlace /\ restore[lease].phase \in HolderPhases /\ lease \in Restore
        BY <2>2, <3>2, RestoreAssumption DEF HolderInv
      <4>2. RestoreWrites
        BY <1>3, RestoresOfCall
      <4>3. CASE (FailRestore \/ CleanupFail \/ Complete)
                 /\ (Written("Failed") \/ Written("Completed"))
        <5>1. lease # cur
          BY <2>1, <4>1, <4>3 DEF FailRestore, CleanupFail, Complete, HolderInv, HolderPhases,
             ActivePhases
        <5> QED
          BY <3>2, <4>1, <4>3, <5>1 DEF Written
      <4>4. CASE Written(IF cur \in InPlace THEN "Resuming" ELSE "Completed")
        BY <3>2, <4>1, <4>4 DEF Written, HolderPhases, ActivePhases
      <4>5. CASE Untouched \/ \A r \in Restore : restore'[r].phase = restore[r].phase
        BY <3>2, <4>1, <4>5 DEF Untouched
      <4>6. CASE Written("AcquiringLock") \/ Written("Fencing") \/ Written("Restoring")
        BY <3>2, <4>1, <4>6 DEF Written, HolderPhases, ActivePhases
      <4> QED
        BY <4>2, <4>3, <4>4, <4>5, <4>6 DEF RestoreWrites
    <3> QED
      BY <3>1, <3>2
  <2>3. ASSUME pc' \in {"cleanupResume", "cleanupFail", "complete"} PROVE lease' # cur'
    <3>1. ~Return /\ ~(\E r \in Restore : Begin(r))
      BY <1>1, <2>3, BeginsWith, FirstStepFits DEF Return
    <3>2. UNCHANGED cur /\ (JobFailed \/ CleanupResume \/ ReleaseAfterScaleUp)
      BY <1>3, <2>3, <3>1, StepOfCall DEF GoesOn
    <3>3. pc # "idle"
      BY <3>2 DEF JobFailed, CleanupResume, ReleaseAfterScaleUp
    <3>4. CASE ReleaseRestoreLock
      BY <1>1, <2>1, <3>2, <3>3, <3>4 DEF ReleaseRestoreLock, Fault
    <3>5. CASE JobFailed /\ cur \notin InPlace
      BY <2>1, <3>2, <3>3, <3>5 DEF JobFailed, HolderInv
    <3>6. CASE CleanupResume
      BY <3>2, <3>6 DEF CleanupResume, HolderInv
    <3> QED
      BY <3>2, <3>4, <3>5, <3>6 DEF JobFailed, ReleaseAfterScaleUp
  <2>4. ASSUME pc' = "fail" PROVE my'.phase \in {"", "Pending"}
    <3>1. ~Return
      BY <2>4 DEF Return
    <3>2. ~(\E r \in Restore : Begin(r))
      BY <1>1, <2>4, BeginsWith, FirstStepFits
    <3>3. ResolveTarget /\ my'.phase = my.phase
      BY <1>1, <1>3, <2>4, <3>1, <3>2, StepOfCall DEF GoesOn
    <3> QED
      BY <3>3 DEF ResolveTarget, LockInv, StepFitsPhase
  <2> QED
    BY <2>2, <2>3, <2>4 DEF HolderInv
<1> QED
  BY <1>2, <1>3, EveryMove

\* The inductive invariant of LockHolderIsActive: whoever ends a restore in place
\* has released its Lease before, as long as no best-effort write or read of the
\* workload fails and the source stays (failRestoreWithCleanup, reconcileResuming,
\* releaseRestoreLock).
THEOREM HolderInvariant ==
  ASSUME {"restore", "lease"} \cap Lagging = {}, {"ignored", "read"} \cap Faults = {},
         {"deleteReplica", "disableBackup"} \cap UserActions = {}
  PROVE  Spec => []HolderInv
<1>1. Init => HolderInv
  BY DEF Init, ClusterInit, ControllerInit, HolderInv
<1>2. TypeOK /\ LockInv /\ CallInv /\ JobInv /\ SourceStays /\ HolderInv /\ [Next]_system
        => HolderInv'
  BY HolderInvNext DEF TypeOK
<1>3. "restore" \notin Lagging
  OBVIOUS
<1> QED
  BY <1>1, <1>2, <1>3, TypeCorrect, LockInvariant, JobInvariant, CallInvariant,
     SourceInvariant, PTL DEF Spec

\* A restore that has ended, or has not begun, does not hold the Lease, so no
\* restore waits for it, wherever calls are cut short: the next call of the
\* restore that was under way goes on from the phase it had.
THEOREM HolderIsActive ==
  ASSUME {"restore", "lease"} \cap Lagging = {}, {"ignored", "read"} \cap Faults = {},
         {"deleteReplica", "disableBackup"} \cap UserActions = {}
  PROVE  Spec => []LockHolderIsActive
<1>1. HolderInv => LockHolderIsActive
  BY RestoreAssumption DEF HolderInv, LockHolderIsActive, InPhase, HolderPhases, ActivePhases,
     Terminal
<1> QED
  BY <1>1, HolderInvariant, PTL

LEMMA ResumedInvNext ==
  ASSUME RestoreTypeOK, LockInv, CallInv, JobInv, SourceStays, HolderInv, ResumedInv,
         [Next]_system, {"restore", "replica"} \cap Lagging = {},
         {"ignored", "read"} \cap Faults = {},
         {"deleteReplica", "disableBackup"} \cap UserActions = {}
  PROVE  ResumedInv'
<1>1. /\ "restore" \notin Lagging /\ SeenReplica = replica
      /\ replica.exists /\ replica.backup /\ replica \in ReplicaObject
      /\ ~WorkloadReadFails
  BY DEF SeenReplica, Seen, SourceStays, WorkloadReadFails, Fault, RestoreTypeOK, ClusterTypeOK
<1>2. CASE OutsideStep
  <2>1. UNCHANGED call /\ RestoreMoves /\ replica'.pause = replica.pause
    BY <1>2, OutsideMoves, PauseStays
  <2>2. ASSUME replica'.pause PROVE \E r \in InPlace : restore'[r].phase \in HolderPhases
    BY <2>1, <2>2, RestoreAssumption DEF ResumedInv, RestoreMoves, HolderPhases, ActivePhases
  <2> QED
    BY <2>1, <2>2 DEF ResumedInv, call
<1>3. CASE CallMoves
  <2>1. pc # "idle" => cur \in Restore /\ my.phase = restore[cur].phase
    BY DEF RestoreTypeOK, ControllerTypeOK, LockInv, CopyAgrees
  <2>2. ~ResumeFails
    BY <1>1 DEF ResumeFails
  <2>3. ReplicationResumed.pause => pc \notin {"resume", "cleanupResume"}
    BY <1>1 DEF ReplicationResumed, ReplicaObject, ResumedInv
  <2>4. CleanupResume \/ FinalizeResume => replica' = ReplicationResumed
    BY <2>2, <1>1 DEF CleanupResume, FinalizeResume, ResumeReplicationBestEffort, Fault
  <2>5. ReplicationResumed.pause => replica.pause
    BY <1>1 DEF ReplicationResumed, ReplicaObject
  <2>6. replica'.pause => replica.pause \/ PauseReplication \/ PauseAgain
    BY <1>3, <2>2, <2>4, <2>5, OthersOfCall DEF ResumeReplication
  <2>7. ASSUME replica'.pause, PauseReplication \/ PauseAgain
        PROVE  \E r \in InPlace : restore'[r].phase \in HolderPhases
    <3>1. cur \in Restore /\ restore[cur].phase \in {"AcquiringLock", "Fencing"}
          /\ UNCHANGED restore
      BY <2>1, <2>7 DEF PauseReplication, PauseAgain, LockInv, StepFitsPhase, JobInv
    <3> QED
      BY <3>1 DEF CallInv, HolderPhases, ActivePhases
  <2>8. ASSUME replica'.pause, replica.pause
        PROVE  \E r \in InPlace : restore'[r].phase \in HolderPhases
    <3>1. PICK r \in InPlace : restore[r].phase \in HolderPhases
      BY <2>8 DEF ResumedInv
    <3>2. r \in Restore
      BY RestoreAssumption
    <3>3. RestoreWrites
      BY <1>3, RestoresOfCall
    <3>4. CASE (FailRestore \/ CleanupFail \/ Complete)
               /\ (Written("Failed") \/ Written("Completed"))
      <4>1. r # cur
        BY <2>1, <2>8, <3>1, <3>4 DEF FailRestore, CleanupFail, Complete, ResumedInv, HolderInv,
           HolderPhases, ActivePhases
      <4> QED
        BY <3>1, <3>2, <3>4, <4>1 DEF Written
    <3>5. CASE Written(IF cur \in InPlace THEN "Resuming" ELSE "Completed")
      BY <3>1, <3>2, <3>5 DEF Written, HolderPhases, ActivePhases
    <3>6. CASE Untouched \/ \A s \in Restore : restore'[s].phase = restore[s].phase
      BY <3>1, <3>2, <3>6 DEF Untouched
    <3>7. CASE Written("AcquiringLock") \/ Written("Fencing") \/ Written("Restoring")
      BY <3>1, <3>2, <3>7 DEF Written, HolderPhases, ActivePhases
    <3> QED
      BY <3>3, <3>4, <3>5, <3>6, <3>7 DEF RestoreWrites
  <2>9. ASSUME pc' \notin {"idle", "fencingPhase"}, replica'.pause PROVE source'.pause
    <3>1. CASE \E r \in Restore : Begin(r)
      BY <1>1, <2>9, <3>1, BeginsWith DEF stored
    <3>2. CASE UNCHANGED source /\ GoesOn /\ pc # "idle"
      <4>1. pc # "fencingPhase"
        BY <1>1, <3>2 DEF GoesOn, FinalizeRelease, FinalizeResume, ResolveTarget, CreateLease,
           LeaseIsOurs, PauseReplication, ScaleDown, CreateJob, JobFailed, CleanupResume,
           ResumeReplication, ScaleUp, ReleaseAfterScaleUp
      <4>2. ~PauseReplication /\ ~PauseAgain
        BY <2>9 DEF PauseReplication, PauseAgain, Continue, Return
      <4> QED
        BY <2>6, <2>9, <3>2, <4>1, <4>2 DEF ResumedInv
    <3> QED
      BY <1>3, <2>9, <3>1, <3>2, StepOfCall DEF Return
  <2>10. ASSUME pc' \in {"scaleUp", "release", "complete"} PROVE ~replica'.pause
    <3>1. ~Return /\ ~(\E r \in Restore : Begin(r))
      BY <1>1, <2>10, BeginsWith, FirstStepFits DEF Return
    <3>2. ResumeReplication \/ ScaleUp \/ ReleaseAfterScaleUp
      BY <1>1, <1>3, <2>10, <3>1, StepOfCall DEF GoesOn
    <3> QED
      BY <2>2, <2>3, <3>2 DEF ResumeReplication, ScaleUp, ReleaseAfterScaleUp, ResumedInv
  <2>11. ASSUME pc' = "cleanupFail", cur' \in InPlace PROVE ~replica'.pause
    <3>1. ~Return /\ ~(\E r \in Restore : Begin(r))
      BY <1>1, <2>11, BeginsWith, FirstStepFits DEF Return
    <3>2. CleanupResume
      BY <1>1, <1>3, <2>11, <3>1, StepOfCall DEF GoesOn
    <3> QED
      BY <2>3, <2>4, <3>2 DEF CleanupResume
  <2> QED
    BY <2>6, <2>7, <2>8, <2>9, <2>10, <2>11 DEF ResumedInv
<1> QED
  BY <1>2, <1>3, EveryMove

\* The inductive invariant of NothingLeftBehind: a call knows of the pause
\* annotation if it is there, and has taken it away when it ends its restore
\* (resumeReplication, which looks at the copy of the call).
THEOREM ResumedInvariant ==
  ASSUME {"restore", "lease", "replica"} \cap Lagging = {}, {"ignored", "read"} \cap Faults = {},
         {"deleteReplica", "disableBackup"} \cap UserActions = {}
  PROVE  Spec => []ResumedInv
<1>1. Init => ResumedInv
  BY DEF Init, ClusterInit, ControllerInit, ResumedInv
<1>2. TypeOK /\ LockInv /\ CallInv /\ JobInv /\ SourceStays /\ HolderInv /\ ResumedInv
      /\ [Next]_system => ResumedInv'
  BY ResumedInvNext DEF TypeOK
<1>3. "restore" \notin Lagging /\ {"restore", "lease"} \cap Lagging = {}
  OBVIOUS
<1> QED
  BY <1>1, <1>2, <1>3, TypeCorrect, LockInvariant, JobInvariant, CallInvariant,
     SourceInvariant, HolderInvariant, PTL DEF Spec

\* Once every restore in place has ended the Lease is free and replication goes
\* on, even if calls are cut short (failRestoreWithCleanup, reconcileResuming).
THEOREM NothingIsLeftBehind ==
  ASSUME {"restore", "lease", "replica"} \cap Lagging = {}, {"ignored", "read"} \cap Faults = {},
         {"deleteReplica", "disableBackup"} \cap UserActions = {}
  PROVE  Spec => []NothingLeftBehind
<1>1. HolderInv /\ ResumedInv => NothingLeftBehind
  BY DEF HolderInv, ResumedInv, NothingLeftBehind, HolderPhases, ActivePhases, Terminal
<1>2. {"restore", "lease"} \cap Lagging = {}
  OBVIOUS
<1> QED
  BY <1>1, <1>2, HolderInvariant, ResumedInvariant, PTL

-----------------------------------------------------------------------------
(***************************************************************************)
(* The first Job starts under the paused litestream.yml.                   *)
(***************************************************************************)

\* A restore that is early has been so before.
LEMMA EarlyBefore ==
  ASSUME RestoreTypeOK, LockInv, CallInv, [Next]_system, "restore" \notin Lagging,
         NEW r \in InPlace, Early(r)'
  PROVE  Early(r)
<1> DEFINE First == EarlyPhases \cup {"Fencing"}
           Kept == {"unborn", "live"}
<1>1. r \in Restore
  BY RestoreAssumption
<1>2. /\ restore'[r].phase \in First
      /\ restore'[r].life \in Kept \/ (cur' = r /\ pc' \in {"fence", "createJob"})
  BY DEF Early
<1>3. CASE OutsideStep
  <2>1. RestoreMoves /\ UNCHANGED call
    BY <1>3, OutsideMoves
  <2> QED
    BY <1>1, <1>2, <2>1 DEF Early, EarlyPhases, RestoreMoves, call
<1>4. CASE CallMoves
  <2>1. restore[r].phase \in First
    <3>1. RestoreWrites /\ (pc # "idle" => my.phase = restore[cur].phase)
      BY <1>4, RestoresOfCall DEF LockInv, CopyAgrees
    <3>2. CASE (EnterAcquiringLock \/ LeaseIsHeld) /\ Written("AcquiringLock")
      BY <1>1, <1>2, <3>1, <3>2 DEF EnterAcquiringLock, LeaseIsHeld, LockInv, StepFitsPhase,
         Written, EarlyPhases
    <3>3. CASE EnterFencing /\ Written("Fencing")
      BY <1>1, <1>2, <3>1, <3>3 DEF EnterFencing, LockInv, StepFitsPhase, Written, EarlyPhases
    <3>4. CASE \/ Written("Failed") \/ Written("Restoring") \/ Written("Completed")
               \/ Written(IF cur \in InPlace THEN "Resuming" ELSE "Completed")
      BY <1>1, <1>2, <3>4 DEF Written, EarlyPhases
    <3>5. CASE Untouched \/ \A s \in Restore : restore'[s].phase = restore[s].phase
      BY <1>1, <1>2, <3>5 DEF Untouched
    <3> QED
      BY <3>1, <3>2, <3>3, <3>4, <3>5 DEF RestoreWrites
  <2>2. restore'[r].life \in Kept => restore[r].life \in Kept
    BY <1>1, <1>4, RestoresOfCall
  <2>3. ASSUME cur' = r, pc' \in {"fence", "createJob"}
        PROVE  restore[r].life \in Kept \/ (cur = r /\ pc \in {"fence", "createJob"})
    <3>1. CASE \E s \in Restore : Begin(s)
      BY <2>3, <3>1, BeginsWith, FirstStepFits
    <3>2. CASE UNCHANGED cur /\ GoesOn
      BY <2>3, <3>2 DEF GoesOn, ScaleDown
    <3> QED
      BY <1>4, <2>3, <3>1, <3>2, StepOfCall DEF Return
  <2> QED
    BY <1>2, <2>1, <2>2, <2>3 DEF Early
<1> QED
  BY <1>3, <1>4, EveryMove

\* What FirstInv says, once it is known that every restore in place is early.
UnpausedByNobody ==
  /\ SeenReplica.pause => replica.pause
  /\ "paused" \in {config, render} => SeenReplica.pause
  /\ SeenConfig = "paused" => config = "paused"
  /\ render # "full" /\ config # "none"
  /\ pc = "createJob" /\ cur \in InPlace => config = "paused"

LEMMA FirstOutside ==
  ASSUME TypeOK, SourceStays, UnpausedByNobody, OutsideStep, "deleteReplica" \notin UserActions
  PROVE  UnpausedByNobody'
<1> USE DEF TypeOK
<1>1. /\ UNCHANGED call /\ replica'.pause = replica.pause /\ replica.exists
      /\ replica \in ReplicaObject /\ cache \in CacheObject
      /\ config \in Configs /\ render \in {"idle", "paused", "full"}
  BY OutsideMoves, PauseStays DEF SourceStays, RestoreTypeOK, ClusterTypeOK
<1>2. CASE ReplicaStep
  <2>1. UNCHANGED <<replica, cache>>
    BY <1>2 DEF ReplicaStep, ReadReplica, ReconcileLitestreamConfig, RenderingStops, stored, vars
  <2>2. UNCHANGED SeenReplica /\ (SeenConfig' = SeenConfig \/ SeenConfig' = config')
    BY <2>1 DEF SeenReplica, SeenConfig, Seen
  <2>3. CASE ReadReplica
    <3>1. /\ UNCHANGED config /\ render' # config
          /\ render' = IF SeenReplica.pause THEN "paused" ELSE "full"
      BY <2>3 DEF ReadReplica, vars
    <3>2. config \in {"full", "paused"}
      BY <1>1 DEF UnpausedByNobody, Configs
    <3>3. SeenReplica.pause /\ render' = "paused"
      BY <3>1, <3>2 DEF UnpausedByNobody
    <3> QED
      BY <1>1, <2>1, <2>2, <3>1, <3>3 DEF UnpausedByNobody, call
  <2>4. CASE ReconcileLitestreamConfig
    <3>1. config' \in {config, "paused"} /\ render' = "idle" /\ render = "paused"
      BY <1>1, <2>4 DEF ReconcileLitestreamConfig, UnpausedByNobody
    <3> QED
      BY <1>1, <2>1, <2>2, <3>1 DEF UnpausedByNobody, call
  <2>5. CASE RenderingStops
    <3>1. UNCHANGED config /\ render' = "idle"
      BY <2>5 DEF RenderingStops, stored
    <3> QED
      BY <1>1, <2>1, <2>2, <3>1 DEF UnpausedByNobody, call
  <2> QED
    BY <1>2, <2>3, <2>4, <2>5 DEF ReplicaStep
<1>3. ASSUME NEW kind \in CacheKinds, SyncCache(kind), UNCHANGED render PROVE UnpausedByNobody'
  <2>1. /\ UNCHANGED <<replica, config>>
        /\ cache'.replica \in {cache.replica, replica} /\ cache'.config \in {cache.config, config}
    BY <1>1, <1>3 DEF SyncCache, stored, CacheKinds, CacheObject
  <2>2. SeenReplica' \in {SeenReplica, replica} /\ SeenConfig' \in {SeenConfig, config}
    BY <2>1 DEF SeenReplica, SeenConfig, Seen
  <2> QED
    BY <1>1, <1>3, <2>1, <2>2 DEF UnpausedByNobody, call
<1>4. ASSUME UNCHANGED <<cache, config, render>> PROVE UnpausedByNobody'
  <2>1. SeenReplica'.pause = SeenReplica.pause /\ UNCHANGED SeenConfig
    BY <1>1, <1>4 DEF SeenReplica, SeenConfig, Seen
  <2> QED
    BY <1>1, <1>4, <2>1 DEF UnpausedByNobody, call
<1>5. \/ ReplicaStep
      \/ \E kind \in CacheKinds : SyncCache(kind) /\ UNCHANGED render
      \/ UNCHANGED <<cache, config, render>>
  BY <1>1 DEF OutsideStep, EnvironmentStep, KubernetesStep, UserStep, StartPod, DeletePod,
     PodExits, JobEnds, CollectJob, CollectLease, CollectConfig, UserCreatesRestore,
     UserDeletesRestore, UserDeletesReplica, UserDisablesBackup, UserDeletesWorkload,
     UserScalesWorkload, UpgradeInValidating, system, vars
<1> QED
  BY <1>2, <1>3, <1>4, <1>5

LEMMA FirstCall ==
  ASSUME RestoreTypeOK, LockInv, CallInv, SourceStays, UnpausedByNobody,
         CallMoves, UNCHANGED render, \A r \in InPlace : Early(r),
         "restore" \notin Lagging, "deleteReplica" \notin UserActions
  PROVE  UnpausedByNobody'
<1>1. UNCHANGED <<cache, config>> /\ replica.exists /\ replica \in ReplicaObject
  BY ReplicaOfCall DEF SourceStays, RestoreTypeOK, ClusterTypeOK
<1>2. ~(FinalizeResume \/ CleanupResume \/ ResumeReplication)
  <2> SUFFICES ASSUME pc \in {"finalizeResume", "cleanupResume", "resume"} PROVE FALSE
    BY DEF FinalizeResume, CleanupResume, ResumeReplication
  <2>1. cur \in Restore /\ my.phase = restore[cur].phase
    BY DEF RestoreTypeOK, ControllerTypeOK, LockInv, CopyAgrees
  <2>2. my.phase \in {"Restoring", "Resuming"} \/ restore[cur].life \notin {"unborn", "live"}
    BY DEF LockInv, StepFitsPhase, CopyAgrees
  <2>3. cur \in InPlace
    BY <2>1 DEF CallInv, LockInv, StepFitsPhase
  <2>4. Early(cur)
    BY <2>3
  <2> QED
    BY <2>1, <2>2, <2>4 DEF Early, EarlyPhases
<1>3. replica.pause => ReplicationPaused.pause
  BY <1>1 DEF ReplicationPaused, ReplicaObject
<1>4. replica.pause => replica'.pause
  BY <1>2, <1>3, OthersOfCall DEF PauseReplication, PauseAgain
<1>5. \/ UNCHANGED SeenReplica
      \/ SeenReplica = replica /\ SeenReplica' = replica'
  BY <1>1 DEF SeenReplica, Seen
<1>6. UNCHANGED SeenConfig
  BY <1>1 DEF SeenConfig, Seen
<1>7. ASSUME pc' = "createJob", cur' \in InPlace PROVE config = "paused"
  <2>1. ~Return /\ ~(\E r \in Restore : Begin(r))
    BY <1>7, BeginsWith, FirstStepFits DEF Return
  <2>2. ScaleDown
    BY <1>7, <2>1, StepOfCall DEF GoesOn
  <2> QED
    BY <2>2 DEF ScaleDown, UnpausedByNobody
<1> QED
  BY <1>1, <1>4, <1>5, <1>6, <1>7 DEF UnpausedByNobody

\* The inductive invariant of FirstJobStartsPaused: until a restore is deleted or
\* gets past Fencing nobody takes the pause annotation away, so whoever has seen
\* it goes on seeing it, and the paused litestream.yml stays once it is written
\* (reconcileFencing, reconcileLitestreamConfig).
THEOREM FirstInvariant ==
  ASSUME "restore" \notin Lagging, "deleteReplica" \notin UserActions
  PROVE  Spec => []FirstInv
<1>1. Init => FirstInv
  BY DEF Init, ClusterInit, ControllerInit, FirstInv, SeenReplica, SeenConfig, Seen
<1>2. TypeOK /\ LockInv /\ CallInv /\ SourceStays /\ FirstInv /\ [Next]_system => FirstInv'
  <2> SUFFICES ASSUME TypeOK, LockInv, CallInv, SourceStays, FirstInv, [Next]_system,
                      \A r \in InPlace : Early(r)'
               PROVE  UnpausedByNobody'
    BY DEF FirstInv, UnpausedByNobody
  <2>1. RestoreTypeOK
    BY DEF TypeOK
  <2>2. \A r \in InPlace : Early(r)
    BY <2>1, EarlyBefore
  <2>3. UnpausedByNobody
    BY <2>2 DEF FirstInv, UnpausedByNobody
  <2> QED
    BY <2>1, <2>2, <2>3, EveryMove, FirstOutside, FirstCall
<1> QED
  BY <1>1, <1>2, TypeCorrect, LockInvariant, CallInvariant, SourceInvariant, PTL DEF Spec

\* The first Job of a source in place is created under the paused litestream.yml,
\* however late the caches show the ConfigMap and the annotation and whatever
\* calls are lost (reconcileFencing).
THEOREM FirstJobIsPaused ==
  ASSUME "restore" \notin Lagging, "deleteReplica" \notin UserActions
  PROVE  Spec => FirstJobStartsPaused
<1> DEFINE Started == \A r \in InPlace :
                        /\ job[r] = "none" /\ job'[r] = "running"
                        /\ \A s \in InPlace \ {r} : /\ restore[s].life \in {"unborn", "live"}
                                                    /\ restore[s].phase \in EarlyPhases
                        => config = "paused"
<1>1. TypeOK /\ LockInv /\ JobInv /\ CallInv /\ FirstInv /\ [Next]_system => [Started]_vars
  <2> SUFFICES ASSUME RestoreTypeOK, LockInv, JobInv, CallInv, FirstInv, [Next]_system,
                      NEW r \in InPlace, job[r] = "none", job'[r] = "running",
                      \A s \in InPlace \ {r} : /\ restore[s].life \in {"unborn", "live"}
                                               /\ restore[s].phase \in EarlyPhases
               PROVE  config = "paused"
    BY DEF TypeOK
  <2>1. r \in Restore
    BY RestoreAssumption
  <2>2. CallMoves
    BY <2>1, EveryMove, OutsideMoves DEF JobMoves
  <2>3. CreateJob /\ r = cur /\ pc = "createJob"
    BY <2>1, <2>2, JobOfCall DEF CreateJob
  <2>4. restore[r].phase = "Fencing"
    BY <2>3 DEF JobInv, LockInv, CopyAgrees
  <2>5. \A s \in InPlace : Early(s)
    BY <2>3, <2>4 DEF Early
  <2> QED
    BY <2>3, <2>5 DEF FirstInv
<1> QED
  BY <1>1, TypeCorrect, LockInvariant, JobInvariant, CallInvariant, FirstInvariant, PTL
  DEF Spec, FirstJobStartsPaused
=============================================================================
