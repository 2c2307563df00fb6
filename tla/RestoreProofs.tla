----------------------------- MODULE RestoreProofs -----------------------------
(***************************************************************************)
(* Theorems about RestoreSystem, for every set of restores, every bound    *)
(* and every behaviour of the user, and the proofs TLAPS checks.           *)
(***************************************************************************)
EXTENDS RestoreSystem, TLAPS

-----------------------------------------------------------------------------
(***************************************************************************)
(* Type correctness.                                                       *)
(***************************************************************************)

LEMMA NewRestoreType == NewRestore \in RestoreObject
BY DEF NewRestore, RestoreObject, Lives, Phases, Nil

LEMMA NoReplicaType == NoReplica \in ReplicaObject
BY DEF NoReplica, ReplicaObject

\* What a Get returns is of the type of what is stored.
LEMMA SeenType ==
  ASSUME ClusterTypeOK
  PROVE  /\ SeenRestore \in Restores
         /\ SeenReplica \in ReplicaObject
         /\ SeenLease \in Holder
         /\ SeenJob \in Jobs
         /\ SeenConfig \in Configs
         /\ SeenWorkload \in WorkloadObject
BY DEF ClusterTypeOK, CacheObject, Seen, SeenRestore, SeenReplica, SeenLease,
       SeenJob, SeenConfig, SeenWorkload

\* A merge patch yields a restore, and leaves its life and finalizer alone.
LEMMA MergePatchType ==
  ASSUME NEW object \in RestoreObject, NEW base \in RestoreObject,
         NEW new \in RestoreObject
  PROVE  /\ MergePatch(object, base, new) \in RestoreObject
         /\ MergePatch(object, base, new).life = object.life
         /\ MergePatch(object, base, new).finalizer = object.finalizer
         /\ MergePatch(object, base, new).phase =
              IF new.phase # base.phase THEN new.phase ELSE object.phase
BY DEF MergePatch, RestoreObject

\* setStatus is a step from restores to restores.
LEMMA PatchRestoreType ==
  ASSUME restore \in Restores, cur \in Restore,
         NEW base \in RestoreObject, NEW new \in RestoreObject,
         PatchRestore(base, new)
  PROVE  /\ restore' \in Restores
         /\ \A r \in Restore : restore'[r].life = restore[r].life
         /\ \A r \in Restore \ {cur} : restore'[r] = restore[r]
         /\ restore'[cur].phase \in
              {restore[cur].phase, IF new.phase # base.phase THEN new.phase
                                   ELSE restore[cur].phase}
BY MergePatchType DEF PatchRestore, Restores

LEMMA SetStatusType ==
  ASSUME restore \in Restores, cur \in Restore, my \in RestoreObject,
         NEW conditions \in SUBSET Conditions, NEW phase \in Phases,
         NEW originalReplicas \in Nat \cup {Nil}, NEW jobName \in BOOLEAN,
         SetStatus(conditions, phase, originalReplicas, jobName)
  PROVE  /\ restore' \in Restores
         /\ \A r \in Restore : restore'[r].life = restore[r].life
         /\ \A r \in Restore \ {cur} : restore'[r] = restore[r]
         /\ restore'[cur].phase \in
              {restore[cur].phase, IF phase # my.phase THEN phase
                                   ELSE restore[cur].phase}
<1> DEFINE base == [my EXCEPT !.conditions = conditions]
           new  == [base EXCEPT
                 !.phase = phase,
                 !.jobName = base.jobName \/ jobName,
                 !.originalReplicas = IF base.originalReplicas = Nil
                                      THEN originalReplicas
                                      ELSE base.originalReplicas]
<1>1. base \in RestoreObject /\ base.phase = my.phase
  BY DEF RestoreObject
<1>2. new \in RestoreObject /\ new.phase = phase
  BY <1>1 DEF RestoreObject
<1>3. PatchRestore(base, new)
  BY DEF SetStatus
<1> HIDE DEF base, new
<1> QED
  BY <1>1, <1>2, <1>3, PatchRestoreType

LEMMA ReleaseRestoreLockType ==
  ASSUME RestoreTypeOK, cur \in Restore, ReleaseRestoreLock
  PROVE  lease' \in Holder /\ faults' \in 0..MaxFaults
BY FaultsAssumption DEF RestoreTypeOK, ClusterTypeOK, ControllerTypeOK, ReleaseRestoreLock,
   Fault, Holder

LEMMA ReplicationResumedType ==
  ASSUME RestoreTypeOK PROVE ReplicationResumed \in ReplicaObject
<1>1. replica \in ReplicaObject /\ source \in ReplicaObject /\ SeenReplica \in ReplicaObject
  BY SeenType DEF RestoreTypeOK, ClusterTypeOK, ControllerTypeOK
<1>2. (replica.pause /\ ~(source.pause /\ SeenReplica.pause)) \in BOOLEAN
  OBVIOUS
<1> QED
  BY <1>1, <1>2 DEF ReplicationResumed, ReplicaObject

LEMMA ResumeBestEffortType ==
  ASSUME RestoreTypeOK, ResumeReplicationBestEffort
  PROVE  replica' \in ReplicaObject /\ faults' \in 0..MaxFaults
BY FaultsAssumption, ReplicationResumedType DEF RestoreTypeOK, ClusterTypeOK,
   ControllerTypeOK, ResumeReplicationBestEffort, Fault

\* After Return the variables of the call have their initial types.
LEMMA ReturnType ==
  ASSUME Return
  PROVE  /\ pc' \in Steps /\ cur' \in Holder /\ (pc' # "idle" => cur' \in Restore)
         /\ my' \in RestoreObject /\ source' \in ReplicaObject
BY NewRestoreType, NoReplicaType DEF Return, Steps, Holder

LEMMA ContinueType ==
  ASSUME ControllerTypeOK, pc # "idle", NEW step \in Steps, Continue(step)
  PROVE  /\ pc' \in Steps /\ cur' \in Holder /\ (pc' # "idle" => cur' \in Restore)
         /\ my' \in RestoreObject /\ source' \in ReplicaObject
BY DEF ControllerTypeOK, Continue

LEMMA InitType == Init => TypeOK
<1> SUFFICES ASSUME Init PROVE TypeOK
  OBVIOUS
<1>1. restore \in Restores /\ job \in Jobs /\ config \in Configs /\ lease \in Holder
  BY NewRestoreType DEF Init, ClusterInit, Restores, Jobs, JobStates, Configs, Holder
<1>2. replica \in ReplicaObject
  BY DEF Init, ClusterInit, ReplicaObject
<1>3. workload \in WorkloadObject
  BY ReplicasAssumption DEF Init, ClusterInit, WorkloadObject
<1>4. cache \in CacheObject
  BY <1>1, <1>2, <1>3 DEF Init, ClusterInit, CacheObject
<1>5. ControllerTypeOK
  BY NewRestoreType, NoReplicaType, FaultsAssumption
  DEF Init, ControllerInit, ControllerTypeOK, Steps, Holder
<1> QED
  BY <1>1, <1>2, <1>3, <1>4, <1>5 DEF Init, TypeOK, RestoreTypeOK, ClusterTypeOK

-----------------------------------------------------------------------------
LEMMA EnvironmentType ==
  ASSUME RestoreTypeOK, EnvironmentStep
  PROVE  RestoreTypeOK'
<1> USE DEF RestoreTypeOK
<1>1. ControllerTypeOK'
  BY DEF EnvironmentStep, ControllerTypeOK, call
<1>2. CASE StartPod \/ DeletePod \/ PodExits
  <2>1. workload \in WorkloadObject
    BY DEF ClusterTypeOK
  <2>2. ASSUME StartPod PROVE workload' \in WorkloadObject
    BY <2>1, <2>2 DEF StartPod, WorkloadObject
  <2>3. ASSUME DeletePod PROVE workload' \in WorkloadObject
    <3>1. workload.active - 1 \in Nat /\ workload.terminating + 1 \in Nat
      BY <2>1, <2>3 DEF DeletePod, WorkloadObject
    <3> QED
      BY <2>1, <2>3, <3>1 DEF DeletePod, WorkloadObject
  <2>4. ASSUME PodExits PROVE workload' \in WorkloadObject
    BY <2>1, <2>4 DEF PodExits, WorkloadObject
  <2> QED
    BY <1>1, <1>2, <2>2, <2>3, <2>4 DEF StartPod, DeletePod, PodExits, ClusterTypeOK
<1>3. ASSUME NEW r \in Restore, JobEnds(r) \/ CollectJob(r) PROVE RestoreTypeOK'
  BY <1>1, <1>3 DEF JobEnds, CollectJob, ClusterTypeOK, Jobs, JobStates
<1>4. CASE CollectLease \/ CollectConfig
  BY <1>1, <1>4 DEF CollectLease, CollectConfig, ClusterTypeOK, Holder, Configs
<1>5. ASSUME NEW kind \in CacheKinds, SyncCache(kind) PROVE RestoreTypeOK'
  <2>1. cache' \in CacheObject
    BY <1>5 DEF SyncCache, CacheKinds, ClusterTypeOK, CacheObject
  <2> QED
    BY <1>1, <1>5, <2>1 DEF SyncCache, stored, ClusterTypeOK
<1>6. ASSUME NEW r \in Restore, UserCreatesRestore(r) \/ UserDeletesRestore(r)
      PROVE RestoreTypeOK'
  <2>1. restore' \in Restores
    BY <1>6 DEF UserCreatesRestore, UserDeletesRestore, ClusterTypeOK, Restores,
       RestoreObject, Lives
  <2> QED
    BY <1>1, <1>6, <2>1 DEF UserCreatesRestore, UserDeletesRestore, ClusterTypeOK
<1>7. CASE UserDeletesReplica \/ UserDisablesBackup
  <2>1. ASSUME UserDeletesReplica PROVE replica' \in ReplicaObject
    BY <2>1, NoReplicaType DEF UserDeletesReplica
  <2>2. ASSUME UserDisablesBackup PROVE replica' \in ReplicaObject
    BY <2>2 DEF UserDisablesBackup, ClusterTypeOK, ReplicaObject
  <2> QED
    BY <1>1, <1>7, <2>1, <2>2 DEF UserDeletesReplica, UserDisablesBackup, ClusterTypeOK
<1>8. CASE UserDeletesWorkload \/ UserScalesWorkload
  <2>1. ASSUME UserDeletesWorkload PROVE workload' \in WorkloadObject
    BY <2>1 DEF UserDeletesWorkload, ClusterTypeOK, WorkloadObject
  <2>2. ASSUME UserScalesWorkload PROVE workload' \in WorkloadObject
    BY <2>2, ReplicasAssumption DEF UserScalesWorkload, ClusterTypeOK, WorkloadObject
  <2> QED
    BY <1>1, <1>8, <2>1, <2>2 DEF UserDeletesWorkload, UserScalesWorkload, ClusterTypeOK
<1> QED
  BY <1>2, <1>3, <1>4, <1>5, <1>6, <1>7, <1>8 DEF EnvironmentStep, KubernetesStep, UserStep

\* A call that ends, or goes on, with a status patch of its restore.
LEMMA SetStatusTypeOK ==
  ASSUME RestoreTypeOK, pc # "idle",
         NEW conditions \in SUBSET Conditions, NEW phase \in Phases,
         NEW originalReplicas \in Nat \cup {Nil}, NEW jobName \in BOOLEAN,
         SetStatus(conditions, phase, originalReplicas, jobName), Return,
         UNCHANGED <<replica, lease, job, config, workload, cache, faults>>
  PROVE  RestoreTypeOK'
<1>1. restore' \in Restores
  BY SetStatusType DEF RestoreTypeOK, ClusterTypeOK, ControllerTypeOK
<1>2. ClusterTypeOK'
  BY <1>1 DEF RestoreTypeOK, ClusterTypeOK
<1>3. ControllerTypeOK'
  BY ReturnType DEF RestoreTypeOK, ControllerTypeOK
<1> QED
  BY <1>2, <1>3 DEF RestoreTypeOK

LEMMA BeginType ==
  ASSUME RestoreTypeOK, NEW r \in Restore, Begin(r)
  PROVE  RestoreTypeOK'
<1>1. SeenRestore[r] \in RestoreObject /\ SeenReplica \in ReplicaObject
  BY SeenType DEF RestoreTypeOK, Restores
<1>2. PhaseStep(SeenRestore[r].phase) \in Steps
  BY DEF PhaseStep, Steps
<1>3. FirstStep(SeenRestore[r], SeenReplica) \in Steps
  BY <1>2 DEF FirstStep, Steps
<1> QED
  BY <1>1, <1>3 DEF Begin, stored, RestoreTypeOK, ClusterTypeOK, ControllerTypeOK, Holder

\* A step that changes no object and ends the call, or moves on in it.
LEMMA ReadOnlyType ==
  ASSUME RestoreTypeOK, UNCHANGED <<stored, cache>>, faults' \in 0..MaxFaults,
         Return \/ (pc # "idle" /\ \E step \in Steps : Continue(step))
  PROVE  RestoreTypeOK'
<1>1. ClusterTypeOK'
  BY DEF RestoreTypeOK, ClusterTypeOK, stored
<1>2. ControllerTypeOK'
  BY ReturnType, ContinueType DEF RestoreTypeOK, ControllerTypeOK
<1> QED
  BY <1>1, <1>2 DEF RestoreTypeOK

LEMMA AbortType ==
  ASSUME RestoreTypeOK, Abort
  PROVE  RestoreTypeOK'
<1>1. faults' \in 0..MaxFaults
  BY FaultsAssumption DEF Abort, Fault, RestoreTypeOK, ControllerTypeOK
<1> QED
  BY <1>1, ReadOnlyType DEF Abort

LEMMA WorkloadReadFailsType ==
  ASSUME RestoreTypeOK, WorkloadReadFails
  PROVE  RestoreTypeOK'
<1>1. faults' \in 0..MaxFaults
  BY FaultsAssumption DEF WorkloadReadFails, Fault, RestoreTypeOK, ControllerTypeOK
<1>2. "fail" \in Steps /\ "release" \in Steps
  BY DEF Steps
<1> QED
  BY <1>1, <1>2, ReadOnlyType DEF WorkloadReadFails

LEMMA FinalizationType ==
  ASSUME RestoreTypeOK, AddFinalizer \/ FailRestore \/ Finalization
  PROVE  RestoreTypeOK'
<1>1. CASE AddFinalizer
  <2>1. restore' \in Restores
    BY <1>1 DEF AddFinalizer, RestoreTypeOK, ClusterTypeOK, Restores, RestoreObject
  <2>2. ControllerTypeOK'
    BY <1>1, ReturnType DEF AddFinalizer, RestoreTypeOK, ControllerTypeOK
  <2> QED
    BY <1>1, <2>1, <2>2 DEF AddFinalizer, RestoreTypeOK, ClusterTypeOK
<1>2. CASE FailRestore
  <2>1. my.conditions \in SUBSET Conditions
    BY DEF RestoreTypeOK, ControllerTypeOK, RestoreObject
  <2> QED
    BY <1>2, <2>1, SetStatusTypeOK DEF FailRestore, Phases
<1>3. CASE FinalizeRelease
  <2>1. pc # "idle" /\ cur \in Restore
    BY <1>3 DEF FinalizeRelease, RestoreTypeOK, ControllerTypeOK
  <2>2. lease' \in Holder /\ faults' \in 0..MaxFaults
    BY <1>3, <2>1, ReleaseRestoreLockType
    DEF FinalizeRelease, RestoreTypeOK, ClusterTypeOK, ControllerTypeOK
  <2>3. ControllerTypeOK'
    <3>1. Continue("finalizeResume") \/ Continue("removeFinalizer")
      BY <1>3 DEF FinalizeRelease
    <3> QED
      BY <2>1, <2>2, <3>1, ContinueType DEF RestoreTypeOK, ControllerTypeOK, Steps
  <2> QED
    BY <1>3, <2>2, <2>3 DEF FinalizeRelease, RestoreTypeOK, ClusterTypeOK
<1>4. CASE FinalizeResume
  <2>1. replica' \in ReplicaObject /\ faults' \in 0..MaxFaults
    BY <1>4, ResumeBestEffortType DEF FinalizeResume
  <2>2. ControllerTypeOK'
    BY <1>4, <2>1, ContinueType DEF FinalizeResume, RestoreTypeOK, ControllerTypeOK, Steps
  <2> QED
    BY <1>4, <2>1, <2>2 DEF FinalizeResume, RestoreTypeOK, ClusterTypeOK
<1>5. CASE RemoveFinalizer
  <2>1. restore' \in Restores
    <3> DEFINE unmarked == [restore EXCEPT ![cur].finalizer = FALSE]
    <3>1. restore' = restore \/ restore' = [unmarked EXCEPT ![cur].life = "gone"]
      BY <1>5 DEF RemoveFinalizer
    <3>2. restore \in Restores /\ cur \in Restore
      BY <1>5 DEF RemoveFinalizer, RestoreTypeOK, ClusterTypeOK, ControllerTypeOK
    <3>3. unmarked \in Restores
      BY <3>2 DEF Restores, RestoreObject
    <3> HIDE DEF unmarked
    <3>4. [unmarked EXCEPT ![cur].life = "gone"] \in Restores
      BY <3>2, <3>3 DEF Restores, RestoreObject, Lives
    <3> QED
      BY <3>1, <3>2, <3>4
  <2>2. ControllerTypeOK'
    BY <1>5, ReturnType DEF RemoveFinalizer, RestoreTypeOK, ControllerTypeOK
  <2> QED
    BY <1>5, <2>1, <2>2 DEF RemoveFinalizer, RestoreTypeOK, ClusterTypeOK
<1> QED
  BY <1>1, <1>2, <1>3, <1>4, <1>5 DEF Finalization

LEMMA PendingType ==
  ASSUME RestoreTypeOK, Pending
  PROVE  RestoreTypeOK'
<1> DEFINE resolvedMy == [my EXCEPT !.resolved = TRUE]
<1>1. /\ my \in RestoreObject /\ restore \in Restores
      /\ my.conditions \in SUBSET Conditions
  BY DEF RestoreTypeOK, ClusterTypeOK, ControllerTypeOK, RestoreObject
<1>2. CASE ResolveTarget
  <2>1. pc # "idle" /\ cur \in Restore
    BY <1>2 DEF ResolveTarget, RestoreTypeOK, ControllerTypeOK
  <2>2. ASSUME PatchRestore(my, resolvedMy) PROVE restore' \in Restores
    <3>1. resolvedMy \in RestoreObject
      BY <1>1 DEF RestoreObject
    <3> HIDE DEF resolvedMy
    <3> QED
      BY <1>1, <2>1, <2>2, <3>1, PatchRestoreType
  <2>3. restore' \in Restores
    BY <1>1, <1>2, <2>2 DEF ResolveTarget
  <2>4. CASE Continue("fail")
    BY <1>2, <2>1, <2>3, <2>4, ContinueType
    DEF ResolveTarget, RestoreTypeOK, ClusterTypeOK, ControllerTypeOK, Steps
  <2>5. CASE Return
    BY <1>2, <2>3, <2>5, ReturnType
    DEF ResolveTarget, RestoreTypeOK, ClusterTypeOK, ControllerTypeOK
  <2>6. CASE /\ pc' \in {"lockPhase", "createJob"}
             /\ my' \in {my, restore'[cur]}
             /\ UNCHANGED <<cur, source>>
    <3>1. my' \in RestoreObject
      BY <1>1, <2>1, <2>3, <2>6 DEF Restores
    <3>2. ClusterTypeOK'
      BY <1>2, <2>3 DEF ResolveTarget, RestoreTypeOK, ClusterTypeOK
    <3> QED
      BY <1>2, <2>1, <2>6, <3>1, <3>2 DEF ResolveTarget, RestoreTypeOK, ControllerTypeOK, Steps
  <2> QED
    BY <1>2, <2>4, <2>5, <2>6 DEF ResolveTarget
<1>3. CASE EnterAcquiringLock
  <2>1. (IF SeenWorkload.exists THEN SeenWorkload.replicas ELSE 0) \in Nat
    BY SeenType DEF RestoreTypeOK, WorkloadObject
  <2> QED
    BY <1>1, <1>3, <2>1, SetStatusTypeOK DEF EnterAcquiringLock, Phases
<1> QED
  BY <1>2, <1>3 DEF Pending

\* Such a call on the way, with the sort of each of its components.
LEMMA MyType ==
  ASSUME RestoreTypeOK
  PROVE  /\ my.conditions \in SUBSET Conditions
         /\ my.originalReplicas \in Nat \cup {Nil}
         /\ \A c \in Conditions : /\ my.conditions \cup {c} \in SUBSET Conditions
                                 /\ my.conditions \ {c} \in SUBSET Conditions
         /\ ScaleTarget \in Nat
         /\ (pc # "idle" => cur \in Restore)
<1>1. my \in RestoreObject /\ (pc # "idle" => cur \in Restore)
  BY DEF RestoreTypeOK, ControllerTypeOK
<1>2. my.conditions \in SUBSET Conditions /\ my.originalReplicas \in Nat \cup {Nil}
  BY <1>1 DEF RestoreObject
<1>3. ScaleTarget \in Nat
  BY <1>2 DEF ScaleTarget, Nil
<1> QED
  BY <1>1, <1>2, <1>3

\* A step that changes one object and faults, and ends the call or moves on in it.
LEMMA WriteType ==
  ASSUME RestoreTypeOK, pc # "idle", UNCHANGED <<restore, cache>>,
         replica' \in ReplicaObject, lease' \in Holder, job' \in Jobs,
         config' \in Configs, workload' \in WorkloadObject, faults' \in 0..MaxFaults,
         Return \/ \E step \in Steps : Continue(step)
  PROVE  RestoreTypeOK'
<1>1. ControllerTypeOK'
  BY ReturnType, ContinueType DEF RestoreTypeOK, ControllerTypeOK
<1> QED
  BY <1>1 DEF RestoreTypeOK, ClusterTypeOK

\* The types of what a step leaves as it is.
LEMMA UnchangedType ==
  ASSUME RestoreTypeOK
  PROVE  /\ UNCHANGED replica => replica' \in ReplicaObject
         /\ UNCHANGED lease => lease' \in Holder
         /\ UNCHANGED job => job' \in Jobs
         /\ UNCHANGED config => config' \in Configs
         /\ UNCHANGED workload => workload' \in WorkloadObject
         /\ UNCHANGED faults => faults' \in 0..MaxFaults
BY DEF RestoreTypeOK, ClusterTypeOK, ControllerTypeOK

LEMMA ReplicationPausedType ==
  ASSUME RestoreTypeOK PROVE ReplicationPaused \in ReplicaObject
BY DEF RestoreTypeOK, ClusterTypeOK, ReplicationPaused, ReplicaObject

LEMMA LockingType ==
  ASSUME RestoreTypeOK, Locking
  PROVE  RestoreTypeOK'
<1> USE MyType, UnchangedType
<1>1. CASE CreateLease
  <2>1. lease' \in Holder
    BY <1>1 DEF CreateLease, Holder
  <2>2. Return \/ Continue("pause")
    BY <1>1 DEF CreateLease
  <2> QED
    BY <1>1, <2>1, <2>2, WriteType DEF CreateLease, Steps
<1>2. CASE LeaseIsOurs
  BY <1>2, ReadOnlyType DEF LeaseIsOurs, Steps
<1>3. CASE LeaseIsHeld
  BY <1>3, SetStatusTypeOK DEF LeaseIsHeld, Phases, Conditions
<1>4. CASE PauseReplication
  <2>1. Return \/ Continue("fencingPhase")
    BY <1>4 DEF PauseReplication
  <2> QED
    BY <1>4, <2>1, ReplicationPausedType, WriteType DEF PauseReplication, Steps
<1>5. CASE EnterFencing
  BY <1>5, SetStatusTypeOK DEF EnterFencing, Phases, Conditions
<1> QED
  BY <1>1, <1>2, <1>3, <1>4, <1>5 DEF Locking

LEMMA FencingType ==
  ASSUME RestoreTypeOK, Fencing
  PROVE  RestoreTypeOK'
<1> USE MyType, UnchangedType
<1>1. CASE PauseAgain
  BY <1>1, ReplicationPausedType, WriteType DEF PauseAgain
<1>2. CASE AwaitPausedConfig
  BY <1>2, ReadOnlyType DEF AwaitPausedConfig
<1>3. CASE ScaleDown
  <2>1. workload' \in WorkloadObject
    BY <1>3 DEF ScaleDown, RestoreTypeOK, ClusterTypeOK, WorkloadObject
  <2>2. Return \/ Continue("createJob")
    BY <1>3 DEF ScaleDown
  <2> QED
    BY <1>3, <2>1, <2>2, WriteType DEF ScaleDown, Steps
<1>4. CASE CreateJob
  <2>1. job' \in Jobs
    BY <1>4 DEF CreateJob, RestoreTypeOK, ClusterTypeOK, Jobs, JobStates
  <2> QED
    BY <1>4, <2>1, WriteType DEF CreateJob, Steps
<1>5. CASE EnterRestoring
  <2>1. (IF cur \in InPlace THEN my.conditions \cup {"ApplicationFenced"}
                            ELSE my.conditions) \in SUBSET Conditions
    BY DEF Conditions
  <2> QED
    BY <1>5, <2>1, SetStatusTypeOK DEF EnterRestoring, Phases
<1> QED
  BY <1>1, <1>2, <1>3, <1>4, <1>5 DEF Fencing

LEMMA RestoringType ==
  ASSUME RestoreTypeOK, Restoring
  PROVE  RestoreTypeOK'
<1> USE MyType, UnchangedType
<1>1. CASE JobStillRuns
  BY <1>1, ReadOnlyType DEF JobStillRuns
<1>2. CASE JobSucceeded
  BY <1>2, SetStatusTypeOK DEF JobSucceeded, Phases, Conditions
<1>3. CASE JobFailed
  <2>1. lease' \in Holder /\ faults' \in 0..MaxFaults
    BY <1>3, ReleaseRestoreLockType DEF JobFailed
  <2>2. Continue("cleanupResume") \/ Continue("cleanupFail")
    BY <1>3 DEF JobFailed
  <2> QED
    BY <1>3, <2>1, <2>2, WriteType DEF JobFailed, Steps
<1>4. CASE CleanupResume
  BY <1>4, ResumeBestEffortType, WriteType DEF CleanupResume, Steps
<1>5. CASE CleanupFail
  BY <1>5, SetStatusTypeOK DEF CleanupFail, Phases
<1>6. CASE SkipValidation
  BY <1>6, SetStatusTypeOK DEF SkipValidation, Phases
<1> QED
  BY <1>1, <1>2, <1>3, <1>4, <1>5, <1>6 DEF Restoring

LEMMA ResumingType ==
  ASSUME RestoreTypeOK, Resuming
  PROVE  RestoreTypeOK'
<1> USE MyType, UnchangedType
<1>1. CASE ResumeReplication
  <2>1. replica' \in ReplicaObject
    BY <1>1, ReplicationResumedType DEF ResumeReplication
  <2>2. Return \/ Continue("scaleUp")
    BY <1>1 DEF ResumeReplication
  <2> QED
    BY <1>1, <2>1, <2>2, WriteType DEF ResumeReplication, Steps
<1>2. CASE ScaleUp
  <2>1. workload' \in WorkloadObject
    BY <1>2 DEF ScaleUp, RestoreTypeOK, ClusterTypeOK, WorkloadObject
  <2>2. Return \/ Continue("release")
    BY <1>2 DEF ScaleUp
  <2> QED
    BY <1>2, <2>1, <2>2, WriteType DEF ScaleUp, Steps
<1>3. CASE ReleaseAfterScaleUp
  BY <1>3, ReleaseRestoreLockType, WriteType DEF ReleaseAfterScaleUp, Steps
<1>4. CASE Complete
  BY <1>4, SetStatusTypeOK DEF Complete, Phases, Conditions
<1> QED
  BY <1>1, <1>2, <1>3, <1>4 DEF Resuming

LEMMA RestoreStepType ==
  ASSUME RestoreTypeOK, RestoreStep
  PROVE  RestoreTypeOK'
<1>1. CASE ReconcilerStep
  BY <1>1, BeginType, AbortType, WorkloadReadFailsType, FinalizationType, PendingType,
     LockingType, FencingType, RestoringType, ResumingType
  DEF ReconcilerStep, CallStep
<1>2. ASSUME NEW r \in Restore, UpgradeInValidating(r) PROVE RestoreTypeOK'
  <2>1. restore' \in Restores
    BY <1>2 DEF UpgradeInValidating, RestoreTypeOK, ClusterTypeOK, Restores,
       RestoreObject, Phases
  <2> QED
    BY <1>2, <2>1 DEF UpgradeInValidating, RestoreTypeOK, ClusterTypeOK,
       ControllerTypeOK, call
<1> QED
  BY <1>1, <1>2, EnvironmentType DEF RestoreStep

LEMMA NextType == TypeOK /\ [Next]_system => TypeOK'
<1> SUFFICES ASSUME TypeOK, [Next]_system PROVE TypeOK'
  OBVIOUS
<1>1. CASE RestoreStep /\ UNCHANGED render
  BY <1>1, RestoreStepType DEF TypeOK
<1>2. CASE ReadReplica \/ UNCHANGED system
  BY <1>2 DEF ReadReplica, system, vars, TypeOK, RestoreTypeOK, ClusterTypeOK,
     ControllerTypeOK
<1>3. CASE ReconcileLitestreamConfig
  BY <1>3 DEF ReconcileLitestreamConfig, TypeOK, RestoreTypeOK, ClusterTypeOK,
     ControllerTypeOK, Configs, call
<1>4. CASE RenderingStops
  BY <1>4, FaultsAssumption DEF RenderingStops, Fault, TypeOK, RestoreTypeOK,
     ClusterTypeOK, ControllerTypeOK, stored, call
<1> QED
  BY <1>1, <1>2, <1>3, <1>4 DEF Next, ReplicaStep

\* Every reachable state is of the types declared: in particular each status
\* patch, also one merged into a restore that has changed since it was read,
\* leaves a restore with a phase of the CRD's enumeration, and pods are never
\* fewer than none.
THEOREM TypeCorrect == Spec => []TypeOK
BY InitType, NextType, PTL DEF Spec
=============================================================================
