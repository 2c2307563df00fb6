-------------------------- MODULE RestoreOutcomeProofs --------------------------
(***************************************************************************)
(* What a completed restore means, for every set of restores and every     *)
(* delay of the cached Jobs.                                               *)
(***************************************************************************)
EXTENDS RestoreLockProofs

LEMMA OutcomeInit == Init => OutcomeInv
<1> SUFFICES ASSUME Init PROVE OutcomeInv
  OBVIOUS
<1>1. \A r \in Restore : restore[r].life = "unborn" /\ SeenJob[r] = "none"
  BY DEF Init, ClusterInit, NewRestore, SeenJob, Seen
<1> QED
  BY <1>1 DEF OutcomeInv

\* The restores stay, and no complete Job of a restore that is there changes.
LEMMA OutcomeKept ==
  ASSUME OutcomeInv, UNCHANGED restore,
         \A r \in Restore : /\ SeenJob'[r] = SeenJob[r] \/ SeenJob'[r] = job'[r]
                            /\ restore[r].life \in {"unborn", "live"} /\ job[r] = "complete"
                                 => job'[r] = "complete"
  PROVE  OutcomeInv'
BY DEF OutcomeInv

LEMMA SeenJobLemma == UNCHANGED cache => SeenJob' = SeenJob \/ SeenJob' = job'
BY DEF SeenJob, Seen

LEMMA OutcomeQuiet ==
  ASSUME OutcomeInv, UNCHANGED <<restore, job, cache>>
  PROVE  OutcomeInv'
<1>1. SeenJob' = SeenJob
  BY DEF SeenJob, Seen
<1> QED
  BY <1>1, OutcomeKept

\* The restores change, but no restore becomes live or enters a phase that
\* says it has been restored unless its Job is complete.
LEMMA OutcomeRestore ==
  ASSUME OutcomeInv, UNCHANGED <<job, cache>>,
         \A r \in Restore :
           \/ restore'[r] = restore[r]
           \/ restore'[r].life \in {"deleting", "gone"}
           \/ /\ restore[r].life \in {"unborn", "live"}
              /\ \/ restore[r].life = "live" /\ restore'[r].phase = restore[r].phase
                 \/ restore'[r].phase \notin {"Validating", "Resuming", "Completed"}
                 \/ job[r] = "complete"
  PROVE  OutcomeInv'
<1>1. SeenJob' = SeenJob
  BY DEF SeenJob, Seen
<1> QED
  BY <1>1 DEF OutcomeInv

LEMMA OutcomeStatus ==
  ASSUME RestoreTypeOK, LockInv, OutcomeInv, pc # "idle",
         NEW conditions \in SUBSET Conditions, NEW phase \in Phases,
         NEW originalReplicas \in Nat \cup {Nil}, NEW jobName \in BOOLEAN,
         SetStatus(conditions, phase, originalReplicas, jobName),
         phase \in {"Validating", "Resuming", "Completed"}
           => (restore[cur].life = "live" => job[cur] = "complete"),
         UNCHANGED <<job, cache>>
  PROVE  OutcomeInv'
<1>1. cur \in Restore /\ restore \in Restores /\ my \in RestoreObject
  BY DEF RestoreTypeOK, ClusterTypeOK, ControllerTypeOK
<1>2. /\ \A r \in Restore : restore'[r].life = restore[r].life
      /\ \A r \in Restore \ {cur} : restore'[r] = restore[r]
      /\ restore'[cur].phase \in {restore[cur].phase, IF phase # my.phase THEN phase
                                                      ELSE restore[cur].phase}
  BY <1>1, SetStatusType
<1>3. restore[cur].life \in {"live", "deleting", "gone"}
  BY <1>1 DEF LockInv, CopyAgrees, Restores, RestoreObject, Lives
<1> QED
  BY <1>1, <1>2, <1>3, OutcomeRestore

LEMMA OutcomeEnvironment ==
  ASSUME RestoreTypeOK, LockInv, OutcomeInv, EnvironmentStep
  PROVE  OutcomeInv'
<1>1. ASSUME NEW r \in Restore, JobEnds(r) \/ CollectJob(r) PROVE OutcomeInv'
  <2>1. UNCHANGED <<restore, cache>>
    BY <1>1 DEF JobEnds, CollectJob
  <2>2. \A s \in Restore : restore[s].life \in {"unborn", "live"} /\ job[s] = "complete"
          => job'[s] = "complete"
    BY <1>1 DEF JobEnds, CollectJob, RestoreTypeOK, ClusterTypeOK, Jobs
  <2> QED
    BY <2>1, <2>2, SeenJobLemma, OutcomeKept
<1>2. ASSUME NEW kind \in CacheKinds, SyncCache(kind) PROVE OutcomeInv'
  <2>1. UNCHANGED <<restore, job>>
    BY <1>2 DEF SyncCache, stored
  <2>2. SeenJob' = SeenJob \/ SeenJob' = job'
    BY <1>2, <2>1 DEF SyncCache, SeenJob, Seen, CacheKinds, RestoreTypeOK, ClusterTypeOK,
       CacheObject
  <2> QED
    BY <2>1, <2>2, OutcomeKept
<1>3. ASSUME NEW r \in Restore, UserCreatesRestore(r) \/ UserDeletesRestore(r)
      PROVE OutcomeInv'
  <2>1. /\ \A s \in Restore : restore'[s].phase = restore[s].phase
        /\ \A s \in Restore \ {r} : restore'[s] = restore[s]
        /\ \/ restore[r].life = "unborn" /\ restore'[r].life = "live"
           \/ restore[r].life = "live" /\ restore'[r].life \in {"deleting", "gone"}
        /\ UNCHANGED <<job, cache>>
    BY <1>3 DEF UserCreatesRestore, UserDeletesRestore, RestoreTypeOK, ClusterTypeOK, Restores,
       RestoreObject
  <2>2. restore[r].life = "unborn" => restore[r].phase = ""
    BY DEF LockInv, UnbornIsNew
  <2> QED
    BY <2>1, <2>2, OutcomeRestore
<1> QED
  BY <1>1, <1>2, <1>3, OutcomeQuiet
  DEF EnvironmentStep, KubernetesStep, UserStep, StartPod, DeletePod, PodExits,
      CollectLease, CollectConfig, UserDeletesReplica, UserDisablesBackup,
      UserDeletesWorkload, UserScalesWorkload

\* The actions that end with a status patch.
LEMMA OutcomePatches ==
  ASSUME RestoreTypeOK, LockInv, OutcomeInv,
         \/ FailRestore \/ EnterAcquiringLock \/ LeaseIsHeld \/ EnterFencing
         \/ EnterRestoring \/ JobSucceeded \/ CleanupFail \/ SkipValidation \/ Complete
  PROVE  OutcomeInv'
<1> USE MyType
<1>1. CASE FailRestore \/ CleanupFail
  BY <1>1, OutcomeStatus DEF FailRestore, CleanupFail, Phases
<1>2. CASE EnterAcquiringLock
  <2>1. (IF SeenWorkload.exists THEN SeenWorkload.replicas ELSE 0) \in Nat
    BY SeenType DEF RestoreTypeOK, WorkloadObject
  <2> QED
    BY <1>2, <2>1, OutcomeStatus DEF EnterAcquiringLock, Phases
<1>3. CASE LeaseIsHeld \/ EnterFencing
  BY <1>3, OutcomeStatus DEF LeaseIsHeld, EnterFencing, Phases, Conditions
<1>4. CASE EnterRestoring
  <2>1. (IF cur \in InPlace THEN my.conditions \cup {"ApplicationFenced"}
                            ELSE my.conditions) \in SUBSET Conditions
    BY DEF Conditions
  <2> QED
    BY <1>4, <2>1, OutcomeStatus DEF EnterRestoring, Phases
<1>5. CASE JobSucceeded
  <2>1. SeenJob[cur] = "complete" /\ cur \in Restore
    BY <1>5 DEF JobSucceeded, JobSeen
  <2>2. restore[cur].life = "live" => job[cur] = "complete"
    BY <2>1 DEF OutcomeInv
  <2> QED
    BY <1>5, <2>2, OutcomeStatus DEF JobSucceeded, Phases, Conditions
<1>6. CASE SkipValidation \/ Complete
  <2>1. restore[cur].phase \in {"Validating", "Resuming"} /\ cur \in Restore
    BY <1>6 DEF SkipValidation, Complete, LockInv, CopyAgrees, StepFitsPhase
  <2>2. restore[cur].life = "live" => job[cur] = "complete"
    BY <2>1 DEF OutcomeInv
  <2> QED
    BY <1>6, <2>2, OutcomeStatus DEF SkipValidation, Complete, Phases, Conditions
<1> QED
  BY <1>1, <1>2, <1>3, <1>4, <1>5, <1>6

LEMMA OutcomeCall ==
  ASSUME RestoreTypeOK, LockInv, OutcomeInv, CallStep
  PROVE  OutcomeInv'
<1>1. CASE AddFinalizer \/ RemoveFinalizer
  <2>1. pc # "idle" /\ cur \in Restore /\ restore[cur].life # "unborn"
    BY <1>1 DEF AddFinalizer, RemoveFinalizer, RestoreTypeOK, ControllerTypeOK, LockInv,
       CopyAgrees
  <2>2. /\ \A r \in Restore \ {cur} : restore'[r] = restore[r]
        /\ restore'[cur].phase = restore[cur].phase
        /\ restore'[cur].life \in {restore[cur].life, "gone"}
        /\ UNCHANGED <<job, cache>>
    BY <1>1, <2>1 DEF AddFinalizer, RemoveFinalizer, RestoreTypeOK, ClusterTypeOK, Restores,
       RestoreObject
  <2>3. restore[cur].life \in {"live", "deleting", "gone"}
    BY <2>1 DEF RestoreTypeOK, ClusterTypeOK, Restores, RestoreObject, Lives
  <2> QED
    BY <2>2, <2>3, OutcomeRestore
<1>2. CASE ResolveTarget
  <2> DEFINE resolvedMy == [my EXCEPT !.resolved = TRUE]
  <2>1. /\ pc # "idle" /\ cur \in Restore /\ my \in RestoreObject /\ restore \in Restores
        /\ UNCHANGED <<job, cache>>
    BY <1>2 DEF ResolveTarget, RestoreTypeOK, ClusterTypeOK, ControllerTypeOK
  <2>2. restore[cur].life \in {"live", "deleting", "gone"}
    BY <2>1 DEF LockInv, CopyAgrees, Restores, RestoreObject, Lives
  <2>3. ASSUME PatchRestore(my, resolvedMy)
        PROVE  /\ \A r \in Restore : restore'[r].life = restore[r].life
               /\ \A r \in Restore \ {cur} : restore'[r] = restore[r]
               /\ restore'[cur].phase = restore[cur].phase
    <3>1. resolvedMy \in RestoreObject /\ resolvedMy.phase = my.phase
      BY <2>1 DEF RestoreObject
    <3> HIDE DEF resolvedMy
    <3> QED
      BY <2>1, <2>3, <3>1, PatchRestoreType
  <2>4. UNCHANGED restore \/ PatchRestore(my, resolvedMy)
    BY <1>2 DEF ResolveTarget
  <2>5. CASE UNCHANGED restore
    BY <2>1, <2>5, OutcomeQuiet
  <2> HIDE DEF resolvedMy
  <2> QED
    BY <2>1, <2>2, <2>3, <2>4, <2>5, OutcomeRestore
<1>3. CASE CreateJob
  <2>1. \A r \in Restore : job[r] = "complete" => job'[r] = "complete"
    BY <1>3 DEF CreateJob, RestoreTypeOK, ClusterTypeOK, Jobs
  <2> QED
    BY <1>3, <2>1, SeenJobLemma, OutcomeKept DEF CreateJob
<1>4. CASE UNCHANGED <<restore, job, cache>>
  BY <1>4, OutcomeQuiet
<1> QED
  BY <1>1, <1>2, <1>3, <1>4, OutcomePatches
  DEF CallStep, Finalization, FinalizeRelease, FinalizeResume, Pending, Locking,
      CreateLease, LeaseIsOurs, PauseReplication, Fencing, PauseAgain,
      AwaitPausedConfig, ScaleDown, Restoring, JobStillRuns, JobFailed, CleanupResume,
      Resuming, ResumeReplication, ScaleUp, ReleaseAfterScaleUp, stored

LEMMA OutcomeNext ==
  ASSUME TypeOK, LockInv, OutcomeInv, [Next]_system
  PROVE  OutcomeInv'
<1> USE DEF TypeOK
<1>1. ASSUME NEW r \in Restore, UpgradeInValidating(r) PROVE OutcomeInv'
  <2>1. /\ \A s \in Restore \ {r} : restore'[s] = restore[s]
        /\ restore[r].life = "live" /\ job[r] = "complete" /\ UNCHANGED <<job, cache>>
    BY <1>1 DEF UpgradeInValidating, RestoreTypeOK, ClusterTypeOK, Restores
  <2> QED
    BY <2>1, OutcomeRestore
<1>2. CASE \/ Abort \/ WorkloadReadFails \/ ReplicaStep
           \/ (\E r \in Restore : Begin(r)) \/ UNCHANGED system
  BY <1>2, OutcomeQuiet DEF Abort, WorkloadReadFails, ReplicaStep, ReadReplica,
     ReconcileLitestreamConfig, RenderingStops, Begin, stored, vars, system
<1> QED
  BY <1>1, <1>2, OutcomeCall, OutcomeEnvironment
  DEF Next, RestoreStep, ReconcilerStep

\* A Job that the cache shows as complete is complete for as long as its restore
\* lives, and no restore is past its Job before that: reconcileRestoring may
\* trust a cached Job that has succeeded.
THEOREM OutcomeInvariant ==
  ASSUME "restore" \notin Lagging
  PROVE  Spec => []OutcomeInv
<1>1. Init => OutcomeInv
  BY OutcomeInit
<1>2. TypeOK /\ LockInv /\ OutcomeInv /\ [Next]_system => OutcomeInv'
  BY OutcomeNext
<1> QED
  BY <1>1, <1>2, TypeCorrect, LockInvariant, PTL DEF Spec

\* A restore that resumes the application, or has completed, has had its data
\* written: its own Job succeeded, however late the cache shows a Job and
\* wherever calls were cut short (reconcileRestoring).
THEOREM CompletedIsRestored ==
  ASSUME "restore" \notin Lagging
  PROVE  Spec => []CompletedMeansRestored
<1>1. OutcomeInv => CompletedMeansRestored
  BY DEF OutcomeInv, CompletedMeansRestored
<1> QED
  BY <1>1, OutcomeInvariant, PTL
================================================================================
