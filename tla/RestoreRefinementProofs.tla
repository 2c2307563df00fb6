------------------------ MODULE RestoreRefinementProofs ------------------------
(***************************************************************************)
(* The Lease implements the lock of RestoreLock, for every set of restores,*)
(* every delay of the cached Lease and every loss of a call: each step of  *)
(* the system takes, enters, leaves or gives back the lock, or does none   *)
(* of it.  So two restores that fence the application or have their Job    *)
(* write the database are never there at a time.                           *)
(*                                                                         *)
(* Beside the restores themselves the operator must see their Jobs at once *)
(* ("job" \notin Lagging): a Job that the cache does not show yet fails    *)
(* its restore, which then gives back the Lease.                           *)
(***************************************************************************)
EXTENDS RestoreLockProofs

-----------------------------------------------------------------------------
(***************************************************************************)
(* JobInv is an invariant.                                                 *)
(***************************************************************************)

\* The part of JobInv that speaks of the objects, and not of the call.
RestoringHasJob ==
  \A r \in Restore : restore[r].life = "live" /\ restore[r].phase = "Restoring"
                       => restore[r].jobName /\ job[r] # "none"

LEMMA JobReturn ==
  ASSUME Return, RestoringHasJob'
  PROVE  JobInv'
BY DEF Return, NewRestore, JobInv, RestoringHasJob

\* A step that leaves restores and Jobs, and begins none of the steps of which
\* JobInv says more.
LEMMA JobContinue ==
  ASSUME JobInv, UNCHANGED <<restore, job>>, pc # "idle",
         Return \/ \E step \in Steps \ {"fence", "createJob", "restoringPhase"} : Continue(step)
  PROVE  JobInv'
<1>1. RestoringHasJob'
  BY DEF JobInv, RestoringHasJob
<1>2. ASSUME NEW step \in Steps \ {"fence", "createJob", "restoringPhase"}, Continue(step)
      PROVE  JobInv'
  BY <1>1, <1>2 DEF JobInv, RestoringHasJob, Continue
<1> QED
  BY <1>1, <1>2, JobReturn

LEMMA PatchJobName ==
  ASSUME restore \in Restores, cur \in Restore,
         NEW base \in RestoreObject, NEW new \in RestoreObject,
         PatchRestore(base, new)
  PROVE  restore'[cur].jobName = IF /\ restore[cur].life \in Present
                                    /\ new.jobName # base.jobName
                                 THEN new.jobName ELSE restore[cur].jobName
BY DEF PatchRestore, MergePatch, Restores, RestoreObject

\* setStatus never takes back the name of the Job, and stores it when it is told.
LEMMA SetStatusJobName ==
  ASSUME restore \in Restores, cur \in Restore, my \in RestoreObject,
         my.jobName => restore[cur].jobName,
         NEW conditions \in SUBSET Conditions, NEW phase \in Phases,
         NEW originalReplicas \in Nat \cup {Nil}, NEW jobName \in BOOLEAN,
         SetStatus(conditions, phase, originalReplicas, jobName)
  PROVE  /\ restore[cur].jobName => restore'[cur].jobName
         /\ jobName /\ restore[cur].life \in Present => restore'[cur].jobName
<1> DEFINE base == [my EXCEPT !.conditions = conditions]
           new  == [base EXCEPT
                 !.phase = phase,
                 !.jobName = base.jobName \/ jobName,
                 !.originalReplicas = IF base.originalReplicas = Nil
                                      THEN originalReplicas
                                      ELSE base.originalReplicas]
<1>1. base \in RestoreObject /\ base.jobName = my.jobName
  BY DEF RestoreObject
<1>2. new \in RestoreObject /\ new.jobName = (base.jobName \/ jobName)
  BY <1>1 DEF RestoreObject
<1>3. PatchRestore(base, new)
  BY DEF SetStatus
<1>4. base.jobName \in BOOLEAN /\ restore[cur].jobName \in BOOLEAN
  BY <1>1 DEF RestoreObject, Restores
<1> HIDE DEF base, new
<1>5. restore'[cur].jobName = IF /\ restore[cur].life \in Present
                                 /\ new.jobName # base.jobName
                              THEN new.jobName ELSE restore[cur].jobName
  BY <1>1, <1>2, <1>3, PatchJobName
<1> QED
  BY <1>1, <1>2, <1>4, <1>5

\* A call that ends with a status patch.
LEMMA JobStatus ==
  ASSUME RestoreTypeOK, JobInv, pc # "idle",
         NEW conditions \in SUBSET Conditions, NEW phase \in Phases,
         NEW originalReplicas \in Nat \cup {Nil}, NEW jobName \in BOOLEAN,
         SetStatus(conditions, phase, originalReplicas, jobName), Return, UNCHANGED job,
         phase = "Restoring" => jobName /\ (restore[cur].life = "live" => job[cur] # "none")
  PROVE  JobInv'
<1>1. cur \in Restore /\ restore \in Restores /\ my \in RestoreObject
  BY DEF RestoreTypeOK, ClusterTypeOK, ControllerTypeOK
<1>2. /\ \A r \in Restore : restore'[r].life = restore[r].life
      /\ \A r \in Restore \ {cur} : restore'[r] = restore[r]
      /\ restore'[cur].phase \in {restore[cur].phase, IF phase # my.phase THEN phase
                                                      ELSE restore[cur].phase}
  BY <1>1, SetStatusType
<1>3. /\ restore[cur].jobName => restore'[cur].jobName
      /\ jobName /\ restore[cur].life \in Present => restore'[cur].jobName
  BY <1>1, SetStatusJobName DEF JobInv
<1>4. RestoringHasJob'
  BY <1>1, <1>2, <1>3 DEF JobInv, RestoringHasJob, Present
<1> QED
  BY <1>4, JobReturn

LEMMA JobEnvironment ==
  ASSUME RestoreTypeOK, LockInv, JobInv, EnvironmentStep
  PROVE  JobInv'
<1>1. UNCHANGED call
  BY DEF EnvironmentStep
<1>2. ASSUME NEW r \in Restore, JobEnds(r) \/ CollectJob(r) PROVE JobInv'
  <2>1. /\ UNCHANGED restore
        /\ \A s \in Restore : restore[s].life = "live" /\ job[s] # "none" => job'[s] # "none"
    BY <1>2 DEF JobEnds, CollectJob, RestoreTypeOK, ClusterTypeOK, Jobs
  <2>2. pc # "idle" => cur \in Restore
    BY DEF RestoreTypeOK, ControllerTypeOK
  <2> QED
    BY <1>1, <2>1, <2>2 DEF JobInv, call, Steps
<1>3. ASSUME NEW r \in Restore, UserCreatesRestore(r) \/ UserDeletesRestore(r) PROVE JobInv'
  <2>1. /\ UNCHANGED job
        /\ \A s \in Restore : /\ restore'[s].phase = restore[s].phase
                              /\ restore'[s].jobName = restore[s].jobName
        /\ \A s \in Restore \ {r} : restore'[s] = restore[s]
        /\ restore'[r].life = "live" => restore[r].life = "unborn"
    BY <1>3 DEF UserCreatesRestore, UserDeletesRestore, RestoreTypeOK, ClusterTypeOK, Restores,
       RestoreObject
  <2>2. \A s \in Restore : restore[s].life = "unborn" => restore[s].phase = ""
    BY DEF LockInv, UnbornIsNew
  <2>3. pc # "idle" => /\ cur \in Restore /\ restore[cur].life # "unborn"
                       /\ my.phase = restore[cur].phase
    BY DEF RestoreTypeOK, ControllerTypeOK, LockInv, CopyAgrees
  <2> QED
    BY <1>1, <2>1, <2>2, <2>3 DEF JobInv, call, Steps
<1>4. ASSUME UNCHANGED <<restore, job>> PROVE JobInv'
  BY <1>1, <1>4 DEF JobInv, call
<1> QED
  BY <1>2, <1>3, <1>4
  DEF EnvironmentStep, KubernetesStep, UserStep, StartPod, DeletePod, PodExits, CollectLease,
      CollectConfig, SyncCache, stored, UserDeletesReplica, UserDisablesBackup,
      UserDeletesWorkload, UserScalesWorkload

LEMMA JobReconcile ==
  ASSUME RestoreTypeOK, LockInv, JobInv, "restore" \notin Lagging,
         Abort \/ WorkloadReadFails \/ \E r \in Restore : Begin(r)
  PROVE  JobInv'
<1>1. UNCHANGED <<restore, job>> /\ RestoringHasJob'
  BY DEF Abort, WorkloadReadFails, Begin, stored, JobInv, RestoringHasJob
<1>2. CASE Abort
  BY <1>1, <1>2, JobReturn DEF Abort
<1>3. CASE WorkloadReadFails
  <2>1. pc # "idle" /\ (Continue("fail") \/ Continue("release"))
    BY <1>3 DEF WorkloadReadFails
  <2> QED
    BY <1>1, <2>1, JobContinue DEF Steps
<1>4. ASSUME NEW r \in Restore, Begin(r) PROVE JobInv'
  <2>1. /\ cur' = r /\ my' = restore[r]
        /\ pc' = FirstStep(restore[r], SeenReplica)
    BY <1>4 DEF Begin, SeenRestore, Seen
  <2>2. /\ pc' = "fence" => restore[r].phase = "Fencing"
        /\ pc' \notin {"createJob", "restoringPhase"}
    BY <2>1 DEF FirstStep, PhaseStep
  <2> QED
    BY <1>1, <2>1, <2>2 DEF JobInv, RestoringHasJob
<1> QED
  BY <1>2, <1>3, <1>4

LEMMA JobFinalization ==
  ASSUME RestoreTypeOK, LockInv, JobInv, AddFinalizer \/ FailRestore \/ Finalization
  PROVE  JobInv'
<1>1. CASE AddFinalizer \/ RemoveFinalizer
  <2>1. /\ UNCHANGED job /\ Return
        /\ \A r \in Restore : /\ restore'[r].phase = restore[r].phase
                              /\ restore'[r].jobName = restore[r].jobName
                              /\ restore'[r].life = "live" => restore[r].life = "live"
    BY <1>1 DEF AddFinalizer, RemoveFinalizer, RestoreTypeOK, ClusterTypeOK, ControllerTypeOK,
       Restores, RestoreObject
  <2>2. RestoringHasJob'
    BY <2>1 DEF JobInv, RestoringHasJob
  <2> QED
    BY <2>1, <2>2, JobReturn
<1>2. CASE FailRestore
  BY <1>2, MyType, JobStatus DEF FailRestore, Phases
<1>3. CASE FinalizeRelease \/ FinalizeResume
  BY <1>3, JobContinue DEF FinalizeRelease, FinalizeResume, Steps
<1> QED
  BY <1>1, <1>2, <1>3 DEF Finalization

LEMMA JobPending ==
  ASSUME RestoreTypeOK, LockInv, JobInv, Pending
  PROVE  JobInv'
<1> DEFINE resolvedMy == [my EXCEPT !.resolved = TRUE]
<1>1. /\ pc # "idle" /\ cur \in Restore /\ my \in RestoreObject /\ restore \in Restores
      /\ my.phase \in {"", "Pending"} /\ restore[cur].phase = my.phase
  BY DEF Pending, ResolveTarget, EnterAcquiringLock, RestoreTypeOK, ClusterTypeOK,
     ControllerTypeOK, LockInv, CopyAgrees, StepFitsPhase
<1>2. CASE ResolveTarget
  <2>1. ASSUME PatchRestore(my, resolvedMy)
        PROVE  /\ \A r \in Restore : restore'[r].life = restore[r].life
               /\ \A r \in Restore \ {cur} : restore'[r] = restore[r]
               /\ restore'[cur].phase = restore[cur].phase
               /\ restore'[cur].jobName = restore[cur].jobName
    <3>1. /\ resolvedMy \in RestoreObject
          /\ resolvedMy.phase = my.phase /\ resolvedMy.jobName = my.jobName
      BY <1>1 DEF RestoreObject
    <3> HIDE DEF resolvedMy
    <3> QED
      BY <1>1, <2>1, <3>1, PatchRestoreType, PatchJobName
  <2>2. /\ \A r \in Restore : restore'[r].life = restore[r].life
        /\ \A r \in Restore \ {cur} : restore'[r] = restore[r]
        /\ restore'[cur].phase = restore[cur].phase
        /\ restore'[cur].jobName = restore[cur].jobName
        /\ UNCHANGED job
    BY <1>1, <1>2, <2>1 DEF ResolveTarget
  <2>3. RestoringHasJob'
    BY <1>1, <2>2 DEF JobInv, RestoringHasJob
  <2>4. CASE Return
    BY <2>3, <2>4, JobReturn
  <2>5. CASE Continue("fail")
    BY <1>1, <2>2, <2>3, <2>5 DEF JobInv, RestoringHasJob, Continue
  <2>6. CASE /\ pc' = IF cur \in InPlace THEN "lockPhase" ELSE "createJob"
             /\ my' = my \/ my' = restore'[cur]
             /\ UNCHANGED cur
    BY <1>1, <2>2, <2>3, <2>6 DEF JobInv, RestoringHasJob
  <2> QED
    BY <1>2, <2>4, <2>5, <2>6 DEF ResolveTarget
<1>3. CASE EnterAcquiringLock
  <2>1. (IF SeenWorkload.exists THEN SeenWorkload.replicas ELSE 0) \in Nat
    BY SeenType DEF RestoreTypeOK, WorkloadObject
  <2> QED
    BY <1>1, <1>3, <2>1, MyType, JobStatus DEF EnterAcquiringLock, Phases
<1> QED
  BY <1>2, <1>3 DEF Pending

LEMMA JobLocking ==
  ASSUME RestoreTypeOK, LockInv, JobInv, Locking
  PROVE  JobInv'
<1>1. CASE CreateLease \/ LeaseIsOurs \/ PauseReplication
  <2>1. /\ pc # "idle" /\ UNCHANGED <<restore, job>>
        /\ Return \/ Continue("pause") \/ Continue("fencingPhase")
    BY <1>1 DEF CreateLease, LeaseIsOurs, PauseReplication, stored
  <2> QED
    BY <2>1, JobContinue DEF Steps
<1>2. CASE LeaseIsHeld \/ EnterFencing
  BY <1>2, MyType, JobStatus DEF LeaseIsHeld, EnterFencing, Phases, Conditions
<1> QED
  BY <1>1, <1>2 DEF Locking

LEMMA JobFencing ==
  ASSUME RestoreTypeOK, LockInv, JobInv, Fencing
  PROVE  JobInv'
<1>1. CASE PauseAgain \/ AwaitPausedConfig
  BY <1>1, JobContinue DEF PauseAgain, AwaitPausedConfig, stored
<1>2. CASE ScaleDown
  <2>1. /\ pc = "fence" /\ my.phase = "Fencing" /\ UNCHANGED <<restore, job>>
        /\ Return \/ Continue("createJob")
    BY <1>2 DEF ScaleDown, JobInv
  <2>2. RestoringHasJob'
    BY <2>1 DEF JobInv, RestoringHasJob
  <2>3. CASE Continue("createJob")
    BY <2>1, <2>2, <2>3 DEF JobInv, RestoringHasJob, Continue
  <2> QED
    BY <2>1, <2>2, <2>3, JobReturn
<1>3. CASE CreateJob
  <2>1. /\ pc = "createJob" /\ Continue("restoringPhase") /\ UNCHANGED restore
        /\ cur \in Restore /\ job'[cur] # "none"
        /\ \A r \in Restore : job[r] # "none" => job'[r] # "none"
    BY <1>3 DEF CreateJob, RestoreTypeOK, ClusterTypeOK, ControllerTypeOK, Jobs
  <2> QED
    BY <2>1 DEF JobInv, Continue
<1>4. CASE EnterRestoring
  <2>1. (IF cur \in InPlace THEN my.conditions \cup {"ApplicationFenced"}
                            ELSE my.conditions) \in SUBSET Conditions
    BY MyType DEF Conditions
  <2>2. restore[cur].life = "live" => job[cur] # "none"
    BY <1>4 DEF EnterRestoring, JobInv
  <2> QED
    BY <1>4, <2>1, <2>2, MyType, JobStatus DEF EnterRestoring, Phases
<1> QED
  BY <1>1, <1>2, <1>3, <1>4 DEF Fencing

LEMMA JobRestoring ==
  ASSUME RestoreTypeOK, LockInv, JobInv, Restoring \/ Resuming
  PROVE  JobInv'
<1>1. CASE JobStillRuns \/ JobFailed \/ CleanupResume
  <2>1. /\ pc # "idle" /\ UNCHANGED <<restore, job>>
        /\ Return \/ Continue("cleanupResume") \/ Continue("cleanupFail")
    BY <1>1 DEF JobStillRuns, JobFailed, CleanupResume, stored
  <2> QED
    BY <2>1, JobContinue DEF Steps
<1>2. CASE ResumeReplication \/ ScaleUp \/ ReleaseAfterScaleUp
  <2>1. /\ pc # "idle" /\ UNCHANGED <<restore, job>>
        /\ Return \/ Continue("scaleUp") \/ Continue("release") \/ Continue("complete")
    BY <1>2 DEF ResumeReplication, ScaleUp, ReleaseAfterScaleUp
  <2> QED
    BY <2>1, JobContinue DEF Steps
<1>3. CASE JobSucceeded \/ CleanupFail
  BY <1>3, MyType, JobStatus DEF JobSucceeded, CleanupFail, Phases, Conditions
<1>4. CASE SkipValidation \/ Complete
  BY <1>4, MyType, JobStatus DEF SkipValidation, Complete, Phases, Conditions
<1> QED
  BY <1>1, <1>2, <1>3, <1>4 DEF Restoring, Resuming

LEMMA JobInvNext ==
  ASSUME TypeOK, LockInv, JobInv, "restore" \notin Lagging, [Next]_system
  PROVE  JobInv'
<1> USE DEF TypeOK
<1>1. CASE ReconcilerStep
  BY <1>1, JobReconcile, JobFinalization, JobPending, JobLocking, JobFencing, JobRestoring
  DEF ReconcilerStep, CallStep
<1>2. CASE ReplicaStep \/ UNCHANGED system
  <2>1. UNCHANGED <<restore, job, call>>
    BY <1>2 DEF ReplicaStep, ReadReplica, ReconcileLitestreamConfig, RenderingStops,
       system, vars, stored, call
  <2> QED
    BY <2>1 DEF call, JobInv
<1>3. ASSUME NEW r \in Restore, UpgradeInValidating(r) PROVE JobInv'
  <2>1. /\ pc' = "idle" /\ UNCHANGED job
        /\ \A s \in Restore \ {r} : restore'[s] = restore[s]
        /\ restore'[r].phase = "Validating"
    BY <1>3 DEF UpgradeInValidating, call, RestoreTypeOK, ClusterTypeOK, Restores, RestoreObject
  <2> QED
    BY <2>1 DEF JobInv
<1> QED
  BY <1>1, <1>2, <1>3, JobEnvironment DEF Next, RestoreStep

\* A restore in Restoring has a Job, whose name it has stored: reconcileFencing
\* creates the Job, and only then sets phase and jobName with one patch.
THEOREM JobInvariant ==
  ASSUME "restore" \notin Lagging
  PROVE  Spec => []JobInv
<1>1. Init => JobInv
  <2> SUFFICES ASSUME Init PROVE JobInv
    OBVIOUS
  <2>1. pc = "idle" /\ \A r \in Restore : restore[r].life = "unborn"
    BY DEF Init, ClusterInit, ControllerInit, NewRestore
  <2> QED
    BY <2>1 DEF JobInv
<1>2. TypeOK /\ LockInv /\ JobInv /\ [Next]_system => JobInv'
  BY JobInvNext
<1> QED
  BY <1>1, <1>2, TypeCorrect, LockInvariant, PTL DEF Spec

-----------------------------------------------------------------------------
(***************************************************************************)
(* Every step of the system is a step of the lock, or leaves it alone.     *)
(***************************************************************************)

LockStep == [Lock!Next]_<<lease, Critical>>

\* A step that changes one restore or its Job, and nothing of the Lease.
LEMMA OneRestore ==
  ASSUME NEW r \in Restore, UNCHANGED lease,
         \A s \in Restore \ {r} : restore'[s] = restore[s] /\ job'[s] = job[s],
         r \in Critical' => r \in Critical \/ lease = r
  PROVE  LockStep
<1>1. Critical \subseteq Restore /\ Critical' \subseteq Restore
  BY RestoreAssumption DEF Critical
<1>2. \A s \in Restore \ {r} : s \in Critical' <=> s \in Critical
  BY DEF Critical
<1>3. CASE r \in Critical /\ r \notin Critical'
  <2>1. Critical' = Critical \ {r}
    BY <1>1, <1>2, <1>3
  <2> QED
    BY <1>3, <2>1 DEF LockStep, Lock!Next, Lock!Leave
<1>4. CASE r \notin Critical /\ r \in Critical'
  <2>1. Critical' = Critical \cup {r}
    BY <1>1, <1>2, <1>4
  <2> QED
    BY <1>4, <2>1 DEF LockStep, Lock!Next, Lock!Enter
<1>5. CASE r \in Critical <=> r \in Critical'
  <2>1. Critical' = Critical
    BY <1>1, <1>2, <1>5
  <2> QED
    BY <2>1 DEF LockStep
<1> QED
  BY <1>3, <1>4, <1>5

\* A step that writes at most the Lease.
LEMMA OnlyLease ==
  ASSUME UNCHANGED <<restore, job>>
  PROVE  /\ UNCHANGED lease => LockStep
         /\ \A r \in Restore : lease = NoRestore /\ lease' = r => LockStep
         /\ \A r \in Restore : lease = r /\ r \notin Critical /\ lease' = NoRestore => LockStep
<1>1. Critical' = Critical
  BY DEF Critical
<1>2. UNCHANGED lease => LockStep
  BY <1>1 DEF LockStep
<1>3. ASSUME NEW r \in Restore, lease = NoRestore, lease' = r PROVE LockStep
  BY <1>1, <1>3 DEF LockStep, Lock!Next, Lock!Acquire
<1>4. ASSUME NEW r \in Restore, lease = r, r \notin Critical, lease' = NoRestore PROVE LockStep
  BY <1>1, <1>4 DEF LockStep, Lock!Next, Lock!Release
<1> QED
  BY <1>2, <1>3, <1>4

\* releaseRestoreLock of a restore that is not in the critical section.
LEMMA ReleaseStep ==
  ASSUME RestoreTypeOK, LockInv, pc # "idle", ReleaseRestoreLock,
         UNCHANGED <<restore, job>>, cur \notin Critical
  PROVE  LockStep
<1>1. cur \in Restore
  BY DEF RestoreTypeOK, ControllerTypeOK
<1>2. CASE lease' # lease
  <2>1. lease' = NoRestore /\ SeenLease = cur /\ lease # NoRestore
    BY <1>2 DEF ReleaseRestoreLock
  <2>2. lease = cur
    BY <1>1, <2>1, RestoreAssumption DEF LockInv, CacheBehind
  <2> QED
    BY <1>1, <2>1, <2>2, OnlyLease
<1> QED
  BY <1>2, OnlyLease

\* A status patch that does not bring the restore into the critical section.
LEMMA StatusStep ==
  ASSUME RestoreTypeOK, LockInv, pc # "idle",
         NEW conditions \in SUBSET Conditions, NEW phase \in Phases,
         NEW originalReplicas \in Nat \cup {Nil}, NEW jobName \in BOOLEAN,
         SetStatus(conditions, phase, originalReplicas, jobName), UNCHANGED <<lease, job>>,
         /\ cur \in InPlace /\ restore[cur].life = "live"
         /\ phase \in {"Fencing", "Restoring", "Validating"}
         => lease = cur \/ (my.phase = "Fencing" /\ phase # "Fencing")
  PROVE  LockStep
<1>1. cur \in Restore /\ restore \in Restores /\ my \in RestoreObject
  BY DEF RestoreTypeOK, ClusterTypeOK, ControllerTypeOK
<1>2. /\ \A r \in Restore : restore'[r].life = restore[r].life
      /\ \A r \in Restore \ {cur} : restore'[r] = restore[r]
      /\ restore'[cur].phase \in {restore[cur].phase, IF phase # my.phase THEN phase
                                                      ELSE restore[cur].phase}
  BY <1>1, SetStatusType
<1>3. my.phase = restore[cur].phase
  BY DEF LockInv, CopyAgrees
<1>4. cur \in Critical' => cur \in Critical \/ lease = cur
  <2>1. job' = job /\ restore'[cur].life = restore[cur].life
    BY <1>1, <1>2
  <2>2. CASE restore'[cur].phase = restore[cur].phase
    BY <2>1, <2>2 DEF Critical
  <2>3. CASE restore'[cur].phase = phase
    BY <1>3, <2>1, <2>3 DEF Critical
  <2> QED
    BY <1>2, <2>2, <2>3
<1> QED
  BY <1>1, <1>2, <1>4, OneRestore

LEMMA EnvironmentLockStep ==
  ASSUME RestoreTypeOK, LockInv, EnvironmentStep
  PROVE  LockStep
<1>1. ASSUME NEW r \in Restore, JobEnds(r) \/ CollectJob(r) PROVE LockStep
  <2>1. /\ UNCHANGED <<restore, lease>>
        /\ \A s \in Restore \ {r} : job'[s] = job[s]
        /\ r \in Critical' => r \in Critical
    BY <1>1 DEF JobEnds, CollectJob, Critical, RestoreTypeOK, ClusterTypeOK, Jobs
  <2> QED
    BY <2>1, OneRestore
<1>2. ASSUME NEW r \in Restore, UserCreatesRestore(r) PROVE LockStep
  <2>1. /\ UNCHANGED <<job, lease>>
        /\ \A s \in Restore \ {r} : restore'[s] = restore[s]
        /\ restore[r].life = "unborn" /\ restore'[r].phase = restore[r].phase
    BY <1>2 DEF UserCreatesRestore, RestoreTypeOK, ClusterTypeOK, Restores, RestoreObject
  <2>2. r \notin Critical'
    BY <2>1 DEF LockInv, UnbornIsNew, Critical
  <2> QED
    BY <2>1, <2>2, OneRestore
<1>3. ASSUME NEW r \in Restore, UserDeletesRestore(r) PROVE LockStep
  <2>1. /\ UNCHANGED <<job, lease>>
        /\ \A s \in Restore \ {r} : restore'[s] = restore[s]
        /\ restore'[r].life # "live"
    BY <1>3 DEF UserDeletesRestore, RestoreTypeOK, ClusterTypeOK, Restores, RestoreObject
  <2> QED
    BY <2>1, OneRestore DEF Critical
<1>4. CASE CollectLease
  <2>1. /\ lease \in Restore /\ lease \notin Critical /\ lease' = NoRestore
        /\ UNCHANGED <<restore, job>>
    BY <1>4 DEF CollectLease, Critical, RestoreTypeOK, ClusterTypeOK, Holder
  <2> QED
    BY <2>1, OnlyLease
<1>5. CASE UNCHANGED <<restore, lease, job>>
  BY <1>5, OnlyLease
<1> QED
  BY <1>1, <1>2, <1>3, <1>4, <1>5
  DEF EnvironmentStep, KubernetesStep, UserStep, StartPod, DeletePod, PodExits,
      CollectConfig, SyncCache, stored, UserDeletesReplica, UserDisablesBackup,
      UserDeletesWorkload, UserScalesWorkload

LEMMA FinalizationLockStep ==
  ASSUME RestoreTypeOK, LockInv, AddFinalizer \/ FailRestore \/ Finalization
  PROVE  LockStep
<1>1. pc # "idle" /\ cur \in Restore
  BY DEF AddFinalizer, FailRestore, Finalization, FinalizeRelease, FinalizeResume,
     RemoveFinalizer, RestoreTypeOK, ControllerTypeOK
<1>2. CASE AddFinalizer \/ RemoveFinalizer
  <2>1. /\ UNCHANGED <<job, lease>>
        /\ \A s \in Restore \ {cur} : restore'[s] = restore[s]
        /\ restore'[cur].phase = restore[cur].phase
        /\ restore'[cur].life = "live" => restore[cur].life = "live"
    BY <1>1, <1>2 DEF AddFinalizer, RemoveFinalizer, RestoreTypeOK, ClusterTypeOK, Restores,
       RestoreObject
  <2> QED
    BY <1>1, <2>1, OneRestore DEF Critical
<1>3. CASE FailRestore
  BY <1>3, MyType, StatusStep DEF FailRestore, Phases
<1>4. CASE FinalizeRelease
  <2>1. cur \notin Critical
    BY <1>4 DEF FinalizeRelease, LockInv, StepFitsPhase, CopyAgrees, Critical
  <2> QED
    BY <1>1, <1>4, <2>1, ReleaseStep, OnlyLease DEF FinalizeRelease
<1>5. CASE FinalizeResume
  BY <1>5, OnlyLease DEF FinalizeResume
<1> QED
  BY <1>2, <1>3, <1>4, <1>5 DEF Finalization

LEMMA EarlyLockStep ==
  ASSUME RestoreTypeOK, LockInv, Pending \/ Locking
  PROVE  LockStep
<1>1. /\ pc # "idle" /\ cur \in Restore /\ my \in RestoreObject /\ restore \in Restores
      /\ my.phase = restore[cur].phase /\ my.phase \in EarlyPhases
  BY DEF Pending, ResolveTarget, EnterAcquiringLock, Locking, CreateLease, LeaseIsOurs,
     LeaseIsHeld, PauseReplication, EnterFencing, RestoreTypeOK, ClusterTypeOK,
     ControllerTypeOK, LockInv, CopyAgrees, StepFitsPhase, EarlyPhases
<1>2. CASE ResolveTarget
  <2> DEFINE resolvedMy == [my EXCEPT !.resolved = TRUE]
  <2>1. resolvedMy \in RestoreObject /\ resolvedMy.phase = my.phase
    BY <1>1 DEF RestoreObject
  <2>2. CASE PatchRestore(my, resolvedMy)
    <3>1. UNCHANGED <<lease, job>>
      BY <1>2 DEF ResolveTarget
    <3> HIDE DEF resolvedMy
    <3>2. /\ \A r \in Restore \ {cur} : restore'[r] = restore[r]
          /\ restore'[cur].phase = restore[cur].phase
      BY <1>1, <2>1, <2>2, PatchRestoreType
    <3> QED
      BY <1>1, <3>1, <3>2, OneRestore DEF Critical, EarlyPhases
  <2> QED
    BY <1>2, <2>2, OnlyLease DEF ResolveTarget
<1>3. CASE EnterAcquiringLock
  <2>1. (IF SeenWorkload.exists THEN SeenWorkload.replicas ELSE 0) \in Nat
    BY SeenType DEF RestoreTypeOK, WorkloadObject
  <2> QED
    BY <1>1, <1>3, <2>1, MyType, StatusStep DEF EnterAcquiringLock, Phases
<1>4. CASE CreateLease \/ LeaseIsOurs \/ PauseReplication
  <2>1. /\ UNCHANGED <<restore, job>>
        /\ UNCHANGED lease \/ (lease = NoRestore /\ lease' = cur)
    BY <1>4 DEF CreateLease, LeaseIsOurs, PauseReplication, stored
  <2> QED
    BY <1>1, <2>1, OnlyLease
<1>5. CASE LeaseIsHeld
  BY <1>1, <1>5, MyType, StatusStep DEF LeaseIsHeld, Phases, Conditions
<1>6. CASE EnterFencing
  <2>1. restore[cur].life = "live" => lease = cur
    BY <1>6 DEF EnterFencing, LockInv, HolderEntersFencing
  <2> QED
    BY <1>1, <1>6, <2>1, MyType, StatusStep DEF EnterFencing, Phases, Conditions
<1> QED
  BY <1>2, <1>3, <1>4, <1>5, <1>6 DEF Pending, Locking

LEMMA FencingLockStep ==
  ASSUME RestoreTypeOK, LockInv, JobInv, Fencing
  PROVE  LockStep
<1>1. CASE PauseAgain \/ AwaitPausedConfig \/ ScaleDown
  BY <1>1, OnlyLease DEF PauseAgain, AwaitPausedConfig, ScaleDown, stored
<1>2. CASE CreateJob
  <2>1. /\ cur \in Restore /\ pc = "createJob" /\ UNCHANGED <<restore, lease>>
        /\ \A s \in Restore \ {cur} : job'[s] = job[s]
    BY <1>2 DEF CreateJob, RestoreTypeOK, ClusterTypeOK, ControllerTypeOK, Jobs
  <2>2. cur \in InPlace => restore[cur].phase = "Fencing"
    BY <2>1 DEF JobInv, LockInv, CopyAgrees
  <2> QED
    BY <2>1, <2>2, OneRestore DEF Critical
<1>3. CASE EnterRestoring
  <2>1. (IF cur \in InPlace THEN my.conditions \cup {"ApplicationFenced"}
                            ELSE my.conditions) \in SUBSET Conditions
    BY MyType DEF Conditions
  <2>2. cur \in InPlace => my.phase = "Fencing"
    BY <1>3 DEF EnterRestoring, JobInv
  <2> QED
    BY <1>3, <2>1, <2>2, MyType, StatusStep DEF EnterRestoring, Phases
<1> QED
  BY <1>1, <1>2, <1>3 DEF Fencing

\* reconcileRestoring gives the Lease back when it finds its Job failed, or does
\* not find it; JobInv says that the second cannot be.
LEMMA RestoringLockStep ==
  ASSUME RestoreTypeOK, LockInv, JobInv, "job" \notin Lagging, Restoring
  PROVE  LockStep
<1>1. CASE JobStillRuns \/ CleanupResume
  BY <1>1, OnlyLease DEF JobStillRuns, CleanupResume, stored
<1>2. CASE JobFailed
  <2>1. /\ pc = "restoring" /\ JobSeen \in {"failed", "none"} /\ cur \in Restore
        /\ my.phase = "Restoring" /\ restore[cur].phase = "Restoring"
        /\ UNCHANGED <<restore, job>>
    BY <1>2 DEF JobFailed, RestoreTypeOK, ControllerTypeOK, LockInv, StepFitsPhase, CopyAgrees
  <2>2. SeenJob = job
    BY DEF SeenJob, Seen
  <2>3. restore[cur].life = "live" => job[cur] = "failed"
    BY <2>1, <2>2 DEF JobSeen, JobInv
  <2>4. cur \notin Critical
    BY <2>1, <2>3 DEF Critical
  <2> QED
    BY <1>2, <2>1, <2>4, ReleaseStep, OnlyLease DEF JobFailed
<1>3. CASE JobSucceeded \/ CleanupFail
  BY <1>3, MyType, StatusStep DEF JobSucceeded, CleanupFail, Phases, Conditions
<1>4. CASE SkipValidation
  BY <1>4, MyType, StatusStep DEF SkipValidation, Phases
<1> QED
  BY <1>1, <1>2, <1>3, <1>4 DEF Restoring

LEMMA ResumingLockStep ==
  ASSUME RestoreTypeOK, LockInv, Resuming
  PROVE  LockStep
<1>1. CASE ResumeReplication \/ ScaleUp
  BY <1>1, OnlyLease DEF ResumeReplication, ScaleUp
<1>2. CASE ReleaseAfterScaleUp
  <2>1. pc # "idle" /\ restore[cur].phase = "Resuming"
    BY <1>2 DEF ReleaseAfterScaleUp, LockInv, StepFitsPhase, CopyAgrees
  <2> QED
    BY <1>2, <2>1, ReleaseStep DEF ReleaseAfterScaleUp, Critical
<1>3. CASE Complete
  BY <1>3, MyType, StatusStep DEF Complete, Phases, Conditions
<1> QED
  BY <1>1, <1>2, <1>3 DEF Resuming

LEMMA EveryStepIsALockStep ==
  ASSUME TypeOK, LockInv, JobInv, "job" \notin Lagging, [Next]_system
  PROVE  LockStep
<1> USE DEF TypeOK
<1>1. CASE CallStep
  BY <1>1, FinalizationLockStep, EarlyLockStep, FencingLockStep, RestoringLockStep,
     ResumingLockStep DEF CallStep
<1>2. CASE Abort \/ WorkloadReadFails \/ \E r \in Restore : Begin(r)
  BY <1>2, OnlyLease DEF Abort, WorkloadReadFails, Begin, stored
<1>3. CASE ReplicaStep \/ UNCHANGED system
  BY <1>3, OnlyLease DEF ReplicaStep, ReadReplica, ReconcileLitestreamConfig,
     RenderingStops, system, vars, stored
<1>4. ASSUME NEW r \in Restore, UpgradeInValidating(r) PROVE LockStep
  <2>1. /\ UNCHANGED <<job, lease>>
        /\ \A s \in Restore \ {r} : restore'[s] = restore[s]
        /\ r \in Critical' => r \in Critical
    BY <1>4 DEF UpgradeInValidating, Critical, RestoreTypeOK, ClusterTypeOK, Restores
  <2> QED
    BY <2>1, OneRestore
<1> QED
  BY <1>1, <1>2, <1>3, <1>4, EnvironmentLockStep DEF Next, RestoreStep, ReconcilerStep

-----------------------------------------------------------------------------
(***************************************************************************)
(* The theorems.                                                           *)
(***************************************************************************)

\* The Lease implements the lock.  reconcileAcquiringLock never takes it over,
\* releaseRestoreLock never gives it back under a restore that still fences the
\* application or has its Job write the database.
THEOREM LeaseIsALock ==
  ASSUME "restore" \notin Lagging, "job" \notin Lagging
  PROVE  Spec => ImplementsRestoreLock
<1>1. Init => Lock!Init
  <2> SUFFICES ASSUME Init PROVE lease = NoRestore /\ Critical = {}
    BY DEF Lock!Init
  <2>1. lease = NoRestore /\ \A r \in Restore : restore[r].life = "unborn"
    BY DEF Init, ClusterInit, NewRestore
  <2> QED
    BY <2>1, RestoreAssumption DEF Critical
<1>2. TypeOK /\ LockInv /\ JobInv /\ [Next]_system => [Lock!Next]_<<lease, Critical>>
  BY EveryStepIsALockStep DEF LockStep
<1> QED
  BY <1>1, <1>2, TypeCorrect, LockInvariant, JobInvariant, PTL
  DEF Spec, ImplementsRestoreLock, Lock!Spec

\* A restore holds the Lease from Fencing until its Job has failed, its restore
\* is complete, or somebody deletes it: it follows from the lock alone.
THEOREM RestoringIsLocked ==
  ASSUME "restore" \notin Lagging, "job" \notin Lagging
  PROVE  Spec => []RestoringHoldsLock
<1>1. Lock!Init => RestoringHoldsLock
  BY DEF Lock!Init, RestoringHoldsLock
<1>2. RestoringHoldsLock /\ [Lock!Next]_<<lease, Critical>> => RestoringHoldsLock'
  <2> SUFFICES ASSUME RestoringHoldsLock, [Lock!Next]_<<lease, Critical>>
               PROVE  \A r \in Critical' : lease' = r
    BY DEF RestoringHoldsLock
  <2>1. ASSUME NEW r \in Restore,
               Lock!Acquire(r) \/ Lock!Enter(r) \/ Lock!Leave(r) \/ Lock!Release(r)
        PROVE  \A s \in Critical' : lease' = s
    <3>1. Critical \subseteq Restore
      BY RestoreAssumption DEF Critical
    <3> QED
      BY <2>1, <3>1, RestoreAssumption
      DEF RestoringHoldsLock, Lock!Acquire, Lock!Enter, Lock!Leave, Lock!Release
  <2> QED
    BY <2>1 DEF Lock!Next, RestoringHoldsLock
<1> QED
  BY <1>1, <1>2, LeaseIsALock, PTL DEF ImplementsRestoreLock, Lock!Spec
===============================================================================
