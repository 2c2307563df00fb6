--------------------------- MODULE RestoreLockProofs ---------------------------
(***************************************************************************)
(* The lock of the restores, for every set of restores, every delay of the *)
(* Lease's cached copy and every loss of a call: the theorems say that a   *)
(* restore which fences the application holds the Lease, and that no       *)
(* restore releases the Lease of another.                                  *)
(*                                                                         *)
(* They assume that the operator sees its own status writes in the next    *)
(* call for the same restore ("restore" \notin Lagging).                   *)
(***************************************************************************)
EXTENDS RestoreProofs

\* What a step does to the copies of the Lease in the cache.
LEMMA SeenLeaseLemma ==
  /\ UNCHANGED <<lease, cache>> => SeenLease' = SeenLease
  /\ UNCHANGED cache => SeenLease' = SeenLease \/ SeenLease' = lease'
BY DEF SeenLease, Seen

\* The part of LockInv that speaks of the objects, and not of the call.
ObjectInv == CacheBehind /\ EarlyHolder /\ UnbornIsNew /\ FencingHoldsLock

\* The part that speaks of the call holds when there is none.
LEMMA IdleInv ==
  ASSUME pc = "idle", ObjectInv
  PROVE  LockInv
BY DEF ObjectInv, LockInv, CopyAgrees, StepFitsPhase, HolderEntersFencing

LEMMA ReturnInv ==
  ASSUME Return, ObjectInv'
  PROVE  LockInv'
BY DEF Return, ObjectInv, LockInv, CopyAgrees, StepFitsPhase, HolderEntersFencing

\* A step that changes neither restores nor Lease keeps what is said of them.
LEMMA QuietInv ==
  ASSUME LockInv, UNCHANGED <<restore, lease, cache>>
  PROVE  ObjectInv'
BY SeenLeaseLemma DEF LockInv, ObjectInv, CacheBehind, EarlyHolder, UnbornIsNew,
   FencingHoldsLock, InPhase

\* A step within a call that keeps the restores.
LEMMA ContinueInv ==
  ASSUME LockInv, pc # "idle", UNCHANGED restore, ObjectInv',
         NEW step, Continue(step), StepFitsPhase',
         step \in {"pause", "fencingPhase"} /\ restore[cur].life = "live" => lease' = cur
  PROVE  LockInv'
BY DEF LockInv, ObjectInv, Continue, CopyAgrees, HolderEntersFencing

\* A step that patches the restore of the call and does not bring it back to a
\* phase before the lock, nor into Fencing without the lock.
LEMMA PatchInv ==
  ASSUME RestoreTypeOK, LockInv, cur \in Restore, pc # "idle",
         restore' \in Restores,
         \A r \in Restore : restore'[r].life = restore[r].life,
         \A r \in Restore \ {cur} : restore'[r] = restore[r],
         NEW phase,
         restore'[cur].phase \in {restore[cur].phase, phase},
         phase \in EarlyPhases => restore[cur].phase \in EarlyPhases,
         phase = "Fencing" => restore[cur].phase = "Fencing"
                              \/ (restore[cur].life = "live" => lease = cur),
         UNCHANGED <<lease, cache>>
  PROVE  ObjectInv'
<1>1. CacheBehind'
  BY SeenLeaseLemma DEF LockInv, CacheBehind
<1>2. EarlyHolder'
  BY SeenLeaseLemma DEF LockInv, EarlyHolder
<1>3. UnbornIsNew'
  <2>1. restore[cur].life # "unborn"
    BY DEF LockInv, CopyAgrees
  <2> QED
    BY <2>1 DEF LockInv, UnbornIsNew
<1>4. FencingHoldsLock'
  <2> SUFFICES ASSUME NEW r \in InPlace,
                      restore'[r].life = "live", restore'[r].phase = "Fencing"
               PROVE  lease' = r
    BY DEF FencingHoldsLock, InPhase
  <2>1. r \in Restore
    BY RestoreAssumption
  <2>2. restore[r].life = "live" /\ restore[r].phase = "Fencing" => lease = r
    BY DEF LockInv, FencingHoldsLock, InPhase
  <2> QED
    BY <2>1, <2>2
<1> QED
  BY <1>1, <1>2, <1>3, <1>4 DEF ObjectInv

\* Every call that ends with a status patch.
LEMMA SetStatusInv ==
  ASSUME RestoreTypeOK, LockInv, pc # "idle",
         NEW conditions \in SUBSET Conditions, NEW phase \in Phases,
         NEW originalReplicas \in Nat \cup {Nil}, NEW jobName \in BOOLEAN,
         SetStatus(conditions, phase, originalReplicas, jobName), Return,
         phase \in EarlyPhases => my.phase \in EarlyPhases,
         phase = "Fencing" => (restore[cur].life = "live" => lease = cur),
         UNCHANGED <<lease, cache>>
  PROVE  LockInv'
<1>1. cur \in Restore /\ restore \in Restores /\ my \in RestoreObject
  BY DEF RestoreTypeOK, ClusterTypeOK, ControllerTypeOK
<1>2. /\ restore' \in Restores
      /\ \A r \in Restore : restore'[r].life = restore[r].life
      /\ \A r \in Restore \ {cur} : restore'[r] = restore[r]
      /\ restore'[cur].phase \in {restore[cur].phase, phase}
  <2>1. restore'[cur].phase \in {restore[cur].phase, IF phase # my.phase THEN phase
                                                     ELSE restore[cur].phase}
    BY <1>1, SetStatusType
  <2> QED
    BY <1>1, <2>1, SetStatusType
<1>3. my.phase = restore[cur].phase
  BY DEF LockInv, CopyAgrees
<1>4. ObjectInv'
  BY <1>1, <1>2, <1>3, PatchInv
<1> QED
  BY <1>4, ReturnInv

\* releaseRestoreLock, by a restore that is past Fencing or being deleted.
LEMMA ReleaseInv ==
  ASSUME RestoreTypeOK, LockInv, pc # "idle", ReleaseRestoreLock, UNCHANGED <<restore, cache>>,
         \/ restore[cur].life # "live"
         \/ restore[cur].phase \notin EarlyPhases \cup {"Fencing"}
  PROVE  ObjectInv'
<1>1. CASE lease' = lease
  BY <1>1, QuietInv
<1>2. CASE lease' # lease
  <2>1. lease' = NoRestore /\ SeenLease = cur /\ lease # NoRestore
    BY <1>2 DEF ReleaseRestoreLock
  <2>2. cur \in Restore /\ restore[cur].life # "unborn"
    BY DEF RestoreTypeOK, ControllerTypeOK, LockInv, CopyAgrees
  <2>3. lease = cur
    BY <2>1, <2>2, RestoreAssumption DEF LockInv, CacheBehind
  <2>4. SeenLease' \in {cur, NoRestore}
    BY <2>1, SeenLeaseLemma
  <2>5. CacheBehind' /\ UnbornIsNew'
    BY <2>1 DEF LockInv, CacheBehind, UnbornIsNew
  <2>6. EarlyHolder'
    BY <2>2, <2>4, RestoreAssumption DEF EarlyHolder
  <2>7. FencingHoldsLock'
    BY <2>3 DEF LockInv, FencingHoldsLock, InPhase
  <2> QED
    BY <2>5, <2>6, <2>7 DEF ObjectInv
<1> QED
  BY <1>1, <1>2

-----------------------------------------------------------------------------
(***************************************************************************)
(* One lemma for each group of actions.                                    *)
(***************************************************************************)

LEMMA LockInvInit == Init => LockInv
<1> SUFFICES ASSUME Init PROVE LockInv
  OBVIOUS
<1>1. /\ pc = "idle" /\ lease = NoRestore
      /\ \A r \in Restore : restore[r].life = "unborn" /\ restore[r].phase = ""
  BY DEF Init, ClusterInit, ControllerInit, NewRestore
<1>2. SeenLease = NoRestore
  BY DEF Init, ClusterInit, SeenLease, Seen
<1> QED
  BY <1>1, <1>2, IdleInv, RestoreAssumption
  DEF ObjectInv, CacheBehind, EarlyHolder, UnbornIsNew, FencingHoldsLock, InPhase

LEMMA EnvironmentLock ==
  ASSUME RestoreTypeOK, LockInv, EnvironmentStep
  PROVE  LockInv'
<1> USE DEF LockInv
<1>1. UNCHANGED call
  BY DEF EnvironmentStep
<1>2. StepFitsPhase'
  BY <1>1 DEF StepFitsPhase, call
<1>3. ASSUME UNCHANGED <<restore, lease, cache>> PROVE LockInv'
  BY <1>1, <1>2, <1>3, QuietInv
  DEF ObjectInv, call, CopyAgrees, HolderEntersFencing
<1>4. CASE CollectLease
  <2>1. /\ lease # NoRestore /\ restore[lease].life = "gone" /\ lease' = NoRestore
        /\ UNCHANGED <<restore, cache>>
    BY <1>4 DEF CollectLease
  <2>2. CacheBehind' /\ UnbornIsNew' /\ CopyAgrees'
    BY <1>1, <2>1 DEF CacheBehind, UnbornIsNew, CopyAgrees, call
  <2>3. EarlyHolder'
    BY <2>1, SeenLeaseLemma, RestoreAssumption DEF EarlyHolder
  <2>4. HolderEntersFencing'
    BY <1>1, <2>1 DEF HolderEntersFencing, call
  <2>5. FencingHoldsLock'
    BY <2>1 DEF FencingHoldsLock, InPhase
  <2> QED
    BY <1>2, <2>2, <2>3, <2>4, <2>5
<1>5. ASSUME NEW kind \in CacheKinds, SyncCache(kind) PROVE LockInv'
  <2>1. UNCHANGED <<restore, lease>>
    BY <1>5 DEF SyncCache, stored
  <2>2. SeenLease' = SeenLease \/ SeenLease' = lease'
    BY <1>5, <2>1 DEF SyncCache, SeenLease, Seen, CacheKinds, RestoreTypeOK, ClusterTypeOK,
       CacheObject
  <2>3. CacheBehind' /\ EarlyHolder' /\ UnbornIsNew' /\ FencingHoldsLock'
    BY <2>1, <2>2 DEF CacheBehind, EarlyHolder, UnbornIsNew, FencingHoldsLock, InPhase
  <2>4. CopyAgrees' /\ HolderEntersFencing'
    BY <1>1, <2>1 DEF CopyAgrees, HolderEntersFencing, call
  <2> QED
    BY <1>2, <2>3, <2>4
<1>6. ASSUME NEW r \in Restore, UserCreatesRestore(r) \/ UserDeletesRestore(r)
      PROVE LockInv'
  <2>1. UNCHANGED <<lease, cache>> /\ SeenLease' = SeenLease
    BY <1>6, SeenLeaseLemma DEF UserCreatesRestore, UserDeletesRestore
  <2>2. /\ \A s \in Restore : restore'[s].phase = restore[s].phase
        /\ \A s \in Restore \ {r} : restore'[s] = restore[s]
        /\ \/ restore[r].life = "unborn" /\ restore'[r].life = "live"
           \/ restore[r].life = "live" /\ restore'[r].life \in {"deleting", "gone"}
    BY <1>6 DEF UserCreatesRestore, UserDeletesRestore, RestoreTypeOK, ClusterTypeOK, Restores,
       RestoreObject
  <2>3. CacheBehind' /\ EarlyHolder' /\ UnbornIsNew'
    BY <2>1, <2>2 DEF CacheBehind, EarlyHolder, UnbornIsNew
  <2>4. pc # "idle" => cur \in Restore
    BY DEF RestoreTypeOK, ControllerTypeOK
  <2>5. CopyAgrees' /\ HolderEntersFencing'
    BY <1>1, <2>1, <2>2, <2>4 DEF CopyAgrees, HolderEntersFencing, call
  <2>6. FencingHoldsLock'
    BY <2>1, <2>2, RestoreAssumption DEF FencingHoldsLock, UnbornIsNew, InPhase
  <2> QED
    BY <1>2, <2>3, <2>5, <2>6
<1> QED
  BY <1>3, <1>4, <1>5, <1>6
  DEF EnvironmentStep, KubernetesStep, UserStep, StartPod, DeletePod, PodExits, JobEnds,
      CollectJob, CollectConfig, UserDeletesReplica, UserDisablesBackup,
      UserDeletesWorkload, UserScalesWorkload

LEMMA BeginLock ==
  ASSUME RestoreTypeOK, LockInv, "restore" \notin Lagging, NEW r \in Restore, Begin(r)
  PROVE  LockInv'
<1>1. /\ cur' = r /\ my' = restore[r] /\ pc' = FirstStep(restore[r], SeenReplica)
      /\ restore[r].life \in Present /\ UNCHANGED <<restore, lease, cache>>
      /\ pc' # "idle"
  BY DEF Begin, SeenRestore, Seen, stored
<1>2. ObjectInv'
  BY <1>1, QuietInv
<1>3. CopyAgrees'
  BY <1>1 DEF CopyAgrees, Present
<1>4. StepFitsPhase' /\ HolderEntersFencing'
  BY <1>1 DEF FirstStep, PhaseStep, StepFitsPhase, HolderEntersFencing, Terminal
<1> QED
  BY <1>2, <1>3, <1>4 DEF LockInv, ObjectInv

LEMMA AbortLock ==
  ASSUME LockInv, Abort
  PROVE  LockInv'
BY QuietInv, ReturnInv DEF Abort, stored

LEMMA WorkloadReadFailsLock ==
  ASSUME LockInv, WorkloadReadFails
  PROVE  LockInv'
<1>1. pc # "idle" /\ UNCHANGED <<restore, lease, cache>>
  BY DEF WorkloadReadFails, stored
<1>2. \/ Continue("fail")
      \/ Continue("release") /\ pc = "scaleUp"
  BY DEF WorkloadReadFails
<1>3. StepFitsPhase'
  BY <1>2 DEF LockInv, StepFitsPhase, Continue
<1> QED
  BY <1>1, <1>2, <1>3, QuietInv, ContinueInv

LEMMA FinalizationLock ==
  ASSUME RestoreTypeOK, LockInv, AddFinalizer \/ FailRestore \/ Finalization
  PROVE  LockInv'
<1>1. pc # "idle" /\ cur \in Restore /\ restore[cur].life # "unborn"
  BY DEF AddFinalizer, FailRestore, Finalization, FinalizeRelease, FinalizeResume,
     RemoveFinalizer, RestoreTypeOK, ControllerTypeOK, LockInv, CopyAgrees
<1>2. CASE AddFinalizer
  <2>1. /\ \A r \in Restore : /\ restore'[r].life = restore[r].life
                              /\ restore'[r].phase = restore[r].phase
        /\ UNCHANGED <<lease, cache>> /\ SeenLease' = SeenLease
    BY <1>1, <1>2, SeenLeaseLemma DEF AddFinalizer, RestoreTypeOK, ClusterTypeOK, Restores,
       RestoreObject
  <2>2. ObjectInv'
    BY <2>1, RestoreAssumption DEF LockInv, ObjectInv, CacheBehind, EarlyHolder,
       UnbornIsNew, FencingHoldsLock, InPhase
  <2> QED
    BY <1>2, <2>2, ReturnInv DEF AddFinalizer
<1>3. CASE FailRestore
  BY <1>3, MyType, SetStatusInv DEF FailRestore, Phases, EarlyPhases
<1>4. CASE FinalizeRelease
  <2>1. restore[cur].life # "live"
    BY <1>4 DEF FinalizeRelease, LockInv, StepFitsPhase, CopyAgrees
  <2>2. ObjectInv'
    BY <1>1, <1>4, <2>1, ReleaseInv, QuietInv DEF FinalizeRelease
  <2>3. Continue("finalizeResume") \/ Continue("removeFinalizer")
    BY <1>4 DEF FinalizeRelease
  <2>4. StepFitsPhase'
    BY <1>4, <2>3 DEF FinalizeRelease, LockInv, StepFitsPhase, Continue
  <2> QED
    BY <1>1, <1>4, <2>2, <2>3, <2>4, ContinueInv DEF FinalizeRelease
<1>5. CASE FinalizeResume
  <2>1. StepFitsPhase'
    BY <1>5 DEF FinalizeResume, LockInv, StepFitsPhase, Continue
  <2> QED
    BY <1>1, <1>5, <2>1, QuietInv, ContinueInv DEF FinalizeResume
<1>6. CASE RemoveFinalizer
  <2>1. /\ \A r \in Restore \ {cur} : restore'[r] = restore[r]
        /\ restore'[cur].phase = restore[cur].phase
        /\ restore'[cur].life \in {restore[cur].life, "gone"}
        /\ UNCHANGED <<lease, cache>> /\ SeenLease' = SeenLease
    BY <1>1, <1>6, SeenLeaseLemma DEF RemoveFinalizer, RestoreTypeOK, ClusterTypeOK, Restores,
       RestoreObject
  <2>2. CacheBehind' /\ EarlyHolder' /\ UnbornIsNew'
    BY <2>1 DEF LockInv, CacheBehind, EarlyHolder, UnbornIsNew
  <2>3. FencingHoldsLock'
    BY <2>1, RestoreAssumption DEF LockInv, FencingHoldsLock, InPhase
  <2> QED
    BY <1>6, <2>2, <2>3, ReturnInv DEF RemoveFinalizer, ObjectInv
<1> QED
  BY <1>2, <1>3, <1>4, <1>5, <1>6 DEF Finalization

LEMMA PendingLock ==
  ASSUME RestoreTypeOK, LockInv, Pending
  PROVE  LockInv'
<1> DEFINE resolvedMy == [my EXCEPT !.resolved = TRUE]
<1>1. pc # "idle" /\ cur \in Restore /\ my \in RestoreObject /\ restore \in Restores
  BY DEF Pending, ResolveTarget, EnterAcquiringLock, RestoreTypeOK, ClusterTypeOK,
     ControllerTypeOK
<1>2. my.phase = restore[cur].phase /\ my.phase \in EarlyPhases
      /\ restore[cur].life # "unborn"
  BY <1>1 DEF Pending, ResolveTarget, EnterAcquiringLock, LockInv, CopyAgrees,
     StepFitsPhase, EarlyPhases
<1>3. CASE ResolveTarget
  <2>1. UNCHANGED <<lease, cache>>
    BY <1>3 DEF ResolveTarget
  <2>2. ASSUME PatchRestore(my, resolvedMy)
        PROVE  /\ restore' \in Restores
               /\ \A r \in Restore : restore'[r].life = restore[r].life
               /\ \A r \in Restore \ {cur} : restore'[r] = restore[r]
               /\ restore'[cur].phase = restore[cur].phase
    <3>1. resolvedMy \in RestoreObject /\ resolvedMy.phase = my.phase
      BY <1>1 DEF RestoreObject
    <3> HIDE DEF resolvedMy
    <3> QED
      BY <1>1, <2>2, <3>1, PatchRestoreType
  <2>3. /\ restore' \in Restores
        /\ \A r \in Restore : restore'[r].life = restore[r].life
        /\ \A r \in Restore \ {cur} : restore'[r] = restore[r]
        /\ restore'[cur].phase = restore[cur].phase
    BY <1>1, <1>3, <2>2 DEF ResolveTarget
  <2>4. ObjectInv'
    BY <1>1, <1>2, <2>1, <2>3, PatchInv DEF EarlyPhases
  <2>5. CASE Return
    BY <2>4, <2>5, ReturnInv
  <2>6. CASE Continue("fail")
    BY <1>1, <1>2, <2>3, <2>4, <2>6
    DEF LockInv, ObjectInv, CopyAgrees, StepFitsPhase, HolderEntersFencing, Continue
  <2>7. CASE /\ pc' \in {"lockPhase", "createJob"} /\ UNCHANGED cur
             /\ my' = my \/ my' = restore'[cur]
    <3>1. my'.phase = restore'[cur].phase
          /\ (my'.life = "deleting" => restore'[cur].life # "live")
      BY <1>1, <1>2, <2>3, <2>7 DEF LockInv, CopyAgrees
    <3>2. CopyAgrees'
      BY <1>1, <1>2, <2>3, <2>7, <3>1 DEF CopyAgrees
    <3>3. StepFitsPhase'
      BY <1>2, <1>3, <2>3, <2>7, <3>1 DEF ResolveTarget, LockInv, StepFitsPhase
    <3>4. HolderEntersFencing'
      BY <2>7 DEF HolderEntersFencing
    <3> QED
      BY <2>4, <3>2, <3>3, <3>4 DEF LockInv, ObjectInv
  <2> QED
    BY <1>3, <2>5, <2>6, <2>7 DEF ResolveTarget
<1>4. CASE EnterAcquiringLock
  <2>1. (IF SeenWorkload.exists THEN SeenWorkload.replicas ELSE 0) \in Nat
    BY SeenType DEF RestoreTypeOK, WorkloadObject
  <2> QED
    BY <1>2, <1>4, <2>1, MyType, SetStatusInv DEF EnterAcquiringLock, Phases
<1> QED
  BY <1>3, <1>4 DEF Pending

LEMMA LockingLock ==
  ASSUME RestoreTypeOK, LockInv, Locking
  PROVE  LockInv'
<1>1. /\ pc # "idle" /\ cur \in Restore
      /\ my.phase = "AcquiringLock" /\ restore[cur].phase = "AcquiringLock"
      /\ restore[cur].life # "unborn"
  BY DEF Locking, CreateLease, LeaseIsOurs, LeaseIsHeld, PauseReplication, EnterFencing,
     RestoreTypeOK, ControllerTypeOK, LockInv, CopyAgrees, StepFitsPhase
<1>2. ASSUME NEW step \in {"pause", "fencingPhase"}, Continue(step) PROVE StepFitsPhase'
  BY <1>1, <1>2 DEF StepFitsPhase, Continue
<1>3. CASE CreateLease
  <2>1. /\ SeenLease = NoRestore /\ UNCHANGED <<restore, cache>>
    BY <1>3 DEF CreateLease
  <2>2. CASE lease = NoRestore
    <3>1. lease' = cur /\ Continue("pause")
      BY <1>3, <2>2 DEF CreateLease
    <3>2. SeenLease' \in {NoRestore, lease'}
      BY <2>1, SeenLeaseLemma
    <3>3. CacheBehind' /\ EarlyHolder' /\ UnbornIsNew'
      BY <2>1, <3>2, RestoreAssumption DEF LockInv, CacheBehind, EarlyHolder, UnbornIsNew
    <3>4. FencingHoldsLock'
      BY <2>1, <2>2, RestoreAssumption DEF LockInv, FencingHoldsLock, InPhase
    <3> QED
      BY <1>1, <1>2, <2>1, <3>1, <3>3, <3>4, ContinueInv DEF ObjectInv
  <2>3. CASE lease # NoRestore
    BY <1>3, <2>3, QuietInv, ReturnInv DEF CreateLease
  <2> QED
    BY <2>2, <2>3
<1>4. CASE LeaseIsOurs
  <2>1. /\ SeenLease = cur /\ Continue("pause")
        /\ UNCHANGED <<restore, lease, cache>>
    BY <1>4 DEF LeaseIsOurs, stored
  <2>2. restore[cur].life = "live" => lease' = cur
    BY <1>1, <2>1 DEF LockInv, EarlyHolder, EarlyPhases
  <2> QED
    BY <1>1, <1>2, <2>1, <2>2, QuietInv, ContinueInv
<1>5. CASE LeaseIsHeld
  BY <1>1, <1>5, MyType, SetStatusInv DEF LeaseIsHeld, Phases, Conditions, EarlyPhases
<1>6. CASE PauseReplication
  <2>1. UNCHANGED <<restore, lease, cache>> /\ (Return \/ Continue("fencingPhase"))
    BY <1>6 DEF PauseReplication
  <2>2. restore[cur].life = "live" => lease' = cur
    BY <1>6, <2>1 DEF PauseReplication, LockInv, HolderEntersFencing
  <2> QED
    BY <1>1, <1>2, <2>1, <2>2, QuietInv, ReturnInv, ContinueInv
<1>7. CASE EnterFencing
  <2>1. restore[cur].life = "live" => lease = cur
    BY <1>7 DEF EnterFencing, LockInv, HolderEntersFencing
  <2> QED
    BY <1>1, <1>7, <2>1, MyType, SetStatusInv
    DEF EnterFencing, Phases, Conditions, EarlyPhases
<1> QED
  BY <1>3, <1>4, <1>5, <1>6, <1>7 DEF Locking

LEMMA FencingLock ==
  ASSUME RestoreTypeOK, LockInv, Fencing
  PROVE  LockInv'
<1>1. CASE PauseAgain \/ AwaitPausedConfig
  BY <1>1, QuietInv, ReturnInv DEF PauseAgain, AwaitPausedConfig, stored
<1>2. CASE ScaleDown \/ CreateJob
  <2>1. /\ pc # "idle" /\ UNCHANGED <<restore, lease, cache>>
        /\ Return \/ Continue("createJob") \/ Continue("restoringPhase")
    BY <1>2 DEF ScaleDown, CreateJob
  <2>2. ASSUME NEW step \in {"createJob", "restoringPhase"}, Continue(step)
        PROVE  StepFitsPhase'
    BY <2>2 DEF StepFitsPhase, Continue
  <2> QED
    BY <2>1, <2>2, QuietInv, ReturnInv, ContinueInv
<1>3. CASE EnterRestoring
  <2>1. (IF cur \in InPlace THEN my.conditions \cup {"ApplicationFenced"}
                            ELSE my.conditions) \in SUBSET Conditions
    BY MyType DEF Conditions
  <2> QED
    BY <1>3, <2>1, MyType, SetStatusInv DEF EnterRestoring, Phases, EarlyPhases
<1> QED
  BY <1>1, <1>2, <1>3 DEF Fencing

LEMMA RestoringLock ==
  ASSUME RestoreTypeOK, LockInv, Restoring
  PROVE  LockInv'
<1> USE MyType
<1>1. CASE JobStillRuns
  BY <1>1, QuietInv, ReturnInv DEF JobStillRuns, stored
<1>2. CASE JobSucceeded
  BY <1>2, SetStatusInv DEF JobSucceeded, Phases, Conditions, EarlyPhases
<1>3. CASE JobFailed
  <2>1. /\ pc # "idle" /\ UNCHANGED <<restore, cache>>
        /\ restore[cur].phase = "Restoring" /\ my.phase = "Restoring"
    BY <1>3 DEF JobFailed, LockInv, StepFitsPhase, CopyAgrees
  <2>2. ObjectInv'
    BY <1>3, <2>1, ReleaseInv, QuietInv DEF JobFailed, EarlyPhases
  <2>3. Continue("cleanupResume") \/ Continue("cleanupFail")
    BY <1>3 DEF JobFailed
  <2>4. StepFitsPhase'
    BY <2>1, <2>3 DEF StepFitsPhase, Continue
  <2> QED
    BY <2>1, <2>2, <2>3, <2>4, ContinueInv
<1>4. CASE CleanupResume
  <2>1. StepFitsPhase'
    BY <1>4 DEF CleanupResume, LockInv, StepFitsPhase, Continue
  <2> QED
    BY <1>4, <2>1, QuietInv, ContinueInv DEF CleanupResume
<1>5. CASE CleanupFail
  BY <1>5, SetStatusInv DEF CleanupFail, Phases, EarlyPhases
<1>6. CASE SkipValidation
  BY <1>6, SetStatusInv DEF SkipValidation, Phases, EarlyPhases
<1> QED
  BY <1>1, <1>2, <1>3, <1>4, <1>5, <1>6 DEF Restoring

LEMMA ResumingLock ==
  ASSUME RestoreTypeOK, LockInv, Resuming
  PROVE  LockInv'
<1>1. pc # "idle" /\ my.phase = "Resuming" /\ restore[cur].phase = "Resuming"
  BY DEF Resuming, ResumeReplication, ScaleUp, ReleaseAfterScaleUp, Complete, LockInv,
     CopyAgrees, StepFitsPhase
<1>2. ASSUME NEW step \in {"scaleUp", "release", "complete"}, Continue(step)
      PROVE  StepFitsPhase'
  BY <1>1, <1>2 DEF StepFitsPhase, Continue
<1>3. CASE ResumeReplication \/ ScaleUp
  <2>1. /\ UNCHANGED <<restore, lease, cache>>
        /\ Return \/ Continue("scaleUp") \/ Continue("release")
    BY <1>3 DEF ResumeReplication, ScaleUp
  <2> QED
    BY <1>1, <1>2, <2>1, QuietInv, ReturnInv, ContinueInv
<1>4. CASE ReleaseAfterScaleUp
  <2>1. ObjectInv'
    BY <1>1, <1>4, ReleaseInv DEF ReleaseAfterScaleUp, EarlyPhases
  <2> QED
    BY <1>1, <1>2, <1>4, <2>1, ContinueInv DEF ReleaseAfterScaleUp
<1>5. CASE Complete
  BY <1>5, MyType, SetStatusInv DEF Complete, Phases, Conditions, EarlyPhases
<1> QED
  BY <1>3, <1>4, <1>5 DEF Resuming

LEMMA LockInvNext ==
  ASSUME TypeOK, LockInv, "restore" \notin Lagging, [Next]_system
  PROVE  LockInv'
<1> USE DEF TypeOK
<1>1. CASE ReconcilerStep
  BY <1>1, BeginLock, AbortLock, WorkloadReadFailsLock, FinalizationLock, PendingLock,
     LockingLock, FencingLock, RestoringLock, ResumingLock
  DEF ReconcilerStep, CallStep
<1>2. CASE ReplicaStep \/ UNCHANGED system
  <2>1. UNCHANGED <<restore, lease, cache, call>>
    BY <1>2 DEF ReplicaStep, ReadReplica, ReconcileLitestreamConfig, RenderingStops,
       system, vars, stored, call
  <2> QED
    BY <2>1, QuietInv
    DEF call, LockInv, ObjectInv, CopyAgrees, StepFitsPhase, HolderEntersFencing
<1>3. ASSUME NEW r \in Restore, UpgradeInValidating(r) PROVE LockInv'
  <2>1. /\ pc' = "idle" /\ UNCHANGED <<lease, cache>> /\ SeenLease' = SeenLease
        /\ \A s \in Restore \ {r} : restore'[s] = restore[s]
        /\ restore[r].life = "live"
        /\ restore'[r].life = restore[r].life /\ restore'[r].phase = "Validating"
    BY <1>3, SeenLeaseLemma DEF UpgradeInValidating, call, RestoreTypeOK,
       ClusterTypeOK, Restores, RestoreObject
  <2>2. ObjectInv'
    BY <2>1, RestoreAssumption DEF LockInv, ObjectInv, CacheBehind, EarlyHolder,
       EarlyPhases, UnbornIsNew, FencingHoldsLock, InPhase
  <2> QED
    BY <2>1, <2>2 DEF LockInv, ObjectInv, CopyAgrees, StepFitsPhase, HolderEntersFencing
<1> QED
  BY <1>1, <1>2, <1>3, EnvironmentLock DEF Next, RestoreStep

-----------------------------------------------------------------------------
(***************************************************************************)
(* The theorems.                                                           *)
(***************************************************************************)

\* LockInv is an invariant: at no moment of a call, and after no lost call,
\* is the Lease out of step with the phases of the restores in the way that
\* reconcileAcquiringLock and releaseRestoreLock rely on.
THEOREM LockInvariant ==
  ASSUME "restore" \notin Lagging
  PROVE  Spec => []LockInv
<1>1. Init => LockInv
  BY LockInvInit
<1>2. TypeOK /\ LockInv /\ [Next]_system => LockInv'
  BY LockInvNext
<1> QED
  BY <1>1, <1>2, TypeCorrect, PTL DEF Spec

\* A restore enters Fencing, in which it takes the application down, only with
\* the Lease of its source, and has it for as long as it stays there
\* (reconcileAcquiringLock).
THEOREM FencingIsLocked ==
  ASSUME "restore" \notin Lagging
  PROVE  Spec => []FencingHoldsLock
<1>1. LockInv => FencingHoldsLock
  BY DEF LockInv
<1> QED
  BY <1>1, LockInvariant, PTL

\* releaseRestoreLock deletes a Lease by name after it has read the holder from
\* the cache: all the same it never deletes that of another restore.
THEOREM OnlyHolderReleasesLock ==
  ASSUME "restore" \notin Lagging
  PROVE  Spec => OnlyHolderReleases
<1> DEFINE Released == lease # NoRestore /\ lease' = NoRestore
                         => cur = lease \/ restore[lease].life = "gone"
<1>1. TypeOK /\ LockInv /\ [Next]_system => [Released]_vars
  <2> SUFFICES ASSUME RestoreTypeOK, LockInv, Next, lease # NoRestore, lease' = NoRestore
               PROVE  cur = lease \/ restore[lease].life = "gone"
    BY DEF TypeOK, system, vars
  <2>1. CASE ReleaseRestoreLock /\ pc # "idle"
    <3>1. SeenLease = cur /\ cur \in Restore
      BY <2>1 DEF ReleaseRestoreLock, RestoreTypeOK, ControllerTypeOK
    <3> QED
      BY <3>1, RestoreAssumption DEF LockInv, CacheBehind
  <2>2. CASE CreateLease
    BY <2>2, RestoreAssumption DEF CreateLease, RestoreTypeOK, ControllerTypeOK
  <2>3. CASE CollectLease
    BY <2>3 DEF CollectLease
  <2>4. CASE FinalizeRelease \/ JobFailed \/ ReleaseAfterScaleUp
    BY <2>1, <2>4 DEF FinalizeRelease, JobFailed, ReleaseAfterScaleUp
  <2>5. CASE AddFinalizer \/ FailRestore \/ FinalizeResume \/ RemoveFinalizer
    BY <2>5 DEF AddFinalizer, FailRestore, FinalizeResume, RemoveFinalizer
  <2>6. CASE \/ Pending \/ Fencing
             \/ LeaseIsOurs \/ LeaseIsHeld \/ PauseReplication \/ EnterFencing
    BY <2>6 DEF Pending, ResolveTarget, EnterAcquiringLock, Fencing, PauseAgain,
       AwaitPausedConfig, ScaleDown, CreateJob, EnterRestoring, LeaseIsOurs,
       LeaseIsHeld, PauseReplication, EnterFencing, stored
  <2>7. CASE \/ JobStillRuns \/ JobSucceeded \/ CleanupResume \/ CleanupFail
             \/ SkipValidation \/ ResumeReplication \/ ScaleUp \/ Complete
    BY <2>7 DEF JobStillRuns, JobSucceeded, CleanupResume, CleanupFail, SkipValidation,
       ResumeReplication, ScaleUp, Complete, stored
  <2>8. CASE Abort \/ WorkloadReadFails \/ \E r \in Restore : Begin(r)
    BY <2>8 DEF Abort, WorkloadReadFails, Begin, stored
  <2>9. CASE EnvironmentStep
    BY <2>3, <2>9 DEF EnvironmentStep, KubernetesStep, UserStep, StartPod, DeletePod,
       PodExits, JobEnds, CollectJob, CollectConfig, SyncCache, stored,
       UserCreatesRestore, UserDeletesRestore, UserDeletesReplica, UserDisablesBackup,
       UserDeletesWorkload, UserScalesWorkload
  <2>10. CASE ReplicaStep \/ \E r \in Restore : UpgradeInValidating(r)
    BY <2>10 DEF ReplicaStep, ReadReplica, ReconcileLitestreamConfig, RenderingStops,
       UpgradeInValidating, vars, stored
  <2> QED
    BY <2>2, <2>4, <2>5, <2>6, <2>7, <2>8, <2>9, <2>10
    DEF Next, RestoreStep, ReconcilerStep, CallStep, Finalization, Locking, Restoring, Resuming
<1> QED
  BY <1>1, TypeCorrect, LockInvariant, PTL DEF Spec, OnlyHolderReleases
===============================================================================
