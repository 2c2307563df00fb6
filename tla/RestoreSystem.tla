----------------------------- MODULE RestoreSystem -----------------------------
(***************************************************************************)
(* The restore controller at work in the cluster: LitestreamRestore        *)
(* objects of one source LitestreamReplica, the replica controller that    *)
(* renders the ConfigMap, the workload, the Jobs, the cache, faults and    *)
(* the user.  The module states what a restore promises.                   *)
(***************************************************************************)
EXTENDS RestoreController

VARIABLE render   \* what a call of the replica controller is about to write,
                  \* "idle" if none is under way

system == <<vars, render>>

(***************************************************************************)
(* The replica controller renders litestream.yml from the copy of the      *)
(* LitestreamReplica its call has made: dbs: [] if that has the pause      *)
(* annotation.  Both controllers have one worker, and run side by side.    *)
(***************************************************************************)
ReadReplica ==
  /\ render = "idle"
  /\ SeenReplica.exists
  /\ render' = IF SeenReplica.pause THEN "paused" ELSE "full"
  /\ render' # config
  /\ UNCHANGED vars

\* CreateOrUpdate compares with the cached ConfigMap, and writes over that copy
\* only: with an old one it finds nothing to do, or the API server refuses it.
ReconcileLitestreamConfig ==
  /\ render # "idle"
  /\ config' = (IF SeenConfig = config THEN render ELSE config)
  /\ render' = "idle"
  /\ UNCHANGED <<restore, replica, lease, job, workload, cache, call, faults>>

\* The call ends before the write.
RenderingStops ==
  /\ render # "idle"
  /\ Fault("abort")
  /\ render' = "idle"
  /\ UNCHANGED <<stored, cache, call>>

\* The user upgrades the operator while a version that still had a Validating
\* phase has just moved a restore into it.
UpgradeInValidating(r) ==
  /\ "upgrade" \in UserActions
  /\ pc = "idle"
  /\ restore[r].life = "live" /\ restore[r].phase = "Restoring"
  /\ job[r] = "complete"
  /\ restore' = [restore EXCEPT ![r].phase = "Validating"]
  /\ UNCHANGED <<replica, lease, job, config, workload, cache, call, faults>>

RestoreTypeOK == ClusterTypeOK /\ ControllerTypeOK

TypeOK == RestoreTypeOK /\ render \in {"idle", "paused", "full"}

Init == ClusterInit /\ ControllerInit /\ render = "idle"

EnvironmentStep ==
  (KubernetesStep \/ UserStep) /\ UNCHANGED <<call, faults>>

RestoreStep ==
  ReconcilerStep \/ EnvironmentStep \/ \E r \in Restore : UpgradeInValidating(r)

ReplicaStep == ReadReplica \/ ReconcileLitestreamConfig \/ RenderingStops

Next ==
  \/ RestoreStep /\ UNCHANGED render
  \/ ReplicaStep

Spec == Init /\ [][Next]_system

(***************************************************************************)
(* Fairness.  A call runs to its end; every handler of a phase that is not *)
(* terminal returns RequeueAfter or an error, and the work queue is served *)
(* in turn, so a restore is reconciled again although others are too.  The *)
(* replica controller reconciles on every change of its object, and        *)
(* kubelet, Job controller, garbage collector and watches do their work.   *)
(***************************************************************************)
Fairness ==
  /\ WF_system(CallStep /\ UNCHANGED render)
  /\ \A r \in Restore : SF_system(Begin(r) /\ UNCHANGED render)
  /\ WF_system(ReadReplica) /\ WF_system(ReconcileLitestreamConfig)
  /\ WF_system((StartPod \/ DeletePod \/ PodExits) /\ UNCHANGED <<call, faults, render>>)
  /\ \A r \in Restore :
       WF_system((JobEnds(r) \/ CollectJob(r)) /\ UNCHANGED <<call, faults, render>>)
  /\ WF_system((CollectLease \/ CollectConfig) /\ UNCHANGED <<call, faults, render>>)
  /\ \A kind \in CacheKinds :
       WF_system(SyncCache(kind) /\ UNCHANGED <<call, faults, render>>)

FairSpec == Spec /\ Fairness

\* The replica controller also sees each change of the annotation in time.
PromptSpec == FairSpec /\ SF_system(ReadReplica)

-----------------------------------------------------------------------------
(***************************************************************************)
(* Why the lock works.  The copy a call has made of its restore is out of  *)
(* date only in that the restore may have been deleted since (CopyAgrees); *)
(* each step of a call belongs to one phase (StepFitsPhase), so the Lease  *)
(* is released only by a restore that is past Fencing or being deleted;    *)
(* a Lease the cache shows is either the present one or gone, because the  *)
(* next one is created only after the cache showed none (CacheBehind); and *)
(* a restore that has not got past AcquiringLock has never released a      *)
(* Lease, so one it sees as its own it still holds (EarlyHolder).          *)
(***************************************************************************)
CopyAgrees ==
  pc # "idle" =>
    /\ my.phase = restore[cur].phase
    /\ restore[cur].life # "unborn"
    /\ my.life = "deleting" => restore[cur].life # "live"

StepFitsPhase ==
  /\ pc \in {"finalize", "finalizeResume", "removeFinalizer"} => my.life = "deleting"
  /\ pc \in {"pending", "lockPhase"} => my.phase \in {"", "Pending"}
  /\ pc \in {"acquireLock", "pause", "fencingPhase"} => my.phase = "AcquiringLock"
  /\ pc \in {"restoring", "cleanupResume", "cleanupFail"} => my.phase = "Restoring"
  /\ pc = "validating" => my.phase = "Validating"
  /\ pc \in {"resume", "scaleUp", "release", "complete"} => my.phase = "Resuming"

CacheBehind == lease # NoRestore /\ SeenLease # NoRestore => SeenLease = lease

EarlyPhases == {"", "Pending", "AcquiringLock"}

EarlyHolder ==
  \A r \in Restore :
    /\ restore[r].life \in {"unborn", "live"}
    /\ restore[r].phase \in EarlyPhases
    /\ SeenLease = r
    => lease = r

UnbornIsNew == \A r \in Restore : restore[r].life = "unborn" => restore[r].phase = ""

HolderEntersFencing ==
  pc \in {"pause", "fencingPhase"} /\ restore[cur].life = "live" => lease = cur

-----------------------------------------------------------------------------
(***************************************************************************)
(* What restores promise.                                                  *)
(***************************************************************************)

InPhase(phases) == {r \in InPlace : restore[r].life = "live" /\ restore[r].phase \in phases}

ActivePhases == {"Fencing", "Restoring", "Validating", "Resuming"}

\* The lock: a restore that fences the application, and has not been deleted,
\* is the holder of the Lease of its source (reconcileAcquiringLock).
FencingHoldsLock == \A r \in InPhase({"Fencing"}) : lease = r

\* The inductive strengthening of FencingHoldsLock, for a cache that is current
\* in the restores themselves.
LockInv ==
  /\ CopyAgrees
  /\ StepFitsPhase
  /\ CacheBehind
  /\ EarlyHolder
  /\ UnbornIsNew
  /\ HolderEntersFencing
  /\ FencingHoldsLock

\* The restores that must be alone: from Fencing until their Job has ended, or
\* they have been deleted.
Critical ==
  {r \in InPlace :
     /\ restore[r].life = "live"
     /\ \/ restore[r].phase = "Fencing"
        \/ restore[r].phase \in {"Restoring", "Validating"} /\ job[r] # "failed"}

Lock == INSTANCE RestoreLock WITH
  Client <- Restore, Nobody <- NoRestore, holder <- lease, inside <- Critical

\* The Lease is a lock, whatever the caches show and wherever calls stop: a
\* restore that fences the application or has its Job write the database holds
\* it, and a Lease is never taken over nor released under its holder.
ImplementsRestoreLock == Lock!Spec

\* A restore that fences the application, or whose Job writes the database, is
\* the holder of the Lease until its Job has failed, or somebody deletes it: two
\* of them are never there at a time.
RestoringHoldsLock == \A r \in Critical : lease = r

\* What keeps the Lease with a restore while its Job runs: with the phase
\* Restoring it stores the name of a Job that it has created before
\* (reconcileFencing), so a Job it does not find running has ended.
JobInv ==
  /\ pc = "fence" => my.phase = "Fencing"
  /\ pc \in {"createJob", "restoringPhase"} /\ cur \in InPlace => my.phase = "Fencing"
  /\ pc = "restoringPhase" /\ restore[cur].life = "live" => job[cur] # "none"
  /\ pc # "idle" /\ my.jobName => restore[cur].jobName
  /\ pc # "idle" /\ my.phase = "Restoring" /\ restore[cur].life = "live" => my.jobName
  /\ \A r \in Restore : restore[r].life = "live" /\ restore[r].phase = "Restoring"
                         => restore[r].jobName /\ job[r] # "none"

\* "one active InPlace restore per source": at most one is between the
\* acquisition of the lock and its completion.
OneActiveRestore ==
  \A r, s \in InPhase(ActivePhases) : r = s

\* The Lease disappears by a step of its holder, or when its holder is gone:
\* no restore ever releases the lock of another (releaseRestoreLock deletes by
\* name, after reading the holder from the cache).
OnlyHolderReleases ==
  [][lease # NoRestore /\ lease' = NoRestore
       => cur = lease \/ restore[lease].life = "gone"]_vars

\* The Job that overwrites the database starts only when its restore holds the
\* lock, and the workload is to have no pods and has none (reconcileFencing).
JobStartsFenced ==
  [][\A r \in InPlace : job[r] = "none" /\ job'[r] = "running" =>
       /\ lease = r
       /\ workload.replicas = 0 /\ Pods(workload) = 0]_vars

\* A restore completes only after its own Job has succeeded.
CompletedMeansRestored ==
  \A r \in Restore : restore[r].life = "live" /\ restore[r].phase \in {"Resuming", "Completed"}
                       => job[r] = "complete"

\* The inductive strengthening of CompletedMeansRestored: a Job the cache shows
\* as complete is complete, as long as its restore is there.
OutcomeInv ==
  \A r \in Restore :
    /\ restore[r].life \in {"unborn", "live"} /\ SeenJob[r] = "complete"
         => job[r] = "complete"
    /\ restore[r].life = "live" /\ restore[r].phase \in {"Validating", "Resuming", "Completed"}
         => job[r] = "complete"

\* What the steps of a call rely on: the restore keeps its finalizer, and so its
\* object, until the call that removes it; one beside the application has none of
\* the phases of the lock; the Job is created under the lock, and a restore that
\* resumes has a Job that succeeded, even if it is deleted meanwhile.
CallInv ==
  /\ \A r \in Restore :
       /\ restore[r].phase # "Pending"
       /\ r \notin InPlace => restore[r].phase \notin {"AcquiringLock", "Fencing", "Resuming"}
       /\ restore[r].life = "unborn" => job[r] = "none"
  /\ pc \notin {"idle", "addFinalizer"} => restore[cur].life \in Present /\ restore[cur].finalizer
  /\ pc \in {"finalizeResume", "lockPhase", "cleanupResume"} => cur \in InPlace
  /\ pc \in {"createJob", "restoringPhase"} /\ cur \notin InPlace => my.phase = ""
  /\ pc \in {"fence", "createJob", "restoringPhase"} /\ cur \in InPlace => lease = cur
  /\ pc \in {"resume", "scaleUp", "release", "complete"} => job[cur] = "complete"
  /\ pc = "fail" /\ my.phase = "Completed" => ~source.exists

\* The operator scales the application up only for a restore whose Job has
\* succeeded: a failure at any point leaves the workload at zero
\* (failRestoreWithCleanup).
ScaleUpOnlyAfterSuccess ==
  [][workload'.replicas > workload.replicas
       => /\ cur \in InPlace
          /\ job[cur] = "complete"]_vars

\* The Lease stays with a restore until its Job has ended, or somebody deletes it.
JobHoldsLock ==
  \A r \in InPlace : job[r] = "running" /\ restore[r].life = "live" => lease = r

\* The inductive strengthening of OneActiveRestore, when no call is cut short: the
\* Lease goes only in the call that ends the restore.
ActiveInv ==
  /\ \A r \in InPhase(ActivePhases) :
       lease = r \/ (cur = r /\ pc \in {"cleanupResume", "cleanupFail", "complete"})
  /\ cur \in InPlace /\ pc \in {"cleanupResume", "cleanupFail", "complete"}
       => lease \in {NoRestore, cur}
  /\ cur \in InPlace /\ pc \in {"restoring", "resume", "scaleUp", "release"} => lease = cur

AtZero == workload.exists => workload.replicas = 0 /\ Pods(workload) = 0

\* The workload is at zero when the Job of a restore is created ...
FencedAtStart == pc = "createJob" /\ cur \in InPlace => AtZero

\* ... and stays there: nobody else gets as far as scaling it up.
FencedWhileRestoring ==
  \A r \in InPlace : job[r] = "running" /\ restore[r].life = "live" => AtZero

\* While the Job of a restore writes the database no pod of the application
\* runs, unless somebody deletes the restore or the workload itself.
NoPodsWhileRestoring ==
  \A r \in InPlace :
    job[r] = "running" /\ restore[r].life = "live" /\ workload.exists => Pods(workload) = 0

\* No two restore Jobs write the database of the source at the same time.
OneJobAtATime ==
  \A r, s \in InPlace : job[r] = "running" /\ job[s] = "running" => r = s

\* Replication stays paused until the restore Job has ended ...
PausedWhileRestoring ==
  \A r \in InPlace : job[r] = "running" => replica.pause

\* ... as long as nobody deletes a restore (reconcileRestoring leaves the pause
\* annotation alone, and no other restore gets as far as removing it).
PausedUnlessDeleted ==
  (\A r \in InPlace : restore[r].life \in {"unborn", "live"}) => PausedWhileRestoring

\* The inductive strengthening of PausedUnlessDeleted: only a call for the holder of
\* the Lease, whose Job has ended, removes the pause annotation.
PauseInv ==
  /\ pc = "fence" /\ source.pause => replica.pause
  /\ pc = "createJob" /\ cur \in InPlace => replica.pause
  /\ pc = "cleanupResume" /\ restore[cur].life = "live" => job[cur] # "running"
  /\ PausedUnlessDeleted

\* The first Job of a source starts under the paused litestream.yml: the call
\* waits until the replica controller has written it (reconcileFencing).
FirstJobStartsPaused ==
  [][\A r \in InPlace :
       /\ job[r] = "none" /\ job'[r] = "running"
       /\ \A s \in InPlace \ {r} : /\ restore[s].life \in {"unborn", "live"}
                                   /\ restore[s].phase \in EarlyPhases
       => config = "paused"]_vars

\* The inductive strengthening of FirstJobStartsPaused: as long as no restore in
\* place has been deleted or got past Fencing, nobody has removed the pause
\* annotation, so the paused litestream.yml, once written, stays.
Early(r) ==
  /\ restore[r].phase \in EarlyPhases \cup {"Fencing"}
  /\ restore[r].life \in {"unborn", "live"} \/ (cur = r /\ pc \in {"fence", "createJob"})

FirstInv ==
  (\A r \in InPlace : Early(r)) =>
    /\ SeenReplica.pause => replica.pause
    /\ "paused" \in {config, render} => SeenReplica.pause
    /\ SeenConfig = "paused" => config = "paused"
    /\ render # "full" /\ config # "none"
    /\ pc = "createJob" /\ cur \in InPlace => config = "paused"

\* "Verify ConfigMap reflects the pause (dbs: [])", before any Job is created.
JobStartsUnderPausedConfig ==
  [][\A r \in InPlace : job[r] = "none" /\ job'[r] = "running" => config = "paused"]_vars

\* Once every restore has ended, the lock is free and replication goes on.
NothingLeftBehind ==
  pc = "idle" /\ (\A r \in InPlace : restore[r].phase \in Terminal \cup {""})
    => lease = NoRestore /\ ~replica.pause

\* A restore waits for the lock only while the restore that holds it is under
\* way: "Look for another restore in Fencing/Restoring/Resuming phase".
LockHolderIsActive ==
  pc = "idle" => \A r \in InPhase(Terminal \cup {"", "Pending"}) : lease # r

\* The inductive strengthening of LockHolderIsActive, ...
HolderPhases == {"AcquiringLock"} \cup ActivePhases

HolderInv ==
  /\ lease # NoRestore => lease \in InPlace /\ restore[lease].phase \in HolderPhases
  /\ pc \in {"cleanupResume", "cleanupFail", "complete"} => lease # cur
  /\ pc = "fail" => my.phase \in {"", "Pending"}

\* ... and of NothingLeftBehind: a call sees the pause annotation if it is there,
\* and whoever ends a restore in place has removed it.
ResumedInv ==
  /\ replica.pause => \E r \in InPlace : restore[r].phase \in HolderPhases
  /\ pc \notin {"idle", "fencingPhase"} /\ replica.pause => source.pause
  /\ pc \in {"scaleUp", "release", "complete"} => ~replica.pause
  /\ pc = "cleanupFail" /\ cur \in InPlace => ~replica.pause

\* "All pods terminated" when the restore Job is created (reconcileFencing).
JobStartsWithoutPods ==
  [][\A r \in InPlace : job[r] = "none" /\ job'[r] = "running" => Pods(workload) = 0]_vars

\* A ToPVC restore goes on beside the application: its calls touch neither the
\* lock nor the pause annotation nor the workload.
ToPVCLeavesApplicationAlone ==
  [][pc # "idle" /\ cur \notin InPlace /\ pc' # pc => UNCHANGED <<lease, replica, workload>>]_vars

\* The phases of a restore, in the order Reconcile takes them.
InOrder(r) ==
  \/ restore[r].phase = "" /\ restore'[r].phase = IF r \in InPlace THEN "AcquiringLock"
                                                 ELSE "Restoring"
  \/ <<restore[r].phase, restore'[r].phase>> \in
       {<<"AcquiringLock", "Fencing">>, <<"Fencing", "Restoring">>}
  \/ restore[r].phase = "Restoring" /\ restore'[r].phase = "Validating"
  \/ /\ restore[r].phase \in {"Restoring", "Validating"}
     /\ restore'[r].phase = IF r \in InPlace THEN "Resuming" ELSE "Completed"
  \/ restore[r].phase = "Resuming" /\ restore'[r].phase = "Completed"
  \/ restore'[r].phase = "Failed" /\ (restore[r].phase = "Completed" => ~source.exists)

PhaseOrder ==
  [][\A r \in Restore : restore'[r].phase # restore[r].phase => InOrder(r)]_vars

\* A restore that has completed or failed stays as it is.
TerminalIsFinal ==
  [][\A r \in Restore : restore[r].phase \in Terminal => restore'[r].phase = restore[r].phase]_vars

\* When an InPlace restore has completed the application is back.
CompletedMeansResumed ==
  \A r \in InPlace : restore[r].life = "live" /\ restore[r].phase = "Completed"
    => workload.replicas = Replicas \/ InPhase(ActivePhases) # {}

\* A completed restore shows what it has been through in its conditions.
ConditionsAreShown ==
  \A r \in InPlace : restore[r].phase = "Completed" => Conditions \subseteq restore[r].conditions

\* Every restore ends: it completes, fails or is gone.
EveryRestoreEnds ==
  \A r \in Restore : restore[r].life = "live"
    ~> restore[r].phase \in Terminal \/ restore[r].life = "gone"

\* The pause a restore asks for ends, and with it the paused litestream.yml,
\* unless a restore is deleted half way (handleFinalization then leaves the
\* application as it is).
PauseEnds ==
  replica.pause ~> \/ ~replica.pause /\ config = "full"
                   \/ \E r \in InPlace :
                        restore[r].life = "gone" /\ MidRestore(restore[r].phase)
=============================================================================
