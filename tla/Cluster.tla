------------------------------- MODULE Cluster -------------------------------
(***************************************************************************)
(* The Kubernetes objects the litestream-operator works on, around one     *)
(* LitestreamReplica: the LitestreamRestore objects that name it as their  *)
(* source, the Lease that serialises them, their Jobs, the litestream      *)
(* ConfigMap, and the target workload with its pods.                       *)
(*                                                                         *)
(* The operator writes the objects through the API server and reads them   *)
(* through the informer cache of its client (mgr.GetClient()), so every    *)
(* object has a stored value and the value the cache shows.  The module    *)
(* also holds the steps of everybody who is not the operator: the          *)
(* workload and Job controllers, the garbage collector, the watches that   *)
(* feed the cache, and the user.                                           *)
(***************************************************************************)
EXTENDS Integers

CONSTANTS
  Restore,       \* names of the LitestreamRestore objects, each used once
  InPlace,       \* those of mode InPlace; the others are of mode ToPVC
  NoRestore,     \* not a restore
  Replicas,      \* replica count the user gave the workload
  Kind,          \* "Deployment" or "StatefulSet"
  MaxTerminating,\* bound: pods that terminate at the same time
  Lagging,       \* kinds of objects whose cached copy may be out of date
  UserActions    \* what the user does besides creating restores

CacheKinds == {"restore", "replica", "lease", "job", "config", "workload"}

ASSUME RestoreAssumption  == InPlace \subseteq Restore /\ NoRestore \notin Restore
ASSUME ReplicasAssumption == Replicas \in Nat /\ MaxTerminating \in Nat
ASSUME LaggingAssumption  == Lagging \subseteq CacheKinds

VARIABLES
  restore,   \* the LitestreamRestore objects
  replica,   \* the LitestreamReplica they restore
  lease,     \* holderIdentity of Lease litestream-restore-<source>
  job,       \* state of each <restore>-restore Job
  config,    \* content of ConfigMap <source>-litestream
  workload,  \* the target Deployment or StatefulSet and its pods
  cache      \* the informer cache

stored == <<restore, replica, lease, job, config, workload>>

-----------------------------------------------------------------------------
(***************************************************************************)
(* Types.                                                                  *)
(***************************************************************************)

Nil == -1                            \* a nil *int32

Phases == {"", "Pending", "AcquiringLock", "Fencing", "Restoring",
           "Validating", "Resuming", "Completed", "Failed"}
Terminal == {"Completed", "Failed"}

Conditions == {"Locked", "ApplicationFenced", "RestoreSucceeded",
               "ApplicationResumed"}

Lives == {"unborn", "live", "deleting", "gone"}
Present == {"live", "deleting"}      \* the API server has the object

\* A LitestreamRestore.  resolved says that status.resolvedPVC and its
\* companions are set, jobName that status.jobName is, and conditions holds
\* the condition types whose status is True.
RestoreObject ==
  [life: Lives, finalizer: BOOLEAN, phase: Phases, resolved: BOOLEAN,
   originalReplicas: Nat \cup {Nil}, jobName: BOOLEAN,
   conditions: SUBSET Conditions]

NewRestore ==
  [life |-> "unborn", finalizer |-> FALSE, phase |-> "", resolved |-> FALSE,
   originalReplicas |-> Nil, jobName |-> FALSE, conditions |-> {}]

\* A LitestreamReplica: the pause annotation, and whether backup is enabled
\* with an S3 destination.
ReplicaObject == [exists: BOOLEAN, pause: BOOLEAN, backup: BOOLEAN]
NoReplica == [exists |-> FALSE, pause |-> FALSE, backup |-> FALSE]

JobStates == {"none", "running", "complete", "failed"}

\* "paused" is pausedConfig (dbs: []), "full" what buildLitestreamConfigYAML
\* renders, "none" no ConfigMap.
Configs == {"none", "full", "paused"}

\* spec.replicas, the pods that run and the pods that are being deleted.  A
\* workload whose volumes do not resolve to a PVC counts as missing.
WorkloadObject ==
  [exists: BOOLEAN, replicas: Nat, active: Nat, terminating: Nat]

Restores == [Restore -> RestoreObject]
Jobs     == [Restore -> JobStates]
Holder   == Restore \cup {NoRestore}

CacheObject ==
  [restore: Restores, replica: ReplicaObject, lease: Holder, job: Jobs,
   config: Configs, workload: WorkloadObject]

ClusterTypeOK ==
  /\ restore \in Restores
  /\ replica \in ReplicaObject
  /\ lease \in Holder
  /\ job \in Jobs
  /\ config \in Configs
  /\ workload \in WorkloadObject
  /\ cache \in CacheObject

-----------------------------------------------------------------------------
(***************************************************************************)
(* What a Get returns: the cached object, out of date only for the kinds   *)
(* in Lagging.                                                             *)
(***************************************************************************)

Seen(kind, object, copy) == IF kind \in Lagging THEN copy ELSE object

SeenRestore  == Seen("restore", restore, cache.restore)
SeenReplica  == Seen("replica", replica, cache.replica)
SeenLease    == Seen("lease", lease, cache.lease)
SeenJob      == Seen("job", job, cache.job)
SeenConfig   == Seen("config", config, cache.config)
SeenWorkload == Seen("workload", workload, cache.workload)

\* status.replicas: the pods of a StatefulSet that exist, but only the pods of
\* a Deployment that are not yet being deleted.
RunningReplicas(w) ==
  IF Kind = "StatefulSet" THEN w.active + w.terminating ELSE w.active

\* The pods that may have the database file open.
Pods(w) == w.active + w.terminating

ClusterInit ==
  /\ restore  = [r \in Restore |-> NewRestore]
  /\ replica  = [exists |-> TRUE, pause |-> FALSE, backup |-> TRUE]
  /\ lease    = NoRestore
  /\ job      = [r \in Restore |-> "none"]
  /\ config   = "full"
  /\ workload = [exists |-> TRUE, replicas |-> Replicas,
                 active |-> Replicas, terminating |-> 0]
  /\ cache    = [restore |-> restore, replica |-> replica, lease |-> lease,
                 job |-> job, config |-> config, workload |-> workload]

-----------------------------------------------------------------------------
(***************************************************************************)
(* The rest of the cluster.                                                *)
(***************************************************************************)

\* A StatefulSet waits for the pod it replaces, a Deployment does not.
StartPod ==
  /\ workload.exists
  /\ RunningReplicas(workload) < workload.replicas
  /\ workload' = [workload EXCEPT !.active = @ + 1]
  /\ UNCHANGED <<restore, replica, lease, job, config, cache>>

DeletePod ==
  /\ workload.active > workload.replicas
  /\ workload.terminating < MaxTerminating
  /\ workload' = [workload EXCEPT !.active = @ - 1, !.terminating = @ + 1]
  /\ UNCHANGED <<restore, replica, lease, job, config, cache>>

PodExits ==
  /\ workload.terminating > 0
  /\ workload' = [workload EXCEPT !.terminating = @ - 1]
  /\ UNCHANGED <<restore, replica, lease, job, config, cache>>

\* The Job runs litestream restore to its end, or exhausts its backoffLimit.
JobEnds(r) ==
  /\ job[r] = "running"
  /\ \E outcome \in {"complete", "failed"} : job' = [job EXCEPT ![r] = outcome]
  /\ UNCHANGED <<restore, replica, lease, config, workload, cache>>

\* The Lease, the Jobs and the ConfigMap have an owner reference and go some
\* time after their owner.
CollectLease ==
  /\ lease # NoRestore
  /\ restore[lease].life = "gone"
  /\ lease' = NoRestore
  /\ UNCHANGED <<restore, replica, job, config, workload, cache>>

CollectJob(r) ==
  /\ restore[r].life = "gone"
  /\ job[r] # "none"
  /\ job' = [job EXCEPT ![r] = "none"]
  /\ UNCHANGED <<restore, replica, lease, config, workload, cache>>

CollectConfig ==
  /\ ~replica.exists
  /\ config # "none"
  /\ config' = "none"
  /\ UNCHANGED <<restore, replica, lease, job, workload, cache>>

\* A watch brings the cached objects of one kind up to date.
SyncCache(kind) ==
  /\ kind \in Lagging
  /\ cache' = [cache EXCEPT ![kind] =
       CASE kind = "restore"  -> restore
         [] kind = "replica"  -> replica
         [] kind = "lease"    -> lease
         [] kind = "job"      -> job
         [] kind = "config"   -> config
         [] kind = "workload" -> workload]
  /\ UNCHANGED stored

UserCreatesRestore(r) ==
  /\ restore[r].life = "unborn"
  /\ restore' = [restore EXCEPT ![r].life = "live"]
  /\ UNCHANGED <<replica, lease, job, config, workload, cache>>

\* A delete only marks an object that has a finalizer.
UserDeletesRestore(r) ==
  /\ "deleteRestore" \in UserActions
  /\ restore[r].life = "live"
  /\ restore' = [restore EXCEPT ![r].life =
                   IF restore[r].finalizer THEN "deleting" ELSE "gone"]
  /\ UNCHANGED <<replica, lease, job, config, workload, cache>>

\* Seen from the restores, the LitestreamReplica goes in one step: its own
\* finalizer touches none of the objects of this module.
UserDeletesReplica ==
  /\ "deleteReplica" \in UserActions
  /\ replica.exists
  /\ replica' = NoReplica
  /\ UNCHANGED <<restore, lease, job, config, workload, cache>>

UserDisablesBackup ==
  /\ "disableBackup" \in UserActions
  /\ replica.exists /\ replica.backup
  /\ replica' = [replica EXCEPT !.backup = FALSE]
  /\ UNCHANGED <<restore, lease, job, config, workload, cache>>

UserDeletesWorkload ==
  /\ "deleteWorkload" \in UserActions
  /\ workload.exists
  /\ workload' = [workload EXCEPT !.exists = FALSE, !.replicas = 0]
  /\ UNCHANGED <<restore, replica, lease, job, config, cache>>

UserScalesWorkload ==
  /\ "scaleWorkload" \in UserActions
  /\ workload.exists
  /\ \E n \in {0, Replicas} \ {workload.replicas} :
       workload' = [workload EXCEPT !.replicas = n]
  /\ UNCHANGED <<restore, replica, lease, job, config, cache>>

KubernetesStep ==
  \/ StartPod \/ DeletePod \/ PodExits
  \/ \E r \in Restore : JobEnds(r) \/ CollectJob(r)
  \/ CollectLease \/ CollectConfig
  \/ \E kind \in CacheKinds : SyncCache(kind)

UserStep ==
  \/ \E r \in Restore : UserCreatesRestore(r) \/ UserDeletesRestore(r)
  \/ UserDeletesReplica \/ UserDisablesBackup
  \/ UserDeletesWorkload \/ UserScalesWorkload
=============================================================================
