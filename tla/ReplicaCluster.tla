----------------------------- MODULE ReplicaCluster -----------------------------
(***************************************************************************)
(* What the replica controller works on: the LitestreamReplica objects     *)
(* that name one Deployment or StatefulSet, their ConfigMaps, the pod      *)
(* template of that workload, and its pods, into which the admission       *)
(* webhook injects the sidecar as they are created.                        *)
(*                                                                         *)
(* A spec is told by the numbers of the changes that made it: generation   *)
(* is that of the last change, sidecar that of the last change of a field  *)
(* the injector writes into a pod, and injection that of the last change   *)
(* of a field injectionSpecHash covers.  Equal numbers are equal values.   *)
(***************************************************************************)
EXTENDS Integers, FiniteSets

CONSTANTS
  Replica,      \* names of the LitestreamReplica objects, each used once
  NoReplica,    \* not a replica
  Bootstrap,    \* those created with spec.bootstrap.sql
  MaxLag,       \* whether spec.health.maxReplicationLag is set
  Strategy,     \* what the workload rolls out with, see Strategies
  MaxPods,      \* bound: pods of the workload, those that terminate included
  MaxChanges,   \* bound: changes by the user and mishaps of pods
  Lagging,      \* kinds of objects whose cached copy may be out of date
  Changes       \* what the user changes, and what befalls the pods

Strategies == {"StatefulSet", "Recreate", "RollingUpdate"}
CacheKinds == {"replica", "workload", "pod", "maps"}

ASSUME ReplicaAssumption == Bootstrap \subseteq Replica /\ NoReplica \notin Replica
ASSUME BoundAssumption   == MaxPods \in Nat \ {0} /\ MaxChanges \in Nat
ASSUME ChoiceAssumption  == Strategy \in Strategies /\ MaxLag \in BOOLEAN
                            /\ Lagging \subseteq CacheKinds

VARIABLES
  replica,       \* the LitestreamReplica objects
  configMap,     \* content of each <replica>-litestream
  bootstrapMap,  \* content of each <replica>-bootstrap-sql
  workload,      \* the target workload and its pod template
  pod,           \* its pods
  behind,        \* replication lags by more than maxReplicationLag
  cache,         \* the informer cache
  changes        \* changes made so far

objects == <<replica, configMap, bootstrapMap, workload, pod>>

-----------------------------------------------------------------------------
Nil == -1
Number == Nat \cup {Nil}

Lives   == {"unborn", "live", "deleting", "gone"}
Present == {"live", "deleting"}

ConditionTypes ==
  {"TargetReady", "SidecarReady", "ReplicationHealthy", "BootstrapApplied",
   "ReplicationPaused", "ReplicaCountExceeded", "UnsafeRolloutStrategy", "Ready"}

Status ==
  [phase: {"", "Pending", "Ready", "Paused", "Error"}, ready: BOOLEAN,
   healthy: BOOLEAN, hash: Number, observed: Number,
   conditions: [ConditionTypes -> {"absent", "True", "False"}]]

NewStatus ==
  [phase |-> "", ready |-> FALSE, healthy |-> FALSE, hash |-> Nil, observed |-> 0,
   conditions |-> [type \in ConditionTypes |-> "absent"]]

ReplicaObject ==
  [life: Lives, finalizer: BOOLEAN, pause: BOOLEAN, backup: BOOLEAN, sql: BOOLEAN,
   generation: Nat, sidecar: Nat, injection: Nat, status: Status]

NewReplica ==
  [life |-> "unborn", finalizer |-> FALSE, pause |-> FALSE, backup |-> TRUE,
   sql |-> FALSE, generation |-> 1, sidecar |-> 1, injection |-> 1, status |-> NewStatus]

\* litestream.yml, and the generation of the spec it was rendered from.
Contents == [content: {"none", "paused", "full"}, of: Nat]
NoConfig == [content |-> "none", of |-> 0]

Holder == Replica \cup {NoReplica}

\* The operator's annotations on the pod template: inject (with the label of
\* the same name), config and injection-spec-hash.
Template == [inject: BOOLEAN, config: Holder, hash: Number]
Bare     == [inject |-> FALSE, config |-> NoReplica, hash |-> Nil]

WorkloadObject ==
  [exists: BOOLEAN, replicas: Nat, strategy: Strategies, template: Template]

\* A pod: its state, the template it was made from, the replica and the sidecar
\* version injected into it, and whether it mounts <replica>-bootstrap-sql.
Slots == 1..MaxPods
PodObject ==
  [state: {"none", "pending", "running", "failed", "terminating"},
   template: Template, of: Holder, sidecar: Number, sql: BOOLEAN]
NoPod == [state |-> "none", template |-> Bare, of |-> NoReplica, sidecar |-> Nil,
          sql |-> FALSE]

\* The ConfigMaps, which share an informer.
Maps == [config: [Replica -> Contents], bootstrap: [Replica -> Number]]
maps == [config |-> configMap, bootstrap |-> bootstrapMap]

CacheObject ==
  [replica: [Replica -> ReplicaObject], workload: WorkloadObject,
   pod: [Slots -> PodObject], maps: Maps]

ClusterTypeOK ==
  /\ replica \in [Replica -> ReplicaObject]
  /\ configMap \in [Replica -> Contents]
  /\ bootstrapMap \in [Replica -> Number]
  /\ workload \in WorkloadObject
  /\ pod \in [Slots -> PodObject]
  /\ behind \in BOOLEAN
  /\ cache \in CacheObject
  /\ changes \in 0..MaxChanges

Seen(kind, object, copy) == IF kind \in Lagging THEN copy ELSE object

SeenReplica  == Seen("replica", replica, cache.replica)
SeenWorkload == Seen("workload", workload, cache.workload)
SeenPod      == Seen("pod", pod, cache.pod)
SeenMaps     == Seen("maps", maps, cache.maps)

ClusterInit ==
  /\ replica = [r \in Replica |-> [NewReplica EXCEPT !.sql = r \in Bootstrap]]
  /\ configMap = [r \in Replica |-> NoConfig]
  /\ bootstrapMap = [r \in Replica |-> Nil]
  /\ workload = [exists |-> TRUE, replicas |-> 1, strategy |-> Strategy,
                 template |-> Bare]
  /\ pod = [p \in Slots |-> IF p = 1 THEN [NoPod EXCEPT !.state = "running"] ELSE NoPod]
  /\ behind = FALSE
  /\ cache = [replica |-> replica, workload |-> workload, pod |-> pod,
              maps |-> maps]
  /\ changes = 0

-----------------------------------------------------------------------------
(***************************************************************************)
(* The pods.                                                               *)
(***************************************************************************)

There   == {p \in Slots : pod[p].state # "none"}
Live    == {p \in There : pod[p].state # "terminating"}
Current == {p \in Live : pod[p].template = workload.template}

\* A pod the injector lets in: without the annotations as it is, with them
\* with the sidecar of the spec of the moment; no replica, no pod.
Handle(template) ==
  IF template.inject /\ template.config # NoReplica
  THEN {[state |-> "pending", template |-> template, of |-> template.config,
         sidecar |-> replica[template.config].sidecar, sql |-> replica[template.config].sql]
          : r \in {r \in Replica : r = template.config /\ replica[r].life \in Present}}
  ELSE {[NoPod EXCEPT !.state = "pending", !.template = template]}

\* A StatefulSet waits for the pod it replaces to be gone, a Deployment that
\* recreates for all pods of the old template, and one that rolls only has to
\* stay within maxSurge = 1.
RoomForPod ==
  CASE workload.strategy = "StatefulSet"   -> Cardinality(There) < workload.replicas
    [] workload.strategy = "Recreate"      -> There \subseteq Current
    [] workload.strategy = "RollingUpdate" -> Cardinality(Live) <= workload.replicas

CreatePod(p) ==
  /\ pod[p].state = "none" /\ \A q \in Slots : q < p => pod[q].state # "none"
  /\ workload.exists
  /\ Cardinality(Current) < workload.replicas
  /\ RoomForPod
  /\ \E new \in Handle(workload.template) : pod' = [pod EXCEPT ![p] = new]
  /\ UNCHANGED <<replica, configMap, bootstrapMap, workload, behind, cache, changes>>

DeletePod(p) ==
  /\ p \in Live
  /\ \/ ~workload.exists \/ workload.replicas = 0
     \/ p \in Current /\ Cardinality(Current) > workload.replicas
     \/ /\ p \notin Current
        /\ workload.strategy = "RollingUpdate" => \E q \in Current : pod[q].state = "running"
  /\ pod' = [pod EXCEPT ![p].state = "terminating"]
  /\ UNCHANGED <<replica, configMap, bootstrapMap, workload, behind, cache, changes>>

PodGone(p) ==
  /\ pod[p].state = "terminating"
  /\ pod' = [pod EXCEPT ![p] = NoPod]
  /\ UNCHANGED <<replica, configMap, bootstrapMap, workload, behind, cache, changes>>

\* The containers start once the ConfigMaps that are mounted exist.
HasItsConfig(p) ==
  pod[p].of # NoReplica =>
    /\ configMap[pod[p].of].content # "none"
    /\ pod[p].sql => bootstrapMap[pod[p].of] # Nil

PodStarts(p) ==
  /\ \/ pod[p].state = "pending" /\ HasItsConfig(p)
     \/ pod[p].state = "failed"
  /\ pod' = [pod EXCEPT ![p].state = "running"]
  /\ UNCHANGED <<replica, configMap, bootstrapMap, workload, behind, cache, changes>>

CollectConfig(r) ==
  /\ replica[r].life = "gone"
  /\ configMap[r] # NoConfig \/ bootstrapMap[r] # Nil
  /\ configMap' = [configMap EXCEPT ![r] = NoConfig]
  /\ bootstrapMap' = [bootstrapMap EXCEPT ![r] = Nil]
  /\ UNCHANGED <<replica, workload, pod, behind, cache, changes>>

SyncCache(kind) ==
  /\ kind \in Lagging
  /\ cache' = [cache EXCEPT ![kind] =
       CASE kind = "replica"  -> replica
         [] kind = "workload" -> workload
         [] kind = "pod"      -> pod
         [] kind = "maps"     -> maps]
  /\ UNCHANGED <<objects, behind, changes>>

-----------------------------------------------------------------------------
(***************************************************************************)
(* The user.  A change of a LitestreamReplica goes through the validating  *)
(* webhook, as do the operator's own updates of it.                        *)
(***************************************************************************)

\* validateLitestreamReplica of an otherwise valid object.
Validated == SeenWorkload.exists => SeenWorkload.replicas <= 1

Change(kind) == kind \in Changes /\ changes < MaxChanges /\ changes' = changes + 1

UserCreatesReplica(r) ==
  /\ replica[r].life = "unborn"
  /\ Validated
  /\ replica' = [replica EXCEPT ![r].life = "live"]
  /\ UNCHANGED <<configMap, bootstrapMap, workload, pod, behind, cache, changes>>

UserDeletesReplica(r) ==
  /\ replica[r].life = "live"
  /\ Change("delete")
  /\ replica' = [replica EXCEPT ![r].life =
                   IF replica[r].finalizer THEN "deleting" ELSE "gone"]
  /\ UNCHANGED <<configMap, bootstrapMap, workload, pod, behind, cache>>

\* A field of the hash ("hashed"), among them bootstrap.sql, which is added or
\* removed ("bootstrap"), one the injector uses and the hash does not cover
\* ("unhashed"), or another one ("other").
UserEditsReplica(r) ==
  /\ replica[r].life = "live" /\ Validated
  /\ \E kind \in {"hashed", "bootstrap", "unhashed", "other"} :
       LET next == replica[r].generation + 1
       IN  /\ Change(kind)
           /\ replica' = [replica EXCEPT
                ![r].generation = next,
                ![r].sidecar    = IF kind = "other" THEN @ ELSE next,
                ![r].injection  = IF kind \in {"hashed", "bootstrap"} THEN next ELSE @,
                ![r].sql        = IF kind = "bootstrap" THEN ~@ ELSE @]
  /\ UNCHANGED <<configMap, bootstrapMap, workload, pod, behind, cache>>

\* backup.enabled is one of the fields of the hash.
UserTogglesBackup(r) ==
  /\ replica[r].life = "live" /\ Validated
  /\ Change("backup")
  /\ LET next == replica[r].generation + 1
     IN  replica' = [replica EXCEPT
           ![r].backup = ~@, ![r].generation = next,
           ![r].sidecar = next, ![r].injection = next]
  /\ UNCHANGED <<configMap, bootstrapMap, workload, pod, behind, cache>>

\* The user, or the restore controller, sets or removes the pause annotation.
UserTogglesPause(r) ==
  /\ replica[r].life = "live" /\ Validated
  /\ Change("pause")
  /\ replica' = [replica EXCEPT ![r].pause = ~@]
  /\ UNCHANGED <<configMap, bootstrapMap, workload, pod, behind, cache>>

\* The workload is scaled (to zero by the restore controller as well), gets a
\* safe rollout strategy, is deployed again without the annotations, or goes.
UserChangesWorkload ==
  /\ workload.exists
  /\ \/ /\ Change("scale")
        /\ \E n \in 0..2 \ {workload.replicas} : workload' = [workload EXCEPT !.replicas = n]
     \/ /\ Change("strategy") /\ workload.strategy = "RollingUpdate"
        /\ workload' = [workload EXCEPT !.strategy = "Recreate"]
     \/ /\ Change("template") /\ workload.template # Bare
        /\ workload' = [workload EXCEPT !.template = Bare]
     \/ /\ Change("deleteWorkload")
        /\ workload' = [workload EXCEPT !.exists = FALSE]
  /\ UNCHANGED <<replica, configMap, bootstrapMap, pod, behind, cache>>

SidecarFails(p) ==
  /\ pod[p].state = "running" /\ pod[p].of # NoReplica
  /\ Change("fail")
  /\ pod' = [pod EXCEPT ![p].state = "failed"]
  /\ UNCHANGED <<replica, configMap, bootstrapMap, workload, behind, cache>>

FallsBehind ==
  /\ ~behind
  /\ Change("lag")
  /\ behind' = TRUE
  /\ UNCHANGED <<replica, configMap, bootstrapMap, workload, pod, cache>>

KubernetesStep ==
  \/ \E p \in Slots : CreatePod(p) \/ DeletePod(p) \/ PodGone(p) \/ PodStarts(p)
  \/ \E r \in Replica : CollectConfig(r)
  \/ \E kind \in CacheKinds : SyncCache(kind)

ChangeStep ==
  \/ \E r \in Replica :
       \/ UserCreatesReplica(r) \/ UserDeletesReplica(r) \/ UserEditsReplica(r)
       \/ UserTogglesBackup(r) \/ UserTogglesPause(r)
  \/ UserChangesWorkload
  \/ \E p \in Slots : SidecarFails(p)
  \/ FallsBehind
=============================================================================
