------------------------------ MODULE ReplicaSystem ------------------------------
(***************************************************************************)
(* The replica controller at work: what a LitestreamReplica promises about *)
(* the pods of its workload, its ConfigMaps and its status.                *)
(***************************************************************************)
EXTENDS ReplicaController

TypeOK == ClusterTypeOK /\ ControllerTypeOK

Init == ClusterInit /\ ControllerInit

EnvironmentStep == (KubernetesStep \/ ChangeStep) /\ UNCHANGED <<call, faults>>

Next == ReconcilerStep \/ EnvironmentStep

Spec == Init /\ [][Next]_vars

(***************************************************************************)
(* Fairness.  A call runs to its end, and another one follows: each call   *)
(* that does not fail asks for the next (RequeueAfter: statusSyncInterval),*)
(* one that fails is retried, and the work queue is served in turn.  The   *)
(* workload controller, kubelet, garbage collector and watches do their    *)
(* work.                                                                   *)
(***************************************************************************)
Fairness ==
  /\ WF_vars(CallStep)
  /\ \A r \in Replica : SF_vars(Begin(r))
  /\ \A p \in Slots :
       WF_vars((CreatePod(p) \/ DeletePod(p) \/ PodGone(p) \/ PodStarts(p))
               /\ UNCHANGED <<call, faults>>)
  /\ \A r \in Replica : WF_vars(CollectConfig(r) /\ UNCHANGED <<call, faults>>)
  /\ \A kind \in CacheKinds : WF_vars(SyncCache(kind) /\ UNCHANGED <<call, faults>>)

FairSpec == Spec /\ Fairness

-----------------------------------------------------------------------------

\* A pod gets the sidecar only when the ConfigMaps it mounts are there: else it
\* would not start (reconcileTargetAnnotation comes after both ConfigMaps).  The
\* injector goes by the spec of the moment, so bootstrap.sql is only promised for
\* a pod made from no later spec than its template was annotated for.
PodsFindTheirConfig ==
  \A p \in Live : pod[p].of # NoReplica /\ replica[pod[p].of].life \in Present =>
    /\ configMap[pod[p].of].content # "none"
    /\ pod[p].sql /\ pod[p].sidecar <= pod[p].template.hash
         => bootstrapMap[pod[p].of] # Nil

\* For litestream.yml, whatever the caches show: until a replica is gone, the
\* template that names it, each of its pods, and the call that is about to
\* annotate for it find the ConfigMap, and none that is not there is cached.
ConfigInv ==
  \A r \in Replica : replica[r].life # "gone" =>
    LET written == configMap[r].content # "none"
    IN  /\ workload.template.config = r => written
        /\ \A p \in Slots : pod[p].of = r => written
        /\ cur = r /\ pc \in {"bootstrap", "annotate"} => written
        /\ SeenMaps.config[r].content # "none" => written

\* For bootstrap.sql, when the cache is current in the workload: the hash of the
\* template is that of the present spec, with its ConfigMap, or of an earlier one.
Covered(r, hash) ==
  replica[r].injection <= hash /\ replica[r].sql => bootstrapMap[r] # Nil

CopyOf(copy, r) ==
  /\ copy.injection <= replica[r].injection
  /\ copy.injection = replica[r].injection => copy.sql = replica[r].sql

BootstrapInv ==
  \A r \in Replica : replica[r].life # "gone" =>
    /\ replica[r].injection <= replica[r].sidecar
    /\ replica[r].injection <= replica[r].generation
    /\ CopyOf(SeenReplica[r], r)
    /\ SeenMaps.bootstrap[r] # Nil => bootstrapMap[r] # Nil
    /\ cur = r => CopyOf(my, r)
    /\ cur = r /\ pc = "annotate" => Covered(r, my.injection)
    /\ workload.template.config = r =>
         /\ workload.template.hash <= replica[r].injection
         /\ Covered(r, workload.template.hash)
    /\ \A p \in Slots :
         pod[p].of = r /\ pod[p].sql /\ pod[p].sidecar <= pod[p].template.hash
           => bootstrapMap[r] # Nil

\* No pod template names a LitestreamReplica that is gone: the injector would
\* refuse every new pod of the workload (handleReplicaFinalization).
NoOrphanInjection ==
  workload.exists /\ workload.template.inject /\ workload.template.config # NoReplica
    => replica[workload.template.config].life \in Present

\* The inductive strengthening of NoOrphanInjection, for a cache that is current
\* in the workload.  Only a replica with a finalizer is injected, so it goes by
\* way of "deleting" and of a call that first takes the annotations away; that
\* call, and every later one, sees that it is being deleted.
Kept(r)  == replica[r].life \in Present /\ replica[r].finalizer
Going(r) == {replica[r].life, SeenReplica[r].life} \subseteq {"deleting", "gone"}

InjectionInv ==
  /\ \A r \in Replica :
       /\ SeenReplica[r].life = "live" /\ SeenReplica[r].finalizer => Kept(r)
       /\ SeenReplica[r].life = "deleting" => Going(r)
       /\ workload.exists /\ workload.template.inject /\ workload.template.config = r
            => Kept(r)
  /\ pc \in {"config", "bootstrap", "annotate"} => Kept(cur)
  /\ pc \in {"deinstrument", "removeFinalizer"} => Going(cur)
  /\ pc = "removeFinalizer" => ~(workload.exists /\ workload.template.inject)

Coherent(status) ==
  LET value == status.conditions
  IN  /\ status.ready <=> status.phase = "Ready"
      /\ status.phase \in {"Ready", "Pending", "Paused"} =>
           /\ value["TargetReady"] = "True"
           /\ "True" \notin {value["ReplicaCountExceeded"], value["UnsafeRolloutStrategy"]}
           /\ status.healthy <=> value["ReplicationHealthy"] = "True"
           /\ status.ready <=> value["Ready"] = "True"
           /\ status.phase = "Paused" <=> value["ReplicationPaused"] = "True"

\* The parts of a status agree, whatever was reported before: the phase with the
\* ready flag always, the conditions with both in the phases Ready, Pending and
\* Paused.  In the phase Error they need not, see ReadyMirrorsCondition.
StatusCoherent == \A r \in Replica : Coherent(replica[r].status)

\* The base of the status patch is what is stored, but for the condition the call
\* itself sets in its copy; with it StatusCoherent is inductive, for a cache that
\* is current in the replicas.
BaseIsStored ==
  pc # "idle" =>
    LET stored == replica[cur].status
        base   == my.status
    IN  /\ base = [stored EXCEPT !.conditions = base.conditions]
        /\ \A type \in ConditionTypes \ {"BootstrapApplied"} :
             base.conditions[type] = stored.conditions[type]

Attended(r) == replica[r].life = "live" /\ workload.exists

\* When the changes have ended, the status ends up saying what is the case.
StatusConverges ==
  \A r \in Replica : <>[](Attended(r) /\ replica[r].finalizer =>
    LET status == replica[r].status
        sound  == workload.replicas <= 1 /\ workload.strategy # "RollingUpdate"
        up     == \E p \in Live : pod[p].state = "running"
        synced == up /\ replica[r].backup /\ ~(MaxLag /\ behind)
    IN  /\ status.observed = replica[r].generation
        /\ status.phase = CASE ~sound          -> "Error"
                            [] replica[r].pause -> "Paused"
                            [] up               -> "Ready"
                            [] OTHER            -> "Pending"
        /\ status.conditions["ReplicaCountExceeded"] =
             IF workload.replicas > 1 THEN "True" ELSE "absent"
        /\ sound => (status.healthy <=> synced)
        /\ sound /\ replica[r].sql => status.conditions["BootstrapApplied"] = "True")

\* litestream.yml ends up as the spec and the annotation have it.
ConfigConverges ==
  \A r \in Replica : <>[](replica[r].life = "live" /\ replica[r].finalizer =>
    configMap[r] = IF replica[r].pause THEN [content |-> "paused", of |-> 0]
                   ELSE [content |-> "full", of |-> replica[r].generation])

\* In the end every pod has the sidecar of the present spec: "A change in any
\* of these fields triggers a rollout".
RolloutReachesPods ==
  \A r \in Replica :
    <>[](Attended(r) /\ replica[r].finalizer /\ workload.replicas = 1 =>
           \E p \in Live : pod[p].of = r /\ pod[p].sidecar = replica[r].sidecar)

\* A replica that is deleted goes, whatever has become of its workload and
\* however old the copy its finalizer is removed from, unless the validator
\* refuses the removal (handleReplicaFinalization, ValidateUpdate).
ValidDeletionEnds ==
  \A r \in Replica :
    replica[r].life = "deleting" ~> replica[r].life = "gone" \/ workload.replicas > 1

\* "deletion is always permitted": the object goes.
DeletionEnds ==
  \A r \in Replica : replica[r].life = "deleting" ~> replica[r].life = "gone"

-----------------------------------------------------------------------------
(***************************************************************************)
(* What documents and comments say and the code does not keep.             *)
(***************************************************************************)

\* A pod finds every ConfigMap it mounts (Reconcile renders both before it
\* annotates the template).
PodsFindEveryConfig ==
  \A p \in Live : pod[p].of # NoReplica /\ replica[pod[p].of].life \in Present
    => HasItsConfig(p)

\* "Ready mirrors the Ready condition status".
ReadyMirrorsCondition ==
  \A r \in Replica :
    LET status == replica[r].status
    IN  status.conditions["Ready"] # "absent"
          => (status.ready <=> status.conditions["Ready"] = "True")

\* status.injectedSpecHash is "currently applied to the target workload's pod
\* template": between calls that were not cut short.
HashIsApplied ==
  pc = "idle" => \A r \in Replica :
    replica[r].status.hash # Nil /\ workload.template.config = r
      => replica[r].status.hash = workload.template.hash

\* "TargetReady indicates the target workload exists": it ends up so.
MissingTargetIsReported ==
  \A r \in Replica :
    <>[](replica[r].life = "live" /\ ~workload.exists
           => replica[r].status.conditions["TargetReady"] # "True")

\* "prevent concurrent writers": no two pods have the database open.
SingleWriter == Cardinality(There) <= 1
=============================================================================
