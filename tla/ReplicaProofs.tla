----------------------------- MODULE ReplicaProofs -----------------------------
(***************************************************************************)
(* Theorems about ReplicaSystem, for every set of replicas, every number   *)
(* of pods and every bound, and the proofs TLAPS checks.                   *)
(***************************************************************************)
EXTENDS ReplicaSystem, TLAPS

-----------------------------------------------------------------------------
(***************************************************************************)
(* Type correctness.                                                       *)
(***************************************************************************)

LEMMA NewTypes ==
  /\ NewStatus \in Status
  /\ NewReplica \in ReplicaObject
  /\ Bare \in Template
  /\ NoPod \in PodObject
  /\ NoConfig \in Contents
<1>1. NewStatus \in Status
  BY DEF NewStatus, Status, ConditionTypes, Number, Nil
<1>2. Bare \in Template
  BY DEF Bare, Template, Holder, Number, Nil
<1> QED
  BY <1>1, <1>2 DEF NewReplica, ReplicaObject, Lives, NoPod, PodObject, Holder, Number,
     NoConfig, Contents

\* What a Get or List returns is of the type of what is stored.
LEMMA SeenType ==
  ASSUME ClusterTypeOK
  PROVE  /\ SeenReplica \in [Replica -> ReplicaObject]
         /\ SeenWorkload \in WorkloadObject
         /\ SeenPod \in [Slots -> PodObject]
         /\ SeenMaps \in Maps
<1>1. maps \in Maps
  BY DEF ClusterTypeOK, maps, Maps
<1> QED
  BY <1>1 DEF ClusterTypeOK, CacheObject, Seen, SeenReplica, SeenWorkload, SeenPod, SeenMaps

\* After Return the variables of the call have their initial types.
LEMMA ReturnType ==
  ASSUME Return
  PROVE  /\ pc' \in Steps /\ cur' \in Holder /\ (pc' # "idle" => cur' \in Replica)
         /\ my' \in ReplicaObject
BY NewTypes DEF Return, Steps, Holder

LEMMA ContinueType ==
  ASSUME ControllerTypeOK, pc # "idle", NEW step \in Steps, Continue(step)
  PROVE  /\ pc' \in Steps /\ cur' \in Holder /\ (pc' # "idle" => cur' \in Replica)
         /\ my' \in ReplicaObject
BY DEF ControllerTypeOK, Continue

LEMMA FaultType ==
  ASSUME ControllerTypeOK, NEW kind, UNCHANGED faults \/ Fault(kind)
  PROVE  faults' \in 0..MaxFaults
BY FaultsAssumption DEF ControllerTypeOK, Fault

LEMMA InitType == Init => TypeOK
<1> SUFFICES ASSUME Init PROVE TypeOK
  OBVIOUS
<1>1. /\ replica \in [Replica -> ReplicaObject]
      /\ configMap \in [Replica -> Contents]
      /\ bootstrapMap \in [Replica -> Number]
  <2>1. ASSUME NEW r \in Replica
        PROVE  [NewReplica EXCEPT !.sql = r \in Bootstrap] \in ReplicaObject
    <3>1. ASSUME NEW sql \in BOOLEAN
          PROVE  [NewReplica EXCEPT !.sql = sql] \in ReplicaObject
      BY NewTypes DEF ReplicaObject
    <3>2. (r \in Bootstrap) \in BOOLEAN
      OBVIOUS
    <3> QED
      BY <3>1, <3>2
  <2> QED
    BY <2>1, NewTypes DEF Init, ClusterInit, Number
<1>2. workload \in WorkloadObject
  BY NewTypes, ChoiceAssumption DEF Init, ClusterInit, WorkloadObject
<1>3. pod \in [Slots -> PodObject]
  <2>1. [NoPod EXCEPT !.state = "running"] \in PodObject
    BY NewTypes DEF PodObject
  <2> QED
    BY <2>1, NewTypes DEF Init, ClusterInit
<1>4. cache \in CacheObject
  <2>1. maps \in Maps
    BY <1>1 DEF maps, Maps
  <2> QED
    BY <1>1, <1>2, <1>3, <2>1 DEF Init, ClusterInit, CacheObject
<1>5. behind \in BOOLEAN /\ changes \in 0..MaxChanges
  <2>1. behind \in BOOLEAN
    BY DEF Init, ClusterInit
  <2>2. changes = 0
    BY DEF Init, ClusterInit
  <2>3. changes \in 0..MaxChanges
    BY <2>2, BoundAssumption
  <2> QED
    BY <2>1, <2>3
<1>6. ControllerTypeOK
  BY NewTypes, FaultsAssumption DEF Init, ControllerInit, ControllerTypeOK, Steps, Holder
<1> QED
  BY <1>1, <1>2, <1>3, <1>4, <1>5, <1>6 DEF TypeOK, ClusterTypeOK

-----------------------------------------------------------------------------
\* A pod the injector lets in is a pod.
LEMMA HandleType ==
  ASSUME ClusterTypeOK, NEW template \in Template, NEW new \in Handle(template)
  PROVE  /\ new \in PodObject
         /\ new.template = template
         /\ \/ new.of = NoReplica /\ ~new.sql
            \/ /\ new.of = template.config /\ new.of \in Replica
               /\ new.sidecar = replica[new.of].sidecar /\ new.sql = replica[new.of].sql
<1>1. CASE template.inject /\ template.config # NoReplica
  <2>1. template.config \in Replica
    BY <1>1 DEF Template, Holder
  <2>2. new = [state |-> "pending", template |-> template, of |-> template.config,
               sidecar |-> replica[template.config].sidecar,
               sql |-> replica[template.config].sql]
    BY <1>1 DEF Handle
  <2>3. replica[template.config].sidecar \in Number
        /\ replica[template.config].sql \in BOOLEAN
    BY <2>1 DEF ClusterTypeOK, ReplicaObject, Number
  <2> QED
    BY <2>1, <2>2, <2>3 DEF PodObject, Holder
<1>2. CASE ~(template.inject /\ template.config # NoReplica)
  <2>1. new = [NoPod EXCEPT !.state = "pending", !.template = template]
    BY <1>2 DEF Handle
  <2> QED
    BY <2>1, NewTypes DEF PodObject, NoPod
<1> QED
  BY <1>1, <1>2

LEMMA PodStepType ==
  ASSUME ClusterTypeOK, NEW p \in Slots,
         CreatePod(p) \/ DeletePod(p) \/ PodGone(p) \/ PodStarts(p)
  PROVE  ClusterTypeOK'
<1>1. pod' \in [Slots -> PodObject]
  <2>1. CASE CreatePod(p)
    <3>1. workload.template \in Template
      BY DEF ClusterTypeOK, WorkloadObject
    <3>2. PICK new \in Handle(workload.template) : pod' = [pod EXCEPT ![p] = new]
      BY <2>1 DEF CreatePod
    <3>3. new \in PodObject
      BY <3>1, HandleType
    <3> QED
      BY <3>2, <3>3 DEF ClusterTypeOK
  <2>2. CASE DeletePod(p) \/ PodStarts(p)
    BY <2>2 DEF DeletePod, PodStarts, ClusterTypeOK, PodObject
  <2>3. CASE PodGone(p)
    BY <2>3, NewTypes DEF PodGone, ClusterTypeOK
  <2> QED
    BY <2>1, <2>2, <2>3
<1> QED
  BY <1>1 DEF CreatePod, DeletePod, PodGone, PodStarts, ClusterTypeOK

LEMMA KubernetesType ==
  ASSUME ClusterTypeOK, KubernetesStep
  PROVE  ClusterTypeOK'
<1>1. ASSUME NEW r \in Replica, CollectConfig(r) PROVE ClusterTypeOK'
  BY <1>1, NewTypes DEF CollectConfig, ClusterTypeOK, Number
<1>2. ASSUME NEW kind \in CacheKinds, SyncCache(kind) PROVE ClusterTypeOK'
  <2>1. cache' \in CacheObject
    BY <1>2 DEF SyncCache, CacheKinds, ClusterTypeOK, CacheObject, maps, Maps
  <2> QED
    BY <1>2, <2>1 DEF SyncCache, objects, ClusterTypeOK
<1> QED
  BY <1>1, <1>2, PodStepType DEF KubernetesStep

\* What a change of a spec may do to its numbers: nothing, or a new generation,
\* which is also that of the sidecar, and of the hash, if it is about them.
SpecGoesOn(r) ==
  LET next == replica[r].generation + 1
  IN  \/ /\ replica'[r].sql = replica[r].sql
         /\ replica'[r].injection = replica[r].injection
         /\ replica'[r].generation \in {replica[r].generation, next}
         /\ replica'[r].sidecar \in {replica[r].sidecar, next}
      \/ {replica'[r].generation, replica'[r].sidecar, replica'[r].injection} = {next}

SpecKept(r) ==
  /\ replica'[r].sql = replica[r].sql
  /\ replica'[r].injection = replica[r].injection
  /\ replica'[r].generation = replica[r].generation
  /\ replica'[r].sidecar = replica[r].sidecar

\* What the user does to a replica, and what of it stays as it is.
LEMMA ReplicaChange ==
  ASSUME ClusterTypeOK, NEW r \in Replica,
         \/ UserCreatesReplica(r) \/ UserDeletesReplica(r) \/ UserEditsReplica(r)
         \/ UserTogglesBackup(r) \/ UserTogglesPause(r)
  PROVE  /\ replica' \in [Replica -> ReplicaObject]
         /\ changes' \in 0..MaxChanges
         /\ UNCHANGED <<configMap, bootstrapMap, workload, pod, behind, cache>>
         /\ \A s \in Replica : /\ replica'[s].status = replica[s].status
                               /\ replica'[s].finalizer = replica[s].finalizer
         /\ \A s \in Replica \ {r} : replica'[s] = replica[s]
         /\ SpecGoesOn(r)
         /\ replica[r].life \in {"unborn", "live"}
         /\ replica'[r].life \in
              IF replica[r].life = "unborn" THEN {"live"}
              ELSE IF replica[r].finalizer THEN {"live", "deleting"} ELSE {"live", "gone"}
<1>1. /\ replica \in [Replica -> ReplicaObject] /\ changes \in 0..MaxChanges
      /\ replica[r] \in ReplicaObject
  BY DEF ClusterTypeOK
<1>2. PICK new \in ReplicaObject :
        /\ replica' = [replica EXCEPT ![r] = new]
        /\ new.status = replica[r].status /\ new.finalizer = replica[r].finalizer
        /\ \/ /\ new.sql = replica[r].sql /\ new.injection = replica[r].injection
              /\ new.generation \in {replica[r].generation, replica[r].generation + 1}
              /\ new.sidecar \in {replica[r].sidecar, replica[r].generation + 1}
           \/ {new.generation, new.sidecar, new.injection} = {replica[r].generation + 1}
        /\ replica[r].life \in {"unborn", "live"}
        /\ new.life \in IF replica[r].life = "unborn" THEN {"live"}
                        ELSE IF replica[r].finalizer THEN {"live", "deleting"}
                        ELSE {"live", "gone"}
  <2> DEFINE next == replica[r].generation + 1
  <2>1. next \in Nat
    BY <1>1 DEF ReplicaObject
  <2>2. CASE UserCreatesReplica(r)
    <3> DEFINE new == [replica[r] EXCEPT !.life = "live"]
    <3>1. new \in ReplicaObject
      BY <1>1 DEF ReplicaObject, Lives
    <3>2. replica' = [replica EXCEPT ![r] = new]
      BY <2>2 DEF UserCreatesReplica
    <3> QED
      BY <1>1, <2>2, <3>1, <3>2 DEF UserCreatesReplica, ReplicaObject
  <2>3. CASE UserDeletesReplica(r)
    <3> DEFINE new == [replica[r] EXCEPT
                         !.life = IF replica[r].finalizer THEN "deleting" ELSE "gone"]
    <3>1. new \in ReplicaObject
      BY <1>1 DEF ReplicaObject, Lives
    <3>2. replica' = [replica EXCEPT ![r] = new]
      BY <2>3 DEF UserDeletesReplica
    <3> QED
      BY <1>1, <2>3, <3>1, <3>2 DEF UserDeletesReplica, ReplicaObject
  <2>4. CASE UserEditsReplica(r)
    <3>1. PICK kind \in {"hashed", "bootstrap", "unhashed", "other"} :
            replica' = [replica EXCEPT
              ![r].generation = next,
              ![r].sidecar    = IF kind = "other" THEN @ ELSE next,
              ![r].injection  = IF kind \in {"hashed", "bootstrap"} THEN next ELSE @,
              ![r].sql        = IF kind = "bootstrap" THEN ~@ ELSE @]
      BY <2>4 DEF UserEditsReplica
    <3> DEFINE new == [replica[r] EXCEPT
                         !.generation = next,
                         !.sidecar    = IF kind = "other" THEN @ ELSE next,
                         !.injection  = IF kind \in {"hashed", "bootstrap"} THEN next ELSE @,
                         !.sql        = IF kind = "bootstrap" THEN ~@ ELSE @]
    <3>2. new \in ReplicaObject
      BY <1>1, <2>1 DEF ReplicaObject
    <3>3. replica' = [replica EXCEPT ![r] = new]
      BY <1>1, <3>1
    <3>4. /\ new.status = replica[r].status /\ new.finalizer = replica[r].finalizer
          /\ new.life = replica[r].life /\ new.generation = next
          /\ kind \in {"hashed", "bootstrap"} => new.sidecar = next /\ new.injection = next
          /\ kind \in {"unhashed", "other"} =>
               /\ new.sql = replica[r].sql /\ new.injection = replica[r].injection
               /\ new.sidecar \in {replica[r].sidecar, next}
      BY <1>1 DEF ReplicaObject
    <3>5. replica[r].life = "live"
      BY <2>4 DEF UserEditsReplica
    <3> HIDE DEF new
    <3> QED
      BY <3>2, <3>3, <3>4, <3>5
  <2>5. CASE UserTogglesBackup(r)
    <3> DEFINE new == [replica[r] EXCEPT !.backup = ~@, !.generation = next,
                                         !.sidecar = next, !.injection = next]
    <3>1. new \in ReplicaObject
      BY <1>1, <2>1 DEF ReplicaObject
    <3>2. replica' = [replica EXCEPT ![r] = new]
      BY <1>1, <2>5 DEF UserTogglesBackup
    <3> QED
      BY <1>1, <2>5, <3>1, <3>2 DEF UserTogglesBackup, ReplicaObject
  <2>6. CASE UserTogglesPause(r)
    <3> DEFINE new == [replica[r] EXCEPT !.pause = ~@]
    <3>1. new \in ReplicaObject
      BY <1>1 DEF ReplicaObject
    <3>2. replica' = [replica EXCEPT ![r] = new]
      BY <2>6 DEF UserTogglesPause
    <3> QED
      BY <1>1, <2>6, <3>1, <3>2 DEF UserTogglesPause, ReplicaObject
  <2> QED
    BY <2>2, <2>3, <2>4, <2>5, <2>6
<1>3. changes' \in 0..MaxChanges
      /\ UNCHANGED <<configMap, bootstrapMap, workload, pod, behind, cache>>
  <2>1. changes' = changes \/ (changes < MaxChanges /\ changes' = changes + 1)
    BY DEF UserCreatesReplica, UserDeletesReplica, UserEditsReplica, UserTogglesBackup,
       UserTogglesPause, Change
  <2>2. changes' \in 0..MaxChanges
    BY <1>1, <2>1, BoundAssumption
  <2> QED
    BY <2>2 DEF UserCreatesReplica, UserDeletesReplica, UserEditsReplica,
       UserTogglesBackup, UserTogglesPause
<1>4. /\ replica' \in [Replica -> ReplicaObject]
      /\ replica'[r] = new
      /\ \A s \in Replica \ {r} : replica'[s] = replica[s]
  BY <1>1, <1>2
<1>5. SpecGoesOn(r)
  BY <1>2, <1>4 DEF SpecGoesOn
<1> QED
  BY <1>2, <1>3, <1>4, <1>5

LEMMA ChangeType ==
  ASSUME ClusterTypeOK, ChangeStep
  PROVE  ClusterTypeOK'
<1>1. ASSUME NEW r \in Replica,
             \/ UserCreatesReplica(r) \/ UserDeletesReplica(r) \/ UserEditsReplica(r)
             \/ UserTogglesBackup(r) \/ UserTogglesPause(r)
      PROVE  ClusterTypeOK'
  <2>1. /\ replica' \in [Replica -> ReplicaObject]
        /\ changes' \in 0..MaxChanges
        /\ UNCHANGED <<configMap, bootstrapMap, workload, pod, behind, cache>>
    BY <1>1, ReplicaChange
  <2> QED
    BY <2>1 DEF ClusterTypeOK
<1>2. CASE UserChangesWorkload
  <2>1. workload' \in WorkloadObject
    <3>1. workload \in WorkloadObject
      BY DEF ClusterTypeOK
    <3>2. ASSUME NEW n \in 0..2 \ {workload.replicas},
                 workload' = [workload EXCEPT !.replicas = n]
          PROVE  workload' \in WorkloadObject
      BY <3>1, <3>2 DEF WorkloadObject
    <3>3. CASE workload' = [workload EXCEPT !.strategy = "Recreate"]
      BY <3>1, <3>3 DEF WorkloadObject, Strategies
    <3>4. CASE workload' = [workload EXCEPT !.template = Bare]
      BY <3>1, <3>4, NewTypes DEF WorkloadObject
    <3>5. CASE workload' = [workload EXCEPT !.exists = FALSE]
      BY <3>1, <3>5 DEF WorkloadObject
    <3> QED
      BY <1>2, <3>2, <3>3, <3>4, <3>5 DEF UserChangesWorkload
  <2>2. changes' \in 0..MaxChanges
    BY <1>2, BoundAssumption DEF UserChangesWorkload, Change, ClusterTypeOK
  <2> QED
    BY <1>2, <2>1, <2>2 DEF UserChangesWorkload, ClusterTypeOK
<1>3. ASSUME NEW p \in Slots, SidecarFails(p) PROVE ClusterTypeOK'
  BY <1>3, BoundAssumption DEF SidecarFails, Change, ClusterTypeOK, PodObject
<1>4. CASE FallsBehind
  BY <1>4, BoundAssumption DEF FallsBehind, Change, ClusterTypeOK
<1> QED
  BY <1>1, <1>2, <1>3, <1>4 DEF ChangeStep

-----------------------------------------------------------------------------
\* A step that changes no object and ends the call, or moves on in it.
LEMMA ReadOnlyType ==
  ASSUME TypeOK, UNCHANGED <<objects, behind, cache, changes>>, faults' \in 0..MaxFaults,
         Return \/ (pc # "idle" /\ \E step \in Steps : Continue(step))
  PROVE  TypeOK'
<1>1. ClusterTypeOK'
  BY DEF TypeOK, ClusterTypeOK, objects
<1>2. ControllerTypeOK'
  BY ReturnType, ContinueType DEF TypeOK, ControllerTypeOK
<1> QED
  BY <1>1, <1>2 DEF TypeOK

\* What the finalizer steps do to a replica: they add the finalizer, or remove
\* the replica with it.
LEMMA FinalizerChange ==
  ASSUME TypeOK, AddFinalizer \/ RemoveFinalizer
  PROVE  /\ replica' \in [Replica -> ReplicaObject]
         /\ cur \in Replica
         /\ \A s \in Replica : replica'[s].status = replica[s].status /\ SpecKept(s)
         /\ \A s \in Replica \ {cur} : replica'[s] = replica[s]
         /\ \/ replica' = replica
            \/ AddFinalizer /\ replica'[cur].finalizer /\ replica'[cur].life = replica[cur].life
            \/ RemoveFinalizer /\ replica'[cur].life = "gone"
<1>1. replica \in [Replica -> ReplicaObject] /\ cur \in Replica
      /\ replica[cur] \in ReplicaObject
  BY DEF TypeOK, ClusterTypeOK, ControllerTypeOK, AddFinalizer, RemoveFinalizer
<1>2. CASE AddFinalizer /\ UpdateAccepted
  <2> DEFINE new == [replica[cur] EXCEPT !.finalizer = TRUE]
  <2>1. new \in ReplicaObject
    BY <1>1 DEF ReplicaObject
  <2>2. replica' = [replica EXCEPT ![cur] = new]
    BY <1>2 DEF AddFinalizer
  <2> QED
    BY <1>1, <1>2, <2>1, <2>2 DEF ReplicaObject, SpecKept
<1>3. CASE RemoveFinalizer /\ UpdateAccepted
  <2> DEFINE new == [replica[cur] EXCEPT !.finalizer = FALSE, !.life = "gone"]
  <2>1. new \in ReplicaObject
    BY <1>1 DEF ReplicaObject, Lives
  <2>2. replica' = [replica EXCEPT ![cur] = new]
    BY <1>1, <1>3 DEF RemoveFinalizer
  <2> QED
    BY <1>1, <1>3, <2>1, <2>2 DEF ReplicaObject, SpecKept
<1>4. CASE ~UpdateAccepted
  BY <1>1, <1>4 DEF AddFinalizer, RemoveFinalizer, SpecKept
<1> QED
  BY <1>2, <1>3, <1>4

\* A merge patch of a status yields a status.
LEMMA MergeStatusType ==
  ASSUME NEW stored \in Status, NEW base \in Status, NEW new \in Status
  PROVE  MergeStatus(stored, base, new) \in Status
BY DEF MergeStatus, Status

\* The status patch changes the status of the replica of the call, and nothing
\* else of any replica.
LEMMA ReportChange ==
  ASSUME TypeOK, NEW new \in Status, Report(new)
  PROVE  /\ replica' \in [Replica -> ReplicaObject]
         /\ cur \in Replica
         /\ \A s \in Replica : /\ replica'[s].life = replica[s].life
                               /\ replica'[s].finalizer = replica[s].finalizer
                               /\ SpecKept(s)
         /\ \A s \in Replica \ {cur} : replica'[s] = replica[s]
         /\ replica'[cur].status \in
              {replica[cur].status,
               MergeStatus(replica[cur].status, my.status,
                           [new EXCEPT !.observed = my.generation])}
<1> DEFINE merged == MergeStatus(replica[cur].status, my.status,
                                 [new EXCEPT !.observed = my.generation])
           status == IF replica[cur].life \in Present THEN merged ELSE replica[cur].status
<1>1. replica \in [Replica -> ReplicaObject] /\ cur \in Replica /\ my \in ReplicaObject
      /\ replica[cur] \in ReplicaObject
  BY DEF TypeOK, ClusterTypeOK, ControllerTypeOK, Report
<1>2. replica' = [replica EXCEPT ![cur] = [replica[cur] EXCEPT !.status = status]]
  BY <1>1 DEF Report
<1>3. merged \in Status
  <2>1. [new EXCEPT !.observed = my.generation] \in Status
    BY <1>1 DEF ReplicaObject, Status, Number
  <2> QED
    BY <1>1, <2>1, MergeStatusType DEF ReplicaObject
<1>4. [replica[cur] EXCEPT !.status = status] \in ReplicaObject
  BY <1>1, <1>3 DEF ReplicaObject
<1>5. status \in {replica[cur].status, merged}
  OBVIOUS
<1> HIDE DEF merged, status
<1>6. /\ replica' \in [Replica -> ReplicaObject]
      /\ \A s \in Replica : /\ replica'[s].life = replica[s].life
                            /\ replica'[s].finalizer = replica[s].finalizer
                            /\ SpecKept(s)
      /\ \A s \in Replica \ {cur} : replica'[s] = replica[s]
      /\ replica'[cur].status = status
  BY <1>1, <1>2, <1>4 DEF ReplicaObject, SpecKept
<1> QED
  BY <1>1, <1>5, <1>6 DEF merged

\* The conditions of a workload that can be replicated.
LEMMA SoundType ==
  ASSUME TypeOK, NEW exceeded \in BOOLEAN, NEW ready \in BOOLEAN
  PROVE  LET value == Sound(exceeded, ready)
         IN  /\ value \in [ConditionTypes -> {"absent", "True", "False"}]
             /\ value["TargetReady"] = "True"
             /\ "True" \notin {value["ReplicaCountExceeded"], value["UnsafeRolloutStrategy"]}
             /\ my.backup /\ SidecarHealthy /\ ~exceeded
                  <=> value["ReplicationHealthy"] = "True"
             /\ ready <=> value["Ready"] = "True"
             /\ my.pause <=> value["ReplicationPaused"] = "True"
<1> DEFINE healthy == my.backup /\ SidecarHealthy /\ ~exceeded
           paused  == my.pause
           value   == Sound(exceeded, ready)
<1>1. my.status.conditions \in [ConditionTypes -> {"absent", "True", "False"}]
  BY DEF TypeOK, ControllerTypeOK, ReplicaObject, Status
<1>2. /\ If(my.backup /\ SidecarHealthy) \in {"True", "False"}
      /\ If(healthy) \in {"True", "False"} /\ (healthy <=> If(healthy) = "True")
      /\ If(paused) \in {"True", "False"} /\ (paused <=> If(paused) = "True")
      /\ If(ready) \in {"True", "False"} /\ (ready <=> If(ready) = "True")
  BY DEF If
<1>3. value =
        [my.status.conditions EXCEPT
           !["TargetReady"] = "True",
           !["ReplicaCountExceeded"] = "absent", !["UnsafeRolloutStrategy"] = "absent",
           !["ReplicationPaused"] = If(paused),
           !["SidecarReady"] = If(my.backup /\ SidecarHealthy),
           !["ReplicationHealthy"] = If(healthy),
           !["Ready"] = If(ready)]
  BY DEF Sound
<1> HIDE DEF healthy, paused, value
<1>4. /\ value \in [ConditionTypes -> {"absent", "True", "False"}]
      /\ value["TargetReady"] = "True"
      /\ value["ReplicaCountExceeded"] = "absent"
      /\ value["UnsafeRolloutStrategy"] = "absent"
      /\ value["ReplicationPaused"] = If(paused)
      /\ value["ReplicationHealthy"] = If(healthy)
      /\ value["Ready"] = If(ready)
  BY <1>1, <1>2, <1>3 DEF ConditionTypes
<1> QED
  BY <1>2, <1>4 DEF healthy, paused, value

\* Whatever a call reports agrees in itself.
LEMMA UpdateStatusReports ==
  ASSUME TypeOK, UpdateStatus
  PROVE  /\ faults' \in 0..MaxFaults
         /\ \E new \in Status : Coherent(new) /\ Report(new)
<1>1. /\ my.status \in Status
      /\ my.status.conditions \in [ConditionTypes -> {"absent", "True", "False"}]
      /\ my.injection \in Nat /\ my.pause \in BOOLEAN /\ my.backup \in BOOLEAN
  BY DEF TypeOK, ControllerTypeOK, ReplicaObject, Status
<1>2. UNCHANGED faults => faults' \in 0..MaxFaults
  BY DEF TypeOK, ControllerTypeOK
<1>3. CASE ReportMissing \/ ReportTooMany \/ ReportUnsafe
  <2>1. PICK new : /\ Report(new)
                   /\ new \in Status
                   /\ new.phase = "Error" /\ new.ready = FALSE
    <3>1. CASE ReportMissing
      <4> DEFINE conditions == [my.status.conditions EXCEPT
                   !["TargetReady"] = "False", !["SidecarReady"] = "False",
                   !["ReplicationHealthy"] = "False", !["Ready"] = "False"]
                 new == [my.status EXCEPT !.phase = "Error", !.ready = FALSE,
                           !.healthy = FALSE, !.conditions = conditions]
      <4>1. conditions \in [ConditionTypes -> {"absent", "True", "False"}]
        BY <1>1
      <4> HIDE DEF conditions
      <4>2. new \in Status /\ new.phase = "Error" /\ new.ready = FALSE
        BY <1>1, <4>1 DEF Status
      <4>3. Report(new)
        BY <1>1, <3>1 DEF ReportMissing, conditions, Status
      <4> QED
        BY <4>2, <4>3
    <3>2. CASE ReportTooMany
      <4> DEFINE conditions == [my.status.conditions EXCEPT
                   !["TargetReady"] = "True", !["ReplicaCountExceeded"] = "True"]
                 new == [my.status EXCEPT !.phase = "Error", !.ready = FALSE,
                           !.conditions = conditions]
      <4>1. conditions \in [ConditionTypes -> {"absent", "True", "False"}]
        BY <1>1
      <4> HIDE DEF conditions
      <4>2. new \in Status /\ new.phase = "Error" /\ new.ready = FALSE
        BY <1>1, <4>1 DEF Status
      <4>3. Report(new)
        BY <1>1, <3>2 DEF ReportTooMany, conditions, Status
      <4> QED
        BY <4>2, <4>3
    <3>3. CASE ReportUnsafe
      <4> DEFINE conditions == [my.status.conditions EXCEPT
                   !["TargetReady"] = "True", !["ReplicaCountExceeded"] = "absent",
                   !["UnsafeRolloutStrategy"] = "True"]
                 new == [my.status EXCEPT !.phase = "Error", !.ready = FALSE,
                           !.conditions = conditions]
      <4>1. conditions \in [ConditionTypes -> {"absent", "True", "False"}]
        BY <1>1
      <4> HIDE DEF conditions
      <4>2. new \in Status /\ new.phase = "Error" /\ new.ready = FALSE
        BY <1>1, <4>1 DEF Status
      <4>3. Report(new)
        BY <1>1, <3>3 DEF ReportUnsafe, conditions, Status
      <4> QED
        BY <4>2, <4>3
    <3> QED
      BY <1>3, <3>1, <3>2, <3>3
  <2>2. Coherent(new)
    BY <2>1 DEF Coherent
  <2> QED
    BY <1>2, <1>3, <2>1, <2>2 DEF ReportMissing, ReportTooMany, ReportUnsafe
<1>4. ASSUME NEW exceeded \in BOOLEAN, Scrape(exceeded) PROVE faults' \in 0..MaxFaults
  BY <1>4, FaultType DEF Scrape, TypeOK
<1>5. CASE ReportPaused
  <2>1. PICK exceeded \in BOOLEAN :
          /\ Scrape(exceeded)
          /\ Report([my.status EXCEPT
               !.phase = "Paused", !.ready = FALSE,
               !.healthy = my.backup /\ SidecarHealthy /\ ~exceeded,
               !.conditions = Sound(exceeded, FALSE)])
    BY <1>5 DEF ReportPaused
  <2> DEFINE healthy == my.backup /\ SidecarHealthy /\ ~exceeded
             value   == Sound(exceeded, FALSE)
             new     == [my.status EXCEPT !.phase = "Paused", !.ready = FALSE,
                           !.healthy = healthy, !.conditions = value]
  <2>2. /\ value \in [ConditionTypes -> {"absent", "True", "False"}]
        /\ value["TargetReady"] = "True"
        /\ "True" \notin {value["ReplicaCountExceeded"], value["UnsafeRolloutStrategy"]}
        /\ healthy <=> value["ReplicationHealthy"] = "True"
        /\ value["Ready"] # "True"
        /\ value["ReplicationPaused"] = "True"
    BY <1>5, SoundType DEF ReportPaused
  <2>3. healthy \in BOOLEAN
    BY <1>1
  <2>4. Report(new)
    BY <2>1
  <2> HIDE DEF healthy, value
  <2>5. new \in Status /\ new.phase = "Paused" /\ new.ready = FALSE
        /\ new.healthy = healthy /\ new.conditions = value
    BY <1>1, <2>2, <2>3 DEF Status
  <2>6. Coherent(new)
    BY <2>2, <2>5 DEF Coherent
  <2> QED
    BY <1>4, <2>1, <2>4, <2>5, <2>6
<1>6. CASE ReportRunning
  <2> DEFINE ready == SeenWorkload.template.inject /\ ReadyReplicas # {}
  <2>1. PICK exceeded \in BOOLEAN :
          /\ Scrape(exceeded)
          /\ Report([my.status EXCEPT
                !.phase = IF ready THEN "Ready" ELSE "Pending", !.ready = ready,
                !.healthy = my.backup /\ SidecarHealthy /\ ~exceeded,
                !.hash = my.injection,
                !.conditions = Sound(exceeded, ready)])
    BY <1>6 DEF ReportRunning
  <2> DEFINE healthy == my.backup /\ SidecarHealthy /\ ~exceeded
             value   == Sound(exceeded, ready)
             new     == [my.status EXCEPT !.phase = IF ready THEN "Ready" ELSE "Pending",
                           !.ready = ready, !.healthy = healthy, !.hash = my.injection,
                           !.conditions = value]
  <2>2. ready \in BOOLEAN /\ healthy \in BOOLEAN
    BY <1>1, SeenType DEF TypeOK, WorkloadObject, Template
  <2>3. /\ value \in [ConditionTypes -> {"absent", "True", "False"}]
        /\ value["TargetReady"] = "True"
        /\ "True" \notin {value["ReplicaCountExceeded"], value["UnsafeRolloutStrategy"]}
        /\ healthy <=> value["ReplicationHealthy"] = "True"
        /\ ready <=> value["Ready"] = "True"
        /\ value["ReplicationPaused"] # "True"
    BY <1>6, <2>2, SoundType DEF ReportRunning
  <2>4. Report(new)
    BY <2>1
  <2> HIDE DEF ready, healthy, value
  <2>5. new \in Status /\ new.phase = (IF ready THEN "Ready" ELSE "Pending")
        /\ new.ready = ready /\ new.healthy = healthy /\ new.conditions = value
    BY <1>1, <2>2, <2>3 DEF Status, Number
  <2>6. Coherent(new)
    BY <2>2, <2>3, <2>5 DEF Coherent
  <2> QED
    BY <1>4, <2>1, <2>4, <2>5, <2>6
<1> QED
  BY <1>3, <1>5, <1>6 DEF UpdateStatus

\* What the annotation steps make of a pod template: each annotation is removed,
\* set for the replica of the call, or left.
LEMMA TemplateChange ==
  ASSUME TypeOK, Deinstrument \/ Annotate
  PROVE  /\ workload' \in WorkloadObject
         /\ workload'.exists = workload.exists
         /\ workload'.template.config \in
              {workload.template.config, IF pc = "annotate" THEN cur ELSE NoReplica}
<1>1. /\ workload \in WorkloadObject /\ SeenWorkload \in WorkloadObject
      /\ my \in ReplicaObject /\ pc # "idle" /\ cur \in Replica
  BY SeenType DEF TypeOK, ClusterTypeOK, ControllerTypeOK, Deinstrument, Annotate
<1>2. ASSUME NEW new \in Template, workload' = [workload EXCEPT !.template = new]
      PROVE  /\ workload' \in WorkloadObject
             /\ workload'.exists = workload.exists
             /\ workload'.template = new
  BY <1>1, <1>2 DEF WorkloadObject
<1>3. CASE UNCHANGED workload
  BY <1>1, <1>3
<1>4. CASE Deinstrument /\ workload' # workload
  <2> DEFINE seen == SeenWorkload.template
             removed == [inject |-> workload.template.inject /\ ~seen.inject,
                         config |-> IF seen.config # NoReplica THEN NoReplica
                                    ELSE workload.template.config,
                         hash   |-> IF seen.hash # Nil THEN Nil ELSE workload.template.hash]
  <2>1. workload' = [workload EXCEPT !.template = removed]
    BY <1>4 DEF Deinstrument
  <2>2. removed \in Template
    BY <1>1 DEF WorkloadObject, Template, Holder, Number
  <2>3. removed.config \in {workload.template.config, NoReplica}
    OBVIOUS
  <2>4. pc # "annotate"
    BY <1>4 DEF Deinstrument
  <2> HIDE DEF removed
  <2> QED
    BY <1>2, <2>1, <2>2, <2>3, <2>4
<1>5. CASE Annotate /\ workload' # workload
  <2> DEFINE new == Annotated(workload.template, SeenWorkload.template)
  <2>1. workload' = [workload EXCEPT !.template = new] /\ pc = "annotate"
    BY <1>5 DEF Annotate
  <2>2. new \in Template
    BY <1>1 DEF Annotated, WorkloadObject, Template, Holder, Number, ReplicaObject
  <2>3. new.config \in {workload.template.config, cur}
    BY DEF Annotated
  <2> HIDE DEF new
  <2> QED
    BY <1>2, <2>1, <2>2, <2>3
<1> QED
  BY <1>3, <1>4, <1>5

LEMMA CallType ==
  ASSUME TypeOK, CallStep
  PROVE  TypeOK'
<1>1. pc # "idle" /\ cur \in Replica /\ my \in ReplicaObject
  BY DEF TypeOK, ControllerTypeOK, CallStep, AddFinalizer, Finalization, Deinstrument,
     RemoveFinalizer, Rendering, ReconcileLitestreamConfig, NoBootstrapConfig,
     ReconcileBootstrapConfig, Annotation, AnnotateMissing, AnnotateTooMany,
     AnnotatedAlready, Annotate,
     UpdateStatus, ReportMissing, ReportTooMany, ReportUnsafe, ReportPaused,
     ReportRunning, Report
<1>2. UNCHANGED faults => faults' \in 0..MaxFaults
  BY DEF TypeOK, ControllerTypeOK
<1>3. ASSUME faults' \in 0..MaxFaults, Return \/ \E step \in Steps : Continue(step)
      PROVE  ControllerTypeOK'
  BY <1>1, <1>3, ReturnType, ContinueType DEF TypeOK, ControllerTypeOK
<1>4. CASE AddFinalizer \/ RemoveFinalizer
  BY <1>2, <1>3, <1>4, FinalizerChange
  DEF AddFinalizer, RemoveFinalizer, TypeOK, ClusterTypeOK
<1>5. CASE Deinstrument
  <2>1. faults' \in 0..MaxFaults
    BY <1>5, FaultType DEF Deinstrument, TypeOK
  <2>2. ControllerTypeOK'
    BY <1>3, <1>5, <2>1 DEF Deinstrument, Steps
  <2> QED
    BY <1>5, <2>2, TemplateChange DEF Deinstrument, TypeOK, ClusterTypeOK
<1>6. CASE Annotate
  <2>1. Return \/ Continue("status")
    BY <1>6 DEF Annotate
  <2>2. ControllerTypeOK'
    BY <1>2, <1>3, <1>6, <2>1 DEF Annotate, Steps
  <2> QED
    BY <1>6, <2>2, TemplateChange DEF Annotate, TypeOK, ClusterTypeOK
<1>7. CASE AnnotateMissing \/ AnnotateTooMany \/ AnnotatedAlready
  BY <1>1, <1>2, <1>7, ReadOnlyType
  DEF AnnotateMissing, AnnotateTooMany, AnnotatedAlready, Steps
<1>8. CASE ReconcileLitestreamConfig
  <2>1. configMap' \in [Replica -> Contents]
    <3>1. configMap \in [Replica -> Contents] /\ Rendered \in Contents
      BY <1>1 DEF Rendered, Contents, ReplicaObject, TypeOK, ClusterTypeOK
    <3>2. Written(SeenMaps.config[cur], configMap[cur], Rendered) \in Contents
      BY <1>1, <3>1 DEF Written
    <3> QED
      BY <1>8, <3>1, <3>2 DEF ReconcileLitestreamConfig
  <2>2. ControllerTypeOK'
    BY <1>2, <1>3, <1>8 DEF ReconcileLitestreamConfig, Steps
  <2> QED
    BY <1>8, <2>1, <2>2 DEF ReconcileLitestreamConfig, TypeOK, ClusterTypeOK
<1>9. CASE NoBootstrapConfig
  BY <1>1, <1>2, <1>9, ReadOnlyType DEF NoBootstrapConfig, Steps
<1>11. CASE ReconcileBootstrapConfig
  <2>1. bootstrapMap' \in [Replica -> Number]
    <3>1. bootstrapMap \in [Replica -> Number] /\ my.injection \in Number
      BY <1>1 DEF ReplicaObject, Number, TypeOK, ClusterTypeOK
    <3>2. Written(SeenMaps.bootstrap[cur], bootstrapMap[cur], my.injection) \in Number
      BY <1>1, <3>1 DEF Written
    <3> QED
      BY <1>11, <3>1, <3>2 DEF ReconcileBootstrapConfig
  <2>2. [my EXCEPT !.status.conditions["BootstrapApplied"] = "True"] \in ReplicaObject
    <3> DEFINE conditions == [my.status.conditions EXCEPT !["BootstrapApplied"] = "True"]
               status == [my.status EXCEPT !.conditions = conditions]
    <3>1. status \in Status
      BY <1>1 DEF ReplicaObject, Status
    <3>2. [my EXCEPT !.status = status] \in ReplicaObject
      BY <1>1, <3>1 DEF ReplicaObject
    <3> QED
      BY <3>2
  <2>3. ControllerTypeOK'
    <3>1. CASE Return
      BY <1>2, <1>3, <1>11, <3>1 DEF ReconcileBootstrapConfig
    <3>2. CASE ~Return
      <4>1. my' \in ReplicaObject /\ pc' = "annotate" /\ cur' = cur /\ UNCHANGED faults
        BY <1>11, <2>2, <3>2 DEF ReconcileBootstrapConfig
      <4> QED
        BY <1>1, <1>2, <4>1 DEF TypeOK, ControllerTypeOK, Steps
    <3> QED
      BY <3>1, <3>2
  <2> QED
    BY <1>11, <2>1, <2>3 DEF ReconcileBootstrapConfig, TypeOK, ClusterTypeOK
<1>10. CASE UpdateStatus
  <2>1. PICK new \in Status : Report(new)
    BY <1>10, UpdateStatusReports
  <2>2. faults' \in 0..MaxFaults
    BY <1>10, UpdateStatusReports
  <2>3. replica' \in [Replica -> ReplicaObject]
    BY <2>1, ReportChange
  <2> QED
    BY <1>3, <2>1, <2>2, <2>3 DEF Report, TypeOK, ClusterTypeOK
<1> QED
  BY <1>4, <1>5, <1>6, <1>7, <1>8, <1>9, <1>10, <1>11
  DEF CallStep, Finalization, Rendering, Annotation

LEMMA NextType == TypeOK /\ [Next]_vars => TypeOK'
<1> SUFFICES ASSUME TypeOK, [Next]_vars PROVE TypeOK'
  OBVIOUS
<1>1. ASSUME NEW r \in Replica, Begin(r) PROVE TypeOK'
  <2>1. SeenReplica[r] \in ReplicaObject
    BY SeenType DEF TypeOK
  <2>2. FirstStep(SeenReplica[r]) \in Steps
    BY DEF FirstStep, Steps
  <2>3. ControllerTypeOK'
    BY <1>1, <2>1, <2>2 DEF Begin, TypeOK, ControllerTypeOK, Holder
  <2> QED
    BY <1>1, <2>3 DEF Begin, objects, TypeOK, ClusterTypeOK
<1>2. CASE Abort
  BY <1>2, FaultType, ReadOnlyType DEF Abort, TypeOK
<1>3. CASE EnvironmentStep
  BY <1>3, KubernetesType, ChangeType DEF EnvironmentStep, call, TypeOK, ControllerTypeOK
<1>4. CASE UNCHANGED vars
  BY <1>4 DEF vars, TypeOK, ClusterTypeOK, ControllerTypeOK
<1> QED
  BY <1>1, <1>2, <1>3, <1>4, CallType DEF Next, ReconcilerStep

\* Every reachable state is of the types declared: in particular each status
\* patch, merged field by field into a status that may have changed since it was
\* read, leaves a status of the CRD's enumerations.
THEOREM TypeCorrect == Spec => []TypeOK
BY InitType, NextType, PTL DEF Spec
=============================================================================
