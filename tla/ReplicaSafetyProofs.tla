--------------------------- MODULE ReplicaSafetyProofs ---------------------------
(***************************************************************************)
(* What a LitestreamReplica promises about pods, templates and its status, *)
(* proved for every set of replicas, every bound and every change by the   *)
(* user: PodsFindTheirConfig, NoOrphanInjection and StatusCoherent of      *)
(* ReplicaSystem, each from its inductive strengthening.                   *)
(***************************************************************************)
EXTENDS ReplicaProofs

-----------------------------------------------------------------------------
(***************************************************************************)
(* The life of a replica: no step leads back, and one with a finalizer     *)
(* goes only by way of RemoveFinalizer.                                    *)
(***************************************************************************)

\* The steps that leave every replica as it is.
LEMMA OtherSteps ==
  ASSUME [Next]_vars
  PROVE  \/ UNCHANGED replica
         \/ \E r \in Replica :
              /\ \/ UserCreatesReplica(r) \/ UserDeletesReplica(r) \/ UserEditsReplica(r)
                 \/ UserTogglesBackup(r) \/ UserTogglesPause(r)
              /\ UNCHANGED call
         \/ AddFinalizer \/ RemoveFinalizer
         \/ UpdateStatus
<1>1. CASE EnvironmentStep
  BY <1>1 DEF EnvironmentStep, KubernetesStep, CreatePod, DeletePod, PodGone, PodStarts,
     CollectConfig, SyncCache, objects, ChangeStep, UserChangesWorkload, SidecarFails,
     FallsBehind, call
<1>2. CASE ReconcilerStep
  BY <1>2 DEF ReconcilerStep, Begin, Abort, objects, CallStep, Finalization, Deinstrument,
     Rendering, ReconcileLitestreamConfig, NoBootstrapConfig, ReconcileBootstrapConfig, Annotation,
     AnnotateMissing, AnnotateTooMany, AnnotatedAlready, Annotate
<1> QED
  BY <1>1, <1>2 DEF Next, vars

\* Only the watches change the cache.
LEMMA CacheSteps ==
  ASSUME [Next]_vars
  PROVE  UNCHANGED cache \/ \E kind \in CacheKinds : SyncCache(kind)
<1>1. ASSUME UpdateStatus PROVE UNCHANGED cache
  BY <1>1 DEF UpdateStatus, ReportMissing, ReportTooMany, ReportUnsafe, ReportPaused,
     ReportRunning, Report
<1>2. ASSUME CallStep PROVE UNCHANGED cache
  BY <1>1, <1>2 DEF CallStep, AddFinalizer, Finalization, Deinstrument, RemoveFinalizer,
     Rendering, ReconcileLitestreamConfig, NoBootstrapConfig, ReconcileBootstrapConfig,
     Annotation, AnnotateMissing, AnnotateTooMany, AnnotatedAlready, Annotate, objects
<1>3. ASSUME ReconcilerStep PROVE UNCHANGED cache
  BY <1>2, <1>3 DEF ReconcilerStep, Begin, Abort
<1>4. ASSUME ChangeStep PROVE UNCHANGED cache
  BY <1>4 DEF ChangeStep, UserCreatesReplica, UserDeletesReplica, UserEditsReplica,
     UserTogglesBackup, UserTogglesPause, UserChangesWorkload, SidecarFails, FallsBehind
<1> QED
  BY <1>3, <1>4 DEF Next, EnvironmentStep, KubernetesStep, CreatePod, DeletePod, PodGone,
     PodStarts, CollectConfig, vars

\* A cached copy stays, or becomes that of what is stored.
LEMMA SeenChange ==
  ASSUME [Next]_vars
  PROVE  /\ SeenReplica' \in {SeenReplica, replica'}
         /\ SeenMaps' \in {SeenMaps, maps'}
<1>1. CASE UNCHANGED cache
  BY <1>1 DEF SeenReplica, SeenMaps, Seen
<1>2. ASSUME NEW kind \in CacheKinds, SyncCache(kind)
      PROVE  /\ SeenReplica' \in {SeenReplica, replica'}
             /\ SeenMaps' \in {SeenMaps, maps'}
  <2>1. /\ cache'.replica \in {cache.replica, replica} /\ UNCHANGED replica
        /\ cache'.maps \in {cache.maps, maps} /\ UNCHANGED maps
    BY <1>2 DEF SyncCache, CacheKinds, objects, maps
  <2> QED
    BY <2>1 DEF SeenReplica, SeenMaps, Seen
<1> QED
  BY <1>1, <1>2, CacheSteps

LEMMA LifeGoesOn ==
  ASSUME TypeOK, [Next]_vars, NEW r \in Replica
  PROVE  /\ replica[r].life = "gone" => replica'[r].life = "gone"
         /\ replica[r].life = "deleting" => replica'[r].life \in {"deleting", "gone"}
         /\ Kept(r) => Kept(r)' \/ (RemoveFinalizer /\ cur = r)
<1>1. CASE UNCHANGED replica
  BY <1>1 DEF Kept
<1>2. ASSUME NEW s \in Replica,
             \/ UserCreatesReplica(s) \/ UserDeletesReplica(s) \/ UserEditsReplica(s)
             \/ UserTogglesBackup(s) \/ UserTogglesPause(s)
      PROVE  /\ replica[r].life = "gone" => replica'[r].life = "gone"
             /\ replica[r].life = "deleting" => replica'[r].life \in {"deleting", "gone"}
             /\ Kept(r) => Kept(r)'
  <2>1. /\ replica'[r].finalizer = replica[r].finalizer
        /\ r # s => replica'[r] = replica[r]
        /\ replica[s].life \in {"unborn", "live"}
        /\ replica'[s].life \in
             IF replica[s].life = "unborn" THEN {"live"}
             ELSE IF replica[s].finalizer THEN {"live", "deleting"} ELSE {"live", "gone"}
    BY <1>2, ReplicaChange DEF TypeOK
  <2> QED
    BY <2>1 DEF Kept, Present
<1>3. CASE AddFinalizer
  <2>1. pc = "addFinalizer" /\ (RemoveFinalizer => pc = "removeFinalizer")
    BY <1>3 DEF AddFinalizer, RemoveFinalizer
  <2> QED
    BY <1>3, <2>1, FinalizerChange DEF Kept
<1>4. CASE RemoveFinalizer
  BY <1>4, FinalizerChange DEF Kept
<1>5. CASE UpdateStatus
  <2>1. PICK new \in Status : Report(new)
    BY <1>5, UpdateStatusReports
  <2> QED
    BY <2>1, ReportChange DEF Kept
<1> QED
  BY <1>1, <1>2, <1>3, <1>4, <1>5, OtherSteps

-----------------------------------------------------------------------------
(***************************************************************************)
(* A pod finds the ConfigMaps it mounts: what a step does to each of the   *)
(* objects in this, and then the two invariants.                           *)
(***************************************************************************)

LEMMA SpecChange ==
  ASSUME TypeOK, [Next]_vars, NEW r \in Replica
  PROVE  SpecGoesOn(r)
<1>1. SpecKept(r) => SpecGoesOn(r)
  BY DEF SpecKept, SpecGoesOn
<1>2. UNCHANGED replica => SpecKept(r)
  BY DEF SpecKept
<1>3. ASSUME NEW s \in Replica,
             \/ UserCreatesReplica(s) \/ UserDeletesReplica(s) \/ UserEditsReplica(s)
             \/ UserTogglesBackup(s) \/ UserTogglesPause(s)
      PROVE  SpecGoesOn(r)
  <2>1. SpecGoesOn(s) /\ (r # s => replica'[r] = replica[r])
    BY <1>3, ReplicaChange DEF TypeOK
  <2> QED
    BY <1>1, <2>1 DEF SpecKept
<1>4. CASE AddFinalizer \/ RemoveFinalizer
  BY <1>1, <1>4, FinalizerChange
<1>5. CASE UpdateStatus
  <2>1. PICK new \in Status : Report(new)
    BY <1>5, UpdateStatusReports
  <2> QED
    BY <1>1, <2>1, ReportChange
<1> QED
  BY <1>1, <1>2, <1>3, <1>4, <1>5, OtherSteps

\* A pod that is injected is so by the template and the spec of the moment.
LEMMA PodChange ==
  ASSUME TypeOK, [Next]_vars, NEW p \in Slots
  PROVE  \/ pod'[p].of = NoReplica
         \/ /\ pod'[p].of = pod[p].of /\ pod'[p].sql = pod[p].sql
            /\ pod'[p].sidecar = pod[p].sidecar /\ pod'[p].template = pod[p].template
         \/ /\ UNCHANGED <<replica, workload>>
            /\ pod'[p].of = workload.template.config /\ pod'[p].of \in Replica
            /\ pod'[p].template = workload.template
            /\ pod'[p].sidecar = replica[pod'[p].of].sidecar
            /\ pod'[p].sql = replica[pod'[p].of].sql
<1>1. workload.template \in Template /\ pod \in [Slots -> PodObject]
  BY DEF TypeOK, ClusterTypeOK, WorkloadObject
<1>2. CASE UNCHANGED pod
  BY <1>2
<1>3. ASSUME NEW q \in Slots, CreatePod(q) \/ DeletePod(q) \/ PodGone(q) \/ PodStarts(q)
                              \/ SidecarFails(q)
      PROVE  \/ pod'[p].of = NoReplica
             \/ /\ pod'[p].of = pod[p].of /\ pod'[p].sql = pod[p].sql
                /\ pod'[p].sidecar = pod[p].sidecar /\ pod'[p].template = pod[p].template
             \/ CreatePod(q) /\ p = q
  BY <1>1, <1>3 DEF CreatePod, DeletePod, PodGone, PodStarts, SidecarFails, PodObject, NoPod
<1>4. ASSUME CreatePod(p)
      PROVE  \/ pod'[p].of = NoReplica
             \/ /\ UNCHANGED <<replica, workload>>
                /\ pod'[p].of = workload.template.config /\ pod'[p].of \in Replica
                /\ pod'[p].template = workload.template
                /\ pod'[p].sidecar = replica[pod'[p].of].sidecar
                /\ pod'[p].sql = replica[pod'[p].of].sql
  <2>1. PICK new \in Handle(workload.template) : pod' = [pod EXCEPT ![p] = new]
    BY <1>4 DEF CreatePod
  <2>2. pod'[p] = new
    BY <1>1, <2>1
  <2> QED
    BY <1>1, <1>4, <2>2, HandleType DEF CreatePod, TypeOK
<1>5. \/ UNCHANGED pod
      \/ \E q \in Slots : CreatePod(q) \/ DeletePod(q) \/ PodGone(q) \/ PodStarts(q)
                          \/ SidecarFails(q)
  <2>1. ASSUME UpdateStatus PROVE UNCHANGED pod
    BY <2>1 DEF UpdateStatus, ReportMissing, ReportTooMany, ReportUnsafe, ReportPaused,
       ReportRunning, Report
  <2>2. ASSUME ReconcilerStep PROVE UNCHANGED pod
    BY <2>1, <2>2 DEF ReconcilerStep, Begin, Abort, CallStep, AddFinalizer, Finalization,
       Deinstrument, RemoveFinalizer, Rendering, ReconcileLitestreamConfig,
       NoBootstrapConfig, ReconcileBootstrapConfig, Annotation, AnnotateMissing,
       AnnotateTooMany, AnnotatedAlready, Annotate, objects
  <2> QED
    BY <2>2 DEF Next, EnvironmentStep, KubernetesStep, CollectConfig, SyncCache, objects,
       ChangeStep, UserCreatesReplica, UserDeletesReplica, UserEditsReplica,
       UserTogglesBackup, UserTogglesPause, UserChangesWorkload, FallsBehind, vars
<1> QED
  BY <1>2, <1>3, <1>4, <1>5

\* A ConfigMap that is there stays until its replica is gone.
LEMMA MapsChange ==
  ASSUME TypeOK, [Next]_vars, NEW r \in Replica, replica'[r].life # "gone"
  PROVE  /\ configMap[r].content # "none" => configMap'[r].content # "none"
         /\ bootstrapMap[r] # Nil => bootstrapMap'[r] # Nil
<1>1. /\ configMap \in [Replica -> Contents] /\ bootstrapMap \in [Replica -> Number]
      /\ my \in ReplicaObject
  BY DEF TypeOK, ClusterTypeOK, ControllerTypeOK
<1>2. CASE UNCHANGED <<configMap, bootstrapMap>>
  BY <1>2
<1>3. ASSUME NEW s \in Replica, CollectConfig(s)
      PROVE  configMap'[r] = configMap[r] /\ bootstrapMap'[r] = bootstrapMap[r]
  BY <1>1, <1>3 DEF CollectConfig
<1>4. CASE ReconcileLitestreamConfig
  <2>1. Rendered.content # "none"
    BY DEF Rendered
  <2> QED
    BY <1>1, <1>4, <2>1 DEF ReconcileLitestreamConfig, Written
<1>5. CASE ReconcileBootstrapConfig
  <2>1. my.injection # Nil
    BY <1>1 DEF ReplicaObject, Nil
  <2> QED
    BY <1>1, <1>5, <2>1 DEF ReconcileBootstrapConfig, Written
<1>6. \/ UNCHANGED <<configMap, bootstrapMap>>
      \/ \E s \in Replica : CollectConfig(s)
      \/ ReconcileLitestreamConfig \/ ReconcileBootstrapConfig
  <2>1. ASSUME UpdateStatus PROVE UNCHANGED <<configMap, bootstrapMap>>
    BY <2>1 DEF UpdateStatus, ReportMissing, ReportTooMany, ReportUnsafe, ReportPaused,
       ReportRunning, Report
  <2>2. CASE ReconcilerStep
    BY <2>1, <2>2 DEF ReconcilerStep, Begin, Abort, CallStep, AddFinalizer, Finalization,
       Deinstrument, RemoveFinalizer, Rendering, NoBootstrapConfig, Annotation,
       AnnotateMissing, AnnotateTooMany, AnnotatedAlready, Annotate, objects
  <2> QED
    BY <2>2 DEF Next, EnvironmentStep, KubernetesStep, CreatePod, DeletePod, PodGone,
       PodStarts, SyncCache, objects, ChangeStep, UserCreatesReplica, UserDeletesReplica,
       UserEditsReplica, UserTogglesBackup, UserTogglesPause, UserChangesWorkload,
       SidecarFails, FallsBehind, vars
<1> QED
  BY <1>2, <1>3, <1>4, <1>5, <1>6

\* A template comes to name a replica only in the call that annotates for it.
LEMMA TemplateSteps ==
  ASSUME TypeOK, [Next]_vars
  PROVE  /\ \/ workload'.template.config \in {workload.template.config, NoReplica}
            \/ pc = "annotate" /\ workload'.template.config = cur
         /\ "workload" \notin Lagging =>
              \/ workload'.template = workload.template
              \/ workload'.template.config = NoReplica
              \/ /\ pc = "annotate"
                 /\ workload'.template = [inject |-> TRUE, config |-> cur, hash |-> my.injection]
<1>1. workload \in WorkloadObject /\ workload.template \in Template
  BY DEF TypeOK, ClusterTypeOK, WorkloadObject
<1>2. "workload" \notin Lagging => SeenWorkload = workload
  BY DEF SeenWorkload, Seen
<1>3. CASE UNCHANGED workload
  BY <1>3
<1>4. CASE UserChangesWorkload
  BY <1>1, <1>4 DEF UserChangesWorkload, WorkloadObject, Bare
<1>5. CASE Deinstrument
  <2>1. workload'.template.config \in {workload.template.config, NoReplica}
    BY <1>5, TemplateChange DEF Deinstrument
  <2>2. ASSUME SeenWorkload = workload
        PROVE  workload' = workload \/ workload'.template.config = NoReplica
    BY <1>1, <1>5, <2>2 DEF Deinstrument, WorkloadObject, Template
  <2> QED
    BY <1>2, <2>1, <2>2
<1>6. CASE Annotate
  <2>1. pc = "annotate" /\ workload'.template.config \in {workload.template.config, cur}
    BY <1>6, TemplateChange DEF Annotate
  <2>2. ASSUME SeenWorkload = workload
        PROVE  \/ workload' = workload
               \/ workload'.template = [inject |-> TRUE, config |-> cur, hash |-> my.injection]
    <3>1. \/ workload' = workload
          \/ workload' = [workload EXCEPT !.template =
                             Annotated(workload.template, workload.template)]
      BY <1>6, <2>2 DEF Annotate
    <3>2. Annotated(workload.template, workload.template)
            = [inject |-> TRUE, config |-> cur, hash |-> my.injection]
      BY <1>1 DEF Annotated, Template
    <3> QED
      BY <1>1, <3>1, <3>2 DEF WorkloadObject
  <2> QED
    BY <1>2, <2>1, <2>2
<1>7. UNCHANGED workload \/ UserChangesWorkload \/ Deinstrument \/ Annotate
  <2>1. ASSUME UpdateStatus PROVE UNCHANGED workload
    BY <2>1 DEF UpdateStatus, ReportMissing, ReportTooMany, ReportUnsafe, ReportPaused,
       ReportRunning, Report
  <2>2. CASE ReconcilerStep
    BY <2>1, <2>2 DEF ReconcilerStep, Begin, Abort, CallStep, AddFinalizer, Finalization,
       RemoveFinalizer, Rendering, ReconcileLitestreamConfig, NoBootstrapConfig,
       ReconcileBootstrapConfig, Annotation, AnnotateMissing, AnnotateTooMany,
       AnnotatedAlready, objects
  <2> QED
    BY <2>2 DEF Next, EnvironmentStep, KubernetesStep, CreatePod, DeletePod, PodGone,
       PodStarts, CollectConfig, SyncCache, objects, ChangeStep, UserCreatesReplica,
       UserDeletesReplica, UserEditsReplica, UserTogglesBackup, UserTogglesPause,
       SidecarFails, FallsBehind, vars
<1> QED
  BY <1>3, <1>4, <1>5, <1>6, <1>7

\* The copy of a call is the cached one it began with, and the call is about to
\* annotate only when it has written, or seen, what its copy asks for.
LEMMA CopySteps ==
  ASSUME TypeOK, [Next]_vars
  PROVE  /\ \/ cur' = NoReplica
            \/ cur' = cur /\ my'.injection = my.injection /\ my'.sql = my.sql
            \/ /\ UNCHANGED <<replica, cache>> /\ cur' \in Replica
               /\ my' = SeenReplica[cur'] /\ pc' \notin {"bootstrap", "annotate"}
         /\ pc' \in {"bootstrap", "annotate"} =>
              \/ UNCHANGED call
              \/ /\ pc = "config" /\ pc' = "bootstrap" /\ UNCHANGED cur
                 /\ {configMap'[cur].content, SeenMaps.config[cur].content} # {"none"}
              \/ /\ pc = "bootstrap" /\ pc' = "annotate" /\ UNCHANGED <<replica, cur>>
                 /\ my.sql => bootstrapMap'[cur] # Nil \/ SeenMaps.bootstrap[cur] # Nil
<1>1. /\ configMap \in [Replica -> Contents] /\ bootstrapMap \in [Replica -> Number]
      /\ my \in ReplicaObject /\ (pc # "idle" => cur \in Replica)
  BY DEF TypeOK, ClusterTypeOK, ControllerTypeOK
<1>2. CASE UNCHANGED call
  BY <1>2 DEF call
<1>3. CASE Return
  BY <1>3 DEF Return
<1>4. ASSUME NEW r \in Replica, Begin(r)
      PROVE  /\ UNCHANGED <<replica, cache>> /\ cur' \in Replica /\ my' = SeenReplica[cur']
             /\ pc' \notin {"bootstrap", "annotate"}
  BY <1>4 DEF Begin, FirstStep, objects
<1>5. CASE Continue("removeFinalizer") \/ Continue("status")
  BY <1>5 DEF Continue
<1>6. CASE ReconcileLitestreamConfig /\ ~Return
  <2>1. Rendered.content # "none"
    BY DEF Rendered
  <2>2. /\ configMap'[cur] = Written(SeenMaps.config[cur], configMap[cur], Rendered)
        /\ pc = "config" /\ Continue("bootstrap")
    BY <1>1, <1>6 DEF ReconcileLitestreamConfig
  <2> QED
    BY <2>1, <2>2 DEF Written, Continue
<1>7. CASE NoBootstrapConfig
  BY <1>7 DEF NoBootstrapConfig, Continue, objects
<1>8. CASE ReconcileBootstrapConfig /\ ~Return
  <2>1. my.injection # Nil
    BY <1>1 DEF ReplicaObject, Nil
  <2>2. /\ bootstrapMap'[cur] = Written(SeenMaps.bootstrap[cur], bootstrapMap[cur], my.injection)
        /\ my' = [my EXCEPT !.status.conditions["BootstrapApplied"] = "True"]
        /\ pc = "bootstrap" /\ pc' = "annotate" /\ UNCHANGED <<replica, cur>>
    BY <1>1, <1>8 DEF ReconcileBootstrapConfig
  <2>3. my'.injection = my.injection /\ my'.sql = my.sql
    BY <1>1, <2>2 DEF ReplicaObject
  <2> QED
    BY <2>1, <2>2, <2>3 DEF Written
<1>9. \/ UNCHANGED call \/ Return
      \/ \E r \in Replica : Begin(r)
      \/ Continue("removeFinalizer") \/ Continue("status")
      \/ ReconcileLitestreamConfig \/ NoBootstrapConfig \/ ReconcileBootstrapConfig
  <2>1. ASSUME UpdateStatus PROVE Return
    BY <2>1 DEF UpdateStatus, ReportMissing, ReportTooMany, ReportUnsafe, ReportPaused,
       ReportRunning, Report
  <2>2. CASE CallStep
    BY <2>1, <2>2 DEF CallStep, AddFinalizer, Finalization, Deinstrument, RemoveFinalizer,
       Rendering, Annotation, AnnotateMissing, AnnotateTooMany, AnnotatedAlready, Annotate
  <2> QED
    BY <2>2 DEF Next, ReconcilerStep, Abort, EnvironmentStep, call, vars
<1> QED
  BY <1>2, <1>3, <1>4, <1>5, <1>6, <1>7, <1>8, <1>9

-----------------------------------------------------------------------------
LEMMA ConfigInvInit == Init => ConfigInv
BY ReplicaAssumption DEF Init, ClusterInit, ControllerInit, ConfigInv, Bare, NoPod, NoConfig,
   SeenMaps, Seen, maps

LEMMA ConfigInvNext == TypeOK /\ ConfigInv /\ [Next]_vars => ConfigInv'
<1> SUFFICES ASSUME TypeOK, ConfigInv, [Next]_vars,
                    NEW r \in Replica, replica'[r].life # "gone"
             PROVE  LET written == configMap'[r].content # "none"
                    IN  /\ workload'.template.config = r => written
                        /\ \A p \in Slots : pod'[p].of = r => written
                        /\ cur' = r /\ pc' \in {"bootstrap", "annotate"} => written
                        /\ SeenMaps'.config[r].content # "none" => written
  BY DEF ConfigInv
<1> DEFINE before == configMap[r].content # "none"
           after  == configMap'[r].content # "none"
<1>1. replica[r].life # "gone" /\ r # NoReplica
  BY LifeGoesOn, ReplicaAssumption
<1>2. before => after
  BY MapsChange
<1>3. /\ workload.template.config = r => before
      /\ \A p \in Slots : pod[p].of = r => before
      /\ cur = r /\ pc \in {"bootstrap", "annotate"} => before
      /\ SeenMaps.config[r].content # "none" => before
  BY <1>1 DEF ConfigInv
<1>4. workload'.template.config = r => after
  BY <1>1, <1>2, <1>3, TemplateSteps
<1>5. ASSUME NEW p \in Slots, pod'[p].of = r PROVE after
  BY <1>1, <1>2, <1>3, <1>5, PodChange
<1>6. cur' = r /\ pc' \in {"bootstrap", "annotate"} => after
  BY <1>2, <1>3, CopySteps DEF call
<1>7. SeenMaps'.config[r].content # "none" => after
  <2>1. maps'.config = configMap'
    BY DEF maps
  <2> QED
    BY <1>2, <1>3, <2>1, SeenChange
<1> QED
  BY <1>4, <1>5, <1>6, <1>7

\* The inductive invariant for litestream.yml: whatever any cache shows, whatever
\* the user changes and wherever calls stop, a template or a pod that names a
\* replica finds it until the replica is gone (reconcileLitestreamConfig comes
\* before reconcileTargetAnnotation).
THEOREM ConfigInvariant == Spec => []ConfigInv
<1>1. Spec => []TypeOK
  BY TypeCorrect
<1> QED
  BY <1>1, ConfigInvInit, ConfigInvNext, PTL DEF Spec

-----------------------------------------------------------------------------
LEMMA BootstrapInvInit == Init => BootstrapInv
<1> SUFFICES ASSUME Init PROVE BootstrapInv
  OBVIOUS
<1>1. ASSUME NEW r \in Replica
      PROVE  /\ replica[r].injection = 1 /\ replica[r].sidecar = 1
             /\ replica[r].generation = 1 /\ SeenReplica[r] = replica[r]
             /\ SeenMaps.bootstrap[r] = bootstrapMap[r]
             /\ cur # r /\ workload.template.config # r
             /\ \A p \in Slots : pod[p].of # r
  BY ReplicaAssumption DEF Init, ClusterInit, ControllerInit, NewReplica, SeenReplica, Seen,
     SeenMaps, maps, Bare, NoPod
<1> QED
  BY <1>1 DEF BootstrapInv, CopyOf

\* What holds of the numbers of a spec goes on to hold when it changes.
LEMMA CoveredGoesOn ==
  ASSUME TypeOK, [Next]_vars, NEW r \in Replica, replica'[r].life # "gone",
         replica[r].injection <= replica[r].sidecar,
         replica[r].injection <= replica[r].generation
  PROVE  /\ replica'[r].injection <= replica'[r].sidecar
         /\ replica'[r].injection <= replica'[r].generation
         /\ \A n \in Number : n <= replica[r].injection /\ Covered(r, n)
              => n <= replica'[r].injection /\ Covered(r, n)'
         /\ \A copy \in ReplicaObject : CopyOf(copy, r) => CopyOf(copy, r)'
<1>1. /\ {replica[r].injection, replica[r].sidecar, replica[r].generation} \subseteq Nat
      /\ {replica'[r].injection, replica'[r].sidecar, replica'[r].generation} \subseteq Nat
      /\ \A copy \in ReplicaObject : copy.injection \in Nat
  BY NextType DEF TypeOK, ClusterTypeOK, ReplicaObject
<1>2. bootstrapMap[r] # Nil => bootstrapMap'[r] # Nil
  BY MapsChange
<1>3. SpecGoesOn(r)
  BY SpecChange
<1>4. CASE /\ replica'[r].sql = replica[r].sql
           /\ replica'[r].injection = replica[r].injection
           /\ replica'[r].generation \in {replica[r].generation, replica[r].generation + 1}
           /\ replica'[r].sidecar \in {replica[r].sidecar, replica[r].generation + 1}
  BY <1>1, <1>2, <1>4 DEF Covered, CopyOf
<1>5. CASE /\ replica'[r].injection = replica[r].generation + 1
           /\ replica'[r].sidecar = replica[r].generation + 1
           /\ replica'[r].generation = replica[r].generation + 1
  <2>1. replica[r].injection < replica'[r].injection
    BY <1>1, <1>5
  <2>2. \A n \in Number : n <= replica[r].injection
                            => n <= replica'[r].injection /\ ~(replica'[r].injection <= n)
    BY <1>1, <2>1 DEF Number, Nil
  <2>3. \A copy \in ReplicaObject : copy.injection <= replica[r].injection
          => copy.injection <= replica'[r].injection /\ copy.injection # replica'[r].injection
    BY <1>1, <2>1
  <2> QED
    BY <1>1, <1>5, <2>2, <2>3 DEF Covered, CopyOf
<1> QED
  BY <1>3, <1>4, <1>5 DEF SpecGoesOn

LEMMA BootstrapInvNext ==
  ASSUME "workload" \notin Lagging, TypeOK, BootstrapInv, [Next]_vars
  PROVE  BootstrapInv'
<1> SUFFICES ASSUME NEW r \in Replica, replica'[r].life # "gone"
    PROVE /\ replica'[r].injection <= replica'[r].sidecar
          /\ replica'[r].injection <= replica'[r].generation
          /\ CopyOf(SeenReplica[r], r)'
          /\ SeenMaps'.bootstrap[r] # Nil => bootstrapMap'[r] # Nil
          /\ cur' = r => CopyOf(my, r)'
          /\ cur' = r /\ pc' = "annotate" => Covered(r, my.injection)'
          /\ workload'.template.config = r =>
               /\ workload'.template.hash <= replica'[r].injection
               /\ Covered(r, workload.template.hash)'
          /\ \A p \in Slots :
               pod'[p].of = r /\ pod'[p].sql /\ pod'[p].sidecar <= pod'[p].template.hash
                 => bootstrapMap'[r] # Nil
  BY DEF BootstrapInv
<1>1. replica[r].life # "gone" /\ r # NoReplica
  BY LifeGoesOn, ReplicaAssumption
<1>2. bootstrapMap[r] # Nil => bootstrapMap'[r] # Nil
  BY MapsChange
<1>3. /\ replica[r].injection <= replica[r].sidecar
      /\ replica[r].injection <= replica[r].generation
      /\ CopyOf(SeenReplica[r], r)
      /\ SeenMaps.bootstrap[r] # Nil => bootstrapMap[r] # Nil
      /\ cur = r => CopyOf(my, r)
      /\ cur = r /\ pc = "annotate" => Covered(r, my.injection)
      /\ workload.template.config = r =>
           /\ workload.template.hash <= replica[r].injection
           /\ Covered(r, workload.template.hash)
      /\ \A p \in Slots :
           pod[p].of = r /\ pod[p].sql /\ pod[p].sidecar <= pod[p].template.hash
             => bootstrapMap[r] # Nil
  BY <1>1 DEF BootstrapInv
<1>4. /\ replica[r] \in ReplicaObject /\ SeenReplica[r] \in ReplicaObject
      /\ my \in ReplicaObject /\ my.injection \in Number
      /\ workload.template.hash \in Number
      /\ my.injection \in Nat /\ replica[r].injection \in Nat /\ replica[r].sidecar \in Nat
      /\ replica'[r].injection \in Nat
  BY SeenType, NextType
  DEF TypeOK, ClusterTypeOK, ControllerTypeOK, WorkloadObject, Template, ReplicaObject, Number
<1>5. /\ replica'[r].injection <= replica'[r].sidecar
      /\ replica'[r].injection <= replica'[r].generation
      /\ \A n \in Number : n <= replica[r].injection /\ Covered(r, n)
           => n <= replica'[r].injection /\ Covered(r, n)'
      /\ \A copy \in ReplicaObject : CopyOf(copy, r) => CopyOf(copy, r)'
  BY <1>3, CoveredGoesOn
<1>6. CopyOf(SeenReplica[r], r)'
  <2>1. CASE SeenReplica'[r] = SeenReplica[r]
    BY <1>3, <1>4, <1>5, <2>1 DEF CopyOf
  <2>2. CASE SeenReplica'[r] = replica'[r]
    BY <1>4, <2>2 DEF CopyOf
  <2> QED
    BY <2>1, <2>2, SeenChange
<1>7. SeenMaps'.bootstrap[r] # Nil => bootstrapMap'[r] # Nil
  <2>1. maps'.bootstrap = bootstrapMap'
    BY DEF maps
  <2> QED
    BY <1>2, <1>3, <2>1, SeenChange
<1>8. cur' = r => CopyOf(my, r)'
  <2>1. CASE cur = r /\ my'.injection = my.injection /\ my'.sql = my.sql
    BY <1>3, <1>4, <1>5, <2>1 DEF CopyOf
  <2>2. CASE UNCHANGED <<replica, cache>> /\ my' = SeenReplica[r]
    BY <1>3, <2>2 DEF CopyOf
  <2> QED
    BY <1>1, <2>1, <2>2, CopySteps
<1>9. ASSUME cur' = r, pc' = "annotate" PROVE Covered(r, my.injection)'
  <2>1. cur = r /\ my'.injection = my.injection /\ my'.sql = my.sql
    BY <1>1, <1>9, CopySteps
  <2>2. CASE UNCHANGED call
    <3>1. my.injection <= replica[r].injection /\ Covered(r, my.injection)
      BY <1>3, <1>9, <2>1, <2>2 DEF call, CopyOf
    <3>2. Covered(r, my.injection)' <=>
            (replica'[r].injection <= my.injection /\ replica'[r].sql => bootstrapMap'[r] # Nil)
      BY <2>1 DEF Covered
    <3>3. PICK n \in Number : n = my.injection
      BY <1>4
    <3>4. n <= replica[r].injection /\ Covered(r, n)
      BY <3>1, <3>3
    <3>5. replica'[r].injection <= n /\ replica'[r].sql => bootstrapMap'[r] # Nil
      BY <1>5, <3>4 DEF Covered
    <3> QED
      BY <3>2, <3>3, <3>5
  <2>3. CASE UNCHANGED replica /\ (my.sql => bootstrapMap'[r] # Nil)
    <3>1. replica[r].injection <= my.injection /\ replica[r].sql => my.sql
      <4>1. CopyOf(my, r)
        BY <1>3, <2>1
      <4>2. replica[r].injection <= my.injection => my.injection = replica[r].injection
        BY <1>4, <4>1 DEF CopyOf
      <4>3. my.injection = replica[r].injection => my.sql = replica[r].sql
        BY <4>1 DEF CopyOf
      <4> QED
        BY <4>2, <4>3
    <3> QED
      BY <2>1, <2>3, <3>1 DEF Covered
  <2> QED
    BY <1>2, <1>3, <1>9, <2>1, <2>2, <2>3, CopySteps
<1>10. ASSUME workload'.template.config = r
       PROVE  /\ workload'.template.hash <= replica'[r].injection
              /\ Covered(r, workload.template.hash)'
  <2>1. PICK n \in Number : /\ workload'.template.hash = n
                            /\ n <= replica[r].injection /\ Covered(r, n)
    <3>1. CASE workload'.template = workload.template
      BY <1>3, <1>4, <1>10, <3>1
    <3>2. CASE /\ pc = "annotate"
               /\ workload'.template = [inject |-> TRUE, config |-> cur, hash |-> my.injection]
      BY <1>3, <1>4, <1>10, <3>2 DEF CopyOf
    <3> QED
      BY <1>1, <1>10, <3>1, <3>2, TemplateSteps
  <2>2. n <= replica'[r].injection
        /\ (replica'[r].injection <= n /\ replica'[r].sql => bootstrapMap'[r] # Nil)
    BY <1>5, <2>1 DEF Covered
  <2> QED
    BY <2>1, <2>2 DEF Covered
<1>11. ASSUME NEW p \in Slots, pod'[p].of = r, pod'[p].sql,
              pod'[p].sidecar <= pod'[p].template.hash
       PROVE  bootstrapMap'[r] # Nil
  <2>1. CASE /\ pod'[p].of = pod[p].of /\ pod'[p].sql = pod[p].sql
             /\ pod'[p].sidecar = pod[p].sidecar /\ pod'[p].template = pod[p].template
    BY <1>2, <1>3, <1>11, <2>1
  <2>2. CASE /\ r = workload.template.config /\ pod'[p].template = workload.template
             /\ pod'[p].sidecar = replica[r].sidecar /\ pod'[p].sql = replica[r].sql
    <3>1. replica[r].injection <= workload.template.hash
      BY <1>3, <1>4, <1>11, <2>2 DEF Number, Nil
    <3> QED
      BY <1>2, <1>3, <1>11, <2>2, <3>1 DEF Covered
  <2> QED
    BY <1>1, <1>11, <2>1, <2>2, PodChange
<1> QED
  BY <1>5, <1>6, <1>7, <1>8, <1>9, <1>10, <1>11

\* The inductive invariant for bootstrap.sql: the hash of a template that names a
\* replica is not newer than its spec, and if it is that of the spec, the
\* ConfigMap of the spec is there; and so for the pods made from the template.
THEOREM BootstrapInvariant ==
  ASSUME "workload" \notin Lagging
  PROVE  Spec => []BootstrapInv
<1>1. TypeOK /\ BootstrapInv /\ [Next]_vars => BootstrapInv'
  BY BootstrapInvNext
<1> QED
  BY <1>1, TypeCorrect, BootstrapInvInit, PTL DEF Spec

\* However old the copies of replicas, ConfigMaps and pods, wherever calls stop
\* and whatever the user changes, spec.bootstrap included: a pod is given the
\* sidecar only when litestream.yml is there, and bootstrap.sql too unless the
\* spec it was injected from is newer than the one its template was annotated
\* for (reconcileTargetAnnotation comes last, the injector reads the spec anew).
THEOREM PodsFindConfig ==
  ASSUME "workload" \notin Lagging
  PROVE  Spec => []PodsFindTheirConfig
<1>1. TypeOK /\ ConfigInv /\ BootstrapInv => PodsFindTheirConfig
  <2> SUFFICES ASSUME TypeOK, ConfigInv, BootstrapInv, NEW p \in Live,
                      pod[p].of # NoReplica, replica[pod[p].of].life \in Present
               PROVE  /\ configMap[pod[p].of].content # "none"
                      /\ pod[p].sql /\ pod[p].sidecar <= pod[p].template.hash
                           => bootstrapMap[pod[p].of] # Nil
    BY DEF PodsFindTheirConfig
  <2>1. p \in Slots /\ pod[p].of \in Replica
    BY DEF Live, There, TypeOK, ClusterTypeOK, PodObject, Holder
  <2> QED
    BY <2>1 DEF ConfigInv, BootstrapInv, Present
<1> QED
  BY <1>1, TypeCorrect, ConfigInvariant, BootstrapInvariant, PTL

-----------------------------------------------------------------------------
(***************************************************************************)
(* No template names a replica that is gone.                               *)
(***************************************************************************)

\* What a step does to the cached copy of a replica.
LEMMA SeenReplicaChange ==
  ASSUME [Next]_vars, "replica" \in Lagging, NEW r \in Replica
  PROVE  \/ SeenReplica'[r] = SeenReplica[r]
         \/ SeenReplica'[r] = replica[r] /\ replica'[r] = replica[r]
<1>1. CASE UNCHANGED cache
  BY <1>1 DEF SeenReplica, Seen
<1>2. ASSUME NEW kind \in CacheKinds, SyncCache(kind)
      PROVE  \/ SeenReplica'[r] = SeenReplica[r]
             \/ SeenReplica'[r] = replica[r] /\ replica'[r] = replica[r]
  <2>1. cache'.replica \in {cache.replica, replica} /\ UNCHANGED replica
    BY <1>2 DEF SyncCache, CacheKinds, objects
  <2> QED
    BY <2>1 DEF SeenReplica, Seen
<1> QED
  BY <1>1, <1>2, CacheSteps

\* A replica that is going stays so, and a call knows it that removes a finalizer.
LEMMA GoingOn ==
  ASSUME TypeOK, InjectionInv, [Next]_vars, NEW r \in Replica
  PROVE  /\ Going(r) => Going(r)'
         /\ SeenReplica'[r].life = "live" /\ SeenReplica'[r].finalizer => Kept(r)'
         /\ SeenReplica'[r].life = "deleting" => Going(r)'
         /\ Kept(r) => Kept(r)' \/ (pc = "removeFinalizer" /\ cur = r)
<1>1. RemoveFinalizer => pc = "removeFinalizer"
  BY DEF RemoveFinalizer
<1>2. Kept(r) => Kept(r)' \/ (pc = "removeFinalizer" /\ cur = r)
  BY <1>1, LifeGoesOn
<1>3. CASE "replica" \notin Lagging
  <2>1. SeenReplica = replica /\ SeenReplica' = replica'
    BY <1>3 DEF SeenReplica, Seen
  <2> QED
    BY <1>2, <2>1, LifeGoesOn DEF Going, Kept, Present
<1>4. CASE "replica" \in Lagging
  <2>1. CASE SeenReplica'[r] = SeenReplica[r]
    BY <1>2, <2>1, LifeGoesOn DEF InjectionInv, Going
  <2>2. CASE SeenReplica'[r] = replica[r] /\ replica'[r] = replica[r]
    BY <1>2, <2>2 DEF Going, Kept, Present
  <2> QED
    BY <1>4, <2>1, <2>2, SeenReplicaChange
<1> QED
  BY <1>3, <1>4

\* What a step does to the annotations, when no clean-up fails and the workload
\* is read as it is.
LEMMA InjectionChange ==
  ASSUME TypeOK, InjectionInv, [Next]_vars, "ignored" \notin Faults,
         "workload" \notin Lagging
  PROVE  \/ /\ workload'.exists /\ workload'.template.inject
               => workload.exists /\ workload.template.inject
            /\ workload'.exists /\ workload'.template.inject
               => workload'.template.config = workload.template.config
            /\ Deinstrument => ~(workload'.exists /\ workload'.template.inject)
         \/ pc = "annotate" /\ workload'.template.config = cur
<1>1. workload \in WorkloadObject /\ SeenWorkload = workload
  BY DEF TypeOK, ClusterTypeOK, SeenWorkload, Seen
<1>2. Deinstrument => pc = "deinstrument"
  BY DEF Deinstrument
<1>3. CASE UNCHANGED workload /\ ~Deinstrument
  BY <1>3
<1>4. CASE UserChangesWorkload /\ UNCHANGED call
  <2>1. ~Deinstrument
    BY <1>4 DEF Deinstrument, Continue, call
  <2>2. /\ workload'.exists => workload.exists
        /\ workload'.template \in {workload.template, Bare}
    BY <1>1, <1>4 DEF UserChangesWorkload, WorkloadObject
  <2> QED
    BY <2>1, <2>2 DEF Bare
<1>5. CASE Deinstrument
  <2>1. workload' = IF workload.exists
                    THEN [workload EXCEPT !.template =
                            [inject |-> FALSE,
                             config |-> IF workload.template.config # NoReplica THEN NoReplica
                                        ELSE workload.template.config,
                             hash   |-> IF workload.template.hash # Nil THEN Nil
                                        ELSE workload.template.hash]]
                    ELSE workload
    BY <1>1, <1>5 DEF Deinstrument, Fault, WorkloadObject, Template
  <2>2. ~(workload'.exists /\ workload'.template.inject)
    BY <1>1, <2>1 DEF WorkloadObject
  <2> QED
    BY <1>5, <2>2
<1>6. CASE Annotate
  <2>1. pc = "annotate" /\ workload.exists
        /\ workload' = [workload EXCEPT !.template =
                          Annotated(workload.template, workload.template)]
    BY <1>1, <1>6 DEF Annotate
  <2>2. workload'.template.config = cur
    BY <1>1, <2>1 DEF Annotated, WorkloadObject
  <2> QED
    BY <2>1, <2>2
<1>7. \/ UNCHANGED workload /\ ~Deinstrument
      \/ UserChangesWorkload /\ UNCHANGED call
      \/ Deinstrument \/ Annotate
  <2>1. ASSUME UpdateStatus PROVE UNCHANGED workload
    BY <2>1 DEF UpdateStatus, ReportMissing, ReportTooMany, ReportUnsafe, ReportPaused,
       ReportRunning, Report
  <2>2. CASE ReconcilerStep
    BY <2>1, <2>2 DEF ReconcilerStep, Begin, Abort, CallStep, AddFinalizer, Finalization,
       RemoveFinalizer, Rendering, ReconcileLitestreamConfig, NoBootstrapConfig,
       ReconcileBootstrapConfig,
       Annotation, AnnotateMissing, AnnotateTooMany, AnnotatedAlready, objects
  <2>3. ASSUME EnvironmentStep PROVE UNCHANGED workload \/ UserChangesWorkload
    BY <2>3 DEF EnvironmentStep, KubernetesStep, CreatePod, DeletePod, PodGone, PodStarts,
       CollectConfig, SyncCache, objects, ChangeStep, UserCreatesReplica, UserDeletesReplica,
       UserEditsReplica, UserTogglesBackup, UserTogglesPause, SidecarFails, FallsBehind
  <2>4. EnvironmentStep => UNCHANGED call
    BY DEF EnvironmentStep
  <2> QED
    BY <2>2, <2>3, <2>4 DEF Next, vars
<1> QED
  BY <1>3, <1>4, <1>5, <1>6, <1>7

\* Where a step leaves the call.
LEMMA NextStepOfCall ==
  ASSUME [Next]_vars
  PROVE  \/ UNCHANGED <<pc, cur>>
         \/ pc' \in {"idle", "addFinalizer", "status"}
         \/ \E r \in Replica : Begin(r)
         \/ Deinstrument /\ pc' = "removeFinalizer" /\ UNCHANGED cur
         \/ /\ pc \in {"config", "bootstrap"} /\ pc' \in {"bootstrap", "annotate"}
            /\ UNCHANGED cur
<1>1. ASSUME UpdateStatus PROVE pc' = "idle"
  BY <1>1 DEF UpdateStatus, ReportMissing, ReportTooMany, ReportUnsafe, ReportPaused,
     ReportRunning, Report, Return
<1>2. CASE CallStep
  BY <1>1, <1>2 DEF CallStep, AddFinalizer, Finalization, RemoveFinalizer, Deinstrument,
     Rendering, ReconcileLitestreamConfig, NoBootstrapConfig, ReconcileBootstrapConfig, Annotation,
     AnnotateMissing, AnnotateTooMany, AnnotatedAlready, Annotate, Return, Continue
<1> QED
  BY <1>2 DEF Next, ReconcilerStep, Abort, Return, EnvironmentStep, call, vars

LEMMA InjectionInvInit == Init => InjectionInv
BY DEF Init, ClusterInit, ControllerInit, InjectionInv, SeenReplica, Seen, NewReplica, Bare

LEMMA InjectionInvNext ==
  ASSUME "ignored" \notin Faults, "workload" \notin Lagging,
         TypeOK, InjectionInv, [Next]_vars
  PROVE  InjectionInv'
<1>1. pc # "idle" => cur \in Replica
  BY DEF TypeOK, ControllerTypeOK
<1>2. ASSUME NEW r \in Replica
      PROVE  /\ SeenReplica'[r].life = "live" /\ SeenReplica'[r].finalizer => Kept(r)'
             /\ SeenReplica'[r].life = "deleting" => Going(r)'
  BY GoingOn
<1>3. ASSUME NEW r \in Replica, workload'.exists, workload'.template.inject,
             workload'.template.config = r
      PROVE  Kept(r)'
  <2>1. CASE pc = "annotate" /\ workload'.template.config = cur
    BY <1>3, <2>1, GoingOn DEF InjectionInv
  <2>2. CASE /\ workload.exists /\ workload.template.inject
             /\ workload.template.config = r
    BY <2>2, GoingOn DEF InjectionInv
  <2> QED
    BY <1>3, <2>1, <2>2, InjectionChange
<1>4. ASSUME NEW r \in Replica, Begin(r)
      PROVE  /\ pc' # "removeFinalizer"
             /\ pc' \in {"config", "bootstrap", "annotate"} => Kept(cur)'
             /\ pc' = "deinstrument" => Going(cur)'
  <2>1. /\ pc' = FirstStep(SeenReplica[r]) /\ cur' = r /\ UNCHANGED <<replica, cache>>
        /\ SeenReplica[r].life \in Present
    BY <1>4 DEF Begin, objects
  <2>2. SeenReplica' = SeenReplica
    BY <2>1 DEF SeenReplica, Seen
  <2> QED
    BY <2>1, <2>2 DEF FirstStep, InjectionInv, Present, Kept, Going
<1>5. pc' \in {"config", "bootstrap", "annotate"} => Kept(cur)'
  <2>1. CASE pc \in {"config", "bootstrap", "annotate"} /\ UNCHANGED cur
    <3>1. Kept(cur) /\ cur \in Replica /\ pc # "removeFinalizer"
      BY <1>1, <2>1 DEF InjectionInv
    <3>2. \A r \in Replica : Kept(r) => Kept(r)'
      BY <2>1, GoingOn
    <3> QED
      BY <2>1, <3>1, <3>2 DEF Kept
  <2> QED
    BY <1>4, <2>1, NextStepOfCall
<1>6. pc' \in {"deinstrument", "removeFinalizer"} => Going(cur)'
  <2>1. CASE pc \in {"deinstrument", "removeFinalizer"} /\ UNCHANGED cur
    <3>1. Going(cur) /\ cur \in Replica
      BY <1>1, <2>1 DEF InjectionInv
    <3>2. \A r \in Replica : Going(r) => Going(r)'
      BY GoingOn
    <3> QED
      BY <2>1, <3>1, <3>2 DEF Going
  <2>2. Deinstrument => pc = "deinstrument"
    BY DEF Deinstrument
  <2> QED
    BY <1>4, <2>1, <2>2, NextStepOfCall
<1>7. pc' = "removeFinalizer" => ~(workload'.exists /\ workload'.template.inject)
  <2>1. CASE UNCHANGED <<pc, cur>>
    BY <2>1, InjectionChange DEF InjectionInv
  <2>2. CASE Deinstrument
    <3>1. pc # "annotate"
      BY <2>2 DEF Deinstrument
    <3> QED
      BY <2>2, <3>1, InjectionChange
  <2> QED
    BY <1>4, <2>1, <2>2, NextStepOfCall
<1> QED
  BY <1>2, <1>3, <1>5, <1>6, <1>7 DEF InjectionInv

\* The inductive invariant of NoOrphanInjection: a template names a replica only
\* while that is there with its finalizer, or under the call that takes the
\* annotations away before the finalizer (handleReplicaFinalization).
THEOREM InjectionInvariant ==
  ASSUME "ignored" \notin Faults, "workload" \notin Lagging
  PROVE  Spec => []InjectionInv
<1>1. TypeOK /\ InjectionInv /\ [Next]_vars => InjectionInv'
  BY InjectionInvNext
<1> QED
  BY <1>1, TypeCorrect, InjectionInvInit, PTL DEF Spec

\* No pod template is left naming a replica that is gone, however old the copy of
\* a replica that a call starts from: the finalizer keeps it until a call has
\* taken the annotations away (handleReplicaFinalization).  That call must read
\* the workload as it is and its patch must succeed, for a failure of it is only
\* logged.
THEOREM TemplatesFindTheirReplica ==
  ASSUME "ignored" \notin Faults, "workload" \notin Lagging
  PROVE  Spec => []NoOrphanInjection
<1>1. TypeOK /\ InjectionInv => NoOrphanInjection
  <2> SUFFICES ASSUME TypeOK, InjectionInv, workload.exists, workload.template.inject,
                      workload.template.config # NoReplica
               PROVE  replica[workload.template.config].life \in Present
    BY DEF NoOrphanInjection
  <2>1. workload.template.config \in Replica
    BY DEF TypeOK, ClusterTypeOK, WorkloadObject, Template, Holder
  <2> QED
    BY <2>1 DEF InjectionInv, Kept
<1> QED
  BY <1>1, TypeCorrect, InjectionInvariant, PTL

-----------------------------------------------------------------------------
(***************************************************************************)
(* The parts of a status agree.                                            *)
(***************************************************************************)

\* A status patch whose base is what is stored stores what is reported, except
\* perhaps for the condition that the call had set in its copy before.
LEMMA MergeCoherent ==
  ASSUME NEW stored \in Status, NEW base \in Status, NEW new \in Status,
         base = [stored EXCEPT !.conditions = base.conditions],
         \A type \in ConditionTypes \ {"BootstrapApplied"} :
           base.conditions[type] = stored.conditions[type],
         Coherent(new)
  PROVE  Coherent(MergeStatus(stored, base, new))
<1> DEFINE merged == MergeStatus(stored, base, new)
<1>1. /\ base.phase = stored.phase /\ base.ready = stored.ready
      /\ base.healthy = stored.healthy
  BY DEF Status
<1>2. /\ merged.phase = new.phase /\ merged.ready = new.ready
      /\ merged.healthy = new.healthy
      /\ merged.conditions \in {new.conditions, stored.conditions}
      /\ merged.conditions # new.conditions => new.conditions = base.conditions
  BY <1>1 DEF MergeStatus
<1>3. \A type \in ConditionTypes \ {"BootstrapApplied"} :
        merged.conditions[type] = new.conditions[type]
  BY <1>2
<1> HIDE DEF merged
<1>4. /\ merged.conditions["TargetReady"] = new.conditions["TargetReady"]
      /\ merged.conditions["ReplicaCountExceeded"] = new.conditions["ReplicaCountExceeded"]
      /\ merged.conditions["UnsafeRolloutStrategy"] = new.conditions["UnsafeRolloutStrategy"]
      /\ merged.conditions["ReplicationHealthy"] = new.conditions["ReplicationHealthy"]
      /\ merged.conditions["Ready"] = new.conditions["Ready"]
      /\ merged.conditions["ReplicationPaused"] = new.conditions["ReplicationPaused"]
  BY <1>3 DEF ConditionTypes
<1>5. Coherent(merged)
  BY <1>2, <1>4 DEF Coherent
<1> QED
  BY <1>5 DEF merged

LEMMA StatusInit == Init => StatusCoherent /\ BaseIsStored
<1>1. Coherent(NewStatus)
  BY DEF Coherent, NewStatus
<1>2. NewReplica.status = NewStatus
  BY DEF NewReplica
<1>3. ASSUME Init, NEW r \in Replica PROVE replica[r].status = NewStatus
  <2>1. replica[r] = [NewReplica EXCEPT !.sql = r \in Bootstrap]
    BY <1>3 DEF Init, ClusterInit
  <2> QED
    BY <1>2, <2>1 DEF NewReplica
<1> QED
  BY <1>1, <1>3 DEF Init, ControllerInit, StatusCoherent, BaseIsStored

\* A step that changes no status, and leaves the call alone or ends it.
LEMMA StatusKept ==
  ASSUME TypeOK, StatusCoherent, BaseIsStored,
         \A r \in Replica : replica'[r].status = replica[r].status,
         pc' = "idle" \/ UNCHANGED call \/ (UNCHANGED <<cur, my>> /\ pc # "idle")
  PROVE  StatusCoherent' /\ BaseIsStored'
<1>1. pc # "idle" => cur \in Replica
  BY DEF TypeOK, ControllerTypeOK
<1> QED
  BY <1>1 DEF StatusCoherent, BaseIsStored, call

LEMMA StatusNext ==
  ASSUME "replica" \notin Lagging, TypeOK, StatusCoherent, BaseIsStored, [Next]_vars
  PROVE  StatusCoherent' /\ BaseIsStored'
<1>1. ASSUME NEW r \in Replica,
             \/ UserCreatesReplica(r) \/ UserDeletesReplica(r) \/ UserEditsReplica(r)
             \/ UserTogglesBackup(r) \/ UserTogglesPause(r),
             UNCHANGED call
      PROVE  StatusCoherent' /\ BaseIsStored'
  BY <1>1, ReplicaChange, StatusKept DEF TypeOK
<1>2. CASE AddFinalizer \/ RemoveFinalizer
  BY <1>2, FinalizerChange, StatusKept DEF AddFinalizer, RemoveFinalizer, Return
<1>3. ASSUME NEW r \in Replica, Begin(r) PROVE StatusCoherent' /\ BaseIsStored'
  <2>1. /\ cur' = r /\ my' = replica[r] /\ UNCHANGED replica
        /\ replica[r] \in ReplicaObject
    BY <1>3 DEF Begin, objects, SeenReplica, Seen, TypeOK, ClusterTypeOK
  <2>2. [replica[r].status EXCEPT !.conditions = replica[r].status.conditions]
          = replica[r].status
    BY <2>1 DEF ReplicaObject, Status
  <2> QED
    BY <2>1, <2>2 DEF StatusCoherent, BaseIsStored
<1>4. CASE ReconcileBootstrapConfig
  <2>1. CASE Return
    BY <1>4, <2>1, StatusKept DEF ReconcileBootstrapConfig, Return
  <2>2. CASE UNCHANGED cur /\ my' = [my EXCEPT !.status.conditions["BootstrapApplied"] = "True"]
    <3> DEFINE stored == replica[cur].status
               base   == my.status
    <3>1. /\ pc # "idle" /\ UNCHANGED <<replica, cur>> /\ my \in ReplicaObject
          /\ replica[cur].status \in Status
      BY <1>4, <2>2 DEF ReconcileBootstrapConfig, TypeOK, ClusterTypeOK, ControllerTypeOK,
         ReplicaObject
    <3>2. base \in Status /\ base.conditions \in [ConditionTypes -> {"absent", "True", "False"}]
      BY <3>1 DEF ReplicaObject, Status
    <3>3. my'.status = [base EXCEPT !.conditions =
                         [base.conditions EXCEPT !["BootstrapApplied"] = "True"]]
      BY <2>2, <3>1 DEF ReplicaObject
    <3>4. /\ my'.status = [base EXCEPT !.conditions = my'.status.conditions]
          /\ \A type \in ConditionTypes \ {"BootstrapApplied"} :
               my'.status.conditions[type] = base.conditions[type]
      BY <3>2, <3>3 DEF Status
    <3>5. /\ base = [stored EXCEPT !.conditions = base.conditions]
          /\ \A type \in ConditionTypes \ {"BootstrapApplied"} :
               base.conditions[type] = stored.conditions[type]
      BY <3>1 DEF BaseIsStored
    <3> HIDE DEF stored, base
    <3>6. my'.status = [stored EXCEPT !.conditions = my'.status.conditions]
      BY <3>4, <3>5
    <3>7. BaseIsStored'
      BY <3>1, <3>4, <3>5, <3>6 DEF BaseIsStored, stored
    <3> QED
      BY <3>1, <3>7 DEF StatusCoherent
  <2> QED
    BY <1>4, <2>1, <2>2 DEF ReconcileBootstrapConfig
<1>5. CASE UpdateStatus
  <2>1. PICK new \in Status : Coherent(new) /\ Report(new)
    BY <1>5, UpdateStatusReports
  <2> DEFINE status == [new EXCEPT !.observed = my.generation]
  <2>2. /\ pc # "idle" /\ pc' = "idle" /\ cur \in Replica
        /\ my.generation \in Nat /\ my.status \in Status /\ replica[cur].status \in Status
    BY <2>1 DEF Report, Return, TypeOK, ClusterTypeOK, ControllerTypeOK, ReplicaObject
  <2>3. status \in Status
    BY <2>2 DEF Status, Number
  <2>4. Coherent(status)
    BY <2>1 DEF Coherent, Status
  <2> HIDE DEF status
  <2>5. Coherent(MergeStatus(replica[cur].status, my.status, status))
    BY <2>2, <2>3, <2>4, MergeCoherent DEF BaseIsStored
  <2>6. Coherent(replica'[cur].status)
    <3>1. replica'[cur].status \in
            {replica[cur].status, MergeStatus(replica[cur].status, my.status, status)}
      BY <2>1, ReportChange DEF status
    <3> QED
      BY <2>2, <2>5, <3>1 DEF StatusCoherent
  <2>7. \A r \in Replica \ {cur} : replica'[r] = replica[r]
    BY <2>1, ReportChange
  <2> QED
    BY <2>2, <2>6, <2>7 DEF StatusCoherent, BaseIsStored
<1>6. CASE /\ UNCHANGED replica
           /\ pc' = "idle" \/ UNCHANGED call \/ (UNCHANGED <<cur, my>> /\ pc # "idle")
  BY <1>6, StatusKept
<1>7. \/ \E r \in Replica : Begin(r)
      \/ ReconcileBootstrapConfig
      \/ AddFinalizer \/ RemoveFinalizer \/ UpdateStatus
      \/ pc' = "idle" \/ UNCHANGED call \/ (UNCHANGED <<cur, my>> /\ pc # "idle")
  BY DEF Next, ReconcilerStep, Abort, Return, CallStep, Finalization, Deinstrument,
     Rendering, ReconcileLitestreamConfig, NoBootstrapConfig, objects, Annotation,
     AnnotateMissing, AnnotateTooMany, AnnotatedAlready, Annotate, Continue, EnvironmentStep,
     call, vars
<1> QED
  BY <1>1, <1>2, <1>3, <1>4, <1>5, <1>6, <1>7, OtherSteps

\* The inductive invariant of StatusCoherent: the copy of a call, from which it
\* takes the base of its status patch, shows the status as it is stored, whatever
\* the call has reported before (updateStatus).
THEOREM BaseInvariant ==
  ASSUME "replica" \notin Lagging
  PROVE  Spec => [](StatusCoherent /\ BaseIsStored)
<1>1. TypeOK /\ StatusCoherent /\ BaseIsStored /\ [Next]_vars
        => StatusCoherent' /\ BaseIsStored'
  BY StatusNext
<1> QED
  BY <1>1, TypeCorrect, StatusInit, PTL DEF Spec

\* The phase and the ready flag of a status agree, and in the phases Ready, Pending
\* and Paused the conditions agree with both, whatever was reported before, wherever
\* calls stop and however old the copies of the workload and the pods are that the
\* report is made from.  In the phase Error an earlier condition may stand beside
\* them.  A status patch carries only what differs from its base, and so the
\* theorem needs a copy of the replica that is current (updateStatus).
THEOREM StatusPartsAgree ==
  ASSUME "replica" \notin Lagging
  PROVE  Spec => []StatusCoherent
BY BaseInvariant, PTL
=============================================================================
