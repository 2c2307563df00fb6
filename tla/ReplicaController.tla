---------------------------- MODULE ReplicaController ----------------------------
(***************************************************************************)
(* LitestreamReplicaReconciler: the controller that renders litestream.yml *)
(* and bootstrap.sql, annotates the pod template of the target workload so *)
(* that its pods get the sidecar, and reports in the status.               *)
(*                                                                         *)
(* As in RestoreController one worker runs one Reconcile call at a time,   *)
(* Begin copies the object into my, each later action is the call from one *)
(* write to the API server to the next, and the call may stop anywhere.    *)
(***************************************************************************)
EXTENDS ReplicaCluster

CONSTANTS
  Faults,     \* "abort": a call stops; "ignored": a best-effort write fails;
              \* "scrape": the metrics of the sidecar cannot be read
  MaxFaults   \* bound: how many faults happen

ASSUME FaultsAssumption ==
  Faults \subseteq {"abort", "ignored", "scrape"} /\ MaxFaults \in Nat

VARIABLES
  pc,      \* where the running Reconcile call is, "idle" if none runs
  cur,     \* the replica it reconciles
  my,      \* its copy of the replica
  faults   \* faults so far

call == <<pc, cur, my>>
vars == <<replica, configMap, bootstrapMap, workload, pod, behind, cache, changes,
          pc, cur, my, faults>>

Steps == {"idle", "deinstrument", "removeFinalizer", "addFinalizer", "config",
          "bootstrap", "annotate", "status"}

ControllerTypeOK ==
  /\ pc \in Steps
  /\ cur \in Holder /\ (pc # "idle" => cur \in Replica)
  /\ my \in ReplicaObject
  /\ faults \in 0..MaxFaults

ControllerInit == pc = "idle" /\ cur = NoReplica /\ my = NewReplica /\ faults = 0

Return         == pc' = "idle" /\ cur' = NoReplica /\ my' = NewReplica
Continue(step) == pc' = step /\ UNCHANGED <<cur, my>>
Fault(kind)    == kind \in Faults /\ faults < MaxFaults /\ faults' = faults + 1

-----------------------------------------------------------------------------
(***************************************************************************)
(* Reconcile.                                                              *)
(***************************************************************************)

\* Mutant: annotate first, render the ConfigMaps later.
FirstStep_AnnotateFirst(r) ==
  IF r.life = "deleting" THEN "deinstrument"
  ELSE IF ~r.finalizer THEN "addFinalizer" ELSE "annotate"

FirstStep(r) ==
  IF r.life = "deleting" THEN "deinstrument"
  ELSE IF ~r.finalizer THEN "addFinalizer" ELSE "config"

Begin(r) ==
  /\ pc = "idle"
  /\ SeenReplica[r].life \in Present
  /\ SeenReplica[r].life = "deleting" => SeenReplica[r].finalizer
  /\ pc' = FirstStep(SeenReplica[r]) /\ cur' = r /\ my' = SeenReplica[r]
  /\ UNCHANGED <<objects, behind, cache, changes, faults>>

\* An API request fails and the call returns the error, or the operator dies.
Abort ==
  /\ pc # "idle"
  /\ Fault("abort")
  /\ Return
  /\ UNCHANGED <<objects, behind, cache, changes>>

\* What Update of the object meets: the resourceVersion of the copy must be
\* that of the object, and the validating webhook must let it through.
UpdateAccepted == replica[cur] = my /\ Validated

AddFinalizer ==
  /\ pc = "addFinalizer"
  /\ replica' = IF UpdateAccepted THEN [replica EXCEPT ![cur].finalizer = TRUE]
                                  ELSE replica
  /\ Return
  /\ UNCHANGED <<configMap, bootstrapMap, workload, pod, behind, cache, changes, faults>>

-----------------------------------------------------------------------------
(***************************************************************************)
(* handleReplicaFinalization.                                              *)
(***************************************************************************)

\* Mutant: the annotations stay.
Deinstrument_Skipped ==
  /\ pc = "deinstrument"
  /\ Continue("removeFinalizer")
  /\ UNCHANGED <<objects, behind, cache, changes, faults>>

\* Mutant: a workload that is not found is an error.
Deinstrument_NeedsTarget ==
  /\ pc = "deinstrument"
  /\ IF SeenWorkload.exists THEN Continue("removeFinalizer") ELSE Return
  /\ workload' = IF workload.exists THEN [workload EXCEPT !.template = Bare] ELSE workload
  /\ UNCHANGED <<replica, configMap, bootstrapMap, pod, behind, cache, changes, faults>>

\* removeWorkloadAnnotations, whosever they are; an error is only logged.  The
\* merge patch removes what the cached template has.
Deinstrument ==
  /\ pc = "deinstrument"
  /\ Continue("removeFinalizer")
  /\ LET seen    == SeenWorkload.template
         removed == [inject |-> workload.template.inject /\ ~seen.inject,
                     config |-> IF seen.config # NoReplica THEN NoReplica
                                ELSE workload.template.config,
                     hash   |-> IF seen.hash # Nil THEN Nil ELSE workload.template.hash]
     IN  \/ /\ workload' = IF SeenWorkload.exists /\ workload.exists
                           THEN [workload EXCEPT !.template = removed] ELSE workload
            /\ UNCHANGED faults
         \/ /\ SeenWorkload.exists
            /\ Fault("ignored")
            /\ UNCHANGED workload
  /\ UNCHANGED <<replica, configMap, bootstrapMap, pod, behind, cache, changes>>

RemoveFinalizer ==
  /\ pc = "removeFinalizer"
  /\ replica' = IF UpdateAccepted
                THEN [replica EXCEPT ![cur].finalizer = FALSE, ![cur].life = "gone"]
                ELSE replica
  /\ Return
  /\ UNCHANGED <<configMap, bootstrapMap, workload, pod, behind, cache, changes, faults>>

-----------------------------------------------------------------------------
(***************************************************************************)
(* The ConfigMaps and the pod template.                                    *)
(***************************************************************************)

\* Mutant: the ConfigMap is only ever created, not updated.
Rendered_Once ==
  IF configMap[cur] # NoConfig THEN configMap[cur] ELSE [content |-> "full", of |-> my.generation]

\* What litestream.yml is to hold: dbs: [] under the pause annotation.
Rendered ==
  IF my.pause THEN [content |-> "paused", of |-> 0]
              ELSE [content |-> "full", of |-> my.generation]

\* CreateOrUpdate: nothing is written when the cached ConfigMap is as wanted; a
\* Create or Update made from another copy than what is stored is refused.
Refused(seen, stored, wanted) == seen \notin {wanted, stored}
Written(seen, stored, wanted) == IF seen = wanted THEN stored ELSE wanted

ReconcileLitestreamConfig ==
  LET seen == SeenMaps.config[cur] IN
  /\ pc = "config"
  /\ \/ /\ ~Refused(seen, configMap[cur], Rendered)
        /\ configMap' = [configMap EXCEPT ![cur] = Written(seen, @, Rendered)]
        /\ Continue("bootstrap")
     \/ /\ Refused(seen, configMap[cur], Rendered)
        /\ Return /\ UNCHANGED configMap
  /\ UNCHANGED <<replica, bootstrapMap, workload, pod, behind, cache, changes, faults>>

NoBootstrapConfig ==
  /\ pc = "bootstrap" /\ ~my.sql
  /\ Continue("annotate")
  /\ UNCHANGED <<objects, behind, cache, changes, faults>>

\* The condition is set in the copy only; updateStatus stores it.
ReconcileBootstrapConfig ==
  LET seen == SeenMaps.bootstrap[cur] IN
  /\ pc = "bootstrap" /\ my.sql
  /\ \/ /\ ~Refused(seen, bootstrapMap[cur], my.injection)
        /\ bootstrapMap' = [bootstrapMap EXCEPT ![cur] = Written(seen, @, my.injection)]
        /\ my' = [my EXCEPT !.status.conditions["BootstrapApplied"] = "True"]
        /\ pc' = "annotate" /\ UNCHANGED cur
     \/ /\ Refused(seen, bootstrapMap[cur], my.injection)
        /\ Return /\ UNCHANGED bootstrapMap
  /\ UNCHANGED <<replica, configMap, workload, pod, behind, cache, changes, faults>>

\* The target is not found: the call ends with the error, before updateStatus.
AnnotateMissing ==
  /\ pc = "annotate"
  /\ ~SeenWorkload.exists
  /\ Return
  /\ UNCHANGED <<objects, behind, cache, changes, faults>>

\* More than one replica: the template is left alone.
AnnotateTooMany ==
  /\ pc = "annotate"
  /\ SeenWorkload.exists /\ SeenWorkload.replicas > 1
  /\ Continue("status")
  /\ UNCHANGED <<objects, behind, cache, changes, faults>>

Instrumented(template) == template = [inject |-> TRUE, config |-> cur, hash |-> my.injection]

AnnotatedAlready ==
  /\ pc = "annotate"
  /\ SeenWorkload.exists /\ SeenWorkload.replicas <= 1
  /\ Instrumented(SeenWorkload.template)
  /\ Continue("status")
  /\ UNCHANGED <<objects, behind, cache, changes, faults>>

\* Mutant: the patch does not carry the hash once it is set.
Annotated_HashOnce(old, seen) ==
  [inject |-> TRUE, config |-> cur,
   hash |-> IF seen.hash = Nil THEN my.injection ELSE old.hash]

\* The merge patch carries what differs from the cached template.
Annotated(old, seen) ==
  [inject |-> old.inject \/ ~seen.inject,
   config |-> IF seen.config # cur THEN cur ELSE old.config,
   hash   |-> IF seen.hash # my.injection THEN my.injection ELSE old.hash]

Annotate ==
  /\ pc = "annotate"
  /\ SeenWorkload.exists /\ SeenWorkload.replicas <= 1
  /\ ~Instrumented(SeenWorkload.template)
  /\ workload' = IF workload.exists
                 THEN [workload EXCEPT !.template =
                         Annotated(workload.template, SeenWorkload.template)]
                 ELSE workload
  /\ IF workload.exists THEN Continue("status") ELSE Return
  /\ UNCHANGED <<replica, configMap, bootstrapMap, pod, behind, cache, changes, faults>>

-----------------------------------------------------------------------------
(***************************************************************************)
(* updateStatus.                                                           *)
(***************************************************************************)

\* litestreamContainerState, from the pods the selector finds.
Sidecars == {p \in Slots : SeenPod[p].of # NoReplica /\ SeenPod[p].state # "none"}
SidecarHealthy ==
  /\ \E p \in Sidecars : SeenPod[p].state \in {"running", "terminating"}
  /\ \A p \in Sidecars : SeenPod[p].state # "failed"

ReadyReplicas == {p \in Slots : SeenPod[p].state = "running"}

If(condition) == IF condition THEN "True" ELSE "False"

\* Mutant: a field that has become false or empty is left as it was.
MergeStatus_OnlySet(stored, base, new) ==
  [new EXCEPT !.ready = new.ready \/ stored.ready, !.healthy = new.healthy \/ stored.healthy]

\* A merge patch: each field in which new differs from the base goes into the
\* stored status, the conditions as one list.  They differ also when only
\* their observedGeneration does.
MergeStatus(stored, base, new) ==
  LET Merge(old, from, to) == IF to # from THEN to ELSE old IN
  [phase    |-> Merge(stored.phase, base.phase, new.phase),
   ready    |-> Merge(stored.ready, base.ready, new.ready),
   healthy  |-> Merge(stored.healthy, base.healthy, new.healthy),
   hash     |-> Merge(stored.hash, base.hash, new.hash),
   observed |-> Merge(stored.observed, base.observed, new.observed),
   conditions |-> IF new.observed # base.observed THEN new.conditions
                  ELSE Merge(stored.conditions, base.conditions, new.conditions)]

\* The status patch that ends a call.
Report(new) ==
  /\ pc = "status"
  /\ LET status == [new EXCEPT !.observed = my.generation]
     IN  replica' = [replica EXCEPT ![cur].status =
           IF replica[cur].life \in Present THEN MergeStatus(@, my.status, status) ELSE @]
  /\ Return
  /\ UNCHANGED <<configMap, bootstrapMap, workload, pod, behind, cache, changes>>

\* The target went after reconcileTargetAnnotation saw it.
ReportMissing ==
  /\ ~SeenWorkload.exists
  /\ Report([my.status EXCEPT
       !.phase = "Error", !.ready = FALSE, !.healthy = FALSE,
       !.conditions = [@ EXCEPT !["TargetReady"] = "False", !["SidecarReady"] = "False",
                                !["ReplicationHealthy"] = "False", !["Ready"] = "False"]])
  /\ UNCHANGED faults

ReportTooMany ==
  /\ SeenWorkload.exists /\ SeenWorkload.replicas > 1
  /\ Report([my.status EXCEPT
       !.phase = "Error", !.ready = FALSE,
       !.conditions = [@ EXCEPT !["TargetReady"] = "True",
                                !["ReplicaCountExceeded"] = "True"]])
  /\ UNCHANGED faults

Reportable == SeenWorkload.exists /\ SeenWorkload.replicas <= 1

\* isRolloutStrategySafe is false.
ReportUnsafe ==
  /\ Reportable /\ SeenWorkload.strategy = "RollingUpdate"
  /\ Report([my.status EXCEPT
       !.phase = "Error", !.ready = FALSE,
       !.conditions = [@ EXCEPT !["TargetReady"] = "True",
                                !["ReplicaCountExceeded"] = "absent",
                                !["UnsafeRolloutStrategy"] = "True"]])
  /\ UNCHANGED faults

\* Mutant: the conditions of an earlier error are left as they are.
Sound_Keeps(exceeded, ready) ==
  [my.status.conditions EXCEPT
     !["TargetReady"] = "True",
     !["ReplicationPaused"] = If(my.pause),
     !["SidecarReady"] = If(my.backup /\ SidecarHealthy),
     !["ReplicationHealthy"] = If(my.backup /\ SidecarHealthy /\ ~exceeded),
     !["Ready"] = If(ready)]

\* Mutant: a sidecar that does not run yet is reported as unknown.
Sound_Unknown(exceeded, ready) ==
  [my.status.conditions EXCEPT
     !["TargetReady"] = "True",
     !["SidecarReady"] = IF SidecarHealthy THEN "True" ELSE "Unknown",
     !["Ready"] = If(ready)]

\* The conditions of a workload that can be replicated.
Sound(exceeded, ready) ==
  [my.status.conditions EXCEPT
     !["TargetReady"] = "True",
     !["ReplicaCountExceeded"] = "absent", !["UnsafeRolloutStrategy"] = "absent",
     !["ReplicationPaused"] = If(my.pause),
     !["SidecarReady"] = If(my.backup /\ SidecarHealthy),
     !["ReplicationHealthy"] = If(my.backup /\ SidecarHealthy /\ ~exceeded),
     !["Ready"] = If(ready)]

\* The scrape of the metrics, if maxReplicationLag asks for it; when it fails
\* the state of the container decides alone.
Scrape(exceeded) ==
  \/ exceeded = (MaxLag /\ behind) /\ UNCHANGED faults
  \/ MaxLag /\ my.backup /\ SidecarHealthy /\ ~exceeded /\ Fault("scrape")

ReportPaused ==
  /\ Reportable /\ SeenWorkload.strategy # "RollingUpdate" /\ my.pause
  /\ \E exceeded \in BOOLEAN :
       /\ Scrape(exceeded)
       /\ Report([my.status EXCEPT
            !.phase = "Paused", !.ready = FALSE,
            !.healthy = my.backup /\ SidecarHealthy /\ ~exceeded,
            !.conditions = Sound(exceeded, FALSE)])

ReportRunning ==
  /\ Reportable /\ SeenWorkload.strategy # "RollingUpdate" /\ ~my.pause
  /\ \E exceeded \in BOOLEAN :
       /\ Scrape(exceeded)
       /\ LET ready == SeenWorkload.template.inject /\ ReadyReplicas # {}
          IN  Report([my.status EXCEPT
                !.phase = IF ready THEN "Ready" ELSE "Pending", !.ready = ready,
                !.healthy = my.backup /\ SidecarHealthy /\ ~exceeded,
                !.hash = my.injection,
                !.conditions = Sound(exceeded, ready)])

-----------------------------------------------------------------------------
Finalization == Deinstrument \/ RemoveFinalizer
Rendering    == ReconcileLitestreamConfig \/ NoBootstrapConfig \/ ReconcileBootstrapConfig
Annotation   == AnnotateMissing \/ AnnotateTooMany \/ AnnotatedAlready \/ Annotate
UpdateStatus == ReportMissing \/ ReportTooMany \/ ReportUnsafe \/ ReportPaused \/ ReportRunning

CallStep == AddFinalizer \/ Finalization \/ Rendering \/ Annotation \/ UpdateStatus

ReconcilerStep == (\E r \in Replica : Begin(r)) \/ CallStep \/ Abort
=============================================================================
