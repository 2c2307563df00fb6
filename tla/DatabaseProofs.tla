---------------------------- MODULE DatabaseProofs ----------------------------
(***************************************************************************)
(* What happens to the database, for every way of mounting its volume,     *)
(* every spec of the LitestreamReplica and of the restore, and any number  *)
(* of containers that fail and of changes of the user.                     *)
(*                                                                         *)
(* Apart says that a ToPVC restore does not write where the application    *)
(* has its database.  The controller and the webhooks do not see to it, so *)
(* it is a hypothesis of the theorems, as is that the Job writes to the    *)
(* place that was asked for: the run misplaced_restore has one that does   *)
(* not.                                                                    *)
(***************************************************************************)
EXTENDS DatabaseSystem, SequenceTheorems, TLAPS

Apart == ~InPlace /\ Covering # {} => JobPlace # Home

-----------------------------------------------------------------------------
(***************************************************************************)
(* The specs do not change, and with them the places.                      *)
(***************************************************************************)

LEMMA PlacesFixed ==
  ASSUME UNCHANGED specs
  PROVE  /\ Home' = Home /\ Wanted' = Wanted /\ JobPlace' = JobPlace /\ Places' = Places
         /\ (Covering' = {}) = (Covering = {}) /\ Resolves' = Resolves /\ InPlace' = InPlace
<1>1. replica' = replica /\ request' = request
  BY DEF specs
<1>2. Covering' = Covering
  BY <1>1 DEF Covering
<1>3. BestMatch' = BestMatch
  BY <1>2 DEF BestMatch
<1>4. Home' = Home
  BY <1>3 DEF Home, PlaceUnder
<1>5. Wanted' = Wanted /\ JobPlace' = JobPlace /\ InPlace' = InPlace
  BY <1>1, <1>3, <1>4 DEF Wanted, JobPlace, InPlace
<1>6. Resolves' = Resolves
  BY <1>1, <1>2, <1>3 DEF Resolves
<1>7. Places' = Places
  BY <1>2, <1>4, <1>5, <1>6 DEF Places
<1> QED
  BY <1>2, <1>4, <1>5, <1>6, <1>7

LEMMA SpecsFixed ==
  ASSUME [Next]_vars
  PROVE  UNCHANGED specs
BY DEF Next, vars, JobStep, PodStep, ControllerStep, StartPod, StopPod, UserStep, UserScales,
   UserRemovesDatabase, UserPauses

LEMMA PutLemma ==
  ASSUME VolumeTypeOK, NEW place, NEW file \in File \cup {NoFile}, Put(place, file)
  PROVE  /\ volume' \in [Places -> File \cup {NoFile}]
         /\ \A p \in Places : volume'[p] = IF p = place THEN file ELSE volume[p]
BY DEF VolumeTypeOK, Put

LEMMA MadeType ==
  ASSUME NEW origin \in Origins, NEW whole \in BOOLEAN
  PROVE  Made(origin, whole) \in File \cup {NoFile}
BY DEF Made, File

\* The lists of init containers.
LEMMA TailLemma ==
  /\ Tail(<<AutoRestore>>) = <<>> /\ Tail(<<Bootstrap>>) = <<>>
  /\ Tail(<<AutoRestore, Bootstrap>>) = <<Bootstrap>>
OBVIOUS

LEMMA InitContainersLemma ==
  /\ InitContainers \in {<<>>, <<AutoRestore>>, <<Bootstrap>>, <<AutoRestore, Bootstrap>>}
  /\ replica.backup /\ replica.recovery = "automatic"
       => InitContainers \in {<<AutoRestore>>, <<AutoRestore, Bootstrap>>}
<1> DEFINE S == {AutoRestore, Bootstrap}
           both == <<AutoRestore>> \o <<Bootstrap>>
<1>1. /\ <<AutoRestore>> \in Seq(S) /\ <<Bootstrap>> \in Seq(S) /\ <<>> \in Seq(S)
      /\ <<AutoRestore, Bootstrap>> \in Seq(S)
  OBVIOUS
<1>2. /\ <<>> \o <<>> = <<>> /\ <<AutoRestore>> \o <<>> = <<AutoRestore>>
      /\ <<>> \o <<Bootstrap>> = <<Bootstrap>>
  BY <1>1, ConcatEmptySeq
<1>3. both = <<AutoRestore, Bootstrap>>
  <2>1. both \in Seq(S) /\ Len(both) = 2
    BY <1>1, ConcatProperties
  <2>2. both[1] = AutoRestore /\ both[2] = Bootstrap
    BY <1>1, ConcatProperties
  <2> HIDE DEF both, S
  <2>3. \A i \in 1..Len(both) : both[i] = <<AutoRestore, Bootstrap>>[i]
    BY <2>1, <2>2
  <2> QED
    BY <1>1, <2>1, <2>3, SeqEqual
<1> QED
  BY <1>2, <1>3 DEF InitContainers

-----------------------------------------------------------------------------
(***************************************************************************)
(* Types.                                                                  *)
(***************************************************************************)

\* What all steps have in common.
LEMMA VolumeType ==
  ASSUME VolumeTypeOK, UNCHANGED specs,
         volume' = volume \/ \E place : \E file \in File \cup {NoFile} : Put(place, file),
         archive' \in Archives, config' \in {"full", "paused"},
         UNCHANGED failures \/ Failure, UNCHANGED changes \/ Change
  PROVE  VolumeTypeOK'
<1>1. volume' \in [Places -> File \cup {NoFile}]
  BY PutLemma DEF VolumeTypeOK
<1>2. Places' = Places
  BY PlacesFixed
<1>3. replica' = replica /\ request' = request
  BY DEF specs
<1>4. Admitted(request')
  BY <1>3 DEF VolumeTypeOK
<1>5. failures' \in 0..MaxFailures /\ changes' \in 0..MaxChanges
  BY BoundsAssumption DEF VolumeTypeOK, Failure, Change
<1> QED
  BY <1>1, <1>2, <1>3, <1>4, <1>5 DEF VolumeTypeOK

LEMMA InitTypes == Init => TypeOK
<1> SUFFICES ASSUME Init PROVE TypeOK
  OBVIOUS
<1>1. volume \in [Places -> File \cup {NoFile}]
  <2>1. Made("application", TRUE) \in File \cup {NoFile}
    BY MadeType DEF Origins
  <2>2. {NoFile, Made("application", TRUE)} \subseteq File \cup {NoFile}
    BY <2>1
  <2> QED
    BY <2>2 DEF Init, VolumeInit
<1>2. VolumeTypeOK
  BY <1>1, BoundsAssumption DEF Init, VolumeInit, VolumeTypeOK
<1>3. breached \in BOOLEAN
  BY DEF Init
<1> QED
  BY <1>2, <1>3 DEF Init, JobInit, PodInit, TypeOK, JobTypeOK, PodTypeOK, BackoffLimit, Phases

LEMMA TryFailsType ==
  ASSUME JobTypeOK, TryFails \/ Succeeds \/ \E s \in {"restore", "verify", "clean"} : GoTo(s)
  PROVE  JobTypeOK'
BY DEF JobTypeOK, TryFails, Succeeds, GoTo, BackoffLimit

LEMMA JobTypes ==
  ASSUME TypeOK, JobStep, UNCHANGED <<podVars, replicas, restoreVars, breached>>
  PROVE  TypeOK'
<1> USE DEF TypeOK
<1>1. JobTypeOK'
  BY TryFailsType DEF JobStep, Script, Guard, LitestreamRestores, LitestreamFails, Verify,
     CleanUp, Killed, GivesUp, JobTypeOK
<1>2. volume' = volume \/ \E place : \E file \in File \cup {NoFile} : Put(place, file)
  <2>1. /\ Made("archive", TRUE) \in File \cup {NoFile}
        /\ Made("archive", CheckFirst) \in File \cup {NoFile}
    BY MadeType, CheckFirstAssumption DEF Origins
  <2> QED
    BY <2>1 DEF JobStep, Script, Guard, LitestreamRestores, LitestreamFails, Verify, CleanUp,
       Killed, GivesUp, data
<1>3. /\ UNCHANGED <<specs, archive, config, changes>>
      /\ UNCHANGED failures \/ Failure
  BY DEF JobStep, Script, Guard, LitestreamRestores, LitestreamFails, Verify, CleanUp, Killed,
     GivesUp, data
<1>4. VolumeTypeOK'
  BY <1>2, <1>3, VolumeType DEF VolumeTypeOK
<1> QED
  BY <1>1, <1>4 DEF podVars, PodTypeOK, restoreVars

LEMMA PodTypes ==
  ASSUME TypeOK, PodStep, UNCHANGED <<jobVars, replicas, restoreVars, breached>>
  PROVE  TypeOK'
<1> USE DEF TypeOK
<1>1. PodTypeOK'
  <2>1. ASSUME todo # <<>>, Exits0 \/ \E where \in {"check", "run", "finish"} : GoOn(where)
        PROVE  PodTypeOK'
    BY <2>1, TailLemma DEF PodTypeOK, Exits0, GoOn
  <2>2. CASE InitContainerStep
    BY <2>1, <2>2 DEF InitContainerStep, CheckDatabase, AutoRestores, NothingToRestore,
       AutoRestoreFails, AutoRestoreVerifies, BootstrapBegins, BootstrapFails, BootstrapEnds,
       Retried, Running
  <2> QED
    BY <2>2 DEF PodStep, ApplicationStarts, SidecarReplicates, ContainerKilled, PodLost,
       PodTypeOK, Retried, GoOn, podVars
<1>2. volume' = volume \/ \E place : \E file \in File \cup {NoFile} : Put(place, file)
  <2>1. \A origin \in Origins : \A whole \in BOOLEAN : Made(origin, whole) \in File \cup {NoFile}
    BY MadeType
  <2> QED
    BY <2>1, CheckFirstAssumption DEF PodStep, InitContainerStep, CheckDatabase, AutoRestores,
       NothingToRestore, AutoRestoreFails, AutoRestoreVerifies, BootstrapBegins,
       BootstrapFails, BootstrapEnds,
       ApplicationStarts, SidecarReplicates, ContainerKilled, PodLost, data, Origins
<1>3. /\ UNCHANGED <<specs, config, changes>> /\ archive' \in {archive, "sound"}
      /\ UNCHANGED failures \/ Failure
  BY DEF PodStep, InitContainerStep, CheckDatabase, AutoRestores, NothingToRestore,
     AutoRestoreFails, AutoRestoreVerifies, BootstrapBegins, BootstrapFails, BootstrapEnds,
     ApplicationStarts,
     SidecarReplicates, ContainerKilled, PodLost, data
<1>4. VolumeTypeOK'
  BY <1>2, <1>3, VolumeType DEF VolumeTypeOK, Archives
<1> QED
  BY <1>1, <1>4 DEF jobVars, JobTypeOK, restoreVars

LEMMA OtherTypes ==
  ASSUME TypeOK,
         \/ ControllerStep
         \/ (StartPod \/ StopPod) /\ UNCHANGED <<jobVars, replicas, restoreVars, breached>>
         \/ UserStep /\ UNCHANGED <<jobVars, restoreVars>>
         \/ UNCHANGED vars
  PROVE  TypeOK'
<1> USE DEF TypeOK
<1>1. /\ UNCHANGED <<specs, archive, failures>> /\ (UNCHANGED changes \/ Change)
      /\ config' \in {"full", "paused"}
      /\ volume' = volume \/ \E place : \E file \in File \cup {NoFile} : Put(place, file)
  BY DEF ControllerStep, NoBackup, ResolveFails, EnterAcquiringLock, EnterFencing,
     PauseAgain, ScaleDown,
     CreateJob, JobSucceeded, JobFailed, Resume,
     StartPod, CreatePod, StopPod, UserStep, UserScales, UserRemovesDatabase, UserPauses,
     vars, data, VolumeTypeOK
<1>2. VolumeTypeOK'
  BY <1>1, VolumeType DEF VolumeTypeOK
<1>3. JobTypeOK'
  BY DEF ControllerStep, NoBackup, ResolveFails, EnterAcquiringLock, EnterFencing,
     PauseAgain, ScaleDown,
     CreateJob, JobSucceeded, JobFailed, Resume,
     JobTypeOK, jobVars, vars
<1>4. PodTypeOK'
  BY InitContainersLemma DEF ControllerStep, StartPod, CreatePod, StopPod, UserStep,
     UserScales, UserRemovesDatabase, UserPauses, PodTypeOK, podVars, vars
<1>5. replicas' \in 0..1 /\ phase' \in Phases /\ original' \in 0..1
  BY DEF ControllerStep, NoBackup, ResolveFails, EnterAcquiringLock, EnterFencing,
     PauseAgain, ScaleDown,
     CreateJob, JobSucceeded, JobFailed, Resume,
     UserStep, UserScales, UserRemovesDatabase, UserPauses, vars, restoreVars, Phases
<1>6. breached' \in BOOLEAN
  BY Zenon DEF ControllerStep, UserStep, UserScales, UserRemovesDatabase, UserPauses, vars
<1> QED
  BY <1>2, <1>3, <1>4, <1>5, <1>6

LEMMA NextTypes == TypeOK /\ [Next]_vars => TypeOK'
BY JobTypes, PodTypes, OtherTypes DEF Next

\* Every reachable state is well typed: the Job is restarted no more often than
\* its backoffLimit says, and a pod has the init containers it was given.
THEOREM DatabaseTypes == Spec => []TypeOK
<1> QED
  BY InitTypes, NextTypes, PTL DEF Spec


-----------------------------------------------------------------------------
(***************************************************************************)
(* The invariant.  Home, JobPlace and Resolves stay what they are, so a    *)
(* step is looked at by what it does to the file at these two places.      *)
(***************************************************************************)

LEMMA ApartFixed ==
  ASSUME Apart, UNCHANGED specs
  PROVE  Apart'
BY PlacesFixed DEF Apart

LEMMA PlacesLemma ==
  /\ Covering # {} => Home \in Places
  /\ Resolves => Wanted \in Places /\ JobPlace \in Places
BY DEF Places

LEMMA Origin ==
  /\ NoFile.origin = "none"
  /\ \A origin, whole : Made(origin, whole).origin = origin
  /\ \A origin \in Origins : \A whole : Made(origin, whole) # NoFile
BY DEF NoFile, Made, Origins

\* A step of the Job writes at its own place only.
LEMMA JobWrites ==
  ASSUME TypeOK, JobStep
  PROVE  /\ \A p \in Places : p # JobPlace => volume'[p] = volume[p]
         /\ UNCHANGED <<specs, archive, config>>
         /\ job = "running"
<1>1. ASSUME NEW file, Put(JobPlace, file)
      PROVE  \A p \in Places : p # JobPlace => volume'[p] = volume[p]
  BY <1>1 DEF Put, TypeOK, VolumeTypeOK
<1> QED
  BY <1>1 DEF JobStep, Script, Guard, LitestreamRestores, LitestreamFails, Verify, CleanUp,
     Killed, GivesUp, At, data

\* What it leaves there, when no file may be overwritten.
LEMMA JobLeaves ==
  ASSUME TypeOK, JobStep, JobPlace \in Places, ~request.force,
         step # "guard" => volume[JobPlace].origin \notin {"application", "bootstrap"},
         step' # "guard"
  PROVE  volume'[JobPlace].origin \notin {"application", "bootstrap"}
<1>1. ASSUME NEW whole, Put(JobPlace, Made("archive", whole))
      PROVE  volume'[JobPlace].origin = "archive"
  BY <1>1, Origin DEF Put, TypeOK, VolumeTypeOK
<1> QED
  BY <1>1, Origin DEF JobStep, Script, Guard, LitestreamRestores, LitestreamFails, Verify,
     CleanUp, Killed, GivesUp, At, GoTo, TryFails, Exists, Succeeds, data

LEMMA JobKeepsInv ==
  ASSUME TypeOK, Apart, DatabaseInv, JobStep, UNCHANGED <<podVars, replicas, restoreVars, breached>>
  PROVE  DatabaseInv'
<1>1. /\ \A p \in Places : p # JobPlace => volume'[p] = volume[p]
      /\ UNCHANGED <<specs, archive, config>> /\ job = "running"
  BY JobWrites
<1>2. /\ Home' = Home /\ JobPlace' = JobPlace /\ Resolves' = Resolves /\ InPlace' = InPlace
      /\ (Covering' = {}) = (Covering = {}) /\ replica' = replica /\ request' = request
  BY <1>1, PlacesFixed DEF specs
<1>3. phase = "Restoring" /\ Resolves /\ (InPlace => breached \/ (replicas = 0 /\ pod = "none"))
  BY <1>1 DEF DatabaseInv
<1>4. job' # "running" => step' = "guard"
  BY <1>1 DEF JobStep, Script, Guard, LitestreamRestores, LitestreamFails, Verify, CleanUp,
     Killed, GivesUp, GoTo, TryFails, Succeeds
<1>5. ~request.force /\ ~breached /\ step' # "guard"
        => volume'[JobPlace].origin \notin {"application", "bootstrap"}
  BY <1>1, <1>3, JobLeaves, PlacesLemma DEF DatabaseInv
<1>6. pod # "none" /\ ~breached => volume'[Home] = volume[Home]
  BY <1>1, <1>3, PlacesLemma DEF Apart, DatabaseInv
<1> QED
  BY <1>1, <1>2, <1>3, <1>4, <1>5, <1>6 DEF DatabaseInv, podVars, restoreVars, Exists

\* A step of the pod writes at Home only.
LEMMA PodWrites ==
  ASSUME TypeOK, PodStep
  PROVE  /\ \A p \in Places : p # Home => volume'[p] = volume[p]
         /\ UNCHANGED <<specs, config>> /\ archive' \in {archive, "sound"}
         /\ pod # "none"
<1>1. ASSUME NEW file, Put(Home, file)
      PROVE  \A p \in Places : p # Home => volume'[p] = volume[p]
  BY <1>1 DEF Put, TypeOK, VolumeTypeOK
<1> QED
  BY <1>1 DEF PodStep, InitContainerStep, CheckDatabase, AutoRestores, NothingToRestore,
     AutoRestoreFails, AutoRestoreVerifies, BootstrapBegins, BootstrapFails, BootstrapEnds,
     ApplicationStarts,
     SidecarReplicates, ContainerKilled, PodLost, data, Running, podVars

\* Who is past the restore container without a database had nothing to restore.
PastRestore == pod = "starting" /\ todo \in {<<>>, <<Bootstrap>>} /\ ~Exists(Home)

LEMMA PodPastRestore ==
  ASSUME TypeOK, PodStep, UNCHANGED specs, Covering # {},
         PastRestore => archive = "none",
         PastRestore'
  PROVE  archive' = "none"
<1>1. Home \in Places /\ Home' = Home
  BY PlacesLemma, PlacesFixed
<1>2. ASSUME NEW origin \in Origins, NEW whole, Put(Home, Made(origin, whole))
      PROVE  FALSE
  BY <1>1, <1>2, Origin DEF Put, TypeOK, VolumeTypeOK, PastRestore, Exists
<1>3. volume' = volume => (Exists(Home)' <=> Exists(Home))
  BY <1>1 DEF Exists
<1>4. /\ todo \in {<<>>, <<AutoRestore>>, <<Bootstrap>>, <<AutoRestore, Bootstrap>>}
      /\ pod' = "starting" /\ todo' \in {<<>>, <<Bootstrap>>} /\ ~Exists(Home)'
  BY DEF PastRestore, TypeOK, PodTypeOK
<1>5. ASSUME Running(AutoRestore, "run") \/ Running(AutoRestore, "check")
                \/ Running(AutoRestore, "finish")
      PROVE  todo' # todo
  BY <1>4, <1>5 DEF Running, AutoRestore, Bootstrap
<1>6. CASE InitContainerStep
  <2>1. CASE \E container \in {AutoRestore, Bootstrap} : CheckDatabase(container)
    BY <2>1, <1>3, <1>4, <1>5 DEF CheckDatabase, GoOn, data, PastRestore, Running
  <2>2. CASE AutoRestores \/ NothingToRestore \/ AutoRestoreFails
    BY <2>2, <1>2, <1>5 DEF AutoRestores, NothingToRestore, AutoRestoreFails, Retried, GoOn,
       data, Origins
  <2>3. CASE AutoRestoreVerifies
    BY <2>3, <1>2, <1>5 DEF AutoRestoreVerifies, Retried, GoOn, Origins
  <2>4. CASE BootstrapBegins \/ BootstrapFails \/ BootstrapEnds
    <3>1. ASSUME NEW where, Running(Bootstrap, where)
          PROVE  todo = <<Bootstrap>> /\ pod = "starting"
      BY <3>1, <1>4 DEF Running, AutoRestore, Bootstrap
    <3> QED
      BY <2>4, <3>1, <1>2, <1>3, <1>4 DEF BootstrapBegins, BootstrapFails, BootstrapEnds,
         Origins, PastRestore, data
  <2> QED
    BY <1>6, <2>1, <2>2, <2>3, <2>4 DEF InitContainerStep
<1>7. CASE ~InitContainerStep
  BY <1>3, <1>4, <1>7 DEF PodStep, ApplicationStarts, SidecarReplicates, ContainerKilled,
     PodLost, Retried,
     GoOn, data, podVars, PastRestore
<1> QED
  BY <1>6, <1>7

LEMMA PodKeepsInv ==
  ASSUME TypeOK, Apart, DatabaseInv, PodStep, UNCHANGED <<jobVars, replicas, restoreVars, breached>>
  PROVE  DatabaseInv'
<1>1. /\ \A p \in Places : p # Home => volume'[p] = volume[p]
      /\ UNCHANGED <<specs, config>> /\ pod # "none" /\ Covering # {}
  BY PodWrites DEF DatabaseInv
<1>2. /\ Home' = Home /\ JobPlace' = JobPlace /\ Resolves' = Resolves /\ InPlace' = InPlace
      /\ (Covering' = {}) = (Covering = {}) /\ replica' = replica /\ request' = request
  BY <1>1, PlacesFixed DEF specs
<1>3. job = "running" /\ ~breached => volume'[JobPlace] = volume[JobPlace]
  BY <1>1, PlacesLemma DEF DatabaseInv, Apart
<1>4. replica.backup /\ replica.recovery = "automatic" /\ ~breached /\ PastRestore'
        => archive' = "none"
  BY <1>1, PodPastRestore DEF DatabaseInv, PastRestore
<1> QED
  BY <1>1, <1>2, <1>3, <1>4 DEF DatabaseInv, jobVars, restoreVars, PastRestore, Exists

LEMMA ControllerKeepsInv ==
  ASSUME TypeOK, DatabaseInv, ControllerStep
  PROVE  DatabaseInv'
<1>1. /\ Home' = Home /\ JobPlace' = JobPlace /\ Resolves' = Resolves /\ InPlace' = InPlace
      /\ (Covering' = {}) = (Covering = {}) /\ replica' = replica /\ request' = request
      /\ UNCHANGED <<data, podVars, breached>>
  BY PlacesFixed DEF specs, ControllerStep
<1> USE DEF In, data, podVars, jobVars, restoreVars, Exists
<1>2. CASE NoBackup \/ ResolveFails \/ JobSucceeded \/ JobFailed \/ Resume
  BY <1>1, <1>2 DEF DatabaseInv, NoBackup, ResolveFails, JobSucceeded, JobFailed, Resume
<1>3. CASE EnterAcquiringLock \/ EnterFencing \/ PauseAgain \/ ScaleDown
  BY <1>1, <1>3 DEF DatabaseInv, EnterAcquiringLock, EnterFencing, PauseAgain, ScaleDown
<1>4. CASE CreateJob
  <2>1. step = "guard" /\ Resolves
    BY <1>4 DEF CreateJob, DatabaseInv, Resolves, InPlace
  <2> QED
    BY <1>1, <1>4, <2>1 DEF DatabaseInv, CreateJob
<1> QED
  BY <1>2, <1>3, <1>4 DEF ControllerStep

LEMMA WorkloadKeepsInv ==
  ASSUME TypeOK, DatabaseInv, StartPod \/ StopPod, UNCHANGED <<jobVars, replicas, restoreVars, breached>>
  PROVE  DatabaseInv'
<1>1. /\ Home' = Home /\ JobPlace' = JobPlace /\ Resolves' = Resolves /\ InPlace' = InPlace
      /\ (Covering' = {}) = (Covering = {}) /\ replica' = replica /\ request' = request
      /\ UNCHANGED data
  BY PlacesFixed DEF specs, StartPod, CreatePod, StopPod
<1>2. CASE StartPod
  <2>1. replica.backup /\ replica.recovery = "automatic" => todo' \notin {<<>>, <<Bootstrap>>}
    BY <1>2, InitContainersLemma DEF StartPod, CreatePod, AutoRestore, Bootstrap
  <2> QED
    BY <1>1, <1>2, <2>1 DEF DatabaseInv, StartPod, CreatePod, jobVars, restoreVars, data,
       Exists
<1>3. CASE StopPod
  BY <1>1, <1>3 DEF DatabaseInv, StopPod, jobVars, restoreVars, data, Exists
<1> QED
  BY <1>2, <1>3

LEMMA UserKeepsInv ==
  ASSUME TypeOK, Apart, DatabaseInv, UserStep, UNCHANGED <<jobVars, restoreVars>>
  PROVE  DatabaseInv'
<1>1. /\ Home' = Home /\ JobPlace' = JobPlace /\ Resolves' = Resolves /\ InPlace' = InPlace
      /\ (Covering' = {}) = (Covering = {}) /\ replica' = replica /\ request' = request
      /\ UNCHANGED <<podVars, phase>>
  BY PlacesFixed DEF specs, restoreVars, UserStep, UserScales, UserRemovesDatabase, UserPauses
<1>2. breached => breached'
  BY Zenon DEF UserStep, UserScales, UserRemovesDatabase, UserPauses
<1>3. UserScales /\ InPlace /\ phase = "Restoring" /\ replicas = 0 => breached'
  BY Zenon DEF UserScales
<1>4. CASE UserScales \/ UserPauses
  BY <1>1, <1>2, <1>3, <1>4 DEF DatabaseInv, UserScales, UserPauses, TypeOK, jobVars, podVars,
     data, Exists
<1>5. CASE UserRemovesDatabase
  <2>1. pod = "none" /\ UNCHANGED <<archive, replicas, breached>>
    BY <1>5 DEF UserRemovesDatabase
  <2>2. job = "running" => volume'[JobPlace] \in {volume[JobPlace], NoFile}
    BY <1>1, <1>5, PlacesLemma DEF UserRemovesDatabase, Put, DatabaseInv, TypeOK, VolumeTypeOK
  <2> QED
    BY <1>1, <2>1, <2>2, Origin DEF DatabaseInv, jobVars, podVars
<1> QED
  BY <1>4, <1>5 DEF UserStep

LEMMA NextKeepsInv == TypeOK /\ Apart /\ DatabaseInv /\ [Next]_vars => DatabaseInv'
<1> SUFFICES ASSUME TypeOK, Apart, DatabaseInv, [Next]_vars PROVE DatabaseInv'
  OBVIOUS
<1>1. CASE UNCHANGED vars
  <2>1. /\ Home' = Home /\ JobPlace' = JobPlace /\ Resolves' = Resolves /\ InPlace' = InPlace
        /\ (Covering' = {}) = (Covering = {}) /\ replica' = replica /\ request' = request
    BY <1>1, PlacesFixed DEF specs, vars
  <2> QED
    BY <1>1, <2>1 DEF vars, DatabaseInv, jobVars, podVars, restoreVars, Exists
<1> QED
  BY <1>1, JobKeepsInv, PodKeepsInv, ControllerKeepsInv, WorkloadKeepsInv, UserKeepsInv DEF Next

LEMMA InitInv == Init => DatabaseInv
BY DEF Init, JobInit, PodInit, DatabaseInv

LEMMA Invariants == Spec /\ Apart => [](TypeOK /\ Apart /\ DatabaseInv)
<1>1. TypeOK /\ Apart /\ DatabaseInv /\ [Next]_vars => (TypeOK /\ Apart /\ DatabaseInv)'
  BY NextTypes, NextKeepsInv, SpecsFixed, ApartFixed
<1> QED
  BY <1>1, InitTypes, InitInv, PTL DEF Spec

\* Application and Job keep out of each other's way, unless the user scales the
\* application up under the Job: nothing of it runs beside the Job of a restore in
\* place, and a Job that may not overwrite does not have a file of the
\* application's before it when it writes.
THEOREM DatabaseInvariant == Spec /\ Apart => []DatabaseInv
<1> QED
  BY Invariants, PTL

-----------------------------------------------------------------------------
(***************************************************************************)
(* What no step does to a database.                                        *)
(***************************************************************************)

\* injectAutoRestoreContainer: with backups and automatic recovery nobody makes
\* a new database while there is an archive to restore from, unless the user has
\* scaled the application up under the Job of a restore in place.
THEOREM NeverAFreshDatabase == Spec /\ Apart => FreshOnlyUnderJob
<1> DEFINE Fresh == replica.backup /\ replica.recovery = "automatic" /\ NewDatabase
<1>1. ASSUME TypeOK, Apart, DatabaseInv, [Next]_vars, Fresh
      PROVE  breached \/ archive = "none"
  <2>1. Covering # {} /\ Home \in Places
        /\ volume[Home] = NoFile /\ volume'[Home].origin \in {"application", "bootstrap"}
    BY <1>1, PlacesLemma DEF NewDatabase
  <2>2. volume'[Home] # volume[Home]
    BY <2>1, Origin
  <2>3. CASE JobStep
    <3>1. JobPlace = Home /\ Resolves
      BY <2>1, <2>2, <2>3, <1>1, JobWrites DEF DatabaseInv
    <3>2. ASSUME NEW whole, Put(JobPlace, Made("archive", whole))
          PROVE  volume'[Home].origin = "archive"
      BY <1>1, <2>1, <3>1, <3>2, Origin DEF Put, TypeOK, VolumeTypeOK
    <3>3. Put(JobPlace, NoFile) => volume'[Home] = NoFile
      BY <1>1, <2>1, <3>1 DEF Put, TypeOK, VolumeTypeOK
    <3> QED
      BY <2>1, <2>2, <2>3, <3>2, <3>3, Origin DEF JobStep, Script, Guard, LitestreamRestores,
         LitestreamFails, Verify, CleanUp, Killed, GivesUp, data
  <2>4. CASE PodStep
    <3>1. ~Exists(Home)
      BY <2>1 DEF Exists
    <3>2. /\ \A whole : Put(Home, Made("archive", whole)) => volume'[Home].origin = "archive"
          /\ Put(Home, NoFile) => volume'[Home] = NoFile
      BY <1>1, <2>1, Origin DEF Put, TypeOK, VolumeTypeOK
    <3>3. ApplicationStarts \/ BootstrapBegins \/ BootstrapEnds
      BY <2>1, <2>2, <2>4, <3>2, Origin DEF PodStep, InitContainerStep, CheckDatabase,
         AutoRestores, NothingToRestore, AutoRestoreFails, AutoRestoreVerifies, BootstrapFails,
         SidecarReplicates, ContainerKilled, PodLost, data
    <3>4. todo \in {<<>>, <<AutoRestore>>, <<Bootstrap>>, <<AutoRestore, Bootstrap>>}
      BY <1>1 DEF TypeOK, PodTypeOK
    <3>5. pod = "starting" /\ (todo = <<>> \/ (todo # <<>> /\ Head(todo) = Bootstrap))
      BY <3>3 DEF ApplicationStarts, BootstrapBegins, BootstrapEnds, Running
    <3>6. Head(<<AutoRestore>>) # Bootstrap /\ Head(<<AutoRestore, Bootstrap>>) # Bootstrap
      BY DEF AutoRestore, Bootstrap
    <3>7. todo \in {<<>>, <<Bootstrap>>}
      BY <3>4, <3>5, <3>6
    <3> QED
      BY <1>1, <3>1, <3>5, <3>7 DEF DatabaseInv
  <2>5. CASE UserRemovesDatabase
    BY <2>1, <2>5 DEF UserRemovesDatabase, Exists
  <2>6. CASE ~JobStep /\ ~PodStep /\ ~UserRemovesDatabase
    BY <1>1, <2>2, <2>6 DEF Next, vars, ControllerStep, StartPod, CreatePod, StopPod, UserStep,
       UserScales, UserPauses, data
  <2> QED
    BY <2>3, <2>4, <2>5, <2>6
<1>2. TypeOK /\ Apart /\ DatabaseInv /\ [Next]_vars => [Fresh => breached \/ archive = "none"]_vars
  BY <1>1
<1> QED
  BY <1>2, Invariants, PTL DEF Spec, FreshOnlyUnderJob

\* buildRestoreJob: a Job that has succeeded has put the database, restored and
\* checked, where it was asked for, if that is where the Job writes.
THEOREM SuccessIsRestored == Spec /\ Apart /\ JobPlace = Wanted => RestoredOnSuccess
<1>1. ASSUME TypeOK, DatabaseInv, JobPlace = Wanted, [Next]_vars,
             job = "running", job' = "complete"
      PROVE  volume'[Wanted] = Made("archive", TRUE)
  <2>1. Wanted \in Places
    BY <1>1, PlacesLemma DEF DatabaseInv
  <2>2. CASE JobStep
    <3>1. Put(JobPlace, Made("archive", TRUE))
      BY <1>1, <2>2, CheckFirstAssumption DEF JobStep, Script, Guard, LitestreamRestores,
         LitestreamFails, Verify, CleanUp, Killed, GivesUp, GoTo, TryFails
    <3> QED
      BY <1>1, <2>1, <3>1 DEF Put, TypeOK, VolumeTypeOK
  <2>3. CASE ControllerStep
    BY <1>1, <2>3 DEF ControllerStep, NoBackup, ResolveFails, EnterAcquiringLock,
       EnterFencing, PauseAgain,
       ScaleDown, CreateJob, JobSucceeded, JobFailed, Resume, jobVars
  <2>4. CASE ~JobStep /\ ~ControllerStep
    BY <1>1, <2>4 DEF Next, vars, jobVars
  <2> QED
    BY <2>2, <2>3, <2>4
<1>2. TypeOK /\ DatabaseInv /\ JobPlace = Wanted /\ [Next]_vars
        => [job = "running" /\ job' = "complete" => volume'[Wanted] = Made("archive", TRUE)]_vars
  BY <1>1
<1>3. JobPlace = Wanted /\ [Next]_vars => (JobPlace = Wanted)'
  BY SpecsFixed, PlacesFixed
<1> QED
  BY <1>2, <1>3, Invariants, PTL DEF Spec, RestoredOnSuccess

\* buildRestoreJob: without spec.force no command of the Job touches a database
\* of the application's, unless the user has scaled the application up under it.
THEOREM UnforcedIsSafe == Spec /\ Apart => UnforcedKeepsDatabase
<1> DEFINE Hands == JobStep /\ ~request.force /\ ~breached
                    /\ volume[JobPlace].origin \in {"application", "bootstrap"}
<1>1. ASSUME DatabaseInv, Hands
      PROVE  volume'[JobPlace] = volume[JobPlace]
  <2>1. job = "running"
    BY <1>1 DEF JobStep, Script, Guard, LitestreamRestores, LitestreamFails, Verify, CleanUp,
       Killed, GivesUp, At
  <2>2. step = "guard"
    BY <1>1, <2>1 DEF DatabaseInv
  <2>3. UNCHANGED <<volume, specs>>
    BY <1>1, <2>2 DEF JobStep, Script, Guard, LitestreamRestores, LitestreamFails, Verify,
       CleanUp, Killed, GivesUp, At, data
  <2> QED
    BY <2>3, PlacesFixed
<1>2. DatabaseInv /\ [Next]_vars => [Hands => volume'[JobPlace] = volume[JobPlace]]_vars
  BY <1>1
<1> QED
  BY <1>2, Invariants, PTL DEF Spec, UnforcedKeepsDatabase
===============================================================================
