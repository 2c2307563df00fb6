-------------------------------- MODULE Volume --------------------------------
(***************************************************************************)
(* The database file: where it lies on the volumes, what is known of its   *)
(* content, and the archive in the object store it is restored from.       *)
(*                                                                         *)
(* A file is at a place: a volume and a directory of that volume.  Paths   *)
(* are sequences of directory names; the name of the file plays no part.   *)
(* replica and request hold the specs that decide who does what to it.     *)
(***************************************************************************)
EXTENDS Naturals, SequencesExt

CONSTANTS
  Layouts,      \* what the database container may mount: sets of mounts
  DatabasePath, \* spec.databasePath of the LitestreamReplica
  Claims,       \* the volumes that are PersistentVolumeClaims
  Targets,      \* the targets users write into a LitestreamRestore
  CheckFirst,   \* litestream checks a restored file before it puts it in place
  Modes,        \* the recovery modes of the LitestreamReplicas
  MaxFailures,  \* bound: containers that fail or are killed
  MaxChanges    \* bound: what the user does

Recovery == {"automatic", "manual"}

ASSUME CheckFirstAssumption == CheckFirst \in BOOLEAN /\ Modes \subseteq Recovery
ASSUME BoundsAssumption == MaxFailures \in Nat /\ MaxChanges \in Nat

VARIABLES
  replica,  \* the spec of the LitestreamReplica and the mounts of its workload
  request,  \* the spec of the LitestreamRestore
  volume,   \* the file at each place
  archive,  \* what the object store has of the database
  config,   \* content of ConfigMap <replica>-litestream
  failures, \* failures so far
  changes   \* changes of the user so far

specs == <<replica, request>>
data  == <<volume, archive>>

-----------------------------------------------------------------------------
(***************************************************************************)
(* Files.  whole says that a restored file has passed the integrity check, *)
(* and that of a bootstrapped one all statements have been applied.        *)
(***************************************************************************)
Origins == {"application", "bootstrap", "archive"}
File    == [origin: Origins, whole: BOOLEAN]
NoFile  == [origin |-> "none", whole |-> FALSE]

Made(origin, whole) == [origin |-> origin, whole |-> whole]

Archives == {"none", "sound", "damaged"}

-----------------------------------------------------------------------------
(***************************************************************************)
(* Places.  Of the mounts that cover the path the one with the longest     *)
(* mount path counts (findVolumeForPath, resolveRestoreTarget).            *)
(***************************************************************************)
NoTarget == [absolute |-> FALSE]

\* A mount at the root covers nothing below it: its path with a "/" is no prefix.
Covers(mount) ==
  \/ mount.path = DatabasePath
  \/ mount.path # <<>> /\ IsPrefix(mount.path, DatabasePath)

Covering == {mount \in replica.mounts : Covers(mount)}

BestMatch == CHOOSE mount \in Covering : \A m \in Covering : Len(m.path) <= Len(mount.path)

PlaceUnder(mount, path) ==
  [volume |-> mount.volume,
   dir    |-> mount.subPath \o SubSeq(path, Len(mount.path) + 1, Len(path))]

\* Where the application, the sidecar and the init containers have the database.
Home == PlaceUnder(BestMatch, DatabasePath)

\* Where resolveRestoreTarget wants it restored.
Wanted ==
  IF request.mode = "InPlace" THEN Home
  ELSE [volume |-> request.target.volume, dir |-> request.target.dir]

\* resolveRestoreTarget finds one.
Resolves ==
  request.mode = "InPlace" => Covering # {} /\ BestMatch.volume \in Claims

\* Where the Job has it: its only mount is the volume, or the subPath of it, at
\* the directory of the target path.
JobPlace ==
  IF request.mode = "InPlace"
  THEN [volume |-> BestMatch.volume, dir |-> BestMatch.subPath]
  ELSE [volume |-> request.target.volume, dir |-> <<>>]

Places == (IF Covering = {} THEN {} ELSE {Home}) \cup (IF Resolves THEN {Wanted, JobPlace} ELSE {})

-----------------------------------------------------------------------------
(***************************************************************************)
(* The specs.                                                              *)
(***************************************************************************)
ReplicaSpec ==
  [mounts: Layouts, recovery: Modes, backup: BOOLEAN, sql: BOOLEAN]

RequestSpec ==
  [mode: {"InPlace", "ToPVC"}, target: Targets \cup {NoTarget}, force: BOOLEAN]

\* What validateLitestreamRestore lets in.
Admitted(spec) ==
  /\ spec.mode = "InPlace" => spec.target = NoTarget
  /\ spec.mode = "ToPVC" => spec.target # NoTarget
  /\ spec.target # NoTarget => spec.target.absolute

VolumeTypeOK ==
  /\ replica \in ReplicaSpec
  /\ request \in RequestSpec /\ Admitted(request)
  /\ volume \in [Places -> File \cup {NoFile}]
  /\ archive \in Archives
  /\ config \in {"full", "paused"}
  /\ failures \in 0..MaxFailures
  /\ changes \in 0..MaxChanges

VolumeInit ==
  /\ replica \in ReplicaSpec
  /\ request \in {spec \in RequestSpec : Admitted(spec)}
  /\ volume \in [Places -> {NoFile, Made("application", TRUE)}]
  /\ archive \in Archives
  /\ config = "full"
  /\ failures = 0 /\ changes = 0

-----------------------------------------------------------------------------
(***************************************************************************)
(* Steps of the environment.                                               *)
(***************************************************************************)
Exists(place) == volume[place] # NoFile

Put(place, file) == volume' = [volume EXCEPT ![place] = file]

\* litestream restore puts a file in place: of a damaged archive too, unless it
\* checks first.
Restorable == IF CheckFirst THEN archive = "sound" ELSE archive # "none"

\* A container fails for a reason outside of the database, or is killed.
Failure == failures < MaxFailures /\ failures' = failures + 1

Change == changes < MaxChanges /\ changes' = changes + 1
=============================================================================
