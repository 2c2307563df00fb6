------------------------------ MODULE PodStartup ------------------------------
(***************************************************************************)
(* The pod of the workload: the init containers the sidecar injector gives *)
(* it, what they do to the database before the application starts, and     *)
(* the sidecar that replicates it.                                         *)
(***************************************************************************)
EXTENDS Volume

VARIABLES
  pod,   \* "none", "starting", "running"
  todo,  \* the injected init containers that are left, in their order
  at     \* where the script of the first of them is

podVars == <<pod, todo, at>>

AutoRestore == "litestream-restore"
Bootstrap   == "db-bootstrap"

\* Mutant: the restore goes behind the bootstrap.
InitContainers_Appended ==
  (IF replica.sql THEN <<Bootstrap>> ELSE <<>>)
  \o (IF replica.backup /\ replica.recovery = "automatic" THEN <<AutoRestore>> ELSE <<>>)

\* inject puts the restore in front and the bootstrap at the end.
InitContainers ==
  (IF replica.backup /\ replica.recovery = "automatic" THEN <<AutoRestore>> ELSE <<>>)
  \o (IF replica.sql THEN <<Bootstrap>> ELSE <<>>)

PodTypeOK ==
  /\ pod \in {"none", "starting", "running"}
  /\ todo \in {<<>>, <<AutoRestore>>, <<Bootstrap>>, <<AutoRestore, Bootstrap>>}
  /\ at \in {"check", "run", "finish"}

PodInit == pod = "none" /\ todo = <<>> /\ at = "check"

-----------------------------------------------------------------------------
Running(container, where) ==
  pod = "starting" /\ todo # <<>> /\ Head(todo) = container /\ at = where

GoOn(where) == at' = where /\ UNCHANGED <<pod, todo>>

Exits0 == todo' = Tail(todo) /\ at' = "check" /\ UNCHANGED pod

\* kubelet runs the init container again.
Retried == GoOn("check")

\* A pod for which the injector finds no mount is refused.
CreatePod ==
  /\ pod = "none" /\ Covering # {}
  /\ pod' = "starting" /\ todo' = InitContainers /\ at' = "check"
  /\ UNCHANGED <<data, failures>>

\* Both scripts end when the database is there.
CheckDatabase(container) ==
  /\ Running(container, "check")
  /\ IF Exists(Home) THEN Exits0 ELSE GoOn("run")
  /\ UNCHANGED <<data, failures>>

\* litestream restore -if-db-not-exists -if-replica-exists -integrity-check quick.
AutoRestores ==
  /\ Running(AutoRestore, "run")
  /\ config = "full"
  /\ Restorable
  /\ Put(Home, Made("archive", CheckFirst))
  /\ IF CheckFirst THEN Exits0 ELSE GoOn("finish")
  /\ UNCHANGED <<archive, failures>>

\* Mutant: without -if-replica-exists.
NothingToRestore_Fails ==
  /\ Running(AutoRestore, "run")
  /\ config = "full" /\ archive = "none"
  /\ Retried
  /\ UNCHANGED <<data, failures>>

NothingToRestore ==
  /\ Running(AutoRestore, "run")
  /\ config = "full" /\ archive = "none"
  /\ Exits0
  /\ UNCHANGED <<data, failures>>

\* There is an archive, and litestream finds it damaged before it restores.
Refused == archive # "none" /\ ~Restorable

\* Mutant: the exit code of litestream is not looked at.
AutoRestoreFails_Ignored ==
  /\ Running(AutoRestore, "run")
  /\ \/ (config = "paused" \/ Refused) /\ UNCHANGED failures
     \/ Failure
  /\ Exits0
  /\ UNCHANGED data

\* The archive is damaged, the object store out of reach, or litestream.yml
\* does not name the database; the pod does not get any further.
AutoRestoreFails ==
  /\ Running(AutoRestore, "run")
  /\ \/ (config = "paused" \/ Refused) /\ UNCHANGED failures
     \/ Failure
  /\ Retried
  /\ UNCHANGED data

\* litestream removes a restored file that does not pass.
AutoRestoreVerifies ==
  /\ Running(AutoRestore, "finish")
  /\ IF archive = "sound" /\ Exists(Home)
     THEN Put(Home, Made("archive", TRUE)) /\ Exits0
     ELSE Put(Home, NoFile) /\ Retried
  /\ UNCHANGED <<archive, failures>>

\* sqlite3 creates the file with the first statement ...
BootstrapBegins ==
  /\ Running(Bootstrap, "run")
  /\ Put(Home, Made("bootstrap", FALSE))
  /\ GoOn("finish")
  /\ UNCHANGED <<archive, failures>>

\* ... or fails before it does.  The script looks at no exit code ...
BootstrapFails ==
  /\ Running(Bootstrap, "run")
  /\ Failure
  /\ Exits0
  /\ UNCHANGED data

\* ... so it succeeds too when sqlite3 stops at a later statement.
BootstrapEnds ==
  /\ Running(Bootstrap, "finish")
  /\ \/ Put(Home, Made("bootstrap", TRUE)) /\ UNCHANGED failures
     \/ Failure /\ UNCHANGED volume
  /\ Exits0
  /\ UNCHANGED archive

\* An application that finds no database creates one.
ApplicationStarts ==
  /\ pod = "starting" /\ todo = <<>>
  /\ IF Exists(Home) THEN UNCHANGED volume ELSE Put(Home, Made("application", TRUE))
  /\ pod' = "running"
  /\ UNCHANGED <<todo, at, archive, failures>>

SidecarReplicates ==
  /\ pod = "running" /\ replica.backup /\ config = "full"
  /\ archive = "none" /\ Exists(Home)
  /\ archive' = "sound"
  /\ UNCHANGED <<podVars, volume, failures>>

\* The container that runs dies, and kubelet starts it again.
ContainerKilled ==
  /\ pod = "starting" /\ at # "check"
  /\ Failure
  /\ Retried
  /\ UNCHANGED data

\* The pod is evicted; its successor begins from the start.
PodLost ==
  /\ pod # "none"
  /\ Failure
  /\ pod' = "none" /\ todo' = <<>> /\ at' = "check"
  /\ UNCHANGED data

InitContainerStep ==
  \/ \E container \in {AutoRestore, Bootstrap} : CheckDatabase(container)
  \/ AutoRestores \/ NothingToRestore \/ AutoRestoreFails \/ AutoRestoreVerifies
  \/ BootstrapBegins \/ BootstrapFails \/ BootstrapEnds

PodStep ==
  /\ InitContainerStep \/ ApplicationStarts \/ SidecarReplicates \/ ContainerKilled \/ PodLost
  /\ UNCHANGED <<specs, config, changes>>
=============================================================================
