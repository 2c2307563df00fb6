------------------------------ MODULE RestoreJob ------------------------------
(***************************************************************************)
(* The Job of buildRestoreJob: a shell script that runs litestream         *)
(* restore, and the Job controller that runs it again when it fails.       *)
(***************************************************************************)
EXTENDS Volume

VARIABLES
  job,     \* "none", "running", "complete", "failed"
  step,    \* the command of the script that comes next
  restarts \* how often the container has been restarted

jobVars == <<job, step, restarts>>

BackoffLimit == 3

JobTypeOK ==
  /\ job \in {"none", "running", "complete", "failed"}
  /\ step \in {"guard", "restore", "verify", "clean"}
  /\ restarts \in 0..BackoffLimit

JobInit == job = "none" /\ step = "guard" /\ restarts = 0

At(s) == job = "running" /\ step = s

GoTo(s) == step' = s /\ UNCHANGED <<job, restarts>>

Succeeds == job' = "complete" /\ step' = "guard" /\ UNCHANGED restarts

\* Mutants: one restart too many; no backoffLimit.
TryFails_OneMore ==
  /\ step' = "guard"
  /\ IF restarts <= BackoffLimit THEN restarts' = restarts + 1 /\ UNCHANGED job
                                 ELSE job' = "failed" /\ UNCHANGED restarts
TryFails_Forever == step' = "guard" /\ UNCHANGED <<job, restarts>>

\* The script exits with an error: the container is restarted (RestartPolicy
\* OnFailure), and counted.
TryFails ==
  /\ step' = "guard"
  /\ IF restarts < BackoffLimit THEN restarts' = restarts + 1 /\ UNCHANGED job
                                ELSE job' = "failed" /\ UNCHANGED restarts

\* Mutant: an existing file is overwritten all the same.
Guard_Skipped ==
  /\ At("guard")
  /\ GoTo("restore")
  /\ UNCHANGED <<data, failures>>

\* Without spec.force an existing file is refused.
Guard ==
  /\ At("guard")
  /\ IF ~request.force /\ Exists(JobPlace) THEN TryFails ELSE GoTo("restore")
  /\ UNCHANGED <<data, failures>>

\* litestream restore -integrity-check quick -o <target>.
LitestreamRestores ==
  /\ At("restore")
  /\ Restorable
  /\ Put(JobPlace, Made("archive", CheckFirst))
  /\ IF CheckFirst THEN Succeeds ELSE GoTo("verify")
  /\ UNCHANGED <<archive, failures>>

\* It finds no archive or a damaged one, or does not reach the object store.
LitestreamFails ==
  /\ At("restore")
  /\ \/ ~Restorable /\ UNCHANGED failures
     \/ Failure
  /\ GoTo("clean")
  /\ UNCHANGED data

\* A file that has been removed meanwhile does not pass either.
Verify ==
  /\ At("verify")
  /\ IF archive = "sound" /\ Exists(JobPlace)
     THEN Put(JobPlace, Made("archive", TRUE)) /\ Succeeds
     ELSE GoTo("clean") /\ UNCHANGED volume
  /\ UNCHANGED <<archive, failures>>

\* Mutant: the exit code is lost, the script ends like its rm.
CleanUp_ExitsZero ==
  /\ At("clean")
  /\ Put(JobPlace, NoFile)
  /\ Succeeds
  /\ UNCHANGED <<archive, failures>>

\* rm -f <target>, and the exit code of litestream.
CleanUp ==
  /\ At("clean")
  /\ Put(JobPlace, NoFile)
  /\ TryFails
  /\ UNCHANGED <<archive, failures>>

\* The container dies where it is.
Killed ==
  /\ job = "running"
  /\ Failure
  /\ TryFails
  /\ UNCHANGED data

\* Once it has restarted so often the Job controller stops the last try.
GivesUp ==
  /\ job = "running" /\ restarts = BackoffLimit
  /\ job' = "failed" /\ step' = "guard"
  /\ UNCHANGED <<restarts, data, failures>>

Script == Guard \/ LitestreamRestores \/ LitestreamFails \/ Verify \/ CleanUp

JobStep == (Script \/ Killed \/ GivesUp) /\ UNCHANGED <<specs, config, changes>>
=============================================================================
