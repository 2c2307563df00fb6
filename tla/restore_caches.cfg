CONSTANTS
  r1 = r1
  r2 = r2
  NoRestore = NoRestore
  Restore = {r1, r2}
  InPlace = {r1, r2}
  Replicas = 1
  Kind = "StatefulSet"
  MaxTerminating = 1
  Lagging = {"lease", "config", "replica"}
  UserActions = {"scaleWorkload"}
  Faults = {"abort", "ignored"}
  MaxFaults = 1
SPECIFICATION Spec
CHECK_DEADLOCK FALSE
INVARIANTS
  LockInv
  JobInv
  RestoringHoldsLock
  OneJobAtATime
PROPERTIES
  OnlyHolderReleases
  ImplementsRestoreLock
  FirstJobStartsPaused
