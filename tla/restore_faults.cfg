CONSTANTS
  r1 = r1
  r2 = r2
  NoRestore = NoRestore
  Restore = {r1, r2}
  InPlace = {r1, r2}
  Replicas = 1
  Kind = "StatefulSet"
  MaxTerminating = 1
  Lagging = {}
  UserActions = {"deleteRestore"}
  Faults = {"abort"}
  MaxFaults = 2
SPECIFICATION Spec
CHECK_DEADLOCK FALSE
INVARIANTS
  TypeOK
  FencingHoldsLock
  CompletedMeansRestored
  JobHoldsLock
  LockHolderIsActive
  NothingLeftBehind
PROPERTIES
  JobStartsFenced
  ScaleUpOnlyAfterSuccess
