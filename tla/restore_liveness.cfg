CONSTANTS
  r1 = r1
  r2 = r2
  NoRestore = NoRestore
  Restore = {r1, r2}
  InPlace = {r1, r2}
  Replicas = 1
  Kind = "StatefulSet"
  MaxTerminating = 1
  Lagging = {}
  UserActions = {"deleteRestore", "deleteWorkload"}
  Faults = {}
  MaxFaults = 0
SPECIFICATION FairSpec
CHECK_DEADLOCK FALSE
INVARIANTS
  OneActiveRestore
  NoPodsWhileRestoring
  FencedWhileRestoring
  PausedUnlessDeleted
PROPERTIES
  EveryRestoreEnds
  PauseEnds
