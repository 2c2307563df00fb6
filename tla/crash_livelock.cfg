CONSTANTS
  r1 = r1
  r2 = r2
  NoRestore = NoRestore
  Restore = {r1, r2}
  InPlace = {r1, r2}
  Replicas = 1
  Kind = "StatefulSet"
  MaxTerminating = 1
  Lagging = {}
  UserActions = {}
  Faults = {"abort"}
  MaxFaults = 1
SPECIFICATION PromptSpec
CHECK_DEADLOCK FALSE
PROPERTIES
  EveryRestoreEnds
