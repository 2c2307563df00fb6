CONSTANTS
  r1 = r1
  r2 = r2
  NoRestore = NoRestore
  Restore = {r1}
  InPlace = {r1}
  Replicas = 1
  Kind = "Deployment"
  MaxTerminating = 1
  Lagging = {}
  UserActions = {}
  Faults = {}
  MaxFaults = 0
SPECIFICATION Spec
CHECK_DEADLOCK FALSE
PROPERTIES
  JobStartsWithoutPods
