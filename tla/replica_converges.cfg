CONSTANTS
  a = a
  b = b
  NoReplica = NoReplica
  Replica = {a}
  Bootstrap = {a}
  MaxLag = TRUE
  Strategy = "Recreate"
  MaxPods = 1
  MaxChanges = 2
  Changes = {"bootstrap", "pause", "scale", "lag", "delete", "deleteWorkload"}
  Lagging = {"replica"}
  Faults = {}
  MaxFaults = 0
SPECIFICATION FairSpec
CHECK_DEADLOCK FALSE
PROPERTIES
  StatusConverges
  ConfigConverges
  RolloutReachesPods
  ValidDeletionEnds
