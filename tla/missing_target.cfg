CONSTANTS
  a = a
  b = b
  NoReplica = NoReplica
  Replica = {a}
  Bootstrap = {}
  MaxLag = FALSE
  Strategy = "Recreate"
  MaxPods = 2
  MaxChanges = 1
  Changes = {"deleteWorkload"}
  Lagging = {}
  Faults = {}
  MaxFaults = 0
SPECIFICATION FairSpec
CHECK_DEADLOCK FALSE
PROPERTIES
  MissingTargetIsReported
