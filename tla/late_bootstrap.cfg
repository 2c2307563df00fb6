CONSTANTS
  a = a
  b = b
  NoReplica = NoReplica
  Replica = {a}
  Bootstrap = {}
  MaxLag = FALSE
  Strategy = "Recreate"
  MaxPods = 2
  MaxChanges = 1
  Changes = {"bootstrap"}
  Lagging = {}
  Faults = {}
  MaxFaults = 0
SPECIFICATION Spec
CHECK_DEADLOCK FALSE
INVARIANTS
  PodsFindEveryConfig
