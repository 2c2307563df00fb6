CONSTANTS
  a = a
  b = b
  NoReplica = NoReplica
  Replica = {a}
  Bootstrap = {}
  MaxLag = FALSE
  Strategy = "Recreate"
  MaxPods = 2
  MaxChanges = 1
  Changes = {"delete"}
  Lagging = {}
  Faults = {"ignored"}
  MaxFaults = 1
SPECIFICATION Spec
CHECK_DEADLOCK FALSE
INVARIANTS
  NoOrphanInjection
