CONSTANTS
  a = a
  b = b
  NoReplica = NoReplica
  Replica = {a, b}
  Bootstrap = {a, b}
  MaxLag = FALSE
  Strategy = "StatefulSet"
  MaxPods = 2
  MaxChanges = 2
  Changes = {"delete", "bootstrap", "template"}
  Lagging = {"maps"}
  Faults = {"abort"}
  MaxFaults = 1
SPECIFICATION Spec
CHECK_DEADLOCK FALSE
SYMMETRY ReplicaNames
INVARIANTS
  TypeOK
  PodsFindTheirConfig
  NoOrphanInjection
