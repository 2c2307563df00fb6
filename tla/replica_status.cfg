CONSTANTS
  a = a
  b = b
  NoReplica = NoReplica
  Replica = {a}
  Bootstrap = {a}
  MaxLag = TRUE
  Strategy = "RollingUpdate"
  MaxPods = 2
  MaxChanges = 2
  Changes = {"delete", "unhashed", "backup", "pause", "scale", "strategy", "deleteWorkload", "fail", "lag"}
  Lagging = {"pod", "workload"}
  Faults = {"abort", "scrape", "ignored"}
  MaxFaults = 1
SPECIFICATION Spec
CHECK_DEADLOCK FALSE
INVARIANTS
  StatusCoherent
