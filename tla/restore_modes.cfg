CONSTANTS
  r1 = r1
  r2 = r2
  NoRestore = NoRestore
  Restore = {r1, r2}
  InPlace = {r1}
  Replicas = 1
  Kind = "StatefulSet"
  MaxTerminating = 1
  Lagging = {"job"}
  UserActions = {"deleteRestore", "deleteReplica", "disableBackup", "upgrade"}
  Faults = {"abort", "read"}
  MaxFaults = 1
SPECIFICATION Spec
CHECK_DEADLOCK FALSE
INVARIANTS
  CallInv
  OutcomeInv
PROPERTIES
  PhaseOrder
  ToPVCLeavesApplicationAlone
