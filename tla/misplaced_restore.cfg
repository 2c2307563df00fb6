CONSTANTS
  Layouts <- Above
  DatabasePath <- PathOfData
  Claims = {"claim", "other"}
  Targets <- AtRoot
  CheckFirst = FALSE
  Modes = {"automatic", "manual"}
  MaxFailures = 2
  MaxChanges = 2
SPECIFICATION Spec
CHECK_DEADLOCK FALSE
PROPERTIES
  RestoredOnSuccess
