CONSTANTS
  Layouts <- AtPath
  DatabasePath <- PathOfData
  Claims = {"claim", "other"}
  Targets <- Nested
  CheckFirst = FALSE
  Modes = {"automatic", "manual"}
  MaxFailures = 2
  MaxChanges = 2
SPECIFICATION Spec
CHECK_DEADLOCK FALSE
PROPERTIES
  RestoredOnSuccess
