CONSTANTS
  Layouts <- AtPath
  DatabasePath <- PathOfData
  Claims = {"claim", "other"}
  Targets <- AtRoot
  CheckFirst = FALSE
  Modes = {"automatic", "manual"}
  MaxFailures = 1
  MaxChanges = 2
SPECIFICATION FairSpec
CHECK_DEADLOCK FALSE
INVARIANTS
  TypeOK
  DatabaseInv
PROPERTIES
  FreshOnlyUnderJob
  RestoredOnSuccess
  UnforcedKeepsDatabase
  EveryRestoreEnds
  ApplicationStartsAgain
