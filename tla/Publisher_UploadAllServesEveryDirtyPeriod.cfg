CONSTANTS
  TPs <- MCTPs
  HsDirsOf <- MCHsDirsOf
  RelevantChoices <- MCRelevantChoices
  MaxNow = 1
  MaxIptVer = 1
  MaxCfgVer = 1
  MaxTasks = 2
  MaxPowUpdates = 0
  MaxDirtyEvents = 1
  ClockCanJumpBack = FALSE
  NoRev = NoRev

SPECIFICATION Spec
PROPERTY UploadAllServesEveryDirtyPeriod
\* The reactor waits for events once the bounded environment is spent.
CHECK_DEADLOCK FALSE
