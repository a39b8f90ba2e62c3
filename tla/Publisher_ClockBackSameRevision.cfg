\* The wallclock may be set backwards; the rate limit still uses the
\* monotonic clock.
CONSTANTS
  TPs <- MCTPs
  HsDirsOf <- MCHsDirsOf
  RelevantChoices <- MCRelevantChoices
  MaxNow = 2
  MaxIptVer = 1
  MaxCfgVer = 1
  MaxTasks = 2
  MaxPowUpdates = 0
  MaxDirtyEvents = 1
  ClockCanJumpBack = TRUE
  NoRev = NoRev

SPECIFICATION Spec
INVARIANT SameRevisionSameDescriptor
CHECK_DEADLOCK FALSE
