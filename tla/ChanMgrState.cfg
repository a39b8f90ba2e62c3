SPECIFICATION Spec
CONSTANTS
  Relays <- MCRelays
  Targets <- MCTargets
  NetDirs <- MCNetDirs
  MaxUid = 2
  MaxUnusedChoices = {2, 3}
  ExpireDefault = 2
  MaxIdle = 3
  InUse = InUse
INVARIANT TypeOK
INVARIANT HandlesMatchPendingEntries
INVARIANT NoRedundantPendingBuild
INVARIANT OpenChannelsHaveCurrentPadding
INVARIANT NextExpiryPositive
PROPERTY IdleChannelExpires
