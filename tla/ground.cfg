CONSTANTS
  GpsSamples <- MCGpsSamples
  MilliVolts <- MCMilliVolts
  ArmStatuses <- MCArmStatuses
  Accels <- MCAccels
  Shots <- MCShots
  Phases <- MCPhases
  Times <- MCTimes
  Arguments <- MCArguments
  Requests <- MCRequests
  LinkChanges <- MCLinkChanges
  Strays <- MCStrays
  OnDisk <- MCOnDisk
  MaxSamples = 2
  MaxPackets = 1
  MaxLost = 4
  MaxAsked = 2
  MaxBlocks = 2
  IdModulus = 2
  BurstBlocks = 1
  QueueDepth = 1
  BurstThreads = {t1}
  MaxCrashes = 1
  MaxCommands = 2
SPECIFICATION MCSpec
INVARIANTS MetadataIsTrue DownlinkIsOnePicture DoneAsMeant HeardIsSo
PROPERTIES PicturesAreKept WatcherComesBack
CHECK_DEADLOCK FALSE
