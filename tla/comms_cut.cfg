SPECIFICATION CommsSpec
CONSTANTS
  GpsSamples <- MCGpsSamples
  MilliVolts <- MCMilliVolts
  ArmStatuses <- MCArmStatuses
  Accels <- MCAccels
  Shots <- MCShots
  Phases <- MCPhases
  Times <- MCTimes
  Arguments <- MCArguments
  Requests <- MCRequests
  LinkChanges <- MCLinkChanges
  Strays <- MCStrays
  OnDisk <- MCOnDisk
  MaxSamples = 2
  MaxPackets = 1
  MaxLost = 4
INVARIANT CutDoesNothing
