CONSTANTS
  MaxLine = 12
  Rates = {100, 60}
  Ranges = {2, 16, 5}
  Forces <- Met
  Levels = {9600, 8480, 8320}
  Warn = 8600
  Danger = 8400
  BootBeeps = 2
  LowBeeps = 2
  DangerBeeps = 3
  MaxRequests = 3
  Size = 5
  Threshold = 2
  Samples = {0, 1, 3, 9}
  MaxSentences = 3
  MaxLosses = 1
  MaxMoves = 2
  MaxDeaths = 1
  Profiles <- MCProfiles
  ParamProfile <- MCSlow
  Outgoing <- MCOutgoing
  Incoming <- MCIncoming
  MaxFaults = 3
  MaxKills = 1
SPECIFICATION MCSpec
INVARIANTS AccelIsTrue PlayedInFull GravestAlarmLast FixIsNewest
           CleanCallHeals OneFaultTransmitsSafely HearsTheGround ProfileIsWhole
PROPERTY BoostExactly
CHECK_DEADLOCK FALSE
