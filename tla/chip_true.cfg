SPECIFICATION ChipSpec
CONSTANTS
  Profiles <- MCProfiles
  ParamProfile <- MCSlow
  Outgoing <- MCOutgoing
  Incoming <- MCIncoming
  MaxFaults = 0
  MaxKills = 0
INVARIANTS TrueMeansSent
CHECK_DEADLOCK FALSE
