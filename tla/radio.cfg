CONSTANTS
  Profiles = {p0, p1}
  ParamProfile = p1
  DefaultProfile = p0
  Muted = FALSE
  MaxAnnounced = 1
  MaxPackets = 3
SPECIFICATION MCSpec
INVARIANTS NeverSleepsOnWork RxNoticed StableUnlessUntested
PROPERTIES OutboxSpec SentOrListening LinkTestEnds ShutdownEnds
CHECK_DEADLOCK FALSE
