CONSTANTS
  GoalIds = {g1, g2}
  ThreadIds = {t1}
  MaxHoldReqs = 2
  FlipLimit = 3
  SideLimit = 1
  PathLen <- ShortPaths
  MaxGround = 1
  MaxFailures = 1
SPECIFICATION MCSpec
INVARIANTS TypeOK TimerInFlight SavedIsPhase HoldFollowsFlight PadRearmed
PROPERTY MissionSpec
SYMMETRY Slots
CHECK_DEADLOCK FALSE
