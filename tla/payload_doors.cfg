CONSTANTS
  GoalIds = {g1, g2}
  ThreadIds = {t1}
  MaxHoldReqs = 2
  FlipLimit = 3
  SideLimit = 1
  PathLen <- ShortPaths
  MaxGround = 0
  MaxCaptain = 0
  MaxBridge = 0
SPECIFICATION MCSpec
PROPERTY DoorsSwungBeforeUnfolding
SYMMETRY Slots
CHECK_DEADLOCK FALSE
