CONSTANTS
  GoalIds = {g1, g2}
  ThreadIds = {t1}
  MaxHoldReqs = 2
  FlipLimit = 3
  SideLimit = 1
  PathLen <- ShortPaths
  MaxGround = 1
  MaxCaptain = 1
  MaxBridge = 1
SPECIFICATION MCSpec
INVARIANTS GoalsAgree HeldAsFlown
PROPERTY DoorsSwungUndisturbed
SYMMETRY Slots
CHECK_DEADLOCK FALSE
