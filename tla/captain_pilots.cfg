CONSTANTS
  GoalIds = {g1, g2}
  ThreadIds = {t1, t2}
  MaxHoldReqs = 2
  FlipLimit = 5
  SideLimit = 2
  PathLen <- Paths
  MaxGround = 4
SPECIFICATION MCSpec
INVARIANT ChainInOrder
PROPERTIES EndsInEmergency ManualSettles
CHECK_DEADLOCK FALSE
