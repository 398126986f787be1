CONSTANTS
  Clients = {c1}
  Servos = {"servo2", "servo_unknown"}
  Places = 2
  ImuEvery = 3
  SaveEvery = 3
  MaxFaults = 2
SPECIFICATION LinkSpec
INVARIANTS MotionsHaveGoals BoardObeys SpoiltByFaults SuccessIsTrue PoseIsKept
PROPERTY MotionsEnd
