CONSTANTS
  Clients = {c1}
  Servos = {"servo2", "servo_unknown"}
  Places = 2
  ImuEvery = 3
  SaveEvery = 3
  MaxFaults = 1
SPECIFICATION PolledSpec

PROPERTY SilentBoardIsReset
