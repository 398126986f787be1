------------------------------ MODULE MCDrivers ------------------------------
(***************************************************************************)
(* What drives the hardware of the Pi, one part at a time: the             *)
(* accelerometer, the alarm and the buzzer, the GPS, the captain's         *)
(* detection of the boost, and the radio chip share no state but the life  *)
(* of the process, so a behaviour picks its focus and leaves the other     *)
(* parts alone.  Bounds of the model: sentences, failures of the UART's    *)
(* line, moves of the battery, and deaths.                                 *)
(***************************************************************************)
EXTENDS PiIo, Boost, MCSx1262

CONSTANTS MaxSentences, MaxLosses, MaxMoves, MaxDeaths

VARIABLES focus, used

Met == {0, 12, 1200, -24}

Spends(what, limit) == used[what] < limit /\ used' = [used EXCEPT ![what] = @ + 1]

MCInit ==
  /\ PiInit /\ BoostInit /\ ChipInit
  /\ focus \in {"accel", "alarm", "gps", "boost", "chip"}
  /\ focus # "chip" => lines
  /\ focus # "accel" => params = [rate |-> 100, range |-> 16]
  /\ focus # "alarm" => volts = 9600
  /\ used = [sentences |-> 0, losses |-> 0, moves |-> 0, deaths |-> 0]

OfAccel ==
  \/ UNCHANGED used
     /\ \E fd, who, w1, w4 \in BOOLEAN : NodeStarts(fd, who, w1, w4, FALSE, FALSE, FALSE)
  \/ \E x, y \in Forces : OnAccelTimer(x, y) /\ UNCHANGED used
  \/ Spends("deaths", MaxDeaths) /\ NodeDies

OfAlarm ==
  \/ UNCHANGED used
     /\ \E ina, line \in BOOLEAN : NodeStarts(FALSE, FALSE, FALSE, FALSE, FALSE, ina, line)
  \/ UNCHANGED used /\ (OnTimer \/ SetBuzzer \/ OnPowerTimer \/ HandlePower \/ CaptainBoots)
  \/ Spends("moves", MaxMoves) /\ BatteryMoves
  \/ Spends("deaths", MaxDeaths) /\ (NodeDies \/ CaptainDies)

OfGps ==
  \/ UNCHANGED used
     /\ \E gps \in BOOLEAN : NodeStarts(FALSE, FALSE, FALSE, FALSE, gps, FALSE, FALSE)
  \/ UNCHANGED used /\ (Uart \/ OnGpsTimer)
  \/ Spends("sentences", MaxSentences) /\ (Speaks(TRUE, TRUE) \/ \E gga \in BOOLEAN : Speaks(gga, FALSE))
     /\ GpsAlone
  \/ Spends("losses", 2 * MaxLosses) /\ LineFails
     /\ GpsAlone
  \/ Spends("deaths", MaxDeaths) /\ NodeDies

MCNext ==
  /\ UNCHANGED focus
  /\ \/ UNCHANGED <<boostVars, chipVars>> /\ focus = "accel" /\ OfAccel
     \/ UNCHANGED <<boostVars, chipVars>> /\ focus = "alarm" /\ OfAlarm
     \/ UNCHANGED <<boostVars, chipVars>> /\ focus = "gps" /\ OfGps
     \/ UNCHANGED <<piVars, used, chipVars>> /\ focus = "boost" /\ BoostNext
     \/ UNCHANGED <<piVars, used, boostVars>> /\ focus = "chip" /\ ChipNext

MCSpec == MCInit /\ [][MCNext]_<<piVars, boostVars, chipVars, focus, used>>
=============================================================================
