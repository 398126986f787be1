-------------------------------- MODULE PiIo --------------------------------
(***************************************************************************)
(* The node of the sensors and the buzzer, pi_io_node, the parts of the    *)
(* captain that talk to it (handle_power, the beep of the constructor),    *)
(* and their deaths and respawns.  Accelerations are in mg, voltages in    *)
(* the 1.25 mV of the INA260's register; the rotation of the accelerometer *)
(* by 45 degrees is scaled by the square root of 2.                        *)
(***************************************************************************)
EXTENDS GpsReader, FiniteSets

CONSTANTS
  Rates, Ranges,         \* values of lis3dh.sample_rate_hz and lis3dh.range_g (bounds of the model)
  Forces,                \* accelerations the sensor meets (bound of the model)
  Levels,                \* bus voltages (bound of the model)
  Warn, Danger,          \* warn_ and danger_battery_threshold_v
  BootBeeps, LowBeeps, DangerBeeps,   \* the repeat counts of the requests: 4, 100 and 10
  MaxRequests            \* requests to the buzzer under way at once (bound of the model)

ASSUME PiIoAssumption ==
  /\ Rates \subseteq Nat /\ Ranges \subseteq Nat /\ Forces \subseteq Int /\ Levels \subseteq Nat
  /\ Warn \in Nat /\ Danger \in 0..Warn
  /\ {BootBeeps, LowBeeps, DangerBeeps} \subseteq Nat \ {0} /\ MaxRequests \in Nat

VARIABLES
  io,        \* the process: up, and which devices it opened
  lis,       \* Lis3dhDriver: fd, configured, mps2_per_lsb
  chip,      \* the registers of the LIS3DH, which outlive the process
  params,    \* the parameter file
  accel,     \* the last sample published, and the acceleration it was taken of
  captain,   \* up, was_battery_low, was_battery_dangerous; whether the node was there all
             \* through its life (history)
  volts,     \* the battery
  sample,    \* a power sample on its way to the captain
  requests,  \* calls of /pi/buzzer under way
  buzz,      \* BuzzerDriver: active_code, index, repeat_count
  played     \* the code served last, and the ticks the pin was on since (history)

piVars == <<io, lis, chip, params, accel, captain, volts, sample, requests, buzz, played, gpsVars>>

(* beep codes: the positions of their ones, from the first tick on.        *)
Off == {}
Small == 0..3
Equal3 == {i \in 0..31 : (i \div 4) % 2 = 0}
Swung == 0..15 \cup 24..27

Shut == [fd |-> FALSE, configured |-> FALSE, mgPerLsb |-> 0]
Quiet == [code |-> Off, index |-> 0, count |-> 0]
Unasked == [code |-> Off, count |-> 0, beeps |-> 0]
NoSample == -1
Gone == [up |-> FALSE, low |-> FALSE, dangerous |-> FALSE, attended |-> FALSE]
-----------------------------------------------------------------------------
(* Lis3dhDriver.                                                           *)
Hz == <<1, 10, 25, 50, 100, 200, 400>>
Gs == <<2, 4, 8, 16>>
OdrCode == [hz \in {Hz[c] : c \in 1..7} |-> CHOOSE c \in 1..7 : Hz[c] = hz]
FsCode == [g \in {2, 4, 8, 16} |-> CHOOSE c \in 0..3 : Gs[c + 1] = g]
MgPerLsb == [g \in {2, 4, 8, 16} |-> IF g = 16 THEN 12 ELSE g \div 2]

LisOpened(fd, who) == [Shut EXCEPT !.fd = fd /\ who]

(* configure: what the driver then believes and what the chip then does;   *)
(* w1 and w4 say which of the two writes reach it.                         *)
ConfiguredAnyway(l, w1, w4) ==                                  \* faulty
  IF ~l.fd \/ params.rate \notin DOMAIN OdrCode \/ params.range \notin DOMAIN FsCode
  THEN <<l, chip>>
  ELSE <<[l EXCEPT !.mgPerLsb = MgPerLsb[params.range], !.configured = TRUE],
         [odr |-> IF w1 THEN OdrCode[params.rate] ELSE chip.odr,
          fs |-> IF w1 /\ w4 THEN FsCode[params.range] ELSE chip.fs]>>

Configured(l, w1, w4) ==
  IF ~l.fd \/ params.rate \notin DOMAIN OdrCode \/ params.range \notin DOMAIN FsCode
  THEN <<l, chip>>
  ELSE <<IF w1 /\ w4 THEN [l EXCEPT !.mgPerLsb = MgPerLsb[params.range], !.configured = TRUE] ELSE l,
         [odr |-> IF w1 THEN OdrCode[params.rate] ELSE chip.odr,
          fs |-> IF w1 /\ w4 THEN FsCode[params.range] ELSE chip.fs]>>

(* The output registers: 12 bits at the top of 16, in two's complement; a  *)
(* chip that is powered down shows 0.                                      *)
OutRegister(mg) ==
  IF chip.odr = 0 THEN 0 ELSE ((mg \div MgPerLsb[Gs[chip.fs + 1]]) * 16) % 65536

Raw(u) == (IF u >= 32768 THEN u - 65536 ELSE u) \div 16

Rotated(x, y) == <<x - y, x + y>>
-----------------------------------------------------------------------------
(* BuzzerDriver.                                                           *)
SetCode(code, count) ==
  /\ buzz' = [buzz EXCEPT !.code = code, !.count = count]
  /\ played' = [code |-> code, count |-> count, beeps |-> 0]

EndsPassEarly(b) ==                                             \* faulty
  [code |-> IF b.count <= 2 THEN Off ELSE b.code, index |-> 0,
   count |-> IF b.count > 0 THEN b.count - 1 ELSE b.count]

EndsPass(b) ==
  LET left == IF b.count > 0 THEN b.count - 1 ELSE b.count
  IN [code |-> IF left = 0 THEN Off ELSE b.code, index |-> 0, count |-> left]

OnTimer ==
  /\ io.up
  /\ buzz' = IF buzz.index = 31 THEN EndsPass(buzz) ELSE [buzz EXCEPT !.index = @ + 1]
  /\ played' = IF io.buzzer /\ buzz.index \in buzz.code
               THEN [played EXCEPT !.beeps = @ + 1] ELSE played
  /\ UNCHANGED <<io, lis, chip, params, accel, captain, volts, sample, requests, gpsVars>>

SetBuzzer ==
  /\ io.up /\ requests # <<>>
  /\ SetCode(Head(requests).code, Head(requests).count)
  /\ requests' = Tail(requests)
  /\ UNCHANGED <<io, lis, chip, params, accel, captain, volts, sample, gpsVars>>
-----------------------------------------------------------------------------
(* PiIoNode: a device that does not open is left out until the next life.  *)
NodeStarts(fd, who, w1, w4, gps, ina, line) ==
  /\ ~io.up
  /\ io' = [up |-> TRUE, ina |-> ina, buzzer |-> line]
  /\ LET done == Configured(LisOpened(fd, who), w1, w4)
     IN lis' = done[1] /\ chip' = done[2]
  /\ buzz' = Quiet /\ played' = Unasked
  /\ OpenGps(gps)
  /\ UNCHANGED <<params, accel, captain, volts, sample, requests>>

Dead == /\ io' = [up |-> FALSE, ina |-> FALSE, buzzer |-> FALSE]
        /\ lis' = Shut /\ buzz' = Quiet /\ played' = Unasked /\ requests' = <<>>
        /\ captain' = [captain EXCEPT !.attended = FALSE]

NodeDies ==
  /\ io.up
  /\ Dead /\ CloseGps
  /\ UNCHANGED <<chip, params, accel, volts, sample>>

OnAccelTimer(x, y) ==
  /\ io.up /\ lis.configured
  /\ LET Read(mg) == Raw(OutRegister(mg)) * lis.mgPerLsb
     IN accel' = [of |-> <<x, y>>, published |-> Rotated(Read(x), Read(y))]
  /\ UNCHANGED <<io, lis, chip, params, captain, volts, sample, requests, buzz, played, gpsVars>>

OnPowerTimer ==
  /\ io.up /\ io.ina /\ captain.up
  /\ sample = NoSample /\ sample' = volts
  /\ UNCHANGED <<io, lis, chip, params, accel, captain, volts, requests, buzz, played, gpsVars>>

OnGpsTimer ==
  /\ io.up
  /\ \/ /\ \E f \in Parsed : ReadFix(f)
        /\ UNCHANGED <<io, lis, buzz, played, requests, captain>>
     \/ ReadThrows /\ Dead
  /\ UNCHANGED <<chip, params, accel, volts, sample>>

(* pi_io_node cannot be reached while it is down: a call is lost.          *)
Call(list) ==
  /\ Len(requests) + Len(list) <= MaxRequests
  /\ requests' = IF io.up THEN requests \o list ELSE requests

CaptainBoots ==
  /\ ~captain.up /\ captain' = [Gone EXCEPT !.up = TRUE, !.attended = io.up]
  /\ Call(<<[code |-> Swung, count |-> BootBeeps]>>)
  /\ UNCHANGED <<io, lis, chip, params, accel, volts, sample, buzz, played, gpsVars>>

CaptainDies ==
  /\ captain.up /\ captain' = Gone
  /\ sample' = NoSample
  /\ UNCHANGED <<io, lis, chip, params, accel, volts, requests, buzz, played, gpsVars>>

AlarmsDangerOnly(low, dangerous) ==                             \* faulty
  (IF dangerous /\ ~captain.dangerous THEN <<[code |-> Small, count |-> DangerBeeps]>> ELSE <<>>)
  \o (IF low /\ ~captain.low THEN <<[code |-> Equal3, count |-> LowBeeps]>> ELSE <<>>)

(* handle_power: what is asked of the buzzer.                              *)
AlarmsFor(low, dangerous) ==
  (IF low /\ ~captain.low THEN <<[code |-> Equal3, count |-> LowBeeps]>> ELSE <<>>)
  \o (IF dangerous /\ ~captain.dangerous THEN <<[code |-> Small, count |-> DangerBeeps]>> ELSE <<>>)

HandlePower ==
  /\ captain.up /\ sample # NoSample /\ sample' = NoSample
  /\ LET low == sample < Warn  dangerous == sample < Danger
     IN /\ captain' = [captain EXCEPT !.low = low, !.dangerous = dangerous]
        /\ Call(AlarmsFor(low, dangerous))
  /\ UNCHANGED <<io, lis, chip, params, accel, volts, buzz, played, gpsVars>>

BatteryMoves ==
  /\ volts' \in Levels \ {volts}
  /\ UNCHANGED <<io, lis, chip, params, accel, captain, sample, requests, buzz, played, gpsVars>>
-----------------------------------------------------------------------------
PiInit ==
  /\ io = [up |-> FALSE, ina |-> FALSE, buzzer |-> FALSE]
  /\ lis = Shut /\ chip = [odr |-> 0, fs |-> 0]
  /\ params \in [rate : Rates, range : Ranges]
  /\ accel = [of |-> <<0, 0>>, published |-> <<0, 0>>]
  /\ captain = Gone
  /\ volts \in Levels /\ sample = NoSample /\ requests = <<>>
  /\ buzz = Quiet /\ played = Unasked
  /\ GpsInit

GpsAlone ==
  UNCHANGED <<io, lis, chip, params, accel, captain, volts, sample, requests, buzz, played>>

Uart == TokenArrives /\ GpsAlone

PiNext ==
  \/ \E fd, who, w1, w4, gps, ina, line \in BOOLEAN : NodeStarts(fd, who, w1, w4, gps, ina, line)
  \/ NodeDies \/ \E x, y \in Forces : OnAccelTimer(x, y)
  \/ OnTimer \/ SetBuzzer \/ OnPowerTimer \/ OnGpsTimer
  \/ CaptainBoots \/ CaptainDies \/ HandlePower \/ BatteryMoves
  \/ Uart
  \/ GpsAlone /\ (LineFails \/ \E gga, cold \in BOOLEAN : Speaks(gga, cold))

PiSpec == PiInit /\ [][PiNext]_piVars
-----------------------------------------------------------------------------
(* What is published is what the sensor met: by any parameter file, any    *)
(* failed transfer of any start, and whatever an earlier life left in the  *)
(* registers, the driver's scale is that of the range the chip is set to,  *)
(* and a chip that was never switched on gives no sample.                  *)
AccelIsTrue == accel.published = Rotated(accel.of[1], accel.of[2])

(* A code is played as often as asked: the pattern runs on whatever index  *)
(* a request finds, so the first of the repeats may be cut short, but a    *)
(* code ends by itself only when all the others were whole, and is never   *)
(* played longer.                                                          *)
PlayedInFull ==
  LET once == Cardinality(played.code)
  IN /\ played.beeps <= played.count * once
     /\ io.buzzer /\ buzz.code = Off => played.beeps >= (played.count - 1) * once

(* The graver alarm has the last word: when every request was served, a    *)
(* captain that takes the battery for dangerous has left the buzzer with   *)
(* that alarm, and one that takes it for low with an alarm, if the node    *)
(* was there for all of its life (a node that starts again is not told).   *)
GravestAlarmLast ==
  captain.attended /\ requests = <<>> =>
    /\ captain.dangerous => played.code = Small
    /\ captain.low => played.code \in {Small, Equal3}
=============================================================================
