------------------------------ MODULE Packets -------------------------------
(***************************************************************************)
(* The packets between the ground and the payload, byte by byte. A layout  *)
(* is what one pack or unpack function does: a sequence of bytes, each the *)
(* set of the pieces of fields it holds. A pack function and its unpack    *)
(* function are each translated from their own code, and nothing here says *)
(* that they agree. A field is its bit pattern: signs and floats are the   *)
(* reader's business on both sides.                                        *)
(***************************************************************************)
EXTENDS Integers, Sequences, FiniteSetsExt, Functions

Piece(f, from, bits, at) == [field |-> f, from |-> from, bits |-> bits, at |-> at]
Bits(n, from, bits) == (n \div 2^from) % 2^bits
Total(f) == FoldFunction(+, 0, f)

Byte(f) == << {Piece(f, 0, 8, 0)} >>
Le(f, n) == [i \in 1..n |-> {Piece(f, 8 * (i - 1), 8, 0)}]
Be(f, n) == [i \in 1..n |-> {Piece(f, 8 * (n - i), 8, 0)}]
Skip(n) == [i \in 1..n |-> {}]

PackedByte(cell, v) == Total([p \in cell |-> Bits(v[p.field], p.from, p.bits) * 2^p.at])
Pack(layout, v) == [i \in DOMAIN layout |-> PackedByte(layout[i], v)]

Fields(layout) == {p.field : p \in UNION Range(layout)}

(* What a byte says of a field. Reading past the end of a packet gives     *)
(* whatever memory holds there.                                            *)
UnpackedPart(cell, byte, f) ==
  Total([p \in {q \in cell : q.field = f} |-> Bits(byte, p.at, p.bits) * 2^p.from])
Unpack(layout, bytes, stray) ==
  LET At(i) == IF i <= Len(bytes) THEN bytes[i] ELSE stray
  IN [f \in Fields(layout) |-> Total([i \in DOMAIN layout |-> UnpackedPart(layout[i], At(i), f)])]

NoData == [none |-> 0]
Refused(why) == [res |-> why, data |-> NoData]
Unpacked(layout, needs, bytes, stray) ==
  IF Len(bytes) < needs THEN Refused("TooShort")
  ELSE [res |-> "AllGood", data |-> Unpack(layout, bytes, stray)]
-----------------------------------------------------------------------------
Header == << {Piece("packet_type", 0, 2, 6), Piece("expected", 0, 6, 0)} >>
UnpackedHeader == << {Piece("packet_type", 0, 2, 6), Piece("expected", 0, 6, 0)} >>

ArmTarget == Byte("shoulder_yaw") \o Byte("shoulder_pitch") \o Byte("elbow_pitch") \o Byte("wrist_pitch")
UnpackedArmTarget ==
  Byte("shoulder_yaw") \o Byte("shoulder_pitch") \o Byte("elbow_pitch") \o Byte("wrist_pitch")

MotorJog == Byte("motor_id") \o Byte("duration_ticks") \o Le("millivolts", 2)
UnpackedMotorJog == Byte("motor_id") \o Byte("duration_ticks") \o Le("millivolts", 2)

ServoMotion ==
  Byte("openness") \o Byte("open_travel_time") \o Byte("open_time") \o
  Byte("close_travel_time") \o Byte("closeness") \o Byte("which_servo")
UnpackedServoMotion ==
  Byte("openness") \o Byte("open_travel_time") \o Byte("open_time") \o
  Byte("close_travel_time") \o Byte("closeness") \o Byte("which_servo")

(* Three bits of quality above thirteen of width, in two bytes.            *)
PhotoTransform ==
  Le("left", 2) \o Le("right", 2) \o Le("top", 2) \o Le("bottom", 2) \o
  << {Piece("output_width", 0, 8, 0)},
     {Piece("output_width", 8, 5, 0), Piece("quality", 0, 3, 5)} >>
UnpackedPhotoTransform ==
  Le("left", 2) \o Le("right", 2) \o Le("top", 2) \o Le("bottom", 2) \o
  << {Piece("output_width", 0, 8, 0)},
     {Piece("output_width", 8, 5, 0), Piece("quality", 0, 3, 5)} >>

Callsign == Le("callsign_head", 3) \o Le("callsign_tail", 3)

(* The transform is written over the image's id, not after it; the last of *)
(* the bytes counted is what the buffer held.                              *)
Recrop == PhotoTransform \o Skip(1)

MaxBlocksPerRequest == 60

(* A request names at most 60 blocks. r.block_ids is a sequence.           *)
PackBlockRequest(r) ==
  LET num == IF r.num > MaxBlocksPerRequest THEN MaxBlocksPerRequest ELSE r.num
      id(i) == r.block_ids[(i + 1) \div 2]
  IN <<r.image_id, num>> \o
     [i \in 1..2 * num |-> IF i % 2 = 1 THEN id(i) % 256 ELSE id(i) \div 256]

UnpackBlockRequest(bytes) ==
  IF Len(bytes) < 2 \/ Len(bytes) < 2 * bytes[2] + 2 THEN Refused("TooShort")
  ELSE IF bytes[2] > MaxBlocksPerRequest THEN Refused("TooLong")
  ELSE [res |-> "AllGood",
        data |-> [image_id |-> bytes[1],
                  blocks |-> [i \in 1..bytes[2] |-> bytes[2 * i + 1] + 256 * bytes[2 * i + 2]]]]
-----------------------------------------------------------------------------
(* Commands: one byte of command, then its data.                           *)
Commands == <<
  "ForceManual", "ForceFlight", "ExpectFlight", "BackToPad", "StartAutoFlipping", "UnfoldArm",
  "Panorama", "StartVideo", "StopVideo", "TakePicture", "ImageMetadata", "ReCrop", "SendArmTarget",
  "SendArmTargetAndComeBack", "SendArmTargetForPhotoAndComeBack", "SendIdlePosition", "SetShoulder",
  "JogMotor", "MoveServo", "NewFlightDanger", "Restart", "Reboot", "TelemetryRequest", "Callsign" >>

Code(cmd) == (CHOOSE i \in DOMAIN Commands : Commands[i] = cmd) - 1

(* A command that is not in the table has no data.                         *)
CommandLayouts ==
  [SendArmTarget |-> ArmTarget, SendArmTargetAndComeBack |-> ArmTarget,
   SendArmTargetForPhotoAndComeBack |-> ArmTarget, SendIdlePosition |-> ArmTarget,
   SetShoulder |-> ArmTarget, Callsign |-> Callsign, StartVideo |-> Byte("seconds"),
   TakePicture |-> PhotoTransform, ImageMetadata |-> Byte("image_id"), ReCrop |-> Recrop,
   JogMotor |-> MotorJog, MoveServo |-> ServoMotion, TelemetryRequest |-> Byte("telem_type")]

LayoutIn(table, name) == IF name \in DOMAIN table THEN table[name] ELSE <<>>
CommandLayout(cmd) == LayoutIn(CommandLayouts, cmd)

PackCommand(cmd, v) == <<Code(cmd)>> \o Pack(CommandLayout(cmd), v)

UnpackedCommandLayouts ==
  [SendArmTarget |-> UnpackedArmTarget, SendArmTargetAndComeBack |-> UnpackedArmTarget,
   SendArmTargetForPhotoAndComeBack |-> UnpackedArmTarget, SendIdlePosition |-> UnpackedArmTarget,
   SetShoulder |-> UnpackedArmTarget, StartVideo |-> Byte("seconds"),
   TakePicture |-> UnpackedPhotoTransform, ImageMetadata |-> Byte("image_id"),
   MoveServo |-> UnpackedServoMotion, JogMotor |-> UnpackedMotorJog,
   TelemetryRequest |-> Byte("telem_type"), Callsign |-> Callsign]

UnpackedCommandLayout(cmd) == LayoutIn(UnpackedCommandLayouts, cmd)

(* A servo motion is measured by the length of a motor jog, a callsign not *)
(* at all.                                                                 *)
NeededUnchecked(cmd) == IF cmd = "TakePicture" THEN 0 ELSE Len(UnpackedCommandLayout(cmd))    \* faulty

Needed(cmd) ==
  IF cmd = "MoveServo" THEN Len(UnpackedMotorJog)
  ELSE IF cmd = "Callsign" THEN 0 ELSE Len(UnpackedCommandLayout(cmd))

Command(cmd, r) == [command |-> cmd, res |-> r.res, data |-> r.data]

UnpackCommand(bytes, stray) ==
  IF Len(bytes) < 1 THEN Command("Callsign", Refused("NoCommand"))
  ELSE IF bytes[1] >= Len(Commands) THEN Command("MaxCommand", Refused("UnknownCommand"))
  ELSE LET cmd == Commands[bytes[1] + 1]
       IN IF cmd = "ReCrop" THEN Command(cmd, Refused("Unimplemented"))
          ELSE Command(cmd, Unpacked(UnpackedCommandLayout(cmd), Needed(cmd), Tail(bytes), stray))
-----------------------------------------------------------------------------
(* Changes of the LoRa link.                                               *)
LinkChange ==
  Byte("num_test_packets") \o Byte("dbm") \o Be("freq", 4) \o
  << {Piece("sf", 0, 3, 0), Piece("bw", 0, 2, 3), Piece("cr", 0, 2, 5)} >>
UnpackedLinkChange ==
  Byte("num_test_packets") \o Byte("dbm") \o Be("freq", 4) \o
  << {Piece("sf", 0, 3, 0), Piece("bw", 0, 2, 3), Piece("cr", 0, 2, 5)} >>

Hertz == <<62500, 125000, 250000, 500000>>

(* SF_5 and SF_6 become the number of SF_12, which is 7.                   *)
ProfileOf(c) ==
  [frequency_hz |-> c.freq, bandwidth_hz |-> Hertz[c.bw + 1],
   spreading_factor |-> IF c.sf >= 2 THEN c.sf + 5 ELSE 7,
   coding_rate |-> c.cr + 5, tx_power_dbm |-> c.dbm]

SpreadingFactor(sf) == IF sf \in 7..12 THEN sf - 5 ELSE 7
Bandwidth(hz) == IF hz >= 62500 THEN Max({i \in 1..4 : hz >= Hertz[i]}) - 1 ELSE 1
CodingRate(cr) == IF cr \in 5..8 THEN cr - 5 ELSE 0

Acknowledge(profile) ==
  [num_test_packets |-> 1, dbm |-> profile.tx_power_dbm, freq |-> profile.frequency_hz,
   sf |-> SpreadingFactor(profile.spreading_factor), bw |-> Bandwidth(profile.bandwidth_hz),
   cr |-> CodingRate(profile.coding_rate)]
-----------------------------------------------------------------------------
(* Telemetry.                                                              *)
V3(x, y, z) == Le(x, 2) \o Le(y, 2) \o Le(z, 2)

Imus == V3("base_x", "base_y", "base_z") \o V3("link1_x", "link1_y", "link1_z")
        \o V3("link2_x", "link2_y", "link2_z")

(* The three readings are all read into base; the last one stays.          *)
UnpackedImus == Skip(12) \o V3("base_x", "base_y", "base_z")

FlightState == Byte("phase") \o Be("status_bits", 2)
UnpackedFlightState == Byte("phase") \o Be("status_bits", 2)

LandedHeartbeat ==
  FlightState \o Byte("next_image_id") \o Byte("next_exec_id") \o ArmTarget \o Le("battery_mV", 2)
  \o Byte("motor_temp") \o Byte("radio_temp")
  \o V3("base_x", "base_y", "base_z") \o V3("link2_x", "link2_y", "link2_z")
UnpackedLandedHeartbeat ==
  UnpackedFlightState \o Byte("next_image_id") \o Byte("next_exec_id") \o UnpackedArmTarget
  \o Le("battery_mV", 2) \o Byte("motor_temp") \o Byte("radio_temp")
  \o V3("base_x", "base_y", "base_z") \o V3("link2_x", "link2_y", "link2_z")

FlightHeartbeat ==
  FlightState \o Le("latitude", 4) \o Le("longitude", 4) \o Le("altitude", 2)
  \o Le("s_since_boost", 2) \o Le("battery_mV", 2) \o Byte("radio_temp")
UnpackedFlightHeartbeat ==
  UnpackedFlightState \o Le("latitude", 4) \o Le("longitude", 4) \o Le("altitude", 2)
  \o Le("s_since_boost", 2) \o Le("battery_mV", 2) \o Byte("radio_temp")

Actuators == ArmTarget \o Byte("servo1") \o Byte("servo2") \o Byte("servo3") \o Byte("servo4")
UnpackedActuators ==
  UnpackedArmTarget \o Byte("servo1") \o Byte("servo2") \o Byte("servo3") \o Byte("servo4")

ImageMetadata ==
  Byte("image_id") \o Le("timestamp", 4) \o Le("num_blocks", 2) \o ArmTarget \o PhotoTransform
  \o Le("latitude", 4) \o Le("longitude", 4)
UnpackedImageMetadata ==
  Byte("image_id") \o Le("timestamp", 4) \o Le("num_blocks", 2) \o UnpackedArmTarget
  \o UnpackedPhotoTransform \o Le("latitude", 4) \o Le("longitude", 4)

(* What the encoder writes at the start of a block, and what is read of it.*)
ImageDataSize == 128
ImageBlock == Skip(6) \o Byte("image_id") \o Be("block_index", 2) \o Skip(ImageDataSize - 9)
UnpackedImageData == Skip(6) \o Byte("image_id") \o Be("block_index", 2) \o Skip(ImageDataSize - 9)

TelemetryTypes ==
  <<"FlightHeartbeat", "LandedHeartbeat", "Actuators", "GNSS", "System", "Orientations", "Temps", "Power">>
TelemetryCode(typ) == (CHOOSE i \in DOMAIN TelemetryTypes : TelemetryTypes[i] = typ) - 1

TelemetryLayouts ==
  [FlightHeartbeat |-> FlightHeartbeat, LandedHeartbeat |-> LandedHeartbeat, Actuators |-> Actuators,
   GNSS |-> Imus, System |-> Imus, Orientations |-> Imus]

UnpackedTelemetryLayouts ==
  [FlightHeartbeat |-> UnpackedFlightHeartbeat, LandedHeartbeat |-> UnpackedLandedHeartbeat,
   Actuators |-> UnpackedActuators, GNSS |-> UnpackedImus, System |-> UnpackedImus,
   Orientations |-> UnpackedImus]

TelemetryLayout(typ) == LayoutIn(TelemetryLayouts, typ)
UnpackedTelemetryLayout(typ) == LayoutIn(UnpackedTelemetryLayouts, typ)

PackTelemetry(typ, v) == <<TelemetryCode(typ)>> \o Pack(TelemetryLayout(typ), v)

(* What was read: of which response, and which type of telemetry.          *)
Response(cmd, typ, r) == [cmd |-> cmd, typ |-> typ, res |-> r.res, data |-> r.data]

(* Each length test is the size of what it then reads, base's thrice.      *)
UnpackTelemetry(cmd, bytes) ==
  IF Len(bytes) < 1 THEN Response(cmd, "none", Refused("TooShort"))
  ELSE IF bytes[1] \notin 0..5 THEN Response(cmd, "none", Refused("UnknownCommand"))
  ELSE LET typ == TelemetryTypes[bytes[1] + 1]
           layout == UnpackedTelemetryLayout(typ)
       IN Response(cmd, typ, Unpacked(layout, Len(layout), Tail(bytes), 0))

(* A response that is not telemetry or metadata is its command alone.      *)
PackResponse(cmd, body) == <<Code(cmd)>> \o body

Acknowledged == {"ForceFlight", "ExpectFlight", "BackToPad", "ForceManual", "SetShoulder",
                 "TakePicture", "MoveServo", "SendIdlePosition"}
Unimplemented == {"StartVideo", "StopVideo", "ReCrop", "SendArmTargetAndComeBack",
                  "SendArmTargetForPhotoAndComeBack", "NewFlightDanger", "Callsign"}

UnpackResponse(bytes) ==
  IF Len(bytes) < 1 THEN Response("none", "none", Refused("TooShort"))
  ELSE LET cmd == IF bytes[1] < Len(Commands) THEN Commands[bytes[1] + 1] ELSE "MaxCommand"
           data == Tail(bytes)
       IN IF cmd = "TelemetryRequest" THEN UnpackTelemetry(cmd, data)
          ELSE Response(cmd, "none",
                 IF cmd \in Acknowledged THEN [res |-> "AllGood", data |-> NoData]
                 ELSE IF cmd = "ImageMetadata"
                      THEN Unpacked(UnpackedImageMetadata, Len(UnpackedImageMetadata), data, 0)
                 ELSE Refused(IF cmd \in Unimplemented THEN "Unimplemented" ELSE "UnknownCommand"))
=============================================================================
