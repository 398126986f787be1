------------------------------- MODULE Comms --------------------------------
(***************************************************************************)
(* What the ground and the payload tell each other. The captain keeps the  *)
(* last sample of everything, sends two kinds of heartbeat and what it is  *)
(* asked for, and calls its levers on commands. The queue and the chip in  *)
(* between are the radio node's (Radio); here they keep order and lose     *)
(* nothing but, perhaps, the end of a command. The ground uses the unpack  *)
(* functions of Packets.                                                   *)
(***************************************************************************)
EXTENDS Packets, SequencesExt

CONSTANTS
  GpsSamples,    \* [fix_type, latitude, longitude, altitude_m]
  MilliVolts,    \* bus voltages
  ArmStatuses,   \* [yaw, pitch, elbow, wrist, motor_en, flip_servo_en, cant_trust, booted]
  Accels,        \* normalised base accelerations, as three bit patterns
  Shots,         \* metadata of pictures, the fields of ImageMetadata
  Phases,        \* states of the captain
  Times,         \* seconds of the system clock
  Arguments,     \* Arguments[cmd] is a set of argument records
  Requests,      \* image block requests [image_id, num, block_ids]
  LinkChanges,   \* changes of the LoRa link
  Strays,        \* bytes that nobody wrote
  OnDisk,        \* the blocks <<image_id, block>> on disk
  MaxSamples, MaxPackets,   \* bounds on what is measured, and on what the ground sends
  MaxLost        \* bound on the bytes that a packet loses at its end

(* What the fields of the structs can hold: a Triple is three characters,  *)
(* a Quad a 32-bit pattern.                                                *)
Octet == 0..255
Word == 0..65535
Triple == {n \in Nat : n \div 2^16 < 256}
Quad == {n \in Nat : n \div 2^24 < 256}

Targets == [shoulder_yaw : Octet, shoulder_pitch : Octet, elbow_pitch : Octet, wrist_pitch : Octet]
Transforms ==
  [left : Word, right : Word, top : Word, bottom : Word, output_width : Word, quality : Octet]

ArgumentTypes ==
  [SendArmTarget |-> Targets, SendArmTargetAndComeBack |-> Targets,
   SendArmTargetForPhotoAndComeBack |-> Targets, SendIdlePosition |-> Targets,
   SetShoulder |-> Targets, StartVideo |-> [seconds : Octet], TakePicture |-> Transforms,
   ImageMetadata |-> [image_id : Octet], ReCrop |-> Transforms,
   JogMotor |-> [motor_id : Octet, duration_ticks : Octet, millivolts : Word],
   MoveServo |-> [openness : Octet, open_travel_time : Octet, open_time : Octet,
                  close_travel_time : Octet, closeness : Octet, which_servo : Octet],
   TelemetryRequest |-> [telem_type : Octet], Callsign |-> [callsign_head : Triple, callsign_tail : Triple]]

BlockRequests == [image_id : Octet, num : Octet, block_ids : Seq(Word)]
LinkTypes == [num_test_packets : Octet, dbm : Octet, freq : Quad, sf : 0..7, bw : 0..3, cr : 0..3]

(* An altitude is sent in sixteen bits; a transform came in a packet.      *)
GpsTypes == [fix_type : Nat, latitude : Quad, longitude : Quad, altitude_m : {a \in Int : a < 2^16}]
ArmTypes == [yaw : Octet, pitch : Octet, elbow : Octet, wrist : Octet,
             motor_en : {0, 1}, flip_servo_en : {0, 1}, cant_trust : {0, 1}, booted : {0, 1}]
MetadataTypes ==
  [image_id : Octet, timestamp : Quad, num_blocks : Word, shoulder_yaw : Octet, shoulder_pitch : Octet,
   elbow_pitch : Octet, wrist_pitch : Octet, left : Word, right : Word, top : Word, bottom : Word,
   output_width : 0..8191, quality : 0..7, latitude : Quad, longitude : Quad]

VARIABLES
  status,      \* StatusAccumulator
  primary,     \* primary_heartbeat_type
  clock,       \* the system clock
  uplink,      \* the packet on its way up, with what the ground meant by it
  downlink,    \* packets on their way down, each with what was so when it was sent
  called,      \* the call the captain just made for a command, with what was meant
  heard,       \* the packet the ground just unpacked, with what was so when it was sent
  past,        \* history: everything measured since the captain started
  sent         \* packets the ground has sent

comms == <<status, primary, clock, uplink, downlink, called, heard, past, sent>>

NoFix == [fix_type |-> 0, latitude |-> 0, longitude |-> 0, altitude_m |-> 0]
Still == [yaw |-> 0, pitch |-> 0, elbow |-> 0, wrist |-> 0,
          motor_en |-> 0, flip_servo_en |-> 0, cant_trust |-> 0, booted |-> 0]

Fresh == [phase |-> "Pad", gps |-> NoFix, good |-> NoFix, mV |-> 0, arm |-> Still, accel |-> <<>>,
          last_image_id |-> 0, takeoff_time |-> 0, runcam_on |-> FALSE]

None == <<>>
-----------------------------------------------------------------------------
(* Entering a state: the heartbeat that is primary, the camera, the clock. *)
OnPad == {"Pad", "Preboost"}
ArmPhases == {"Unfolding", "AutoCamera"}
Filming == {"Preboost", "Flight", "Flipping", "Unfolding", "AutoCamera"}

Entered(s, phase) ==
  [s EXCEPT !.phase = phase,
            !.runcam_on = phase \in Filming,
            !.takeoff_time = IF phase \in OnPad THEN 0 ELSE IF phase = "Flight" THEN clock ELSE @]

PrimaryAfter(phase) ==
  IF phase \in OnPad THEN "FlightHeartbeat" ELSE IF phase = "Flight" THEN primary ELSE "LandedHeartbeat"

CommsInit ==
  /\ status = Fresh /\ primary = "FlightHeartbeat"
  /\ clock \in Times
  /\ uplink = None /\ downlink = <<>> /\ called = None /\ heard = None
  /\ past = <<>> /\ sent = 0
-----------------------------------------------------------------------------
(* Packing the status. What no line of the code sets is a stray byte.      *)
PhaseNames == <<"Pad", "Preboost", "Flight", "Flipping", "Unfolding", "AutoCamera",
                "ManualControl", "Emergency">>
FlightPhase(phase) == CHOOSE i \in DOMAIN PhaseNames : PhaseNames[i] = phase

(* The system clock has left 0 long ago.                                   *)
ASSUME CommsAssumption ==
  /\ GpsSamples \subseteq GpsTypes /\ MilliVolts \subseteq Nat /\ ArmStatuses \subseteq ArmTypes
  /\ Shots \subseteq MetadataTypes /\ Phases \subseteq Range(PhaseNames)
  /\ Times \subseteq Nat \ {0} /\ MaxLost \in Nat
  /\ DOMAIN Arguments \subseteq Range(Commands)
  /\ \A cmd \in DOMAIN Arguments \cap DOMAIN ArgumentTypes : Arguments[cmd] \subseteq ArgumentTypes[cmd]
  /\ Strays \subseteq Octet /\ LinkChanges \subseteq LinkTypes /\ Requests \subseteq BlockRequests
  /\ \A r \in Requests : Len(r.block_ids) >= Min({r.num, MaxBlocksPerRequest})

HasGps(s) == IF s.gps.fix_type # 0 THEN 1 ELSE 0

StatusBits(s) ==
  HasGps(s) * 2^9 + s.arm.motor_en * 2^4 + (IF s.runcam_on THEN 2^10 ELSE 0)
  + s.arm.flip_servo_en * 2^5 + s.arm.cant_trust * 2^11 + s.arm.booted * 2^12

MvFromVolts(mV) == IF mV > 32767 THEN 32767 ELSE mV

LastGoodPosition(s) == IF HasGps(s) = 1 THEN s.gps ELSE s.good

SinceBoost(s) ==
  IF s.takeoff_time = 0 THEN 0
  ELSE IF clock < s.takeoff_time \/ clock - s.takeoff_time > 65535 THEN 65535
       ELSE clock - s.takeoff_time

FlightHeartbeatOf(s) ==
  [phase |-> FlightPhase(s.phase), status_bits |-> StatusBits(s),
   latitude |-> LastGoodPosition(s).latitude, longitude |-> LastGoodPosition(s).longitude,
   altitude |-> Max({0, LastGoodPosition(s).altitude_m}),
   s_since_boost |-> SinceBoost(s), battery_mV |-> MvFromVolts(s.mV), radio_temp |-> 55]

LandedHeartbeatOf(s) ==
  [phase |-> FlightPhase(s.phase), status_bits |-> StatusBits(s),
   next_image_id |-> s.last_image_id, next_exec_id |-> 0,
   shoulder_yaw |-> s.arm.yaw, shoulder_pitch |-> s.arm.pitch,
   elbow_pitch |-> s.arm.elbow, wrist_pitch |-> s.arm.wrist,
   motor_temp |-> 20, radio_temp |-> 20, battery_mV |-> MvFromVolts(s.mV)]

(* Before the first sample the direction is that of a null vector.         *)
OrientationsOf(s) ==
  IF s.accel = <<>> THEN << >>
  ELSE [base_x |-> s.accel[1], base_y |-> s.accel[2], base_z |-> s.accel[3],
        link2_x |-> s.arm.yaw, link2_y |-> s.arm.pitch, link2_z |-> s.arm.elbow]

Filled(f, g) == [x \in DOMAIN f \cup DOMAIN g |-> IF x \in DOMAIN f THEN f[x] ELSE g[x]]

PacketForTelemetry(typ, s, stray) ==
  LET set == IF typ = "FlightHeartbeat" THEN FlightHeartbeatOf(s)
             ELSE IF typ = "LandedHeartbeat" THEN LandedHeartbeatOf(s)
             ELSE IF typ = "Orientations" THEN OrientationsOf(s) ELSE << >>
  IN Pack(Header, [packet_type |-> 2, expected |-> 1]) \o
     PackResponse("TelemetryRequest",
       PackTelemetry(typ, Filled(set, [f \in Fields(TelemetryLayout(typ)) |-> stray])))
-----------------------------------------------------------------------------
(* What was so, told from a history h alone: the reference for the ground. *)
LastIn(h, kind, default) ==
  LET is == {i \in DOMAIN h : h[i].kind = kind}
  IN IF is = {} THEN default ELSE h[Max(is)].value

FixesIn(h) == {i \in DOMAIN h : h[i].kind = "gps" /\ h[i].value.fix_type # 0}
PositionIn(h) == IF FixesIn(h) = {} THEN NoFix ELSE h[Max(FixesIn(h))].value

PicturesIn(h) == {i \in DOMAIN h : h[i].kind = "image"}
ImagesIn(h) == {h[i].value.image_id : i \in PicturesIn(h)}

(* The state that was entered last, and whether that or a command since    *)
(* has the camera run.                                                     *)
PhaseIn(h) == LastIn(h, "phase", [phase |-> "Pad", at |-> 0]).phase
ShotsIn(h) == {i \in DOMAIN h : h[i].kind \in {"phase", "camera"}}
FilmedIn(h) ==
  LET last == h[Max(ShotsIn(h))]
  IN IF ShotsIn(h) = {} THEN FALSE
     ELSE IF last.kind = "phase" THEN last.value.phase \in Filming ELSE last.value

(* Seconds since Flight was entered, unless the clock went back since.     *)
TurnsIn(h) == {i \in DOMAIN h : h[i].kind = "phase" /\ h[i].value.phase \in OnPad \cup {"Flight"}}
SinceIn(h) ==
  LET turns == TurnsIn(h)
      last == h[Max(turns)].value
  IN IF turns = {} \/ last.phase # "Flight" THEN [s_since_boost |-> 0]
     ELSE IF clock < last.at THEN << >>
     ELSE [s_since_boost |-> Min({clock - last.at, 65535})]

(* The bits of StatusBit that the code means to set.                       *)
Bit(n, on) == IF on THEN 2^n ELSE 0
BitsIn(h) ==
  LET arm == LastIn(h, "arm", Still)
  IN Bit(4, arm.motor_en = 1) + Bit(5, arm.flip_servo_en = 1)
     + Bit(9, LastIn(h, "gps", NoFix).fix_type # 0) + Bit(10, FilmedIn(h))
     + Bit(11, arm.cant_trust = 1) + Bit(12, arm.booted = 1)

BatteryIn(h) ==
  LET mV == LastIn(h, "power", 0) IN IF mV < 32767 THEN mV ELSE 32767

(* Left out: the fields that are constants of the code, and those that no  *)
(* line of it sets, the accelerations of the landed heartbeat.             *)
Truth(typ, h) ==
  LET arm == LastIn(h, "arm", Still)
      place == PositionIn(h)
  IN IF typ = "FlightHeartbeat"
     THEN Filled([phase |-> FlightPhase(PhaseIn(h)), status_bits |-> BitsIn(h),
                  battery_mV |-> BatteryIn(h), latitude |-> place.latitude, longitude |-> place.longitude,
                  altitude |-> IF place.altitude_m > 0 THEN place.altitude_m ELSE 0], SinceIn(h))
     ELSE IF typ = "LandedHeartbeat"
     THEN [phase |-> FlightPhase(PhaseIn(h)), status_bits |-> BitsIn(h), battery_mV |-> BatteryIn(h),
           next_image_id |-> Max({0} \cup ImagesIn(h)), shoulder_yaw |-> arm.yaw,
           shoulder_pitch |-> arm.pitch, elbow_pitch |-> arm.elbow, wrist_pitch |-> arm.wrist]
     ELSE << >>

With(h, kind, value) == Append(h, [kind |-> kind, value |-> value])
Measures(kind, value) == past' = With(past, kind, value)
-----------------------------------------------------------------------------
(* Sending: a packet longer than the radio's is not among these.           *)
Down(bytes, truth) == [bytes |-> bytes, truth |-> truth]

Telemetry(typ, s, h, stray) == Down(PacketForTelemetry(typ, s, stray), Truth(typ, h))

EmitTelemetry(typ) ==
  \E stray \in Strays : downlink' = Append(downlink, Telemetry(typ, status, past, stray))

OnPrimaryHeartbeatTimer == EmitTelemetry(primary)

Secondary == IF primary = "FlightHeartbeat" THEN "LandedHeartbeat" ELSE "FlightHeartbeat"
OnSecondaryHeartbeatTimer == EmitTelemetry(Secondary)

(* A change of state ends with a heartbeat that tells of it; an arm state  *)
(* that falls back to Emergency in between sends two. Emergency sends the  *)
(* blocks of the first picture before.                                     *)
BlockPacket(id, block, meant) ==
  Down(Pack(Header, [packet_type |-> 3, expected |-> 0]) \o
       Pack(ImageBlock, [image_id |-> id, block_index |-> block]),
       [image_id |-> id, block_index |-> meant])

BlockPackets(id, blocks, meant) ==
  LET here == {i \in DOMAIN blocks : <<id, blocks[i]>> \in OnDisk}
  IN MapThenFoldSet(LAMBDA packet, packets : Append(packets, packet), <<>>,
                    LAMBDA i : BlockPacket(id, blocks[i], meant[i]), Max, here)

FirstBlocks(phase) ==
  IF phase # "Emergency" THEN <<>>
  ELSE LET all == [i \in 1..60 |-> i - 1] IN BlockPackets(0, all, all)

Enters(phase) ==
  \E stray \in Strays, fallsBack \in IF phase \in ArmPhases THEN BOOLEAN ELSE {FALSE} :
    LET final == IF fallsBack THEN "Emergency" ELSE phase
        new == Entered(status, final)
        then == With(past, "phase", [phase |-> final, at |-> clock])
        hb == Telemetry(PrimaryAfter(final), new, then, stray)
    IN /\ status' = new /\ primary' = PrimaryAfter(final) /\ past' = then
       /\ downlink' = downlink \o FirstBlocks(final) \o <<hb>> \o (IF fallsBack THEN <<hb>> ELSE <<>>)

EmitMetadata(meta) ==
  downlink' = Append(downlink,
    Down(Pack(Header, [packet_type |-> 2, expected |-> 0]) \o
         PackResponse("ImageMetadata", Pack(ImageMetadata, meta)), meta))

-----------------------------------------------------------------------------
(* Bound: nothing else happens while a packet is on its way.               *)
AtRest == uplink = None /\ downlink = <<>>

(* Samples. The last call and the last packet heard are of the last step.  *)
Silent == called' = None /\ heard' = None

KeepsEveryGps(sample) == [status EXCEPT !.gps = sample, !.good = sample]    \* faulty
UpdateGpsSample(sample) ==
  [status EXCEPT !.gps = sample, !.good = IF sample.fix_type # 0 THEN sample ELSE @]

HandleGnss(sample) ==
  /\ Measures("gps", sample) /\ status' = UpdateGpsSample(sample)
  /\ Silent /\ UNCHANGED <<primary, clock, uplink, downlink, sent>>

HandlePower(mV) ==
  /\ Measures("power", mV) /\ status' = [status EXCEPT !.mV = mV]
  /\ Silent /\ UNCHANGED <<primary, clock, uplink, downlink, sent>>

HandleArmStatus(arm) ==
  /\ Measures("arm", arm) /\ status' = [status EXCEPT !.arm = arm]
  /\ Silent /\ UNCHANGED <<primary, clock, uplink, downlink, sent>>

HandleImu(accel) ==
  /\ Measures("accel", accel) /\ status' = [status EXCEPT !.accel = accel]
  /\ Silent /\ UNCHANGED <<primary, clock, uplink, downlink, sent>>

HandleMetadata(meta) ==
  /\ Measures("image", meta)
  /\ status' = [status EXCEPT !.last_image_id = Max({meta.image_id, @})]
  /\ EmitMetadata(meta)
  /\ Silent /\ UNCHANGED <<primary, clock, uplink, sent>>

(* The experts and the change_state service; time goes on or is set.       *)
Changes(phase) ==
  /\ Enters(phase)
  /\ Silent /\ UNCHANGED <<clock, uplink, sent>>

ClockIsSet(now) ==
  /\ now # clock /\ Measures("clock", now) /\ clock' = now
  /\ Silent /\ UNCHANGED <<status, primary, uplink, downlink, sent>>

(* The captain starts in the state it was in, and enters it; that tells    *)
(* nobody, unless the state falls back to Emergency.                       *)
Restarts ==
  \E fallsBack \in IF status.phase \in ArmPhases THEN BOOLEAN ELSE {FALSE}, stray \in Strays :
    LET final == IF fallsBack THEN "Emergency" ELSE status.phase
        new == Entered(Fresh, final)
        then == With(<<>>, "phase", [phase |-> final, at |-> clock])
    IN /\ AtRest
       /\ status' = new /\ past' = then
       /\ primary' = IF final = "Flight" THEN "FlightHeartbeat" ELSE PrimaryAfter(final)
       /\ downlink' = IF ~fallsBack THEN <<>>
                      ELSE Append(FirstBlocks(final), Telemetry("LandedHeartbeat", new, then, stray))
       /\ Silent /\ UNCHANGED <<clock, uplink, sent>>

Heartbeats ==
  /\ OnPrimaryHeartbeatTimer \/ OnSecondaryHeartbeatTimer
  /\ Silent /\ UNCHANGED <<status, primary, clock, uplink, past, sent>>

(* The service answers any number; one that is no type is not sent.        *)
RequestTelemetry(code) ==
  /\ IF code + 1 \in DOMAIN TelemetryTypes THEN EmitTelemetry(TelemetryTypes[code + 1])
     ELSE UNCHANGED downlink
  /\ Silent /\ UNCHANGED <<status, primary, clock, uplink, past, sent>>
-----------------------------------------------------------------------------
(* The ground sends; the end of a packet may be missing.                   *)
Sends(type, body, what, meant) ==
  LET bytes == Pack(Header, [packet_type |-> type, expected |-> 0]) \o body
  IN \E n \in Max({0, Len(bytes) - MaxLost}) .. Len(bytes) :
       uplink' = [bytes |-> SubSeq(bytes, 1, n), whole |-> n = Len(bytes), what |-> what, meant |-> meant]

StateCommands ==
  [ForceManual |-> "ManualControl", ForceFlight |-> "Flight", ExpectFlight |-> "Preboost",
   BackToPad |-> "Pad", StartAutoFlipping |-> "Flipping", UnfoldArm |-> "Unfolding",
   Panorama |-> "AutoCamera"]

(* What the levers get of a command: its fields, a jog in other units.     *)
JogFor(ticks) == 10 * ticks
Args(cmd, d) ==
  IF cmd = "JogMotor"
  THEN [motor |-> d.motor_id, milliseconds |-> JogFor(d.duration_ticks), millivolts |-> d.millivolts]
  ELSE IF cmd \in DOMAIN StateCommands \cup {"StartVideo", "StopVideo", "Restart", "NewFlightDanger"}
       THEN NoData
  ELSE d

(* What the ground means by it: a width has thirteen bits, a quality three.*)
Clipped(v) ==
  [f \in DOMAIN v |-> IF f = "quality" THEN v[f] % 8 ELSE IF f = "output_width" THEN v[f] % 8192 ELSE v[f]]

GroundCommands(cmd, v) == Sends(2, PackCommand(cmd, v), cmd, Args(cmd, Clipped(v)))
GroundAsks(r) ==
  Sends(3, PackBlockRequest(r), "Blocks",
        [image_id |-> r.image_id, blocks |-> SubSeq(r.block_ids, 1, Min({r.num, MaxBlocksPerRequest}))])
ProfileMeant(c) ==
  [frequency_hz |-> c.freq, bandwidth_hz |-> 62500 * 2^c.bw, spreading_factor |-> c.sf + 5,
   coding_rate |-> c.cr + 5, tx_power_dbm |-> c.dbm]
GroundChanges(c) == Sends(1, Pack(LinkChange, c), "Link", ProfileMeant(c))

Ground ==
  /\ AtRest /\ sent < MaxPackets /\ sent' = sent + 1
  /\ \/ \E cmd \in DOMAIN Arguments : \E v \in Arguments[cmd] : GroundCommands(cmd, v)
     \/ \E r \in Requests : GroundAsks(r)
     \/ \E c \in LinkChanges : GroundChanges(c)
  /\ Silent /\ UNCHANGED <<status, primary, clock, downlink, past>>
-----------------------------------------------------------------------------
(* handle_packet: the commands it knows. The others are logged.            *)
Unhandled == {"Callsign", "ReCrop", "SendIdlePosition", "Reboot"}

Quiet == UNCHANGED <<status, primary, downlink, past>>

Obeys(cmd, d) ==
  IF cmd \in DOMAIN StateCommands THEN Enters(StateCommands[cmd])
  ELSE IF cmd \in {"StartVideo", "StopVideo"}
       THEN /\ status' = [status EXCEPT !.runcam_on = cmd = "StartVideo"]
            /\ Measures("camera", cmd = "StartVideo") /\ UNCHANGED <<primary, downlink>>
  ELSE IF cmd = "TelemetryRequest" /\ d.telem_type + 1 \in DOMAIN TelemetryTypes
       THEN EmitTelemetry(TelemetryTypes[d.telem_type + 1]) /\ UNCHANGED <<status, primary, past>>
  ELSE IF cmd = "ImageMetadata" /\ \E m \in Shots : m.image_id = d.image_id
       THEN /\ EmitMetadata(CHOOSE m \in Shots : m.image_id = d.image_id)
            /\ UNCHANGED <<status, primary, past>>
  ELSE Quiet

(* The last call: what was done, or nothing, for what was meant.           *)
Calls(done, args) ==
  called' = [what |-> uplink.what, meant |-> uplink.meant, whole |-> uplink.whole,
             done |-> done, args |-> args]
Ignored == Calls("nothing", NoData) /\ Quiet

HandleCommand(body) ==
  \E stray \in Strays :
    LET r == UnpackCommand(body, stray)
    IN IF r.res = "AllGood" /\ r.command \notin Unhandled
       THEN Calls(r.command, Args(r.command, r.data)) /\ Obeys(r.command, r.data)
       ELSE Ignored

HandleBlockRequest(body) ==
  LET r == UnpackBlockRequest(body)
  IN IF r.res # "AllGood" THEN Ignored
     ELSE /\ Calls("Blocks", r.data)
          /\ downlink' = downlink \o
               BlockPackets(r.data.image_id, r.data.blocks, uplink.meant.blocks)
          /\ UNCHANGED <<status, primary, past>>

(* The radio node takes a link change itself, and tells what it took.      *)
HandleLinkChange(body) ==
  LET r == Unpacked(UnpackedLinkChange, Len(UnpackedLinkChange), body, 0)
  IN IF r.res # "AllGood" THEN Ignored
     ELSE LET p == ProfileOf(r.data)
          IN /\ Calls("Link", p)
             /\ downlink' = Append(downlink,
                  Down(Pack(Header, [packet_type |-> 1, expected |-> 0]) \o Pack(LinkChange, Acknowledge(p)),
                       [freq |-> p.frequency_hz, dbm |-> p.tx_power_dbm,
                        sf |-> p.spreading_factor - 5, cr |-> p.coding_rate - 5]))
             /\ UNCHANGED <<status, primary, past>>

HandlePacket ==
  /\ uplink # None /\ uplink' = None
  /\ IF Len(uplink.bytes) < 1 THEN Ignored
     ELSE LET h == Unpack(UnpackedHeader, uplink.bytes, 0)
              body == Tail(uplink.bytes)
          IN \/ h.packet_type = 0 /\ Ignored
             \/ h.packet_type = 1 /\ HandleLinkChange(body)
             \/ h.packet_type = 2 /\ HandleCommand(body)
             \/ h.packet_type = 3 /\ HandleBlockRequest(body)
  /\ heard' = None /\ UNCHANGED <<clock, sent>>

(* The ground unpacks the next packet by its header.                       *)
GroundUnpacks(bytes) ==
  LET h == Unpack(UnpackedHeader, bytes, 0)
      body == Tail(bytes)
  IN IF h.packet_type = 2 THEN UnpackResponse(body)
     ELSE IF h.packet_type = 1
     THEN Response("Link", "none", Unpacked(UnpackedLinkChange, Len(UnpackedLinkChange), body, 0))
     ELSE IF h.packet_type = 3
     THEN Response("Image", "none", Unpacked(UnpackedImageData, ImageDataSize, body, 0))
     ELSE Response("none", "none", Refused("UnknownCommand"))

GroundHears ==
  /\ downlink # <<>> /\ downlink' = Tail(downlink)
  /\ LET r == GroundUnpacks(Head(downlink).bytes)
     IN heard' = [cmd |-> r.cmd, typ |-> r.typ, res |-> r.res, data |-> r.data,
                  truth |-> Head(downlink).truth]
  /\ called' = None /\ UNCHANGED <<status, primary, clock, uplink, past, sent>>
-----------------------------------------------------------------------------
Samples ==
  /\ AtRest /\ Len(past) < MaxSamples
  /\ \/ \E g \in GpsSamples : HandleGnss(g)
     \/ \E mV \in MilliVolts : HandlePower(mV)
     \/ \E arm \in ArmStatuses : HandleArmStatus(arm)
     \/ \E a \in Accels : HandleImu(a)
     \/ \E m \in Shots : HandleMetadata(m)
     \/ \E phase \in Phases : Changes(phase)
     \/ \E now \in Times : ClockIsSet(now)

Emissions ==
  /\ AtRest
  /\ Heartbeats \/ \E code \in 0 .. Len(TelemetryTypes) : RequestTelemetry(code)

CommsNext ==
  \/ Samples \/ Emissions \/ Restarts
  \/ Ground \/ HandlePacket \/ GroundHears

CommsSpec == CommsInit /\ [][CommsNext]_comms
-----------------------------------------------------------------------------
(* What lsf_to_psf does not convert: it falls through with SF_5 and SF_6.  *)
Converted == IF called.what = "Link" /\ called.meant.spreading_factor < 7 THEN {"spreading_factor"} ELSE {}

(* A whole command does what the ground meant by it, with every field as   *)
(* it was packed, in the units of the lever; one the captain does not know *)
(* does nothing, and one whose end is missing does nothing. Two things are *)
(* not claimed here, for the code has them otherwise: the spreading factor *)
(* of a change to SF_5 or SF_6, and a servo motion whose end is missing    *)
(* (CutDoesNothing).                                                       *)
DoneAsMeant ==
  called # None =>
    IF ~called.whole THEN called.what # "MoveServo" => called.done = "nothing"
    ELSE IF called.what \in Unhandled THEN called.done = "nothing"
    ELSE /\ called.done = called.what /\ DOMAIN called.args = DOMAIN called.meant
         /\ \A f \in DOMAIN called.meant \ Converted : called.args[f] = called.meant[f]

(* A command whose end is missing does nothing: every body is as long as   *)
(* its SIZEOF_PACKED constant, and the unpack functions ask for that.      *)
CutDoesNothing == called # None /\ ~called.whole => called.done = "nothing"

(* The fields that are claimed to be so are so. next_image_id is the id of *)
(* the last picture in the code and of the next one in common.h: either is *)
(* a true answer.                                                          *)
Agrees(kinds) ==
  heard # None /\ heard.cmd \in kinds =>
    /\ heard.res = "AllGood"
    /\ \A f \in DOMAIN heard.truth :
         \/ heard.data[f] = heard.truth[f]
         \/ f = "next_image_id" /\ heard.data[f] = heard.truth[f] + 1

Heartbeat(typ) == heard # None /\ heard.cmd = "TelemetryRequest" /\ heard.res = "AllGood" /\ heard.typ = typ

(* What the ground reads in a heartbeat, a picture's metadata, a block or  *)
(* an acknowledge is what was so when it was sent, as the history tells    *)
(* it. In a heartbeat that is the phase, the status bits, the position of  *)
(* the last fix, the seconds since boost while the clock goes on, the      *)
(* angles, the bus voltage and the pictures so far; after a start or a     *)
(* change of state too. Not the constants of the code, and not the two     *)
(* accelerations of the landed heartbeat, which no line sets.              *)
HeardIsSo ==
  /\ Agrees({"Link", "Image", "ImageMetadata"})
  /\ Heartbeat("FlightHeartbeat") \/ Heartbeat("LandedHeartbeat") => Agrees({"TelemetryRequest"})
=============================================================================
