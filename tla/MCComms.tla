------------------------------ MODULE MCComms -------------------------------
(* Small values for Comms, at the edges of what their fields hold. *)
EXTENDS Comms, TLC

MCGpsSamples ==
  { [fix_type |-> 1, latitude |-> 258, longitude |-> 772, altitude_m |-> 300],
    [fix_type |-> 1, latitude |-> 1080, longitude |-> 9, altitude_m |-> -5],
    [fix_type |-> 0, latitude |-> 0, longitude |-> 0, altitude_m |-> 0] }
MCMilliVolts == {12300, 40000}
MCArmStatuses ==
  { [yaw |-> 1, pitch |-> 2, elbow |-> 3, wrist |-> 4,
     motor_en |-> 1, flip_servo_en |-> 0, cant_trust |-> 1, booted |-> 1] }
MCAccels == { <<32767, 0, 1>> }

MCTransforms ==
  { [left |-> 1, right |-> 258, top |-> 3, bottom |-> 1024, output_width |-> 8191, quality |-> 6],
    [left |-> 0, right |-> 65535, top |-> 0, bottom |-> 7, output_width |-> 8192 + 5, quality |-> 9] }
MCTarget == [shoulder_yaw |-> 1, shoulder_pitch |-> 2, elbow_pitch |-> 3, wrist_pitch |-> 255]
MCShots ==
  { [image_id |-> 1, timestamp |-> 16909060, num_blocks |-> 300, latitude |-> 258, longitude |-> 772]
      @@ MCTarget @@ [t EXCEPT !.quality = 5, !.output_width = 515] : t \in MCTransforms }

MCPhases == {"Preboost", "Flight", "Unfolding", "Emergency"}
MCTimes == {3, 70000}

MCArguments ==
  [cmd \in {"SendArmTarget", "SendArmTargetAndComeBack", "SendArmTargetForPhotoAndComeBack",
            "SendIdlePosition", "SetShoulder"} |-> {MCTarget}] @@
  "TakePicture" :> MCTransforms @@ "StartVideo" :> {[seconds |-> 9]} @@
  "ImageMetadata" :> {[image_id |-> 1], [image_id |-> 2]} @@
  "ReCrop" :> MCTransforms @@ "Callsign" :> {[callsign_head |-> 258, callsign_tail |-> 772]} @@
  "JogMotor" :> {[motor_id |-> 1, duration_ticks |-> 255, millivolts |-> 64000]} @@
  "MoveServo" :> {[openness |-> 1, open_travel_time |-> 2, open_time |-> 3, close_travel_time |-> 4,
                   closeness |-> 5, which_servo |-> 6]} @@
  "TelemetryRequest" :> {[telem_type |-> n] : n \in {0, 1, 8}} @@
  [cmd \in {Commands[i] : i \in DOMAIN Commands} |-> {[none |-> 0]}]

Numbered(n) == [i \in 1..n |-> 255 + i]
MCRequests == { [image_id |-> 1, num |-> n, block_ids |-> Numbered(n)] : n \in {0, 2, 61} }
MCOnDisk == {<<1, 257>>, <<1, 316>>, <<0, 3>>}
MCLinkChanges ==
  { [num_test_packets |-> 3, dbm |-> 246, freq |-> 425450000, sf |-> sf, bw |-> 2, cr |-> 3] : sf \in {0, 2, 7} }
MCStrays == {90}
=============================================================================
