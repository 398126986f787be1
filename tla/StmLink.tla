------------------------------- MODULE StmLink -------------------------------
(***************************************************************************)
(* The STM bridge over its SPI link. Every callback of the bridge is one   *)
(* step that makes a few transfers of eight bytes; a transfer may fail,    *)
(* and all the code does with a failed one is to drop it. B is the bridge  *)
(* of StmBridge with its stm read as told, what the bridge last told the   *)
(* board: the steps here are its steps and what happens on the wire.       *)
(*                                                                         *)
(* The firmware is not in the repository. The bridge relies on this: each  *)
(* reply carries the state of the board; a reply is the status unless the  *)
(* transfer before it asked for something else; start and stop commands    *)
(* take effect at once; the arm's position is lost by a reset and is what  *)
(* it was last set to be, moved by the motions since.                      *)
(***************************************************************************)
EXTENDS Integers, FiniteSets

CONSTANTS
  Clients,     \* the goals that may ask for a motion
  Servos,      \* the servo ids they ask for
  Places,      \* the places of the arm, 0 where a reset board thinks it is, are 0..Places-1
  ImuEvery,    \* polls per round of link IMU reads (imu_every)
  SaveEvery,   \* polls per save of the arm's pose (save_every)
  MaxFaults    \* bound on lost transfers, dead reset lines and reboots of the board

ASSUME LinkAssumption ==
  /\ "none" \notin Clients /\ Servos \subseteq {"servo1", "servo2", "servo3", "servo_unknown"}
  /\ Places \in Nat \ {0} /\ MaxFaults \in Nat
  /\ ImuEvery \in Nat \ 0..2 /\ SaveEvery \in Nat \ {0} /\ ImuEvery % SaveEvery = 0

VARIABLES
  mode, handle, clock,  \* as in StmBridge
  told,     \* the motion the bridge last told the board to make
  board,    \* the actuator board (external)
  arm,      \* where the arm really is (external)
  beat,     \* counter, modulo ImuEvery
  disk,     \* the pose in flight_dir/last_arm, no element when it is not four bytes long
  tale      \* history of the run, for the properties

B == INSTANCE StmBridge WITH stm <- told

bridge == <<mode, handle, clock, told>>
link == <<bridge, board, arm, beat, disk, tale>>

Pose == 0 .. Places - 1
Replies == {"status", "link1", "link2"}
Boards == [doing : B!StmStates, reply : Replies, booted : BOOLEAN,
           pose : Pose, target : Pose, failed : BOOLEAN]
Tales == [faults : 0..MaxFaults, spoilt : Nat, lies : Nat, deaf : BOOLEAN,
          motion : {"unfed", "due", "made"}, place : {"lost", "moved", "kept"}]

LinkTypeOK ==
  /\ B!BridgeTypeOK
  /\ board \in Boards /\ arm \in Pose
  /\ beat \in 0 .. ImuEvery - 1
  /\ disk \in SUBSET Pose
  /\ tale \in Tales

Reset == [doing |-> "chilling", reply |-> "status", booted |-> TRUE,
          pose |-> 0, target |-> 0, failed |-> FALSE]

LinkInit ==
  /\ B!BridgeInit
  /\ board = Reset /\ arm = 0 /\ beat = 0
  /\ disk = {}
  /\ tale = [faults |-> 0, spoilt |-> 0, lies |-> 0, deaf |-> FALSE,
             motion |-> "due", place |-> "moved"]
-----------------------------------------------------------------------------
(* One transfer: the board takes the command, and the reply it had ready   *)
(* is gone. A transfer that fails does neither.                            *)
Heard(b, heard, change) == IF heard THEN [change EXCEPT !.reply = "status"] ELSE b

Move(b, motion, heard) ==
  Heard(b, heard, [b EXCEPT !.doing = motion,
                            !.failed = IF motion = "arm" THEN FALSE ELSE @])

(* R_ commands: the ask prepares the reply that the listen brings back.    *)
AskUnheardToo(b, what, failed) == [b EXCEPT !.reply = what]    \* faulty: asks, never listens

AskListen(b, what, failed) ==
  IF "listen" \notin failed THEN [b EXCEPT !.reply = "status"]
  ELSE IF "ask" \notin failed THEN [b EXCEPT !.reply = what] ELSE b

(* What the listen decodes, whatever it is: its kind is not checked.       *)
Listened(b, what, failed) == IF "ask" \in failed THEN b.reply ELSE what

(* The transfers of a step that fail: at most the ones it makes.           *)
Fails(failed, made) ==
  failed \subseteq made /\ tale.faults + Cardinality(failed) <= MaxFaults

Blamed(failed) == [tale EXCEPT !.faults = @ + Cardinality(failed)]
-----------------------------------------------------------------------------
(* The arm's place: known to the board, and to the disk when "kept".       *)
After(place) == IF place = "lost" THEN "lost" ELSE "moved"
Seen(place) == IF place = "lost" THEN "lost" ELSE "kept"
Kept(place) == IF place = "kept" THEN "kept" ELSE "lost"

(* The goal callbacks: write the parameters, then start.                   *)
FlipGoal(c, servo, failed) ==
  /\ Fails(failed, {"write", "start"})
  /\ B!AcceptFlip(c, servo)
  /\ board' = Move(Heard(board, "write" \notin failed, board), B!Known(servo), "start" \notin failed)
  /\ tale' = [Blamed(failed) EXCEPT !.motion = IF "write" \in failed THEN "unfed" ELSE "due",
                                    !.deaf = "start" \in failed]
  /\ UNCHANGED <<arm, beat, disk>>

ArmGoal(c, target, failed) ==
  LET polled == Heard(board, "poll" \notin failed, board)
  IN /\ Fails(failed, {"poll", "write", "start"})
     /\ B!AcceptArm(c)
     /\ board' = Move(Heard(polled, "write" \notin failed, [polled EXCEPT !.target = target]),
                      "arm", "start" \notin failed)
     /\ tale' = [Blamed(failed) EXCEPT !.motion = IF "write" \in failed THEN "unfed" ELSE "due",
                                       !.deaf = "start" \in failed]
     /\ UNCHANGED <<arm, beat, disk>>

(* Faulty: the release only forgets the hold.                              *)
HoldNeverStops(shouldHold, failed) ==
  /\ Fails(failed, {"start"})
  /\ B!HoldShut(shouldHold)
  /\ board' = IF mode' = "holding" THEN Move(board, "holding", "start" \notin failed) ELSE board
  /\ tale' = Blamed(failed)
  /\ UNCHANGED <<arm, beat, disk>>

Hold(shouldHold, failed) ==
  LET moves == mode' # mode
  IN /\ B!HoldShut(shouldHold)
     /\ Fails(failed, IF moves THEN {"start"} ELSE {})
     /\ board' = IF moves THEN Move(board, told', failed = {}) ELSE board
     /\ tale' = [Blamed(failed) EXCEPT !.deaf = IF moves THEN failed # {} ELSE @]
     /\ UNCHANGED <<arm, beat, disk>>

Jog(failed) ==
  /\ mode = "idle"
  /\ Fails(failed, {"write", "start"})
  /\ B!JogMotor
  /\ board' = Move(Heard(board, "write" \notin failed, board), "jogging", "start" \notin failed)
  /\ tale' = [Blamed(failed) EXCEPT !.deaf = "start" \in failed]
  /\ UNCHANGED <<arm, beat, disk>>

ZeroArm(place, failed) ==
  /\ mode = "idle"
  /\ Fails(failed, {"pose"})
  /\ board' = Heard(board, failed = {}, [board EXCEPT !.pose = place])
  /\ tale' = [Blamed(failed) EXCEPT !.place = IF failed # {} THEN After(@)
                                            ELSE IF place = arm THEN "moved" ELSE "lost"]
  /\ UNCHANGED <<bridge, arm, beat, disk>>
-----------------------------------------------------------------------------
(* A process that starts pulls the reset line, then tells the board where  *)
(* the last process saw the arm. Neither is known to have worked.          *)
BootsUntold(failed) == IF "reset" \in failed THEN board ELSE Reset    \* faulty: no setPoseEst

Boots(failed) ==
  LET b == IF "reset" \in failed THEN board ELSE Reset
  IN IF disk = {} THEN b
     ELSE Heard(b, "pose" \notin failed, [b EXCEPT !.pose = CHOOSE p \in disk : TRUE])

BridgeStarts(failed) ==
  /\ Fails(failed, IF disk = {} THEN {"reset"} ELSE {"reset", "pose"})
  /\ B!BridgeRestart
  /\ board' = Boots(failed) /\ beat' = 0
  /\ tale' = [Blamed(failed) EXCEPT !.place = IF "pose" \in failed THEN "lost" ELSE Kept(@),
                                    !.deaf = "reset" \in failed]
  /\ UNCHANGED <<arm, disk>>

NextBeat == (beat + 1) % ImuEvery
Saves(n) == n % SaveEvery = 0

(* The save truncates the file before it writes: a crash in between.       *)
CrashInSave ==
  /\ Saves(NextBeat)
  /\ B!BridgeRestart
  /\ board' = Reset /\ beat' = 0
  /\ disk' = {}
  /\ tale' = [tale EXCEPT !.place = "lost", !.deaf = FALSE]
  /\ UNCHANGED arm
-----------------------------------------------------------------------------
(* What the poll decodes as a status: an empty optional gives anything, a  *)
(* reply of another kind gives a pose that is none.                        *)
Genuine(failed) == "poll" \notin failed /\ board.reply = "status"

Decoded(failed) ==
  [state  : IF "poll" \in failed THEN B!StmStates ELSE {board.doing},
   failed : IF "poll" \in failed THEN BOOLEAN ELSE {board.failed},
   pose   : IF Genuine(failed) THEN {board.pose} ELSE Pose]

(* num_fails starts from 0 on each poll, so attemptRestart is never called.*)
NumFails(failed) == IF "poll" \in failed \/ ~board.booted THEN 1 ELSE 0
Restarts(failed) == NumFails(failed) > 10
AttemptRestart(place) == [Reset EXCEPT !.pose = place]

Asked(n) == IF n = 1 THEN {"link1"} ELSE IF n = 2 THEN {"link2"} ELSE {}
Made(n) == {"poll"} \cup IF Asked(n) = {} THEN {} ELSE {"ask", "listen"}

(* onStatusTimer up to the tick: poll the status, read the IMU of a link   *)
(* now and then, save the pose now and then. It leaves the board as read.  *)
Polled(failed) == Heard(board, "poll" \notin failed, board)
Read(failed) ==
  IF Asked(beat') = {} THEN Polled(failed)
  ELSE AskListen(Polled(failed), CHOOSE w \in Asked(beat') : TRUE, failed)

Polls(status, failed) ==
  /\ beat' = NextBeat
  /\ disk' = IF Saves(beat') THEN {status.pose} ELSE disk
  /\ UNCHANGED arm

(* The history: which statuses and IMU readings were not what they are     *)
(* taken for, and whether the saved pose is one.                           *)
Misread(failed) ==
  \E what \in Asked(beat') :
    "listen" \notin failed /\ Listened(Polled(failed), what, failed) # what

Wrong(failed) == (IF Misread(failed) THEN 1 ELSE 0) + (IF Genuine(failed) THEN 0 ELSE 1)

Judged(failed) ==
  [Blamed(failed) EXCEPT
     !.spoilt = @ + Wrong(failed),
     !.place = IF ~Saves(beat') THEN @ ELSE IF Genuine(failed) THEN Seen(@) ELSE "lost"]

(* Faulty: success does not ask for overtime.                              *)
SucceedsLate(status) == mode = "arm" => ~status.failed

Succeeds(status) == clock # "overtime" /\ (mode = "arm" => ~status.failed)

PollFinishes(status, failed) ==
  /\ Polls(status, failed) /\ Fails(failed, Made(beat'))
  /\ B!TickFinishes(status.state)
  /\ board' = Read(failed)
  /\ tale' = [Judged(failed) EXCEPT
                !.lies = IF Succeeds(status) /\ tale.motion # "made" THEN @ + 1 ELSE @]

PollCancels(status, failed) ==
  /\ Polls(status, failed) /\ Fails(failed, Made(beat') \cup {"stop"})
  /\ B!TickCancels(status.state)
  /\ board' = Move(Read(failed), "chilling", "stop" \notin failed)
  /\ tale' = [Judged(failed) EXCEPT !.deaf = "stop" \in failed]

PollWaits(status, failed) ==
  /\ Polls(status, failed) /\ Fails(failed, Made(beat'))
  /\ ~B!Working \/ (handle[B!Server] # "none" /\ ~B!Over(status.state))
  /\ board' = Read(failed) /\ tale' = Judged(failed)
  /\ UNCHANGED bridge

Poll ==
  \E failed \in SUBSET (Made(NextBeat) \cup {"stop"}) :
    /\ tale.faults + Cardinality(failed) <= MaxFaults
    /\ \E status \in Decoded(failed) :
         IF Restarts(failed)
         THEN /\ board' = AttemptRestart(status.pose)
              /\ UNCHANGED <<bridge, arm, beat, disk, tale>>
         ELSE PollFinishes(status, failed) \/ PollCancels(status, failed) \/ PollWaits(status, failed)
-----------------------------------------------------------------------------
(* The world: time, the motions of the board, and its reboots.             *)
TimePasses == B!TimePasses /\ UNCHANGED <<board, arm, beat, disk, tale>>

ArmMoves ==
  /\ board.doing = "arm" /\ board.pose # board.target
  /\ arm' = (arm + board.target - board.pose) % Places
  /\ board' = [board EXCEPT !.pose = board.target]
  /\ tale' = [tale EXCEPT !.place = After(@)]
  /\ UNCHANGED <<bridge, beat, disk>>

MotionEnds(stalls) ==
  /\ board.doing \in B!Motions \cup {"jogging"}
  /\ stalls => board.doing = "arm"
  /\ board.doing = "arm" /\ ~stalls => board.pose = board.target
  /\ board' = [board EXCEPT !.doing = "chilling", !.failed = stalls]
  /\ tale' = [tale EXCEPT !.motion = IF @ = "due" /\ ~stalls /\ board.doing = told THEN "made" ELSE @]
  /\ UNCHANGED <<bridge, arm, beat, disk>>

Reboots ==
  /\ tale.faults < MaxFaults
  /\ board' = [Reset EXCEPT !.booted = FALSE]
  /\ tale' = [tale EXCEPT !.faults = @ + 1, !.place = "lost"]
  /\ UNCHANGED <<bridge, arm, beat, disk>>

Booted ==
  /\ ~board.booted /\ board' = [board EXCEPT !.booted = TRUE]
  /\ UNCHANGED <<bridge, arm, beat, disk, tale>>

LinkNext ==
  \/ \E c \in Clients \ {handle.flip, handle.arm}, failed \in SUBSET {"poll", "write", "start"} :
        \/ \E servo \in Servos : FlipGoal(c, servo, failed)
        \/ \E target \in Pose : ArmGoal(c, target, failed)
  \/ \E shouldHold \in BOOLEAN, failed \in SUBSET {"start"} : Hold(shouldHold, failed)
  \/ \E failed \in SUBSET {"write", "start"} : Jog(failed)
  \/ \E place \in Pose, failed \in SUBSET {"pose"} : ZeroArm(place, failed)
  \/ \E failed \in SUBSET {"reset", "pose"} : BridgeStarts(failed)
  \/ CrashInSave
  \/ Poll
  \/ TimePasses
  \/ ArmMoves
  \/ \E stalls \in BOOLEAN : MotionEnds(stalls)
  \/ Reboots
  \/ Booted

(* Time passes, and the status timer polls a motion that is over its time. *)
(* Nothing is owed by the board.                                           *)
LinkSpec ==
  /\ LinkInit /\ [][LinkNext]_link
  /\ WF_link(B!Working /\ B!Overtime /\ Poll) /\ WF_link(TimePasses)

(* The status timer polls for ever.                                        *)
PolledSpec == LinkSpec /\ WF_link(Poll)
-----------------------------------------------------------------------------
(* "Was in servo mode but servo action goal handle was null!!" is never    *)
(* logged, and no accepted arm goal is left behind by the next motion,     *)
(* whatever the link loses.                                                *)
MotionsHaveGoals == B!MotionHasGoal /\ B!ArmGoalKept

(* The board moves or holds only what the bridge last told it to: a motion *)
(* that outlives its stop, a hold above all, takes a command that the link *)
(* lost, or a reset line that did not work.                                *)
BoardObeys == board.doing \notin {"chilling", told} => tale.deaf

(* A reply is taken for one of another kind at most once for each fault:   *)
(* no lost transfer shifts the replies for good.                           *)
Owed == IF board.reply = "status" THEN 0 ELSE 1
SpoiltByFaults == tale.spoilt + Owed <= tale.faults

(* A goal is reported as a success without its motion having been made at  *)
(* most once for each fault: the 30 ms without a status and the goals that *)
(* follow one another make no other false success.                         *)
SuccessIsTrue == tale.lies <= tale.faults

(* The board knows where the arm is, and the file too once it is saved,    *)
(* across crashes of the bridge, until a reboot of the board, a crash in   *)
(* the save, a transfer of the pose that is lost, or a crash between a     *)
(* move and its save.                                                      *)
PoseIsKept ==
  /\ tale.place # "lost" => board.pose = arm
  /\ tale.place = "kept" => disk = {arm}

(* The board's motions all end for the bridge, which is then free again.   *)
MotionsEnd == B!Working ~> mode = "idle"

(* "hard reset": a board that does not answer is reset by the bridge.      *)
SilentBoardIsReset == ~board.booted ~> board.booted
=============================================================================
