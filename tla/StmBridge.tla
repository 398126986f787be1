------------------------------ MODULE StmBridge ------------------------------
(***************************************************************************)
(* The STM bridge node: one motion of the actuator board at a time.        *)
(*                                                                         *)
(* Its services, action servers and status timer all run on one executor,  *)
(* so each is one step. The firmware of the board is not in the            *)
(* repository: stm says only what the bridge relies on, that a start       *)
(* command starts a motion, a stop command ends it, and a motion that is   *)
(* not a hold ends by itself.                                              *)
(***************************************************************************)
EXTENDS Naturals

CONSTANT Clients    \* the goals that may ask for a motion

Doors == {"servo1", "servo2", "servo3"}
(* A servo id beyond the three known ones may come from a radio packet.    *)
ServoIds == Doors \cup {"servo_unknown"}
Motions == Doors \cup {"arm"}
StmStates == Motions \cup {"chilling", "holding", "jogging"}

VARIABLES
  mode,    \* active_mode: "idle", "holding" or the motion under way
  handle,  \* the goal whose handle the bridge keeps, or "none"
  clock,   \* where now() stands against the goal's show-progress and timeout times
  stm      \* what the board is doing (external)

bridge == <<mode, handle, clock, stm>>

BridgeTypeOK ==
  /\ mode \in Motions \cup {"idle", "holding"}
  /\ handle \in [flip : Clients \cup {"none"}, arm : Clients \cup {"none"}]
  /\ clock \in {"grace", "running", "overtime"}
  /\ stm \in StmStates

(* A new bridge process resets the board before it does anything else.     *)
BridgeInit ==
  /\ mode = "idle" /\ stm = "chilling" /\ clock = "overtime"
  /\ handle = [flip |-> "none", arm |-> "none"]

BridgeRestart ==
  /\ mode' = "idle" /\ stm' = "chilling" /\ clock' = "overtime"
  /\ handle' = [flip |-> "none", arm |-> "none"]
-----------------------------------------------------------------------------
Reject == mode # "idle" /\ UNCHANGED bridge

(* rosToStm sends an unknown servo id to servo 1, servoToMode to Idle.     *)
Known(servo) == IF servo \in Doors THEN servo ELSE "servo1"

AcceptFlip(c, servo) ==
  /\ mode = "idle"
  /\ mode' = IF servo \in Doors THEN servo ELSE "idle"
  /\ handle' = [handle EXCEPT !.flip = c]
  /\ clock' = "grace"
  /\ stm' = Known(servo)

AcceptArm(c) ==
  /\ mode = "idle"
  /\ mode' = "arm"
  /\ handle' = [handle EXCEPT !.arm = c]
  /\ clock' = "grace"
  /\ stm' = "arm"

HoldShut(shouldHold) ==
  /\ IF shouldHold /\ mode = "idle" THEN mode' = "holding" /\ stm' = "holding"
     ELSE IF ~shouldHold /\ mode = "holding"
     THEN mode' = "idle" /\ stm' = "chilling"
     ELSE UNCHANGED <<mode, stm>>
  /\ UNCHANGED <<handle, clock>>

JogMotor ==
  /\ stm' = IF mode = "idle" THEN "jogging" ELSE stm
  /\ UNCHANGED <<mode, handle, clock>>
-----------------------------------------------------------------------------
(* The handle a tick of the current motion works on.                       *)
Server == IF mode = "arm" THEN "arm" ELSE "flip"
Working == mode \in Motions

DroppedFlip == [handle EXCEPT !.flip = "none"]    \* faulty: the arm's stays

Dropped == [handle EXCEPT ![Server] = "none"]

OvertimeNever == FALSE     \* faulty: no timeout

Overtime == clock = "overtime"

Over(seen) == Overtime \/ (clock # "grace" /\ seen # mode)

(* A poll that finds the motion over, or overtime, or no goal to report to:*)
(* tickServo and tickArm settle the goal. The board is not told to stop.   *)
TickFinishes(seen) ==
  /\ Working
  /\ handle[Server] = "none" \/ Over(seen)
  /\ mode' = "idle" /\ handle' = Dropped
  /\ UNCHANGED <<clock, stm>>

(* A cancel request is honoured by a later poll that finds the motion not  *)
(* over: it stops the board.                                               *)
TickCancels(seen) ==
  /\ Working /\ handle[Server] # "none"
  /\ ~Over(seen)
  /\ mode' = "idle" /\ handle' = Dropped
  /\ stm' = "chilling"
  /\ UNCHANGED clock

TimePasses ==
  /\ Working
  /\ clock # "overtime"
  /\ \/ clock = "grace" /\ clock' = "running"
     \/ clock' = "overtime"
  /\ UNCHANGED <<mode, handle, stm>>

MotionEnds ==
  /\ stm \in Motions \cup {"jogging"}
  /\ stm' = "chilling"
  /\ UNCHANGED <<mode, handle, clock>>
-----------------------------------------------------------------------------
(* The bridge with any clients: new goals, requests, cancels and restarts  *)
(* at any time. A poll may read garbage when the SPI transfer fails (the   *)
(* empty status is dereferenced).                                          *)
BridgeNext ==
  \/ \E c \in Clients \ {"none", handle.flip, handle.arm} :
        AcceptArm(c) \/ \E servo \in ServoIds : AcceptFlip(c, servo)
  \/ \E shouldHold \in BOOLEAN : HoldShut(shouldHold)
  \/ JogMotor
  \/ \E seen \in StmStates : TickFinishes(seen)
  \/ \E seen \in StmStates : TickCancels(seen)
  \/ TimePasses
  \/ MotionEnds
  \/ BridgeRestart

(* The status timer polls at 50 Hz and time passes; nothing else is owed:  *)
(* the board may never report a motion as over.                            *)
BridgeSpec ==
  /\ BridgeInit /\ [][BridgeNext]_bridge
  /\ WF_bridge(TickFinishes(stm)) /\ WF_bridge(TimePasses)
-----------------------------------------------------------------------------
(* "Was in servo mode but servo action goal handle was null!!" is never    *)
(* logged: a motion mode always has the goal it works for.                 *)
MotionHasGoal == Working => handle[Server] # "none"

(* The board holds the doors shut only while the bridge knows it does, so  *)
(* a release request is never answered "already there" over a live hold.   *)
HoldIsKnown == stm = "holding" => mode = "holding"

(* An accepted arm goal is never left behind by the bridge's next motion.  *)
ArmGoalKept == handle.arm # "none" => mode = "arm"
=============================================================================
