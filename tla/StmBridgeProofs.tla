---------------------------- MODULE StmBridgeProofs ----------------------------
(***************************************************************************)
(* Theorems about the STM bridge, for any set of clients. The invariant is *)
(* the conjunction of the type invariant and the three properties: a       *)
(* motion mode is only ever entered from idle, where the other two say     *)
(* that nothing of a former motion is left.                                *)
(***************************************************************************)
EXTENDS StmBridge, TLAPS

BridgeInv == BridgeTypeOK /\ MotionHasGoal /\ HoldIsKnown /\ ArmGoalKept

(* The bridge starts with nothing to do and a board that was reset.        *)
LEMMA InitInv == BridgeInit => BridgeInv
BY DEF BridgeInit, BridgeInv, BridgeTypeOK, MotionHasGoal, HoldIsKnown,
   ArmGoalKept, Working, Motions, StmStates, Doors, Server

(* What Known makes of a servo id is a door.                               *)
LEMMA KnownIsDoor == ASSUME NEW servo \in ServoIds PROVE Known(servo) \in Doors
BY DEF Known, ServoIds, Doors

(* Writing a client or nothing into a slot of handle keeps its type.       *)
LEMMA HandleType ==
  ASSUME handle \in [flip : Clients \cup {"none"}, arm : Clients \cup {"none"}],
         NEW s \in {"flip", "arm"}, NEW c \in Clients \cup {"none"}
  PROVE  [handle EXCEPT ![s] = c] \in [flip : Clients \cup {"none"}, arm : Clients \cup {"none"}]
OBVIOUS

(* Each step of the bridge keeps the invariant.                            *)
LEMMA NextInv == BridgeInv /\ [BridgeNext]_bridge => BridgeInv'
<1> SUFFICES ASSUME BridgeInv, [BridgeNext]_bridge PROVE BridgeInv'
  OBVIOUS
<1> USE DEF BridgeInv, BridgeTypeOK, MotionHasGoal, HoldIsKnown, ArmGoalKept, Working,
        Motions, StmStates, Doors, Server
<1>1. ASSUME NEW c \in Clients \ {"none", handle.flip, handle.arm}, NEW servo \in ServoIds,
             AcceptFlip(c, servo)
      PROVE  BridgeInv'
  <2>1. Known(servo) \in Doors
    BY KnownIsDoor
  <2>2. handle' \in [flip : Clients \cup {"none"}, arm : Clients \cup {"none"}]
    BY <1>1, HandleType DEF AcceptFlip
  <2>3. handle'.flip = c /\ handle'.arm = "none" /\ c # "none"
    BY <1>1 DEF AcceptFlip
  <2> QED
    BY <1>1, <2>1, <2>2, <2>3 DEF AcceptFlip
<1>2. ASSUME NEW c \in Clients \ {"none", handle.flip, handle.arm}, AcceptArm(c)
      PROVE  BridgeInv'
  BY <1>2 DEF AcceptArm
<1>3. ASSUME NEW shouldHold \in BOOLEAN, HoldShut(shouldHold)
      PROVE  BridgeInv'
  BY <1>3 DEF HoldShut
<1>4. CASE JogMotor
  BY <1>4 DEF JogMotor
<1>5. ASSUME NEW seen \in StmStates, TickFinishes(seen)
      PROVE  BridgeInv'
  BY <1>5 DEF TickFinishes, Dropped
<1>6. ASSUME NEW seen \in StmStates, TickCancels(seen)
      PROVE  BridgeInv'
  BY <1>6 DEF TickCancels, Dropped
<1>7. CASE TimePasses
  BY <1>7 DEF TimePasses
<1>8. CASE MotionEnds
  BY <1>8 DEF MotionEnds
<1>9. CASE BridgeRestart
  BY <1>9 DEF BridgeRestart
<1>10. CASE UNCHANGED bridge
  BY <1>10 DEF bridge
<1> QED
  BY <1>1, <1>2, <1>3, <1>4, <1>5, <1>6, <1>7, <1>8, <1>9, <1>10 DEF BridgeNext

(* The invariant holds of every behaviour of the bridge.                   *)
THEOREM BridgeInvariant == BridgeSpec => []BridgeInv
BY InitInv, NextInv, PTL DEF BridgeSpec

(* Every field of the bridge keeps its type, whatever servo id a packet    *)
(* carries.                                                                *)
THEOREM BridgeTypes == BridgeSpec => []BridgeTypeOK
BY BridgeInvariant, PTL DEF BridgeInv

(* A motion mode always has the goal it works for: no tick ends a motion   *)
(* that nobody is told of.                                                 *)
THEOREM GoalOfMotion == BridgeSpec => []MotionHasGoal
BY BridgeInvariant, PTL DEF BridgeInv

(* A board that holds the doors is known to hold them, so that a release   *)
(* always reaches it.                                                      *)
THEOREM HoldKnown == BridgeSpec => []HoldIsKnown
BY BridgeInvariant, PTL DEF BridgeInv

(* An accepted arm goal is settled before the next motion starts.          *)
THEOREM ArmGoalSettled == BridgeSpec => []ArmGoalKept
BY BridgeInvariant, PTL DEF BridgeInv
=============================================================================
