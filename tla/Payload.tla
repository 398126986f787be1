------------------------------- MODULE Payload -------------------------------
(***************************************************************************)
(* The captain and the STM bridge together: every goal the captain sends   *)
(* is answered by the bridge's own rule, one motion at a time, and every   *)
(* hold_shut request meets the bridge's mode of the moment.                *)
(***************************************************************************)
EXTENDS Captain

(* The ids of goals, not to be taken for no goal or for an orphan.         *)
ASSUME PayloadAssumption == {"none", "orphan"} \cap GoalIds = {}

VARIABLES
  mode, handle, clock, stm,   \* the bridge
  swung,  \* doors moved since Flipping was entered (history)
  missed  \* and those whose flip was refused ahead of the release (history)

(* "orphan" is a goal whose client, a captain that crashed, is gone.       *)
B == INSTANCE StmBridge WITH Clients <- GoalIds \cup {"orphan"}

bridgeVars == <<mode, handle, clock, stm>>
tale == <<swung, missed>>
pvars == <<vars, bridgeVars, tale>>

PayloadInit == Init /\ B!BridgeInit /\ swung = {} /\ missed = {}

PayloadTypeOK ==
  TypeOK /\ B!BridgeTypeOK /\ swung \in SUBSET Doors /\ missed \in SUBSET Doors
-----------------------------------------------------------------------------
EntersFlipping == phase' = "Flipping" /\ (phase # "Flipping" \/ ~up)

CaptainStep(A) ==
  /\ A
  /\ IF EntersFlipping THEN swung' = {} /\ missed' = {} ELSE UNCHANGED tale
  /\ UNCHANGED bridgeVars

(* A flip goal with an unknown servo id leaves the bridge idle and its     *)
(* handle in place: the next flip goal overwrites the handle, which ends   *)
(* the old goal (its last handle is dropped).                              *)
AcceptsFlip(g) ==
  /\ goals[g].target \in Servos
  /\ B!AcceptFlip(g, goals[g].target)
  /\ goals' = [h \in GoalIds |->
                 IF h = g THEN [goals[h] EXCEPT !.stage = "running"]
                 ELSE IF h = handle.flip THEN [goals[h] EXCEPT !.stage = "finished"]
                 ELSE goals[h]]
  /\ swung' = swung \cup {B!Known(goals[g].target)}
  /\ UNCHANGED missed
  /\ UNCHANGED <<up, machine, boosted, opened, pathIndex, sideAttempts,
                 armKnown, attempts, flags, threads>>

(* A goal that arrives while the doors are held and the release is still   *)
(* under way: the two come by different channels, in either order.         *)
Overtakes == mode = "holding" /\ holdReqs # <<>>

Refuses(g) ==
  /\ RejectGoal(g) /\ B!Reject
  /\ missed' = IF Overtakes THEN missed \cup ({goals[g].target} \cap Doors) ELSE missed
  /\ UNCHANGED swung

(* handle_flip_goal, handle_arm_goal and what follows an acceptance: the   *)
(* mode of the moment decides, whatever request still waits.               *)
AnswersGoal(g) ==
  /\ goals[g].stage = "sent"
  /\ \/ AcceptsFlip(g)
     \/ /\ goals[g].target \notin Servos
        /\ AcceptGoal(g) /\ B!AcceptArm(g)
        /\ UNCHANGED tale
     \/ Refuses(g)

ServesHold ==
  /\ TakeHold /\ B!HoldShut(Head(holdReqs))
  /\ UNCHANGED tale

(* The result of a motion reaches the captain if it still is its client.   *)
SettlesGoal(seen) ==
  /\ B!TickFinishes(seen)
  /\ LET g == handle[B!Server] IN
     IF g \in GoalIds THEN FinishGoal(g) ELSE UNCHANGED vars
  /\ UNCHANGED tale

BridgeClock == (B!TimePasses \/ B!MotionEnds) /\ UNCHANGED <<vars, tale>>

Jogs == B!JogMotor /\ UNCHANGED <<vars, tale>>
-----------------------------------------------------------------------------
Orphaned(c) == IF c \in GoalIds THEN "orphan" ELSE c

(* The bridge goes on with the goal of a captain that is gone.             *)
CaptainCrash ==
  /\ Failure
  /\ handle' = [s \in {"flip", "arm"} |-> Orphaned(handle[s])]
  /\ UNCHANGED <<mode, clock, stm, tale>>

(* A new bridge resets the board and knows nothing of the goals and the    *)
(* requests it had or missed; nobody tells the captain.                    *)
BridgeCrash ==
  /\ B!BridgeRestart
  /\ goals' = [g \in GoalIds |->
                 IF goals[g].stage \in {"sent", "running"} THEN NoGoal ELSE goals[g]]
  /\ holdReqs' = <<>>
  /\ UNCHANGED <<up, phase, lastState, flightTimer, heartbeat, runcam, takeoff,
                 holdAsked, boosted, opened, pathIndex, sideAttempts,
                 armKnown, attempts, flags, threads, tale>>

StackRestart == RestartSystem /\ B!BridgeRestart /\ UNCHANGED tale

BridgeStep ==
  \/ \E g \in GoalIds : AnswersGoal(g)
  \/ ServesHold
  \/ \E seen \in B!StmStates : SettlesGoal(seen)
  \/ BridgeClock

NominalNext == CaptainStep(Autonomous) \/ BridgeStep

PayloadNext ==
  \/ NominalNext
  \/ CaptainStep(Ground)
  \/ Jogs
  \/ StackRestart
  \/ CaptainCrash
  \/ BridgeCrash

PayloadSpec == PayloadInit /\ [][PayloadNext]_pvars
-----------------------------------------------------------------------------
(* What the captain believes of its goals is what the bridge does: a goal  *)
(* is running at the captain exactly while the bridge keeps its handle.    *)
GoalsAgree ==
  \A g \in GoalIds :
    goals[g].stage = "running" <=> g \in {handle.flip, handle.arm}

(* In flight the doors are held once the request has arrived, and they are *)
(* free outside of flight once the release has.                            *)
HeldInFlight ==
  up /\ holdReqs = <<>> => (phase = "Flight" <=> mode = "holding")

(* No crash of the captain or of the bridge, at any point of a change of  *)
(* state, leaves the doors held shut once the captain is out of Flight.    *)
NeverStuckHeld ==
  up /\ holdReqs = <<>> /\ phase # "Flight" => mode # "holding"

(* "Got good and am upright, checking that all doors are open": the arm is *)
(* unfolded only after every door has been swung in this round of flips    *)
(* (unless the ground says otherwise).                                     *)
DoorsSwungBeforeUnfolding ==
  [][phase = "Flipping" /\ phase' = "Unfolding" => swung = Doors \/ Ground]_pvars
=============================================================================
