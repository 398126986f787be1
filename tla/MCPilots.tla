------------------------------- MODULE MCPilots -------------------------------
(***************************************************************************)
(* The captain left to itself, and the captain flown by hand: a behaviour  *)
(* has one pilot.  Bounds of the model: paths shorter than the 4 and 12    *)
(* poses of the code, and a budget of hand commands, after which the       *)
(* ground is silent.                                                       *)
(***************************************************************************)
EXTENDS Captain

CONSTANT MaxGround

VARIABLES pilot, grounds

Paths == [Unfolding |-> 3, AutoCamera |-> 4]

MCInit == Init /\ grounds = 0 /\ pilot \in {"auto", "hand"}

HandCommand ==
  \/ RadioCommand("ForceManual", FALSE)
  \/ RequestStateChange("Emergency", FALSE)
  \/ \E move \in ManualMoves : ArmCommand(move)
  \/ \E servo \in Servos : MoveServo(servo)

HandNext ==
  \/ Boot
  \/ \E g \in GoalIds : GoalCallback(g) \/ LoseGoal(g)
  \/ \E t \in ThreadIds : ThreadStep(t)
  \/ BridgeAnswers

MCNext ==
  /\ UNCHANGED pilot
  /\ \/ pilot = "auto" /\ AutoNext /\ UNCHANGED grounds
     \/ pilot = "hand" /\ HandNext /\ UNCHANGED grounds
     \/ pilot = "hand" /\ grounds < MaxGround /\ grounds' = grounds + 1 /\ HandCommand

MCSpec == MCInit /\ [][MCNext]_<<vars, pilot, grounds>> /\ Fairness
-----------------------------------------------------------------------------
(* The autonomous experts keep one chain of goals: a goal is sent when the *)
(* one before was answered, and the pose a camera-wait thread is about to  *)
(* send is on the path, although the guard before the read lets path_index *)
(* = path.size() through and a thread sends without asking who else does.  *)
ChainInOrder == pilot = "auto" => OneGoalAtATime /\ PoseOnPath

(* The return to the transmit pose is the last move: once the ground is    *)
(* silent, the manual experts come to rest instead of sending the arm back *)
(* again and again (the return move itself ends in arm_result_cb, which    *)
(* shares its flags with every other move and every camera-wait thread).   *)
ManualSettles ==
  <>[](/\ \A g \in GoalIds : goals[g].owner \notin ManualStates
       /\ \A t \in ThreadIds : threads[t].of \notin ManualStates)
=============================================================================
