------------------------------ MODULE MCCaptain ------------------------------
(***************************************************************************)
(* The captain with a budget of ground commands and of failures: bounds of *)
(* the model.                                                              *)
(***************************************************************************)
EXTENDS Captain, TLC

CONSTANTS MaxGround, MaxFailures

VARIABLES grounds, failures

ShortPaths == [Unfolding |-> 2, AutoCamera |-> 2]
Slots == Permutations(GoalIds) \cup Permutations(ThreadIds)

MCInit == Init /\ grounds = 0 /\ failures = 0

MCNext ==
  \/ (Autonomous \/ Bridge) /\ UNCHANGED <<grounds, failures>>
  \/ /\ grounds < MaxGround /\ grounds' = grounds + 1
     /\ Ground \/ RestartSystem
     /\ UNCHANGED failures
  \/ /\ failures < MaxFailures /\ failures' = failures + 1
     /\ Failure
     /\ UNCHANGED grounds

MCSpec == MCInit /\ [][MCNext]_<<vars, grounds, failures>>
=============================================================================
