------------------------------ MODULE MCPayload ------------------------------
(***************************************************************************)
(* The payload with a budget of ground commands, of captain crashes and of *)
(* bridge crashes, ground commands only where nothing crashes: bounds of   *)
(* the model.                                                              *)
(***************************************************************************)
EXTENDS Payload, TLC

CONSTANTS MaxGround, MaxCaptain, MaxBridge

VARIABLES grounds, captains, bridges

budgets == <<grounds, captains, bridges>>

ShortPaths == [Unfolding |-> 2, AutoCamera |-> 2]
Slots == Permutations(GoalIds) \cup Permutations(ThreadIds)

MCInit == PayloadInit /\ grounds = 0 /\ captains = 0 /\ bridges = 0

MCNext ==
  \/ NominalNext /\ UNCHANGED budgets
  \/ /\ captains + bridges = 0 /\ grounds < MaxGround /\ grounds' = grounds + 1
     /\ CaptainStep(Ground) \/ Jogs \/ StackRestart
     /\ UNCHANGED <<captains, bridges>>
  \/ /\ grounds = 0 /\ captains < MaxCaptain /\ captains' = captains + 1
     /\ CaptainCrash
     /\ UNCHANGED <<grounds, bridges>>
  \/ /\ grounds = 0 /\ bridges < MaxBridge /\ bridges' = bridges + 1
     /\ BridgeCrash
     /\ UNCHANGED <<grounds, captains>>

MCSpec == MCInit /\ [][MCNext]_<<pvars, budgets>>
-----------------------------------------------------------------------------
(* The doors are held in flight only, whatever crashes; and all the flight *)
(* as long as nothing disturbs: a ground command can enter Flight while a  *)
(* door swings (the hold is refused), a captain can come back to Flight    *)
(* while the bridge still swings a door for its previous life, and a       *)
(* bridge that starts again does not know of the hold.                     *)
HeldAsFlown == NeverStuckHeld /\ (grounds + captains + bridges = 0 => HeldInFlight)

(* As long as nothing disturbs, the arm is unfolded only after every door  *)
(* has been swung in this round, but for those whose flip overtook the     *)
(* release: no other flip is refused and none is forgotten (the run        *)
(* payload_doors shows what a refusal does).                               *)
DoorsSwungUndisturbed ==
  [][/\ grounds' + captains' + bridges' = 0
     /\ phase = "Flipping" /\ phase' = "Unfolding"
     => swung \cup missed = Doors]_pvars
=============================================================================
