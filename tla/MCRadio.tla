------------------------------- MODULE MCRadio -------------------------------
(***************************************************************************)
(* The radio node with a budget, chosen at the start, of submitted and of  *)
(* received packets and of ends of the process: many packets to send and   *)
(* one to hear, or a conversation of two and one packet to send. The       *)
(* budgets are the bound of the model.                                     *)
(***************************************************************************)
EXTENDS Radio

VARIABLES left

Budgets == {[packets |-> 2, heard |-> 1, ends |-> 1],
            [packets |-> 1, heard |-> 2, ends |-> 1],
            [packets |-> 3, heard |-> 1, ends |-> 0]}

MCInit == RadioInit /\ left \in Budgets

Spend(what) == left[what] > 0 /\ left' = [left EXCEPT ![what] = @ - 1]

MCNext ==
  \/ /\ \/ Start \/ Destruct \/ Join
        \/ SubmitFlag
        \/ LinkTimerFires \/ LinkTestChanceExpired
        \/ SignalInterrupt
        \/ RadioLoop
     /\ UNCHANGED left
  \/ Spend("packets") /\ SubmitPush
  \/ Spend("heard") /\ \E p \in Hearable : ChipReceives(p)
  \/ Spend("ends") /\ (Shutdown \/ Kill)

MCSpec == MCInit /\ [][MCNext]_<<radioVars, left>> /\ RadioFairness
=============================================================================
