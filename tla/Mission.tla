------------------------------- MODULE Mission -------------------------------
(***************************************************************************)
(* What the captain promises the ground: the phase of the mission, and the *)
(* autonomous activities that may still move it on.                        *)
(***************************************************************************)
VARIABLES up, phase, pending

Phases == {"Pad", "Preboost", "Flight", "Flipping", "Unfolding", "AutoCamera",
           "ManualControl", "Emergency"}
Activities == {"Flipping", "Unfolding", "AutoCamera"}

(* Where the end of an activity may lead.                                  *)
Onward == [Flipping   |-> {"Unfolding", "Emergency"},
           Unfolding  |-> {"AutoCamera", "Emergency"},
           AutoCamera |-> {"Emergency"}]

Init == up = FALSE /\ phase = "Pad" /\ pending = {}

(* Entering a phase starts its activity.                                   *)
Enter(to, left) == phase' = to /\ pending' = left \cup ({to} \cap Activities)

Command(to) ==
  /\ up /\ UNCHANGED up
  /\ Enter(to, pending) \/ (to \in {"Unfolding", "AutoCamera"} /\ Enter("Emergency", pending))

Boost == up /\ phase \in {"Pad", "Preboost"} /\ Enter("Flight", pending) /\ UNCHANGED up

Land == up /\ phase = "Flight" /\ Enter("Flipping", pending) /\ UNCHANGED up

Advance(e) ==
  /\ up /\ UNCHANGED up
  /\ e \in pending
  /\ \E to \in Onward[e], left \in {pending, pending \ {e}} : Enter(to, left)

(* An activity that stops without moving the mission on.                   *)
Quiesce(e) == e \in pending /\ pending' = pending \ {e} /\ UNCHANGED <<up, phase>>

(* A crash keeps the phase, unless it strikes while the phase is changing; *)
(* then the new phase, the old one or the pad comes after it.              *)
Crash == up /\ up' = FALSE /\ pending' = {} /\ phase' = phase

CrashInChange(to) ==
  up /\ up' = FALSE /\ pending' = {} /\ phase' \in {phase, "Pad", to}

(* A new process resumes the phase; it trusts no arm pose, so an arm phase *)
(* resumes as Emergency.                                                   *)
Resume ==
  /\ ~up /\ up' = TRUE
  /\ Enter(IF phase \in {"Unfolding", "AutoCamera"} THEN "Emergency" ELSE phase, {})

Next ==
  \/ \E to \in Phases : Command(to) \/ CrashInChange(to)
  \/ Boost \/ Land
  \/ \E e \in Activities : Advance(e) \/ Quiesce(e)
  \/ Crash \/ Resume

Spec == Init /\ [][Next]_<<up, phase, pending>>
=============================================================================
