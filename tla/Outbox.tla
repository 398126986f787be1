-------------------------------- MODULE Outbox --------------------------------
(***************************************************************************)
(* What the radio node promises those who submit packets: each accepted    *)
(* packet goes on air once, in the order of acceptance, unless the node    *)
(* restarts, which drops all that wait. Packets are numbered as accepted.  *)
(***************************************************************************)
EXTENDS Naturals, Sequences

VARIABLES
  accepted,   \* number of packets accepted so far
  queue,      \* those that wait
  onAir       \* the last packet sent, 0 for none

Init == accepted = 0 /\ queue = <<>> /\ onAir = 0

Accept ==
  /\ accepted' = accepted + 1
  /\ queue' = Append(queue, accepted')
  /\ UNCHANGED onAir

Send ==
  /\ queue # <<>>
  /\ onAir' = Head(queue)
  /\ queue' = Tail(queue)
  /\ UNCHANGED accepted

Drop == queue' = <<>> /\ UNCHANGED <<accepted, onAir>>

Spec == Init /\ [][Accept \/ Send \/ Drop]_<<accepted, queue, onAir>>
=============================================================================
