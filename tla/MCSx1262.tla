------------------------------ MODULE MCSx1262 ------------------------------
(* The deployed profile, a fast one, a heartbeat and a block of a picture. *)
EXTENDS Sx1262

MCSlow == [freq |-> 425450000, bw |-> 125000, sf |-> 12, cr |-> 8, dbm |-> 18]
MCFast == [freq |-> 433000000, bw |-> 500000, sf |-> 7, cr |-> 5, dbm |-> 10]
MCProfiles == {MCSlow, MCFast}
MCOutgoing == {[from |-> "us", len |-> 20], [from |-> "us", len |-> 129]}
MCIncoming == {[from |-> "ground", len |-> 12], [from |-> "ground", len |-> 0]}
=============================================================================
