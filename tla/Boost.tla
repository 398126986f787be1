------------------------------- MODULE Boost -------------------------------
(***************************************************************************)
(* The detection of the boost on the pad: a moving average of the last     *)
(* Size accelerations, kept as a ring buffer and a running total.          *)
(* Accelerations are integers; the rounding of the doubles of the code is  *)
(* left out, and avg > threshold is total > threshold * Size.              *)
(***************************************************************************)
EXTENDS Naturals, Sequences, SequencesExt

CONSTANTS
  Size,       \* length of the average: 12 samples, 0.24 s
  Threshold,  \* boost_threshold_mps2
  Samples     \* magnitudes of the acceleration (bound of the model)

ASSUME BoostAssumption ==
  Size \in Nat \ {0} /\ Threshold \in Nat /\ Samples \subseteq Nat

VARIABLES
  phase, hasBoosted,
  underlying, oldestIndex, total,   \* CRollingSum and its CCircularBuffer
  window                            \* the samples since the pad was entered (history)

boostVars == <<phase, hasBoosted, underlying, oldestIndex, total, window>>

Slots == 0..(Size - 1)

BoostTypeOK ==
  /\ phase \in {"Pad", "Preboost", "Flight"} /\ hasBoosted \in BOOLEAN
  /\ underlying \in [Slots -> Samples \cup {0}] /\ oldestIndex \in Slots
  /\ total \in Nat
  /\ window \in Seq(Samples) /\ Len(window) <= Size
-----------------------------------------------------------------------------
(* Fill(0) leaves oldestIndex where it is.                                 *)
ClearTotal == total' = 0

EnterPad ==
  /\ hasBoosted' = FALSE
  /\ underlying' = [i \in Slots |-> 0] /\ ClearTotal
  /\ window' = <<>>
  /\ UNCHANGED oldestIndex

(* AddSample: the newest sample takes the place of the oldest.             *)
AddSample(a) ==
  /\ underlying' = [underlying EXCEPT ![oldestIndex] = a]
  /\ oldestIndex' = (oldestIndex + 1) % Size

FeedNewest(a) ==                                               \* faulty
  /\ total' = (total + a) - underlying[(oldestIndex + Size - 1) % Size]
  /\ AddSample(a)

Feed(a) ==
  /\ total' = (total + a) - underlying[oldestIndex]
  /\ AddSample(a)

OverThreshold(sum) == sum > Threshold * Size

(* handle_base_accel: a boost is latched and the pad is left.              *)
HandleBaseAccel(a) ==
  /\ phase \in {"Pad", "Preboost"}
  /\ Feed(a)
  /\ hasBoosted' = (hasBoosted \/ OverThreshold(total'))
  /\ phase' = IF hasBoosted' THEN "Flight" ELSE phase
  /\ window' = IF Len(window) < Size THEN Append(window, a) ELSE Append(Tail(window), a)

(* ExpectFlight, BackToPad and state requests enter a pad state from any.  *)
ToPad(state) ==
  /\ phase' = state
  /\ EnterPad

(* The rest of the mission: samples go to other experts.                   *)
ForceFlight ==
  /\ phase # "Flight" /\ phase' = "Flight"
  /\ UNCHANGED <<hasBoosted, underlying, oldestIndex, total, window>>

BoostInit ==
  /\ phase = "Pad" /\ hasBoosted = FALSE
  /\ underlying = [i \in Slots |-> 0] /\ oldestIndex = 0 /\ total = 0
  /\ window = <<>>

BoostNext ==
  \/ \E a \in Samples : HandleBaseAccel(a)
  \/ \E state \in {"Pad", "Preboost"} : ToPad(state)
  \/ ForceFlight

BoostSpec == BoostInit /\ [][BoostNext]_boostVars
-----------------------------------------------------------------------------
SumWindow(s) == FoldSeq(+, 0, s)

(* A boost is taken exactly when there is one: however often the pad was   *)
(* left and entered with the index of the ring buffer anywhere, the pad is *)
(* left for Flight by a sample only when the average over the last Size    *)
(* samples since it was entered (missing ones count 0) is above the        *)
(* threshold, and a captain that still waits has not heard such a window.  *)
BoostExactly ==
  [][/\ phase' # "Flight" => SumWindow(window') <= Threshold * Size
     /\ phase # "Flight" /\ phase' = "Flight" /\ ~ForceFlight
          => SumWindow(window') > Threshold * Size]_boostVars
=============================================================================
