----------------------------- MODULE DriverProofs -----------------------------
(***************************************************************************)
(* Theorems about what reads and drives the hardware of the Pi. None of    *)
(* the parts uses another:                                                 *)
(*                                                                         *)
(* - the boost detection (Boost), for any window, threshold and samples;   *)
(* - the sensors, buzzer and alarms (PiIo), with all parts at once, for    *)
(*   any parameter file, any thresholds and any repeat counts;             *)
(* - its GPS receiver (GpsReader), for any line limit that a sentence fits *)
(*   and any number of epochs;                                             *)
(* - the radio chip (Sx1262), for any profiles and packets and any number  *)
(*   of failed transfers and deaths of the process.                        *)
(*                                                                         *)
(* RingHoldsWindow says how old each slot of the ring of samples is; the   *)
(* rest of the ring is 0, so that the total is the sum of the window.      *)
(*                                                                         *)
(* AccelIsTrue speaks of one sample; DriverKnowsChip is what every start   *)
(* leaves behind for the samples to come.  GravestAlarmLast speaks of a    *)
(* queue that was served; LastWord speaks of the last request in it.       *)
(* PlayedInFull speaks of a code that ended; Counted weighs what was       *)
(* played so far against the passes done and the position in this one.     *)
(*                                                                         *)
(* FixIsNewest speaks of two drains; InStep says, after each token, what   *)
(* of the sentence under way is already in the line, and Due what is left  *)
(* of it when all that is unread was drained.                              *)
(*                                                                         *)
(* The properties of the radio chip speak of a call that has ended, or of  *)
(* one moment in it. The invariants speak of todo, the steps that are      *)
(* left: what they will have set when they are through, and in which order *)
(* they do it. They hold of each call when it begins, and of the rest of   *)
(* whatever they hold of.                                                  *)
(***************************************************************************)
EXTENDS PiIo, Sx1262, Boost, FoldLemmas

(* The sum of a sequence is what the sums of its prefixes come to.         *)
LEMMA PrefixSums ==
  ASSUME NEW s \in Seq(Nat)
  PROVE  \E p \in [0..Len(s) -> Int] :
           /\ p[0] = 0 /\ \A i \in 1..Len(s) : p[i] = p[i - 1] + s[i]
           /\ SumWindow(s) = p[Len(s)]
<1> DEFINE n == Len(s)  D == 1..n  it == Sums(s, D)
<1>1. n \in Nat /\ DOMAIN s = D /\ s \in [D -> Nat] /\ s \in [D -> Int]
  OBVIOUS
<1>2. IsFiniteSet(D)
  BY <1>1, FS_Interval
<1>3. SumWindow(s) = it[D]
  BY <1>1, Zenon DEF SumWindow, FoldSeq, FoldFunction, FoldFunctionOnSet, MapThenFoldSet, Sums
<1>4. /\ it[{}] = 0
      /\ \A u \in SUBSET D : it[u] \in Int
      /\ \A u \in SUBSET D : \A x \in u : it[u] = s[x] + it[u \ {x}]
  <2>1. s \in [D -> Int]
    BY <1>1
  <2> HIDE DEF D
  <2> QED
    BY ONLY <2>1, <1>2, SumInAnyOrder
<1> HIDE DEF it
<1> DEFINE p == [i \in 0..n |-> it[1..i]]
<1>5. p \in [0..n -> Int] /\ p[0] = 0 /\ p[n] = it[D]
  BY <1>1, <1>4
<1>6. ASSUME NEW i \in 1..n PROVE p[i] = p[i - 1] + s[i]
  <2> DEFINE u == 1..i  v == 1..(i - 1)
  <2>1. u \in SUBSET D /\ i \in u /\ u \ {i} = v /\ v \in SUBSET D
    BY <1>1
  <2>2. p[i] = it[u] /\ p[i - 1] = it[v] /\ s[i] \in Int
    BY <1>1
  <2> HIDE DEF u, v, D, p
  <2>3. it[u] = s[i] + it[v] /\ it[v] \in Int
    BY <1>4, <2>1
  <2> QED
    BY <2>2, <2>3
<1> HIDE DEF p
<1> QED
  BY <1>3, <1>5, <1>6

(* Whatever adds up along the sequence comes to its sum.                   *)
LEMMA SumByPrefixes ==
  ASSUME NEW s \in Seq(Nat), NEW q, q[0] = 0,
         \A i \in 1..Len(s) : q[i] = q[i - 1] + s[i]
  PROVE  SumWindow(s) = q[Len(s)]
<1> DEFINE n == Len(s)
<1>1. n \in Nat
  OBVIOUS
<1>2. PICK p \in [0..n -> Int] : /\ p[0] = 0 /\ \A i \in 1..n : p[i] = p[i - 1] + s[i]
                                 /\ SumWindow(s) = p[n]
  BY PrefixSums
<1> DEFINE F == {i \in Nat : i <= n => p[i] = q[i]}
<1>3. 0 \in F
  BY <1>2
<1>4. ASSUME NEW i \in Nat, i \in F PROVE i + 1 \in F
  <2> SUFFICES ASSUME i + 1 <= n PROVE p[i + 1] = q[i + 1]
    OBVIOUS
  <2>1. i + 1 \in 1..n /\ (i + 1) - 1 = i /\ p[i] = q[i]
    BY <1>1, <1>4
  <2>2. p[i + 1] = p[i] + s[i + 1]
    BY <1>2, <2>1
  <2>3. q[i + 1] = q[i] + s[i + 1]
    BY <2>1
  <2> QED
    BY <2>1, <2>2, <2>3
<1>5. Nat \subseteq F
  <2> HIDE DEF F
  <2> QED
    BY <1>3, <1>4, CountingInduction, Zenon
<1> QED
  BY <1>1, <1>2, <1>5

(* The sum of nothing, of one sample more, and of one less; it is a        *)
(* number.                                                                 *)
LEMMA SumEmpty == SumWindow(<<>>) = 0
<1> DEFINE p == [i \in {0} |-> 0]
<1>1. p[0] = 0 /\ <<>> \in Seq(Nat) /\ Len(<<>>) = 0
  OBVIOUS
<1> HIDE DEF p
<1>2. \A i \in 1..Len(<<>>) : p[i] = p[i - 1] + <<>>[i]
  BY <1>1
<1> QED
  BY <1>1, <1>2, SumByPrefixes

LEMMA SumAppend ==
  ASSUME NEW s \in Seq(Nat), NEW a \in Nat
  PROVE  SumWindow(Append(s, a)) = SumWindow(s) + a
<1> DEFINE n == Len(s)  t == Append(s, a)
<1>1. n \in Nat /\ t \in Seq(Nat) /\ Len(t) = n + 1 /\ t[n + 1] = a /\ \A i \in 1..n : t[i] = s[i]
  OBVIOUS
<1>2. PICK p \in [0..n -> Int] : p[0] = 0 /\ \A i \in 1..n : p[i] = p[i - 1] + s[i]
  BY PrefixSums
<1>3. SumWindow(s) = p[n]
  BY <1>2, SumByPrefixes
<1> DEFINE q == [i \in 0..(n + 1) |-> IF i <= n THEN p[i] ELSE p[n] + a]
<1>4. q[0] = 0 /\ q[n + 1] = p[n] + a
  BY <1>1, <1>2
<1>5. \A i \in 1..(n + 1) : q[i] = q[i - 1] + t[i]
  <2> HIDE DEF t
  <2> SUFFICES ASSUME NEW i \in 1..(n + 1) PROVE q[i] = q[i - 1] + t[i]
    OBVIOUS
  <2>1. CASE i = n + 1
    BY <2>1, <1>1, <1>2
  <2>2. CASE i <= n
    BY <2>2, <1>1, <1>2
  <2> QED
    BY <2>1, <2>2, <1>1
<1> HIDE DEF q, t
<1>6. SumWindow(t) = q[n + 1]
  BY <1>1, <1>4, <1>5, SumByPrefixes
<1> QED
  BY <1>3, <1>4, <1>6 DEF t

LEMMA SumTail ==
  ASSUME NEW s \in Seq(Nat), s # <<>>
  PROVE  SumWindow(Tail(s)) = SumWindow(s) - s[1] /\ SumWindow(s) \in Int
<1> DEFINE n == Len(s)  t == Tail(s)
<1>1. /\ n \in Nat /\ n >= 1 /\ t \in Seq(Nat) /\ Len(t) = n - 1
      /\ \A i \in 1..(n - 1) : t[i] = s[i + 1]
  OBVIOUS
<1>2. PICK p \in [0..n -> Int] : p[0] = 0 /\ \A i \in 1..n : p[i] = p[i - 1] + s[i]
  BY PrefixSums
<1>3. SumWindow(s) = p[n] /\ p[n] \in Int
  BY <1>1, <1>2, SumByPrefixes
<1>3a. p[1] = s[1] /\ s[1] \in Nat
  BY <1>1, <1>2
<1> DEFINE q == [i \in 0..(n - 1) |-> p[i + 1] - s[1]]
<1>4. q[0] = 0 /\ q[n - 1] = p[n] - s[1]
  BY <1>1, <1>3a
<1>5. \A i \in 1..(n - 1) : q[i] = q[i - 1] + t[i]
  <2> HIDE DEF t
  <2> SUFFICES ASSUME NEW i \in 1..(n - 1) PROVE q[i] = q[i - 1] + t[i]
    OBVIOUS
  <2>0. i + 1 \in 1..n /\ (i + 1) - 1 = i /\ i \in 0..n /\ s[i + 1] \in Nat
    BY <1>1
  <2>1. p[i + 1] = p[i] + s[i + 1] /\ p[i] \in Int
    BY <1>2, <2>0
  <2>2. q[i] = p[i + 1] - s[1] /\ q[i - 1] = p[i] - s[1] /\ t[i] = s[i + 1]
    BY <1>1
  <2> HIDE DEF q
  <2> QED
    BY <2>1, <2>2, <1>3a
<1> HIDE DEF q, t
<1>6. SumWindow(t) = q[n - 1]
  BY <1>1, <1>4, <1>5, SumByPrefixes
<1> QED
  BY <1>3, <1>4, <1>6 DEF t

LEMMA SumIsNat ==
  ASSUME NEW s \in Seq(Nat)
  PROVE  SumWindow(s) \in Nat
<1> DEFINE n == Len(s)
<1>1. n \in Nat
  OBVIOUS
<1>2. PICK p \in [0..n -> Int] : /\ p[0] = 0 /\ \A i \in 1..n : p[i] = p[i - 1] + s[i]
                                 /\ SumWindow(s) = p[n]
  BY PrefixSums
<1> DEFINE F == {i \in Nat : i <= n => p[i] \in Nat}
<1>3. 0 \in F
  BY <1>2
<1>4. ASSUME NEW i \in Nat, i \in F PROVE i + 1 \in F
  <2> SUFFICES ASSUME i + 1 <= n PROVE p[i + 1] \in Nat
    OBVIOUS
  <2>1. i + 1 \in 1..n /\ (i + 1) - 1 = i /\ p[i] \in Nat /\ s[i + 1] \in Nat
    BY <1>1, <1>4
  <2>2. p[i + 1] = p[i] + s[i + 1]
    BY <1>2, <2>1
  <2> QED
    BY <2>1, <2>2
<1>5. Nat \subseteq F
  <2> HIDE DEF F
  <2> QED
    BY <1>3, <1>4, CountingInduction, Zenon
<1> QED
  BY <1>1, <1>2, <1>5
-----------------------------------------------------------------------------
(* The age of a slot: how many samples came after its own.                 *)
Age(i) == IF i < oldestIndex THEN (oldestIndex - 1) - i ELSE ((oldestIndex + Size) - 1) - i

(* The total is the sum of the window, and each slot holds the sample of   *)
(* its age, or 0 before there are so many.                                 *)
RingHoldsWindow ==
  /\ total = SumWindow(window)
  /\ \A i \in Slots :
       underlying[i] = IF Age(i) < Len(window) THEN window[Len(window) - Age(i)] ELSE 0

(* On the pad nothing has been found to be a boost yet.                    *)
BoostInv ==
  /\ BoostTypeOK /\ RingHoldsWindow
  /\ phase # "Flight" => ~hasBoosted /\ ~OverThreshold(total)

(* The index of the ring wraps.                                            *)
LEMMA Wraps ==
  ASSUME NEW m \in Nat, m > 0
  PROVE  m % m = 0 /\ \A k \in Nat : k < m => k % m = k
<1>1. m % m = 0
  OBVIOUS
<1>2. ASSUME NEW k \in Nat, k < m PROVE k % m = k
  BY <1>2
<1> QED
  BY <1>1, <1>2

(* The ring starts empty.                                                  *)
LEMMA BoostBegins == BoostInit => BoostInv
<1> SUFFICES ASSUME BoostInit PROVE BoostInv
  OBVIOUS
<1> USE BoostAssumption
<1>1. Threshold * Size \in Nat
  OBVIOUS
<1>2. BoostTypeOK
  <2>1. hasBoosted \in BOOLEAN
    BY Zenon DEF BoostInit
  <2>2. /\ underlying \in [Slots -> Samples \cup {0}] /\ oldestIndex \in Slots
        /\ total \in Nat /\ window \in Seq(Samples) /\ Len(window) <= Size
        /\ phase \in {"Pad", "Preboost", "Flight"}
    BY DEF BoostInit, Slots
  <2> QED
    BY <2>1, <2>2 DEF BoostTypeOK
<1>3. RingHoldsWindow
  BY SumEmpty DEF BoostInit, RingHoldsWindow, Slots, Age
<1>4. ~OverThreshold(total) /\ ~hasBoosted
  BY <1>1 DEF BoostInit, OverThreshold
<1> QED
  BY <1>2, <1>3, <1>4 DEF BoostInv

(* A sample takes the place of the oldest one: every other is one older,   *)
(* and the total loses what the window does.                               *)
LEMMA WindowSlides ==
  ASSUME BoostInv, NEW a \in Samples,
         total' = (total + a) - underlying[oldestIndex], AddSample(a),
         window' = IF Len(window) < Size THEN Append(window, a) ELSE Append(Tail(window), a)
  PROVE  /\ window' \in Seq(Samples) /\ Len(window') <= Size
         /\ underlying' \in [Slots -> Samples \cup {0}] /\ oldestIndex' \in Slots
         /\ total' \in Nat /\ RingHoldsWindow'
<1> USE BoostAssumption
<1> DEFINE n == Len(window)
<1>1. /\ window \in Seq(Samples) /\ n \in Nat /\ n <= Size /\ oldestIndex \in Nat /\ oldestIndex < Size
      /\ underlying \in [Slots -> Samples \cup {0}] /\ total \in Nat /\ a \in Nat
      /\ window \in Seq(Nat) /\ Size \in Nat /\ Size > 0
  <2>1. /\ window \in Seq(Samples) /\ n <= Size /\ oldestIndex \in Slots
        /\ underlying \in [Slots -> Samples \cup {0}] /\ total \in Nat
    BY DEF BoostInv, BoostTypeOK
  <2>2. window \in Seq(Nat) /\ a \in Nat
    BY <2>1, SeqMonotonic
  <2> QED
    BY <2>1, <2>2 DEF Slots
<1>2. oldestIndex' = IF oldestIndex = Size - 1 THEN 0 ELSE oldestIndex + 1
  <2>1. oldestIndex' = (oldestIndex + 1) % Size
    BY DEF AddSample
  <2>2. CASE oldestIndex = Size - 1
    <3>1. oldestIndex + 1 = Size
      BY <1>1, <2>2
    <3> QED
      BY <1>1, <2>1, <2>2, <3>1, Wraps
  <2>3. CASE oldestIndex # Size - 1
    <3>1. oldestIndex + 1 \in Nat /\ oldestIndex + 1 < Size
      BY <1>1, <2>3
    <3> QED
      BY <1>1, <2>1, <2>3, <3>1, Wraps
  <2> QED
    BY <2>2, <2>3
<1>0. \A k, m \in Nat : k < m => /\ m - k \in 1..m /\ (m + 1) - (k + 1) = m - k
                               /\ (m - (k + 1)) + 1 = m - k
                               /\ (k < m - 1 => m - (k + 1) \in 1..(m - 1))
  OBVIOUS
<1>3. oldestIndex' \in Slots
  BY <1>1, <1>2 DEF Slots
<1>4. underlying' = [underlying EXCEPT ![oldestIndex] = a]
  BY DEF AddSample
<1>5. underlying' \in [Slots -> Samples \cup {0}]
  BY <1>1, <1>4
<1>6. /\ total = SumWindow(window)
      /\ \A i \in Slots : underlying[i] = IF Age(i) < n THEN window[n - Age(i)] ELSE 0
  BY DEF BoostInv, RingHoldsWindow
<1>7. oldestIndex \in Slots /\ Age(oldestIndex) = Size - 1
  BY <1>1 DEF Slots, Age
<1>8. underlying[oldestIndex] = IF n = Size THEN window[1] ELSE 0
  BY <1>1, <1>6, <1>7
<1>9. \A i \in Slots : Age(i)' = IF i = oldestIndex THEN 0 ELSE Age(i) + 1
  BY <1>1, <1>2 DEF Age, Slots
<1>10. \A i \in Slots : Age(i) \in 0..(Size - 1) /\ (i # oldestIndex => Age(i) < Size - 1)
  BY <1>1 DEF Age, Slots
<1>11. CASE n < Size
  <2>1. /\ window' = Append(window, a) /\ window' \in Seq(Samples) /\ Len(window') = n + 1
        /\ \A k \in 1..n : window'[k] = window[k]
        /\ window'[n + 1] = a
    BY <1>1, <1>11
  <2>2. SumWindow(window') = SumWindow(window) + a
    BY <1>1, <2>1, SumAppend
  <2>3. total' = SumWindow(window') /\ total' \in Nat
    BY <1>1, <1>6, <1>8, <1>11, <2>2
  <2>4. ASSUME NEW i \in Slots
        PROVE  underlying'[i] = IF Age(i)' < n + 1 THEN window'[(n + 1) - Age(i)'] ELSE 0
    <3>1. CASE i = oldestIndex
      BY <1>1, <1>4, <1>9, <2>1, <3>1
    <3>2. CASE i # oldestIndex
      <4>1. underlying'[i] = underlying[i] /\ Age(i)' = Age(i) + 1 /\ Age(i) \in Nat
        BY <1>1, <1>4, <1>9, <1>10, <3>2
      <4>2. Age(i) < n => n - Age(i) \in 1..n /\ (n + 1) - (Age(i) + 1) = n - Age(i)
        BY <4>1, <1>1, <1>0
      <4> HIDE DEF n
      <4>3. Age(i) + 1 < n + 1 <=> Age(i) < n
        BY <4>1, <1>1
      <4>4. underlying[i] = IF Age(i) < n THEN window[n - Age(i)] ELSE 0
        BY <1>6
      <4>5. CASE Age(i) < n
        BY <4>1, <4>2, <4>3, <4>4, <4>5, <2>1
      <4>6. CASE ~(Age(i) < n)
        BY <4>1, <4>3, <4>4, <4>6
      <4> QED
        BY <4>5, <4>6
    <3> QED
      BY <3>1, <3>2
  <2>5. RingHoldsWindow'
    BY <2>1, <2>3, <2>4 DEF RingHoldsWindow, Slots
  <2>6. Len(window') <= Size
    BY <2>1, <1>11, <1>1
  <2> QED
    BY <1>3, <1>5, <2>1, <2>3, <2>5, <2>6
<1>12. CASE n = Size
  <2>1. window # <<>> /\ Tail(window) \in Seq(Samples) /\ Tail(window) \in Seq(Nat) /\ Len(Tail(window)) = n - 1
        /\ \A k \in 1..(n - 1) : Tail(window)[k] = window[k + 1]
    BY <1>1, <1>12, SeqMonotonic
  <2>2. /\ window' = Append(Tail(window), a) /\ window' \in Seq(Samples) /\ Len(window') = n
        /\ \A k \in 1..(n - 1) : window'[k] = window[k + 1]
        /\ window'[n] = a
    BY <1>1, <1>12, <2>1
  <2>3. /\ SumWindow(window') = SumWindow(Tail(window)) + a
        /\ SumWindow(Tail(window)) = SumWindow(window) - window[1]
        /\ window[1] \in Nat
    <3>1. SumWindow(window') = SumWindow(Tail(window)) + a
      BY <1>1, <2>1, <2>2, SumAppend
    <3>2. SumWindow(Tail(window)) = SumWindow(window) - window[1]
      BY <1>1, <2>1, SumTail
    <3>3. window[1] \in Nat
      BY <1>1, <1>12
    <3> QED
      BY <3>1, <3>2, <3>3
  <2>4. total' = SumWindow(window')
    BY <1>1, <1>6, <1>8, <1>12, <2>3
  <2>5. ASSUME NEW i \in Slots
        PROVE  underlying'[i] = IF Age(i)' < n THEN window'[n - Age(i)'] ELSE 0
    <3>1. CASE i = oldestIndex
      BY <1>1, <1>4, <1>9, <1>12, <2>2, <3>1
    <3>2. CASE i # oldestIndex
      <4>1. underlying'[i] = underlying[i] /\ Age(i)' = Age(i) + 1 /\ Age(i) \in Nat /\ Age(i) < n - 1
        BY <1>1, <1>4, <1>9, <1>10, <1>12, <3>2
      <4>2. n - Age(i) \in 1..n /\ n - (Age(i) + 1) \in 1..(n - 1) /\ (n - (Age(i) + 1)) + 1 = n - Age(i)
        <5>1. Age(i) < n
          BY <4>1, <1>1
        <5> QED
          BY <5>1, <4>1, <1>1, <1>0
      <4> HIDE DEF n
      <4>3. underlying[i] = window[n - Age(i)]
        BY <1>6, <4>1, <1>1
      <4>4. Age(i) + 1 < n
        BY <4>1, <1>1
      <4> QED
        BY <4>1, <4>2, <4>3, <4>4, <2>2
    <3> QED
      BY <3>1, <3>2
  <2>6. total' \in Nat
    <3>1. SumWindow(Tail(window)) \in Nat
      BY <2>1, SumIsNat
    <3> QED
      BY <3>1, <2>3, <2>4, <1>1
  <2>7. RingHoldsWindow'
    BY <2>2, <2>4, <2>5 DEF RingHoldsWindow, Slots
  <2>8. Len(window') <= Size
    BY <2>2, <1>12, <1>1
  <2> QED
    BY <1>3, <1>5, <2>2, <2>6, <2>7, <2>8
<1> QED
  BY <1>1, <1>11, <1>12

(* Every step keeps it.                                                    *)
LEMMA BoostKept == BoostInv /\ [BoostNext]_boostVars => BoostInv'
<1> SUFFICES ASSUME BoostInv, [BoostNext]_boostVars PROVE BoostInv'
  OBVIOUS
<1> USE BoostAssumption
<1>0. Threshold * Size \in Nat
  OBVIOUS
<1>t. BoostTypeOK /\ RingHoldsWindow /\ (phase # "Flight" => ~hasBoosted /\ ~OverThreshold(total))
  BY DEF BoostInv
<1>1. ASSUME NEW a \in Samples, HandleBaseAccel(a) PROVE BoostInv'
  <2>1. /\ total' = (total + a) - underlying[oldestIndex] /\ AddSample(a)
        /\ window' = IF Len(window) < Size THEN Append(window, a) ELSE Append(Tail(window), a)
    BY <1>1 DEF HandleBaseAccel, Feed
  <2>2. /\ window' \in Seq(Samples) /\ Len(window') <= Size
        /\ underlying' \in [Slots -> Samples \cup {0}] /\ oldestIndex' \in Slots
        /\ total' \in Nat /\ RingHoldsWindow'
    BY <2>1, WindowSlides
  <2>3. hasBoosted' \in BOOLEAN /\ (~hasBoosted' <=> ~hasBoosted /\ ~OverThreshold(total'))
    <3>1. hasBoosted' = (hasBoosted \/ OverThreshold(total')) /\ hasBoosted \in BOOLEAN
      BY <1>1, <1>t DEF HandleBaseAccel, BoostTypeOK
    <3>2. OverThreshold(total') \in BOOLEAN
      BY DEF OverThreshold
    <3> QED
      BY <3>1, <3>2, Zenon
  <2>4. phase' \in {"Pad", "Preboost", "Flight"} /\ (phase' # "Flight" => ~hasBoosted')
    BY <1>1, <1>t DEF HandleBaseAccel, BoostTypeOK
  <2>5. BoostTypeOK'
    BY <2>2, <2>3, <2>4 DEF BoostTypeOK, Slots
  <2>6. OverThreshold(total') <=> OverThreshold(total)'
    BY DEF OverThreshold
  <2> QED
    BY <2>2, <2>3, <2>4, <2>5, <2>6 DEF BoostInv
<1>2. ASSUME NEW state \in {"Pad", "Preboost"}, ToPad(state) PROVE BoostInv'
  <2>1. /\ phase' = state /\ total' = 0 /\ underlying' = [i \in Slots |-> 0]
        /\ window' = <<>> /\ oldestIndex' = oldestIndex
    BY <1>2 DEF ToPad, EnterPad, ClearTotal
  <2>2. hasBoosted' \in BOOLEAN /\ ~hasBoosted'
    BY <1>2, Zenon DEF ToPad, EnterPad
  <2>3. BoostTypeOK'
    <3>1. /\ underlying' \in [Slots -> Samples \cup {0}] /\ oldestIndex' \in Slots
          /\ total' \in Nat /\ window' \in Seq(Samples) /\ Len(window') <= Size
          /\ phase' \in {"Pad", "Preboost", "Flight"}
      BY <2>1, <1>t DEF BoostTypeOK
    <3> QED
      BY <3>1, <2>2 DEF BoostTypeOK, Slots
  <2>4. RingHoldsWindow'
    <3>1. total' = SumWindow(window')
      BY <2>1, SumEmpty
    <3>2. \A i \in Slots : Age(i)' >= 0 /\ Age(i)' \in Int
      BY <2>3 DEF BoostTypeOK, Age, Slots
    <3>3. Len(window') = 0 /\ \A i \in Slots : underlying'[i] = 0
      BY <2>1
    <3> QED
      BY <3>1, <3>2, <3>3 DEF RingHoldsWindow, Slots
  <2>5. ~OverThreshold(total)'
    BY <2>1, <1>0 DEF OverThreshold
  <2> QED
    BY <2>2, <2>3, <2>4, <2>5 DEF BoostInv
<1>3. CASE ForceFlight
  <2>1. /\ phase' = "Flight" /\ hasBoosted' = hasBoosted /\ underlying' = underlying
        /\ oldestIndex' = oldestIndex /\ total' = total /\ window' = window
    BY <1>3 DEF ForceFlight
  <2>2. BoostTypeOK'
    <3>1. hasBoosted' \in BOOLEAN
      BY <2>1, <1>t, Zenon DEF BoostTypeOK
    <3> QED
      BY <2>1, <1>t, <3>1 DEF BoostTypeOK, Slots
  <2>3. RingHoldsWindow'
    BY <2>1, <1>t DEF RingHoldsWindow, Age, Slots
  <2> QED
    BY <2>1, <2>2, <2>3 DEF BoostInv
<1>4. CASE UNCHANGED boostVars
  <2> USE <1>4 DEF boostVars
  <2>1. BoostTypeOK'
    BY <1>t, Zenon DEF BoostTypeOK, Slots
  <2>2. RingHoldsWindow'
    BY <1>t DEF RingHoldsWindow, Age, Slots
  <2>3. phase' # "Flight" => ~hasBoosted' /\ ~OverThreshold(total)'
    BY <1>t, Zenon DEF OverThreshold
  <2> QED
    BY <2>1, <2>2, <2>3 DEF BoostInv
<1> QED
  BY <1>1, <1>2, <1>3, <1>4 DEF BoostNext

(* The ring buffer always holds the window, and the running total its sum, *)
(* whatever index a return to the pad finds (CRollingSum,                  *)
(* CCircularBuffer::Fill).                                                 *)
THEOREM BoostInvariant == BoostSpec => []BoostInv
  BY BoostBegins, BoostKept, PTL DEF BoostSpec

(* The type invariant of the detection.                                    *)
THEOREM BoostTypes == BoostSpec => []BoostTypeOK
<1>1. BoostInv => BoostTypeOK
  BY DEF BoostInv
<1> QED
  BY <1>1, BoostInvariant, PTL

(* The pad is left for Flight by a sample exactly when the sum of the last *)
(* samples since the pad was entered is over the threshold: the            *)
(* incremental total never drifts and never keeps a sample of an earlier   *)
(* stay (PadExpert::handle_base_accel).                                    *)
THEOREM BoostIsExact == BoostSpec => BoostExactly
<1> USE BoostAssumption
<1> DEFINE Exact == /\ phase' # "Flight" => SumWindow(window') <= Threshold * Size
                    /\ phase # "Flight" /\ phase' = "Flight" /\ ~ForceFlight
                         => SumWindow(window') > Threshold * Size
<1>1. ASSUME BoostInv, BoostInv', [BoostNext]_boostVars PROVE [Exact]_boostVars
  <2>0. Threshold * Size \in Nat
    OBVIOUS
  <2>1. total' = SumWindow(window') /\ total' \in Nat
    BY <1>1 DEF BoostInv, RingHoldsWindow, BoostTypeOK
  <2>2. phase' # "Flight" => ~(total' > Threshold * Size)
    BY <1>1 DEF BoostInv, OverThreshold
  <2>3. phase # "Flight" /\ phase' = "Flight" /\ BoostNext /\ ~ForceFlight => total' > Threshold * Size
    <3> SUFFICES ASSUME phase # "Flight", phase' = "Flight", BoostNext, ~ForceFlight
                 PROVE  OverThreshold(total')
      BY DEF OverThreshold
    <3>1. PICK a \in Samples : HandleBaseAccel(a)
      BY DEF BoostNext, ToPad
    <3>2. hasBoosted' = (hasBoosted \/ OverThreshold(total')) /\ ~hasBoosted /\ hasBoosted'
      BY <3>1, <1>1 DEF HandleBaseAccel, BoostInv
    <3> QED
      BY <3>2, Zenon
  <2>4. CASE UNCHANGED boostVars
    BY <2>4
  <2>5. CASE BoostNext
    BY <2>0, <2>1, <2>2, <2>3, <2>5
  <2> QED
    BY <2>4, <2>5, <1>1
<1> QED
  BY <1>1, BoostInvariant, PTL DEF BoostSpec, BoostExactly
-----------------------------------------------------------------------------
(* The forces are such as every range shows without rounding, and within   *)
(* it: 12 bits.                                                            *)
Shown(force, unit) == \E n \in -2048..2047 : force = n * unit

Measurable ==
  \A g \in Ranges \cap DOMAIN MgPerLsb, f \in Forces : Shown(f, MgPerLsb[g])

(* A driver that believes in its configuration is right about the chip.    *)
DriverKnowsChip ==
  lis.configured =>
    /\ params.range \in DOMAIN FsCode /\ params.rate \in DOMAIN OdrCode
    /\ chip.odr = OdrCode[params.rate] /\ chip.fs = FsCode[params.range]
    /\ lis.mgPerLsb = MgPerLsb[params.range]

AccelInv ==
  /\ lis \in [fd : BOOLEAN, configured : BOOLEAN, mgPerLsb : Nat]
  /\ params \in [rate : Rates, range : Ranges]
  /\ DriverKnowsChip /\ AccelIsTrue
-----------------------------------------------------------------------------
Asked == {[code |-> Swung, count |-> BootBeeps], [code |-> Equal3, count |-> LowBeeps],
          [code |-> Small, count |-> DangerBeeps]}

(* The code that will have been played when all requests are served.       *)
LastCode == IF requests = <<>> THEN played.code ELSE requests[Len(requests)].code

(* The last request is of the gravest alarm the captain has raised.        *)
LastWord ==
  captain.attended =>
    /\ io.up
    /\ captain.dangerous => captain.low /\ LastCode = Small
    /\ captain.low => LastCode \in {Small, Equal3}

AlarmInv ==
  /\ io.up \in BOOLEAN
  /\ captain \in [up : BOOLEAN, low : BOOLEAN, dangerous : BOOLEAN, attended : BOOLEAN]
  /\ sample \in Levels \cup {NoSample} /\ volts \in Levels
  /\ requests \in Seq(Asked)
  /\ captain.dangerous => captain.low
  /\ LastWord
-----------------------------------------------------------------------------
Codes == {Off, Small, Equal3, Swung}

(* The beeps of a pass before the position i.                              *)
Before(code, i) == Cardinality(code \cap 0..(i - 1))

(* What was played is the passes done and the part of this one, but for    *)
(* what the first pass missed of its beginning.                            *)
Counted ==
  LET once == Cardinality(played.code)
      passes == played.count - buzz.count
      now == passes * once + Before(played.code, buzz.index)
  IN /\ buzz.count <= played.count
     /\ buzz.code = played.code => /\ played.beeps <= now
                                   /\ io.buzzer => played.beeps + once >= now
     /\ buzz.code # Off => buzz.code = played.code /\ buzz.count > 0

BuzzerInv ==
  /\ buzz \in [code : Codes, index : 0..31, count : Nat]
  /\ played \in [code : Codes, count : Nat, beeps : Nat]
  /\ requests \in Seq(Asked)
  /\ Counted /\ PlayedInFull
-----------------------------------------------------------------------------
(* The accelerometer.                                                      *)

(* The tables of the driver: each range has its code, which is the row the *)
(* chip's own table has it in; no rate has the code 0.                     *)
LEMMA Tables ==
  /\ DOMAIN FsCode = {2, 4, 8, 16} /\ DOMAIN MgPerLsb = {2, 4, 8, 16}
  /\ \A g \in {2, 4, 8, 16} : FsCode[g] \in 0..3 /\ Gs[FsCode[g] + 1] = g
  /\ MgPerLsb[2] = 1 /\ MgPerLsb[4] = 2 /\ MgPerLsb[8] = 4 /\ MgPerLsb[16] = 12
  /\ \A hz \in DOMAIN OdrCode : OdrCode[hz] # 0
<1>1. \A g \in {2, 4, 8, 16} : \E c \in 0..3 : Gs[c + 1] = g
  <2>1. Gs[0 + 1] = 2 /\ Gs[1 + 1] = 4 /\ Gs[2 + 1] = 8 /\ Gs[3 + 1] = 16
    BY DEF Gs
  <2> QED
    BY <2>1
<1>2. \A g \in {2, 4, 8, 16} : FsCode[g] \in 0..3 /\ Gs[FsCode[g] + 1] = g
  <2>1. ASSUME NEW g \in {2, 4, 8, 16}
        PROVE  FsCode[g] \in 0..3 /\ Gs[FsCode[g] + 1] = g
    <3>1. FsCode[g] = CHOOSE c \in 0..3 : Gs[c + 1] = g
      BY DEF FsCode
    <3>2. \E c \in 0..3 : Gs[c + 1] = g
      BY <1>1
    <3> QED
      BY <3>1, <3>2
  <2> QED
    BY <2>1
<1>3. DOMAIN FsCode = {2, 4, 8, 16} /\ DOMAIN MgPerLsb = {2, 4, 8, 16}
  BY DEF FsCode, MgPerLsb
<1>4. MgPerLsb[2] = 1 /\ MgPerLsb[4] = 2 /\ MgPerLsb[8] = 4 /\ MgPerLsb[16] = 12
  BY DEF MgPerLsb
<1>5. ASSUME NEW hz \in DOMAIN OdrCode PROVE OdrCode[hz] # 0
  <2>1. hz \in {Hz[c] : c \in 1..7} /\ OdrCode[hz] = CHOOSE c \in 1..7 : Hz[c] = hz
    BY DEF OdrCode
  <2>2. \E c \in 1..7 : Hz[c] = hz
    BY <2>1
  <2>3. OdrCode[hz] \in 1..7
    BY <2>1, <2>2
  <2> QED
    BY <2>3
<1> QED
  BY <1>2, <1>3, <1>4, <1>5

(* A force that the range can show comes back as it was: twelve bits at    *)
(* the top of sixteen, and shifted down again with their sign.             *)
LEMMA ReadsWhatItMeets ==
  ASSUME Measurable, AccelInv, lis.configured, NEW f \in Forces
  PROVE  Raw(OutRegister(f)) * lis.mgPerLsb = f
<1> DEFINE g == params.range
           k == MgPerLsb[g]
<1>1. /\ g \in {2, 4, 8, 16} /\ g \in Ranges /\ chip.odr # 0
      /\ Gs[chip.fs + 1] = g /\ lis.mgPerLsb = k
  BY Tables DEF AccelInv, DriverKnowsChip
<1>2. Shown(f, k)
  <2>1. g \in Ranges \cap DOMAIN MgPerLsb
    BY <1>1, Tables
  <2> HIDE DEF g
  <2> QED
    BY <2>1 DEF Measurable
<1>3. k \in {1, 2, 4, 12}
  BY <1>1, Tables
<1> HIDE DEF g, k
<1> DEFINE n == f \div k
<1>4. n \in -2048..2047 /\ n * k = f
  <2>1. CASE k = 1
    BY <1>2, <2>1 DEF Shown
  <2>2. CASE k = 2
    BY <1>2, <2>2 DEF Shown
  <2>3. CASE k = 4
    BY <1>2, <2>3 DEF Shown
  <2>4. CASE k = 12
    BY <1>2, <2>4 DEF Shown
  <2> HIDE DEF n
  <2> QED
    BY <1>3, <2>1, <2>2, <2>3, <2>4
<1> DEFINE u == OutRegister(f)
<1>5. u = (n * 16) % 65536
  BY <1>1 DEF OutRegister, k
<1> HIDE DEF n, u
<1>6. Raw(u) = n
  <2>1. CASE n >= 0
    <3>1. u = n * 16 /\ ~(u >= 32768) /\ (n * 16) \div 16 = n
      BY <1>4, <1>5, <2>1
    <3> QED
      BY <3>1 DEF Raw
  <2>2. CASE n < 0
    <3>1. u = n * 16 + 65536 /\ u >= 32768 /\ u - 65536 = n * 16 /\ (n * 16) \div 16 = n
      BY <1>4, <1>5, <2>2
    <3> QED
      BY <3>1 DEF Raw
  <2> QED
    BY <1>4, <2>1, <2>2
<1> QED
  BY <1>1, <1>4, <1>6 DEF u

LEMMA AccelStep ==
  ASSUME Measurable, AccelInv, [PiNext]_piVars
  PROVE  AccelInv'
<1>1. CASE UNCHANGED <<lis, chip, params, accel>>
  BY <1>1 DEF AccelInv, DriverKnowsChip, AccelIsTrue
<1>2. CASE lis' = Shut /\ UNCHANGED <<params, accel>>
  BY <1>2 DEF AccelInv, DriverKnowsChip, AccelIsTrue, Shut
<1>3. ASSUME NEW fd \in BOOLEAN, NEW who \in BOOLEAN, NEW w1 \in BOOLEAN, NEW w4 \in BOOLEAN,
             NEW gps, NEW ina, NEW line, NodeStarts(fd, who, w1, w4, gps, ina, line)
      PROVE  AccelInv'
  <2> DEFINE opened == LisOpened(fd, who)
  <2>1. opened \in [fd : BOOLEAN, configured : BOOLEAN, mgPerLsb : Nat] /\ ~opened.configured
    BY DEF LisOpened, Shut
  <2>2. lis' = Configured(opened, w1, w4)[1] /\ chip' = Configured(opened, w1, w4)[2]
        /\ UNCHANGED <<params, accel>>
    BY <1>3 DEF NodeStarts
  <2> HIDE DEF opened
  <2>3. CASE w1 /\ w4 /\ opened.fd /\ params.rate \in DOMAIN OdrCode /\ params.range \in DOMAIN FsCode
    <3>1. /\ lis' = [opened EXCEPT !.mgPerLsb = MgPerLsb[params.range], !.configured = TRUE]
          /\ chip' = [odr |-> OdrCode[params.rate], fs |-> FsCode[params.range]]
      BY <2>2, <2>3 DEF Configured
    <3>2. MgPerLsb[params.range] \in Nat
      BY <2>3, Tables
    <3>3. /\ lis'.configured /\ lis'.mgPerLsb = MgPerLsb[params.range]
          /\ lis' \in [fd : BOOLEAN, configured : BOOLEAN, mgPerLsb : Nat]
      BY <2>1, <3>1, <3>2
    <3>4. DriverKnowsChip'
      <4>1. chip'.odr = OdrCode[params.rate] /\ chip'.fs = FsCode[params.range] /\ params' = params
        BY <2>2, <3>1
      <4> QED
        BY <2>3, <3>3, <4>1 DEF DriverKnowsChip
    <3>5. AccelIsTrue' /\ params' \in [rate : Rates, range : Ranges]
      BY <2>2 DEF AccelInv, AccelIsTrue
    <3> QED
      BY <3>3, <3>4, <3>5 DEF AccelInv
  <2>4. CASE ~(w1 /\ w4 /\ opened.fd /\ params.rate \in DOMAIN OdrCode /\ params.range \in DOMAIN FsCode)
    <3>1. lis' = opened
      BY <2>2, <2>4 DEF Configured
    <3>2. lis' \in [fd : BOOLEAN, configured : BOOLEAN, mgPerLsb : Nat] /\ ~lis'.configured
      BY <2>1, <3>1
    <3>3. AccelIsTrue' /\ params' \in [rate : Rates, range : Ranges]
      BY <2>2 DEF AccelInv, AccelIsTrue
    <3> QED
      BY <3>2, <3>3 DEF AccelInv, DriverKnowsChip
  <2> QED
    BY <2>3, <2>4
<1>4. ASSUME NEW x \in Forces, NEW y \in Forces, OnAccelTimer(x, y)
      PROVE  AccelInv'
  <2>1. /\ Raw(OutRegister(x)) * lis.mgPerLsb = x /\ Raw(OutRegister(y)) * lis.mgPerLsb = y
    BY <1>4, ReadsWhatItMeets DEF OnAccelTimer
  <2>2. accel' = [of |-> <<x, y>>, published |-> Rotated(x, y)]
        /\ UNCHANGED <<lis, chip, params>>
    BY <1>4, <2>1 DEF OnAccelTimer
  <2> QED
    BY <2>2 DEF AccelInv, DriverKnowsChip, AccelIsTrue
<1>5. \/ UNCHANGED <<lis, chip, params, accel>>
      \/ lis' = Shut /\ UNCHANGED <<params, accel>>
      \/ \E fd, who, w1, w4, gps, ina, line \in BOOLEAN : NodeStarts(fd, who, w1, w4, gps, ina, line)
      \/ \E x, y \in Forces : OnAccelTimer(x, y)
  BY DEF PiNext, piVars, NodeDies, Dead, OnTimer, SetBuzzer, OnPowerTimer, OnGpsTimer,
         CaptainBoots, CaptainDies, HandlePower, BatteryMoves, Uart, GpsAlone
<1> QED
  BY <1>1, <1>2, <1>3, <1>4, <1>5

(* Samples are of the right scale for any parameter file and whatever an   *)
(* earlier life left in the chip (Lis3dhDriver::configure, read).          *)
THEOREM AccelTrue == ASSUME Measurable PROVE PiSpec => []AccelIsTrue
<1>1. PiInit => AccelInv
  BY DEF PiInit, AccelInv, DriverKnowsChip, AccelIsTrue, Shut, Rotated
<1>2. AccelInv /\ [PiNext]_piVars => AccelInv'
  BY AccelStep
<1>3. AccelInv => AccelIsTrue
  BY DEF AccelInv
<1> QED
  BY <1>1, <1>2, <1>3, PTL DEF PiSpec
-----------------------------------------------------------------------------
(* The alarms.                                                             *)

(* Adding requests: the last of them has the last word.                    *)
LEMMA LastOfMore ==
  ASSUME NEW S, NEW s \in Seq(S), NEW a \in S, NEW b \in S
  PROVE  /\ s \o <<a>> \in Seq(S) /\ s \o <<a, b>> \in Seq(S) /\ s \o <<>> = s
         /\ s \o <<a>> # <<>> /\ (s \o <<a>>)[Len(s \o <<a>>)] = a
         /\ s \o <<a, b>> # <<>> /\ (s \o <<a, b>>)[Len(s \o <<a, b>>)] = b
OBVIOUS

LEMMA OneAndOther ==
  ASSUME NEW S, NEW a \in S, NEW b \in S
  PROVE  /\ <<a>> \o <<b>> = <<a, b>> /\ <<a>> \o <<>> = <<a>>
         /\ <<>> \o <<b>> = <<b>> /\ <<>> \o <<>> = <<>>
<1>1. <<a>> \in Seq(S) /\ <<b>> \in Seq(S) /\ <<>> \in Seq(S)
  OBVIOUS
<1>2. <<a>> \o <<>> = <<a>> /\ <<>> \o <<b>> = <<b>> /\ <<>> \o <<>> = <<>>
  BY <1>1, ConcatEmptySeq
<1>3. <<a>> \o <<b>> = <<a, b>>
  <2> DEFINE s == <<a>> \o <<b>>
             t == <<a, b>>
  <2>1. s \in Seq(S) /\ Len(s) = 2 /\ s[1] = a /\ s[2] = b
    BY <1>1
  <2>2. t \in Seq(S) /\ Len(t) = 2 /\ t[1] = a /\ t[2] = b
    OBVIOUS
  <2> HIDE DEF s, t
  <2>3. \A i \in 1..Len(s) : s[i] = t[i]
    BY <2>1, <2>2
  <2>4. s = t
    BY <2>1, <2>2, <2>3, SeqEqual
  <2> QED
    BY <2>4 DEF s, t
<1> QED
  BY <1>2, <1>3

LEMMA LastAfterTail ==
  ASSUME NEW S, NEW s \in Seq(S), s # <<>>
  PROVE  /\ Head(s) \in S /\ Tail(s) \in Seq(S)
         /\ IF Tail(s) = <<>> THEN s[Len(s)] = Head(s)
            ELSE Tail(s)[Len(Tail(s))] = s[Len(s)]
<1>1. /\ Head(s) \in S /\ Tail(s) \in Seq(S) /\ Len(Tail(s)) = Len(s) - 1
      /\ \A i \in 1..Len(Tail(s)) : Tail(s)[i] = s[i + 1]
  BY HeadTailProperties
<1>2. Len(s) \in Nat /\ Len(s) # 0 /\ Head(s) = s[1]
  BY EmptySeq
<1>3. Tail(s) = <<>> <=> Len(Tail(s)) = 0
  BY <1>1, EmptySeq
<1>4. CASE Tail(s) = <<>>
  <2>1. Len(s) = 1
    BY <1>1, <1>2, <1>3, <1>4
  <2> QED
    BY <1>1, <1>2, <1>4, <2>1
<1>5. CASE Tail(s) # <<>>
  <2>1. Len(Tail(s)) \in 1..Len(Tail(s)) /\ Len(Tail(s)) + 1 = Len(s)
    BY <1>1, <1>2, <1>3, <1>5
  <2>2. Tail(s)[Len(Tail(s))] = s[Len(Tail(s)) + 1]
    BY <1>1, <2>1
  <2> QED
    BY <1>1, <1>5, <2>1, <2>2
<1> QED
  BY <1>4, <1>5

(* The types the alarms need survive a step that touches none of them.     *)
LEMMA AlarmSame ==
  ASSUME AlarmInv, UNCHANGED <<captain, sample, requests>>, volts' \in Levels,
         io'.up = io.up, played'.code = played.code
  PROVE  AlarmInv'
BY DEF AlarmInv, LastWord, LastCode

(* handle_power raises an alarm when it begins, the gravest last.          *)
LEMMA HandlePowerKeeps ==
  ASSUME AlarmInv, HandlePower
  PROVE  AlarmInv'
<1> DEFINE low == sample < Warn
           dangerous == sample < Danger
           eq3 == [code |-> Equal3, count |-> LowBeeps]
           small == [code |-> Small, count |-> DangerBeeps]
<1>1. /\ captain' = [captain EXCEPT !.low = low, !.dangerous = dangerous]
      /\ sample' = NoSample /\ UNCHANGED <<io, played, volts>>
      /\ requests' = IF io.up THEN requests \o AlarmsFor(low, dangerous) ELSE requests
      /\ sample \in Levels
  BY DEF HandlePower, Call, AlarmInv
<1>2. low \in BOOLEAN /\ dangerous \in BOOLEAN /\ (dangerous => low)
  BY <1>1, PiIoAssumption
<1>3. /\ captain \in [up : BOOLEAN, low : BOOLEAN, dangerous : BOOLEAN, attended : BOOLEAN]
      /\ requests \in Seq(Asked) /\ (captain.dangerous => captain.low) /\ LastWord
  BY DEF AlarmInv
<1> HIDE DEF low, dangerous
<1>4. /\ captain' \in [up : BOOLEAN, low : BOOLEAN, dangerous : BOOLEAN, attended : BOOLEAN]
      /\ captain'.low = low /\ captain'.dangerous = dangerous /\ captain'.attended = captain.attended
  BY <1>1, <1>2, <1>3
<1>5. eq3 \in Asked /\ small \in Asked /\ eq3.code = Equal3 /\ small.code = Small
  BY DEF Asked
<1> HIDE DEF eq3, small
<1>6. AlarmsFor(low, dangerous) =
        (IF low /\ ~captain.low THEN <<eq3>> ELSE <<>>)
        \o (IF dangerous /\ ~captain.dangerous THEN <<small>> ELSE <<>>)
  BY DEF AlarmsFor, eq3, small
<1> DEFINE more == AlarmsFor(low, dangerous)
           LowBegins == low /\ ~captain.low
           DangerBegins == dangerous /\ ~captain.dangerous
<1>7. \/ LowBegins /\ DangerBegins /\ more = <<eq3, small>>
      \/ LowBegins /\ ~DangerBegins /\ more = <<eq3>>
      \/ ~LowBegins /\ DangerBegins /\ more = <<small>>
      \/ ~LowBegins /\ ~DangerBegins /\ more = <<>>
  <2>1. /\ <<eq3>> \o <<small>> = <<eq3, small>> /\ <<eq3>> \o <<>> = <<eq3>>
        /\ <<>> \o <<small>> = <<small>> /\ <<>> \o <<>> = <<>>
    BY <1>5, OneAndOther
  <2>2. more = (IF LowBegins THEN <<eq3>> ELSE <<>>) \o (IF DangerBegins THEN <<small>> ELSE <<>>)
    BY <1>6
  <2> HIDE DEF more, LowBegins, DangerBegins
  <2>3. CASE LowBegins /\ DangerBegins
    BY <2>1, <2>2, <2>3, Zenon
  <2>4. CASE LowBegins /\ ~DangerBegins
    BY <2>1, <2>2, <2>4, Zenon
  <2>5. CASE ~LowBegins /\ DangerBegins
    BY <2>1, <2>2, <2>5, Zenon
  <2>6. CASE ~LowBegins /\ ~DangerBegins
    BY <2>1, <2>2, <2>6, Zenon
  <2> QED
    BY <2>3, <2>4, <2>5, <2>6
<1>8. requests' = IF io.up THEN requests \o more ELSE requests
  BY <1>1
<1> HIDE DEF more
<1>9. SUFFICES requests' \in Seq(Asked) /\ LastWord'
  BY <1>1, <1>2, <1>3, <1>4 DEF AlarmInv
<1>10. CASE ~io.up
  <2>1. ~captain.attended /\ ~captain'.attended
    BY <1>3, <1>4, <1>10 DEF LastWord
  <2> QED
    BY <1>3, <1>8, <1>10, <2>1 DEF LastWord
<1>11. CASE io.up
  <2>1. requests' = requests \o more /\ io'.up
    BY <1>1, <1>8, <1>11
  <2>2. CASE LowBegins /\ ~DangerBegins /\ more = <<eq3>>
    <3>1. requests' \in Seq(Asked) /\ LastCode' = Equal3
      BY <1>3, <1>5, <2>1, <2>2, LastOfMore DEF LastCode
    <3>2. ~dangerous
      BY <1>3, <2>2
    <3> QED
      BY <1>4, <2>1, <3>1, <3>2 DEF LastWord
  <2>3. CASE ~LowBegins /\ ~DangerBegins /\ more = <<>>
    <3>1. requests' = requests /\ LastCode' = LastCode
      BY <1>1, <1>3, <2>1, <2>3, ConcatEmptySeq DEF LastCode
    <3> QED
      BY <1>2, <1>3, <1>4, <2>1, <2>3, <3>1 DEF LastWord
  <2>4. CASE LowBegins /\ DangerBegins /\ more = <<eq3, small>>
    <3>1. requests' \in Seq(Asked) /\ LastCode' = Small
      BY <1>3, <1>5, <2>1, <2>4, LastOfMore DEF LastCode
    <3> QED
      BY <1>2, <1>4, <2>1, <2>4, <3>1 DEF LastWord
  <2>5. CASE ~LowBegins /\ DangerBegins /\ more = <<small>>
    <3>1. requests' \in Seq(Asked) /\ LastCode' = Small
      BY <1>3, <1>5, <2>1, <2>5, LastOfMore DEF LastCode
    <3> QED
      BY <1>2, <1>4, <2>1, <2>5, <3>1 DEF LastWord
  <2> QED
    BY <1>7, <2>2, <2>3, <2>4, <2>5
<1> QED
  BY <1>10, <1>11

LEMMA AlarmStep ==
  ASSUME AlarmInv, [PiNext]_piVars
  PROVE  AlarmInv'
<1> USE DEF AlarmInv
<1>1. ASSUME NodeDies \/ (OnGpsTimer /\ ReadThrows /\ Dead)
      PROVE  AlarmInv'
  <2>1. /\ io'.up = FALSE /\ requests' = <<>> /\ captain' = [captain EXCEPT !.attended = FALSE]
        /\ UNCHANGED <<sample, volts>>
    BY <1>1 DEF NodeDies, OnGpsTimer, Dead
  <2>2. <<>> \in Seq(Asked)
    BY EmptySeq
  <2> QED
    BY <2>1, <2>2 DEF LastWord
<1>2. ASSUME NEW fd, NEW who, NEW w1, NEW w4, NEW gps, NEW ina, NEW line,
             NodeStarts(fd, who, w1, w4, gps, ina, line)
      PROVE  AlarmInv'
  <2>1. ~io.up /\ io'.up = TRUE /\ UNCHANGED <<captain, sample, requests, volts>>
    BY <1>2 DEF NodeStarts
  <2>2. ~captain.attended
    BY <2>1 DEF LastWord
  <2> QED
    BY <2>1, <2>2 DEF LastWord
<1>3. CASE SetBuzzer
  <2>1. /\ requests # <<>> /\ requests' = Tail(requests) /\ played'.code = Head(requests).code
        /\ UNCHANGED <<io, captain, sample, volts>>
    BY <1>3 DEF SetBuzzer, SetCode
  <2>2. requests' \in Seq(Asked) /\ LastCode' = LastCode
    BY <2>1, LastAfterTail DEF LastCode
  <2> QED
    BY <2>1, <2>2 DEF LastWord
<1>4. CASE CaptainBoots
  <2> DEFINE swung == [code |-> Swung, count |-> BootBeeps]
  <2>1. /\ captain' = [Gone EXCEPT !.up = TRUE, !.attended = io.up]
        /\ UNCHANGED <<io, sample, volts>>
        /\ requests' \in {requests, requests \o <<swung>>}
    BY <1>4 DEF CaptainBoots, Call
  <2>2. swung \in Asked
    BY DEF Asked
  <2> HIDE DEF swung
  <2>3. requests' \in Seq(Asked)
    BY <2>1, <2>2, LastOfMore
  <2>4. /\ captain' \in [up : BOOLEAN, low : BOOLEAN, dangerous : BOOLEAN, attended : BOOLEAN]
        /\ ~captain'.low /\ ~captain'.dangerous /\ captain'.attended = io.up
    BY <2>1 DEF Gone
  <2> QED
    BY <2>1, <2>3, <2>4 DEF LastWord
<1>5. CASE CaptainDies
  <2>1. captain' = Gone /\ sample' = NoSample /\ UNCHANGED <<io, volts, requests>>
    BY <1>5 DEF CaptainDies
  <2> QED
    BY <2>1 DEF LastWord, Gone
<1>6. CASE OnPowerTimer
  <2>1. sample' = volts /\ UNCHANGED <<io, captain, volts, requests, played>>
    BY <1>6 DEF OnPowerTimer
  <2> QED
    BY <2>1 DEF LastWord, LastCode
<1>7. CASE OnTimer
  <2>1. played'.code = played.code
    BY <1>7 DEF OnTimer
  <2> QED
    BY <1>7, <2>1, AlarmSame DEF OnTimer
<1>8. CASE UNCHANGED <<io, captain, sample, volts, requests, played>>
  BY <1>8, AlarmSame
<1>9. CASE BatteryMoves
  BY <1>9, AlarmSame DEF BatteryMoves
<1>10. CASE HandlePower
  BY <1>10, HandlePowerKeeps
<1>11. CASE OnGpsTimer
  <2>1. CASE ReadThrows /\ Dead
    BY <1>1, <1>11, <2>1
  <2>2. CASE UNCHANGED <<io, played, requests, captain>>
    BY <1>8, <1>11, <2>2 DEF OnGpsTimer
  <2> QED
    BY <1>11, <2>1, <2>2 DEF OnGpsTimer
<1> HIDE DEF AlarmInv
<1>12. (\E x, y \in Forces : OnAccelTimer(x, y)) \/ Uart \/ UNCHANGED piVars
       \/ (GpsAlone /\ (LineFails \/ \E gga, cold \in BOOLEAN : Speaks(gga, cold)))
         => UNCHANGED <<io, captain, sample, volts, requests, played>>
  BY DEF OnAccelTimer, Uart, GpsAlone, piVars
<1> QED
  BY <1>1, <1>2, <1>3, <1>4, <1>5, <1>6, <1>7, <1>8, <1>9, <1>10, <1>11, <1>12 DEF PiNext

(* The graver alarm has the last word, for a captain whose whole life the  *)
(* node was there (handle_power, setBuzzer).                               *)
THEOREM GravestLast == PiSpec => []GravestAlarmLast
<1>1. PiInit => AlarmInv
  BY EmptySeq DEF PiInit, AlarmInv, LastWord, Gone
<1>2. AlarmInv /\ [PiNext]_piVars => AlarmInv'
  BY AlarmStep
<1>3. AlarmInv => GravestAlarmLast
  BY DEF AlarmInv, LastWord, LastCode, GravestAlarmLast
<1> QED
  BY <1>1, <1>2, <1>3, PTL DEF PiSpec
-----------------------------------------------------------------------------
(* The buzzer.                                                             *)

(* A pass counts every one of its code once, in its order.                 *)
LEMMA Pass ==
  ASSUME NEW code \in Codes
  PROVE  /\ Cardinality(code) \in Nat /\ (code = Off => Cardinality(code) = 0)
         /\ Before(code, 0) = 0 /\ Before(code, 32) = Cardinality(code)
         /\ \A i \in 0..31 :
              /\ Before(code, i) \in Nat /\ Before(code, i) <= Cardinality(code)
              /\ i \in code => Before(code, i + 1) = Before(code, i) + 1
              /\ i \notin code => Before(code, i + 1) = Before(code, i)
<1>1. code \subseteq 0..31
  BY DEF Codes, Off, Small, Equal3, Swung
<1>2. IsFiniteSet(0..31)
  <2>1. 0 \in Int /\ 31 \in Int
    OBVIOUS
  <2> QED
    BY <2>1, FS_Interval
<1>3. IsFiniteSet(code) /\ Cardinality(code) \in Nat
  BY <1>1, <1>2, FS_Subset, FS_CardinalityType
<1>4. code \cap 0..(0 - 1) = {} /\ code \cap 0..(32 - 1) = code
  <2>1. 0..(0 - 1) = {} /\ 0..(32 - 1) = 0..31
    OBVIOUS
  <2> QED
    BY <1>1, <2>1
<1>5. Before(code, 0) = 0 /\ Before(code, 32) = Cardinality(code)
  BY <1>4, FS_EmptySet DEF Before
<1>6. code = Off => Cardinality(code) = 0
  BY FS_EmptySet DEF Off
<1>7. ASSUME NEW i \in 0..31
      PROVE  /\ Before(code, i) \in Nat /\ Before(code, i) <= Cardinality(code)
             /\ i \in code => Before(code, i + 1) = Before(code, i) + 1
             /\ i \notin code => Before(code, i + 1) = Before(code, i)
  <2> DEFINE old == code \cap 0..(i - 1)
             new == code \cap 0..((i + 1) - 1)
  <2>1. old \subseteq code /\ i \notin old
    BY <1>7
  <2>2. IsFiniteSet(old) /\ Cardinality(old) \in Nat /\ Cardinality(old) <= Cardinality(code)
    BY <1>3, <2>1, FS_Subset, FS_CardinalityType
  <2>3. i \in code => new = old \cup {i}
    BY <1>7
  <2>4. i \notin code => new = old
    BY <1>7
  <2> HIDE DEF old, new
  <2>5. i \in code => Cardinality(new) = Cardinality(old) + 1
    BY <2>1, <2>2, <2>3, FS_AddElement
  <2>6. i \notin code => Cardinality(new) = Cardinality(old)
    BY <2>4
  <2> QED
    BY <2>2, <2>5, <2>6 DEF Before, old, new
<1> QED
  BY <1>3, <1>5, <1>6, <1>7

LEMMA OneMorePass ==
  ASSUME NEW p \in Nat, NEW o \in Nat
  PROVE  /\ p * o \in Nat /\ (p + 1) * o = p * o + o
         /\ p # 0 => (p - 1) * o = p * o - o
         /\ 0 * o = 0 /\ (p - p) * o = 0
OBVIOUS

LEMMA Monotone ==
  ASSUME NEW p \in Nat, NEW q \in Nat, NEW o \in Nat, p <= q
  PROVE  p * o <= q * o
OBVIOUS

(* A code that was just asked for: this pass has lost its beginning, which *)
(* is less than a pass.                                                    *)
LEMMA SetBuzzerKeeps ==
  ASSUME BuzzerInv, SetBuzzer
  PROVE  BuzzerInv'
<1> DEFINE head == Head(requests)
           code == head.code
           once == Cardinality(code)
<1>1. /\ requests \in Seq(Asked) /\ requests # <<>> /\ requests' = Tail(requests)
      /\ buzz' = [buzz EXCEPT !.code = code, !.count = head.count]
      /\ played' = [code |-> code, count |-> head.count, beeps |-> 0]
      /\ io' = io
  BY DEF SetBuzzer, SetCode, BuzzerInv
<1>2. head \in Asked /\ Tail(requests) \in Seq(Asked)
  BY <1>1, HeadTailProperties
<1>3. code \in Codes /\ code # Off /\ head.count \in Nat /\ head.count > 0
  <2>1. 0 \in Small /\ 0 \in Equal3 /\ 0 \in Swung
    BY DEF Small, Equal3, Swung
  <2> QED
    BY <1>2, <2>1, PiIoAssumption DEF Asked, Codes, Off
<1> HIDE DEF head
<1>4. buzz \in [code : Codes, index : 0..31, count : Nat]
  BY DEF BuzzerInv
<1>5. /\ buzz' \in [code : Codes, index : 0..31, count : Nat]
      /\ buzz'.code = code /\ buzz'.count = head.count /\ buzz'.index = buzz.index
      /\ played' \in [code : Codes, count : Nat, beeps : Nat]
      /\ played'.code = code /\ played'.count = head.count /\ played'.beeps = 0
  BY <1>1, <1>3, <1>4
<1> HIDE DEF code
<1>6. /\ once \in Nat /\ Before(code, buzz.index) \in Nat /\ Before(code, buzz.index) <= once
  BY <1>3, <1>4, Pass
<1>7. (head.count - head.count) * once = 0 /\ head.count * once \in Nat
  BY <1>3, <1>6, OneMorePass
<1> HIDE DEF once
<1>8. Counted'
  <2>1. Cardinality(played'.code) = once
    BY <1>5 DEF once
  <2> QED
    BY <1>3, <1>5, <1>6, <1>7, <2>1 DEF Counted, Before
<1>9. PlayedInFull'
  <2>1. Cardinality(played'.code) = once
    BY <1>5 DEF once
  <2> QED
    BY <1>3, <1>5, <1>7, <2>1 DEF PlayedInFull
<1> QED
  BY <1>1, <1>2, <1>5, <1>8, <1>9 DEF BuzzerInv

LEMMA OnTimerKeeps ==
  ASSUME BuzzerInv, OnTimer
  PROVE  BuzzerInv'
<1> DEFINE code == played.code
           once == Cardinality(code)
           passes == played.count - buzz.count
           done == Before(code, buzz.index)
           on == io.buzzer /\ buzz.index \in buzz.code
<1>1. /\ buzz \in [code : Codes, index : 0..31, count : Nat]
      /\ played \in [code : Codes, count : Nat, beeps : Nat]
      /\ requests \in Seq(Asked) /\ Counted /\ PlayedInFull
  BY DEF BuzzerInv
<1>2. /\ UNCHANGED <<io, requests>>
      /\ buzz' = IF buzz.index = 31 THEN EndsPass(buzz) ELSE [buzz EXCEPT !.index = @ + 1]
      /\ played' = IF on THEN [played EXCEPT !.beeps = @ + 1] ELSE played
  BY DEF OnTimer
<1>3. /\ once \in Nat /\ done \in Nat /\ (code = Off => once = 0)
      /\ Before(code, 0) = 0 /\ Before(code, 32) = once
      /\ buzz.index \in code => Before(code, buzz.index + 1) = done + 1
      /\ buzz.index \notin code => Before(code, buzz.index + 1) = done
  BY <1>1, Pass
<1>4. passes \in Nat /\ buzz.count \in Nat /\ played.count \in Nat /\ played.beeps \in Nat
      /\ played.count = passes + buzz.count /\ buzz.index \in 0..31
  BY <1>1 DEF Counted
<1>5. /\ buzz.code = code => /\ played.beeps <= passes * once + done
                             /\ io.buzzer => played.beeps + once >= passes * once + done
      /\ buzz.code # Off => buzz.code = code /\ buzz.count > 0
      /\ played.beeps <= played.count * once
      /\ io.buzzer /\ buzz.code = Off => played.beeps >= (played.count - 1) * once
  BY <1>1 DEF Counted, PlayedInFull
<1>6. /\ passes * once \in Nat /\ (passes + 1) * once = passes * once + once
      /\ played.count * once \in Nat
      /\ played.count # 0 => (played.count - 1) * once = played.count * once - once
  BY <1>3, <1>4, OneMorePass
<1>7. /\ played' \in [code : Codes, count : Nat, beeps : Nat]
      /\ played'.code = code /\ played'.count = played.count
      /\ on => played'.beeps = played.beeps + 1
      /\ ~on => played'.beeps = played.beeps
  BY <1>1, <1>2
<1>8. Off = {}
  BY DEF Off
<1>9. on => buzz.code = code /\ buzz.index \in code
  BY <1>5, <1>8
<1>10. Cardinality(played'.code) = once
  BY <1>7
<1>11. CASE buzz.index # 31
  <2>1. buzz' = [buzz EXCEPT !.index = buzz.index + 1]
    BY <1>2, <1>11
  <2>2. /\ buzz' \in [code : Codes, index : 0..31, count : Nat]
        /\ buzz'.code = buzz.code /\ buzz'.count = buzz.count /\ buzz'.index = buzz.index + 1
    <3>1. buzz.index + 1 \in 0..31
      BY <1>4, <1>11
    <3> HIDE DEF code, once, passes, done, on
    <3> QED
      BY <1>1, <2>1, <3>1
  <2> DEFINE next == Before(code, buzz.index + 1)
  <2>3. Before(played'.code, buzz'.index) = next
    BY <1>7, <2>2
  <2>4. /\ next \in {done, done + 1} /\ (on => next = done + 1)
        /\ (io.buzzer /\ ~on /\ buzz.code = code => next = done)
    BY <1>3, <1>9
  <2>9. next <= once
    <3>1. buzz.index + 1 \in 0..31
      BY <1>4, <1>11
    <3> QED
      BY <1>1, <3>1, Pass
  <2> HIDE DEF code, once, passes, done, on, next
  <2>5. buzz.code = code => /\ played'.beeps <= passes * once + next
                            /\ io.buzzer => played'.beeps + once >= passes * once + next
    BY <1>3, <1>4, <1>5, <1>6, <1>7, <2>4
  <2>6. Counted'
    BY <1>2, <1>4, <1>5, <1>7, <1>10, <2>2, <2>3, <2>5 DEF Counted, passes
  <2>7. /\ played'.beeps <= played.count * once
        /\ io.buzzer /\ buzz.code = Off => played'.beeps >= (played.count - 1) * once
    <3>1. CASE on
      <4>1. buzz.code = code /\ next <= once
        BY <1>9, <2>9, <3>1
      <4>2. buzz.code # Off /\ buzz.count > 0
        BY <1>5, <1>8, <1>9, <3>1
      <4>3. passes + 1 <= played.count
        BY <1>4, <4>2
      <4>4. (passes + 1) * once <= played.count * once
        BY <1>3, <1>4, <4>3, Monotone
      <4> QED
        BY <1>3, <1>4, <1>6, <1>7, <2>4, <2>5, <4>1, <4>2, <4>4
    <3>2. CASE ~on
      BY <1>5, <1>7, <3>2
    <3> QED
      BY <3>1, <3>2
  <2>8. PlayedInFull'
    BY <1>2, <1>7, <1>10, <2>2, <2>7 DEF PlayedInFull
  <2> QED
    BY <1>1, <1>2, <1>7, <2>2, <2>6, <2>8 DEF BuzzerInv
<1>12. CASE buzz.index = 31
  <2> DEFINE left == IF buzz.count > 0 THEN buzz.count - 1 ELSE buzz.count
  <2>1. buzz' = [code |-> IF left = 0 THEN Off ELSE buzz.code, index |-> 0, count |-> left]
    BY <1>2, <1>12 DEF EndsPass
  <2>2. left \in Nat /\ left <= buzz.count /\ (buzz.count > 0 => left = buzz.count - 1)
    BY <1>4
  <2> HIDE DEF left
  <2>3. /\ buzz' \in [code : Codes, index : 0..31, count : Nat]
        /\ buzz'.code = (IF left = 0 THEN Off ELSE buzz.code) /\ buzz'.count = left /\ buzz'.index = 0
    BY <1>1, <2>1, <2>2 DEF Codes
  <2>4. Before(played'.code, buzz'.index) = 0
    BY <1>3, <1>7, <2>3
  <2>5. /\ (on => once = done + 1) /\ (io.buzzer /\ ~on /\ buzz.code = code => once = done)
        /\ once \in {done, done + 1}
    <3>1. buzz.index + 1 = 32
      BY <1>12
    <3> QED
      BY <1>3, <1>9, <3>1
  <2> HIDE DEF code, once, passes, done, on
  <2>6. buzz.code = code => /\ played'.beeps <= (passes + 1) * once
                            /\ io.buzzer => played'.beeps + once >= (passes + 1) * once
    BY <1>3, <1>4, <1>5, <1>6, <1>7, <2>5
  <2>7. CASE buzz.code # Off
    <3>1. buzz.code = code /\ buzz.count > 0 /\ left = buzz.count - 1
      BY <1>5, <2>2, <2>7
    <3>2. played.count - left = passes + 1 /\ left <= played.count
      BY <1>4, <3>1
    <3>3. Counted'
      <4>0. left = 0 => buzz'.code = Off
        BY <2>3
      <4>1. left # 0 => buzz'.code = code /\ left > 0
        <5>1. left # 0 => left > 0
          BY <2>2
        <5>2. left # 0 => buzz'.code = buzz.code
          BY <2>3
        <5> QED
          BY <3>1, <5>1, <5>2, Zenon
      <4>3. (played'.count - buzz'.count) * once = (passes + 1) * once
        BY <1>7, <2>3, <3>2
      <4> QED
        BY <1>2, <1>3, <1>4, <1>6, <1>7, <1>10, <2>3, <2>4, <2>6, <3>1, <3>2, <4>0, <4>1, <4>3 DEF Counted
    <3>4. (passes + 1) * once <= played.count * once
      <4>1. passes + 1 <= played.count
        BY <1>4, <3>1
      <4> QED
        BY <1>3, <1>4, <4>1, Monotone
    <3>5. PlayedInFull'
      <4>1. played'.beeps <= played.count * once
        BY <1>3, <1>4, <1>6, <1>7, <2>6, <3>1, <3>4
      <4>2. ASSUME io.buzzer, buzz'.code = Off PROVE played'.beeps >= (played.count - 1) * once
        <5>1. left = 0
          BY <2>3, <2>7, <4>2
        <5>2. passes + 1 = played.count /\ played.count # 0
          BY <1>4, <3>2, <5>1
        <5> QED
          BY <1>3, <1>4, <1>6, <1>7, <2>6, <3>1, <4>2, <5>2
      <4> QED
        BY <1>2, <1>7, <1>10, <4>1, <4>2 DEF PlayedInFull
    <3> QED
      BY <1>1, <1>2, <1>7, <2>3, <3>3, <3>5 DEF BuzzerInv
  <2>8. CASE buzz.code = Off
    <3>1. buzz'.code = Off /\ ~on /\ played'.beeps = played.beeps
      BY <1>7, <1>8, <2>3, <2>8 DEF on
    <3>2. played' = played
      BY <1>2, <3>1
    <3>3. Counted'
      <4>1. left <= played.count
        BY <1>4, <2>2
      <4>2. code = Off => /\ played.beeps = 0 /\ once = 0
                          /\ (played.count - left) * once = 0
        <5>1. ASSUME code = Off PROVE once = 0 /\ played.beeps = 0 /\ (played.count - left) * once = 0
          <6>1. once = 0 /\ played.count * once = 0 /\ (played.count - left) * once = 0
            BY <1>3, <1>4, <2>2, <4>1, <5>1
          <6> QED
            BY <1>4, <1>5, <6>1
        <5> QED
          BY <5>1
      <4>3. Cardinality(played'.code) = once /\ Before(played'.code, buzz'.index) = 0
        BY <1>10, <2>4
      <4> QED
        BY <1>2, <1>4, <1>7, <2>3, <3>1, <3>2, <4>1, <4>2, <4>3 DEF Counted
    <3>4. PlayedInFull'
      BY <1>1, <1>2, <2>8, <3>1, <3>2 DEF PlayedInFull
    <3> QED
      BY <1>1, <1>2, <1>7, <2>3, <3>3, <3>4 DEF BuzzerInv
  <2> QED
    BY <2>7, <2>8
<1> QED
  BY <1>11, <1>12

(* A node that starts, or is gone, has nothing asked of it.                *)
LEMMA BuzzerFresh ==
  ASSUME buzz' = Quiet, played' = Unasked, requests' \in Seq(Asked)
  PROVE  BuzzerInv'
<1>1. Cardinality(Off) = 0 /\ Before(Off, 0) = 0
  BY Pass DEF Codes
<1>2. /\ buzz' \in [code : Codes, index : 0..31, count : Nat]
      /\ played' \in [code : Codes, count : Nat, beeps : Nat]
      /\ buzz'.code = Off /\ buzz'.index = 0 /\ buzz'.count = 0
      /\ played'.code = Off /\ played'.count = 0 /\ played'.beeps = 0
  BY DEF Quiet, Unasked, Codes
<1>3. Counted' /\ PlayedInFull'
  BY <1>1, <1>2 DEF Counted, PlayedInFull
<1> QED
  BY <1>2, <1>3 DEF BuzzerInv

LEMMA BuzzerStep ==
  ASSUME BuzzerInv, AlarmInv, [PiNext]_piVars
  PROVE  BuzzerInv'
<1>1. requests' \in Seq(Asked)
  BY AlarmStep DEF AlarmInv
<1>2. CASE OnTimer
  BY <1>2, OnTimerKeeps
<1>3. CASE SetBuzzer
  BY <1>3, SetBuzzerKeeps
<1>4. CASE buzz' = Quiet /\ played' = Unasked
  BY <1>1, <1>4, BuzzerFresh
<1>5. CASE UNCHANGED <<io, buzz, played>>
  BY <1>1, <1>5 DEF BuzzerInv, Counted, PlayedInFull
<1>6. \/ OnTimer
      \/ SetBuzzer
      \/ buzz' = Quiet /\ played' = Unasked
      \/ UNCHANGED <<io, buzz, played>>
  BY DEF PiNext, piVars, NodeStarts, NodeDies, Dead, OnAccelTimer, OnPowerTimer, OnGpsTimer,
         CaptainBoots, CaptainDies, HandlePower, BatteryMoves, Uart, GpsAlone
<1> QED
  BY <1>2, <1>3, <1>4, <1>5, <1>6

(* A code is played as often as asked, but for the beginning of its first  *)
(* pass, and never more often (set_code, onTimer).                         *)
THEOREM InFull == PiSpec => []PlayedInFull
<1> DEFINE Both == AlarmInv /\ BuzzerInv
<1>1. PiInit => AlarmInv
  BY EmptySeq DEF PiInit, AlarmInv, LastWord, Gone
<1>2. PiInit => Both
  <2>1. ASSUME PiInit PROVE BuzzerInv
    <3>1. Cardinality(Off) = 0 /\ Before(Off, 0) = 0
      BY Pass DEF Codes
    <3>2. /\ buzz \in [code : Codes, index : 0..31, count : Nat]
          /\ played \in [code : Codes, count : Nat, beeps : Nat]
          /\ buzz.code = Off /\ buzz.index = 0 /\ buzz.count = 0
          /\ played.code = Off /\ played.count = 0 /\ played.beeps = 0
      BY <2>1 DEF PiInit, Quiet, Unasked, Codes
    <3> QED
      BY <2>1, <3>1, <3>2, EmptySeq DEF BuzzerInv, Counted, PlayedInFull, PiInit
  <2> QED
    BY <1>1, <2>1
<1>3. Both /\ [PiNext]_piVars => Both'
  BY AlarmStep, BuzzerStep
<1>4. Both => PlayedInFull
  BY DEF BuzzerInv
<1> QED
  BY <1>2, <1>3, <1>4, PTL DEF PiSpec
-----------------------------------------------------------------------------
(* What the receiver sends, and what drainAndParse holds of it.            *)
Tokens == [part : {"start", "tag", "near", "far", "sum", "end"}, n : Nat, gga : BOOLEAN, cold : BOOLEAN]
Accs == [line : Seq(Tokens), lines : Seq(Seq(Tokens))]

(* A token more keeps the types.                                           *)
LEMMA FramedType ==
  ASSUME NEW acc \in Accs, NEW t \in Tokens
  PROVE  Framed(acc, t) \in Accs
<1>1. /\ acc.line \in Seq(Tokens) /\ acc.lines \in Seq(Seq(Tokens))
      /\ Append(acc.line, t) \in Seq(Tokens) /\ Append(acc.lines, acc.line) \in Seq(Seq(Tokens))
      /\ <<>> \in Seq(Tokens)
  BY DEF Accs
<1>2. \A x : [acc EXCEPT !.line = x] = [line |-> x, lines |-> acc.lines]
  BY DEF Accs
<1> QED
  BY <1>1, <1>2 DEF Framed, Accs

(* drainAndParse as a fold over the subsets of the positions.              *)
Frames(L, w) ==
  CHOOSE it : it = [s \in SUBSET DOMAIN w |->
    IF s = {} THEN [line |-> L, lines |-> <<>>] ELSE Framed(it[s \ {Max(s)}], w[Max(s)])]
FrameBy(w) == [i \in DOMAIN w |-> [a \in Accs |-> Framed(a, w[i])]]
FramesIn(L, w) == FoldLeft(Framed, [line |-> L, lines |-> <<>>], w)

(* It is one by the rules above.                                           *)
LEMMA FramesSolve ==
  ASSUME NEW L \in Seq(Tokens), NEW w \in Seq(Tokens)
  PROVE  /\ FramesIn(L, w) = Frames(L, w)[DOMAIN w]
         /\ DOMAIN w = 1..Len(w)
         /\ Solves(Frames(L, w), 1..Len(w), Accs, [line |-> L, lines |-> <<>>], Tops(1..Len(w)), FrameBy(w))
<1> DEFINE D == 1..Len(w)  c == Tops(D)  G == FrameBy(w)  b == [line |-> L, lines |-> <<>>]
<1>1. Len(w) \in Nat /\ DOMAIN w = D /\ IsFiniteSet(D) /\ \A i \in D : w[i] \in Tokens
  BY FS_Interval
<1>2. \A s \in SUBSET D : s # {} => c[s] \in s /\ c[s] = Max(s)
  BY <1>1, HasMax DEF Tops
<1>3. \A i \in D : \A a \in Accs : G[i][a] = Framed(a, w[i])
  BY <1>1 DEF FrameBy
<1>4. b \in Accs
  BY DEF Accs
<1>5. FramesIn(L, w) = Frames(L, w)[DOMAIN w]
  BY DEF FramesIn, FoldLeft, MapThenFoldSet, Frames
<1> HIDE DEF D, c, G, b
<1>6. \A i \in D, a \in Accs : G[i][a] \in Accs
  BY <1>1, <1>3, FramedType
<1>7. PICK it : Solves(it, D, Accs, b, c, G)
  <2>1. \A s \in SUBSET D : s # {} => c[s] \in s
    BY <1>2
  <2> QED
    BY <1>1, <1>4, <1>6, <2>1, FoldIsThere
<1>8. it = [s \in SUBSET D |-> IF s = {} THEN b ELSE Framed(it[s \ {Max(s)}], w[Max(s)])]
  <2>1. ASSUME NEW s \in SUBSET D
        PROVE  it[s] = IF s = {} THEN b ELSE Framed(it[s \ {Max(s)}], w[Max(s)])
    <3>1. it[s] = Step(c, G, b, it, s)
      BY <1>7 DEF Solves
    <3>2. CASE s = {}
      BY <3>1, <3>2 DEF Step
    <3>3. CASE s # {}
      <4>1. c[s] \in D /\ c[s] = Max(s) /\ it[s \ {c[s]}] \in Accs
        BY <1>2, <3>3, <1>7 DEF Solves
      <4> QED
        BY <4>1, <3>1, <3>3, <1>3 DEF Step
    <3> QED
      BY <3>2, <3>3
  <2> QED
    BY <2>1, <1>7 DEF Solves
<1> DEFINE g == Frames(L, w)
<1>9. g = [s \in SUBSET D |-> IF s = {} THEN b ELSE Framed(g[s \ {Max(s)}], w[Max(s)])]
  BY <1>1, <1>8, Zenon DEF Frames, b
<1> HIDE DEF g
<1>10. \A s \in SUBSET D : g[s] = IF s = {} THEN b ELSE Framed(g[s \ {Max(s)}], w[Max(s)])
  BY <1>9
<1> DEFINE K == {s \in SUBSET D : g[s] \in Accs}
<1>11. ASSUME NEW s \in SUBSET D, \A u \in SUBSET s : u # s => u \in K PROVE s \in K
  <2>1. CASE s = {}
    BY <2>1, <1>10, <1>4
  <2>2. CASE s # {}
    <3>1. Max(s) \in s /\ s \ {Max(s)} \in SUBSET s /\ s \ {Max(s)} # s
      BY <1>2, <2>2
    <3>2. g[s \ {Max(s)}] \in Accs /\ w[Max(s)] \in Tokens
      BY <3>1, <1>11, <1>1
    <3> QED
      BY <2>2, <1>10, <3>2, FramedType
  <2> QED
    BY <2>1, <2>2
<1>12. SUBSET D \subseteq K
  <2>1. IsFiniteSet(D)
    BY <1>1
  <2> HIDE DEF K
  <2> QED
    BY ONLY <2>1, <1>11, SubsetInduction, Zenon
<1>13. g \in [SUBSET D -> Accs]
  BY <1>9, <1>12
<1>14. ASSUME NEW s \in SUBSET D PROVE g[s] = Step(c, G, b, g, s)
  <2>1. CASE s = {}
    BY <2>1, <1>10 DEF Step
  <2>2. CASE s # {}
    <3>1. Max(s) \in D /\ c[s] = Max(s) /\ g[s \ {Max(s)}] \in Accs
      BY <1>2, <2>2, <1>12
    <3>2. g[s] = Framed(g[s \ {Max(s)}], w[Max(s)])
      BY <1>10, <2>2
    <3>3. G[Max(s)][g[s \ {Max(s)}]] = Framed(g[s \ {Max(s)}], w[Max(s)])
      BY <1>3, <3>1
    <3> QED
      BY <3>1, <3>2, <3>3, <2>2, Zenon DEF Step
  <2> QED
    BY <2>1, <2>2
<1>15. Solves(g, D, Accs, b, c, G)
  BY <1>13, <1>14 DEF Solves
<1> QED
  BY <1>1, <1>5, <1>15 DEF g, b, c, G, D

(* One token more is one step of Framed more.                              *)
LEMMA FramesGrow ==
  ASSUME NEW L \in Seq(Tokens), NEW w \in Seq(Tokens), NEW t \in Tokens
  PROVE  /\ FramesIn(L, <<>>) = [line |-> L, lines |-> <<>>]
         /\ FramesIn(L, w) \in Accs
         /\ FramesIn(L, Append(w, t)) = Framed(FramesIn(L, w), t)
<1> DEFINE n == Len(w)  v == Append(w, t)  b == [line |-> L, lines |-> <<>>]
<1>1. n \in Nat /\ v \in Seq(Tokens) /\ Len(v) = n + 1 /\ v[n + 1] = t /\ \A i \in 1..n : v[i] = w[i]
  OBVIOUS
<1>2. FramesIn(L, <<>>) = b
  <2>1. <<>> \in Seq(Tokens) /\ DOMAIN <<>> = {}
    OBVIOUS
  <2>2. FramesIn(L, <<>>) = Frames(L, <<>>)[{}] /\ {} \in SUBSET (1..Len(<<>>))
        /\ Solves(Frames(L, <<>>), 1..Len(<<>>), Accs, b, Tops(1..Len(<<>>)), FrameBy(<<>>))
    BY <2>1, FramesSolve
  <2> QED
    BY <2>2, Zenon DEF Solves, Step
<1>3. /\ FramesIn(L, w) = Frames(L, w)[1..n]
      /\ Solves(Frames(L, w), 1..n, Accs, b, Tops(1..n), FrameBy(w))
  BY FramesSolve
<1>4. /\ FramesIn(L, v) = Frames(L, v)[1..(n + 1)]
      /\ Solves(Frames(L, v), 1..(n + 1), Accs, b, Tops(1..(n + 1)), FrameBy(v))
  <2> HIDE DEF v, b
  <2> QED
    BY <1>1, FramesSolve DEF b
<1>5. (\A i \in 1..n : FrameBy(w)[i] = FrameBy(v)[i]) /\ (\A a \in Accs : FrameBy(v)[n + 1][a] = Framed(a, t))
  <2> HIDE DEF v
  <2> QED
    BY <1>1 DEF FrameBy
<1> HIDE DEF n, v, b
<1>6. Frames(L, v)[1..(n + 1)] = FrameBy(v)[n + 1][Frames(L, w)[1..n]] /\ Frames(L, w)[1..n] \in Accs
  BY <1>1, <1>3, <1>4, <1>5, LeftFoldGrows
<1> QED
  BY <1>2, <1>3, <1>4, <1>5, <1>6 DEF v, b
-----------------------------------------------------------------------------
(* The fixes, and what a line comes to.                                    *)
FullFixes == {Fix(a, b) : a, b \in Int}
Fixes == FullFixes \cup {NoFix, Thrown}
Outcomes == FullFixes \cup {Ignored, Thrown}

(* They are told apart by their result.                                    *)
LEMMA ResultsDiffer ==
  /\ NoFix = [result |-> "none", near |-> 0, far |-> 0]
  /\ Ignored = [result |-> "ignored", near |-> 0, far |-> 0]
  /\ Thrown = [result |-> "thrown", near |-> 0, far |-> 0]
  /\ \A a, b : Fix(a, b).result = "fix"
  /\ \A f \in Fixes : f.result # "ignored" /\ (f.result = "thrown" => f = Thrown)
  /\ \A o \in Outcomes : o.result = "ignored" <=> o = Ignored
<1>1. /\ NoFix = [result |-> "none", near |-> 0, far |-> 0]
      /\ Ignored = [result |-> "ignored", near |-> 0, far |-> 0]
      /\ Thrown = [result |-> "thrown", near |-> 0, far |-> 0]
  BY DEF NoFix, Ignored, Thrown, Fix
<1>2. \A a, b : Fix(a, b).result = "fix"
  BY DEF Fix
<1> QED
  BY <1>1, <1>2 DEF Fixes, Outcomes, FullFixes

(* The fields of a whole sentence and its checksum.                        *)
LEMMA LineEnd == Append(<<"near", "far">>, "sum") = <<"near", "far", "sum">>
<1> DEFINE S == {"near", "far", "sum"}
<1>1. "near" \in S /\ "far" \in S /\ "sum" \in S
  OBVIOUS
<1> HIDE DEF S
<1> QED
  BY <1>1, Tripled, Zenon

(* The types of the parser.                                                *)
LEMMA FieldsType ==
  ASSUME NEW rest \in Seq(Tokens)
  PROVE  Fields(rest) \subseteq Outcomes
<1> DEFINE parts == [i \in DOMAIN rest |-> rest[i].part]
           Is(shape) == parts \in {shape, Append(shape, "sum")}
<1>1. DOMAIN parts = 1..Len(rest) /\ Len(rest) \in Nat /\ \A i \in 1..Len(rest) : rest[i].n \in Nat
  <2>1. DOMAIN rest = 1..Len(rest) /\ Len(rest) \in Nat /\ \A i \in 1..Len(rest) : rest[i] \in Tokens
    OBVIOUS
  <2>2. \A t \in Tokens : t.n \in Nat
    BY DEF Tokens
  <2> QED
    BY <2>1, <2>2
<1>2. Fields(rest) = IF Is(<<"near", "far">>) THEN {Fix(rest[1].n, rest[2].n)}
                     ELSE IF Is(<<"near">>) THEN {Fix(rest[1].n, 0)}
                     ELSE IF Is(<<>>) THEN {Fix(0, 0)} ELSE {Garbled, Thrown}
  BY Zenon DEF Fields
<1>3. ASSUME Is(<<"near", "far">>) PROVE rest[1].n \in Int /\ rest[2].n \in Int
  <2>1. 1 \in DOMAIN parts /\ 2 \in DOMAIN parts
    <3>1. parts = <<"near", "far">> \/ parts = <<"near", "far", "sum">>
      BY <1>3, LineEnd, Zenon
    <3> HIDE DEF parts
    <3> QED
      BY <3>1
  <2> QED
    BY <2>1, <1>1
<1>4. ASSUME Is(<<"near">>) PROVE rest[1].n \in Int
  <2>1. 1 \in DOMAIN parts
    <3>1. parts = <<"near">> \/ parts = <<"near", "sum">>
      BY <1>4
    <3> HIDE DEF parts
    <3> QED
      BY <3>1
  <2> QED
    BY <2>1, <1>1
<1>5. Garbled \in FullFixes /\ \A a, b \in Int : Fix(a, b) \in FullFixes
  <2>1. \A a, b \in Int : Fix(a, b) \in FullFixes
    BY DEF FullFixes
  <2>2. -1 \in Int
    OBVIOUS
  <2> QED
    BY <2>1, <2>2, Zenon DEF Garbled
<1>6. Garbled \in Outcomes /\ Thrown \in Outcomes /\ FullFixes \subseteq Outcomes
  BY <1>5 DEF Outcomes
<1>7. 0 \in Int
  OBVIOUS
<1> HIDE DEF Is
<1> HIDE DEF parts
<1>8. CASE Is(<<"near", "far">>)
  <2>1. Fields(rest) = {Fix(rest[1].n, rest[2].n)}
    BY <1>2, <1>8
  <2>2. Fix(rest[1].n, rest[2].n) \in Outcomes
    BY <1>3, <1>5, <1>6, <1>8
  <2> QED
    BY <2>1, <2>2
<1>9. CASE ~Is(<<"near", "far">>) /\ Is(<<"near">>)
  <2>1. Fields(rest) = {Fix(rest[1].n, 0)}
    BY <1>2, <1>9
  <2>2. Fix(rest[1].n, 0) \in Outcomes
    BY <1>4, <1>5, <1>6, <1>7, <1>9
  <2> QED
    BY <2>1, <2>2
<1>10. CASE ~Is(<<"near", "far">>) /\ ~Is(<<"near">>)
  <2>1. Fields(rest) \in {{Fix(0, 0)}, {Garbled, Thrown}}
    BY <1>2, <1>10
  <2>2. Fix(0, 0) \in Outcomes
    BY <1>5, <1>6, <1>7
  <2> QED
    BY <2>1, <2>2, <1>6
<1> QED
  BY <1>8, <1>9, <1>10

(* A line comes to one of the outcomes, or several.                        *)
LEMMA HandleLineType ==
  ASSUME NEW line \in Seq(Tokens)
  PROVE  HandleLine(line) \subseteq Outcomes
<1> DEFINE commas == {i \in DOMAIN line : line[i].part \in {"tag", "near", "far"}}
           first == CHOOSE i \in commas : \A j \in commas : i <= j
           at == line[first]
<1>1. HandleLine(line) =
        IF commas = {} THEN {Thrown}
        ELSE IF at.part = "near" /\ at.cold /\ line[first - 1].part = "start" THEN {Thrown}
        ELSE IF at.part # "tag" \/ ~at.gga THEN {Ignored}
        ELSE Fields(SubSeq(line, first + 1, Len(line)))
  BY Zenon DEF HandleLine
<1>2. ASSUME commas # {} PROVE SubSeq(line, first + 1, Len(line)) \in Seq(Tokens)
  <2>1. commas \in SUBSET Nat
    OBVIOUS
  <2>2. \E i \in commas : \A j \in commas : i <= j
    <3> HIDE DEF commas
    <3> QED
      BY <1>2, <2>1, LeastNumber
  <2>3. first \in commas
    <3> HIDE DEF commas
    <3> QED
      BY <2>2, Zenon DEF first
  <2>4. first \in 1..Len(line) /\ Len(line) \in Nat
    <3> HIDE DEF first
    <3> QED
      BY <2>3
  <2> HIDE DEF first
  <2>5. \A i \in (first + 1)..Len(line) : line[i] \in Tokens
    BY <2>4
  <2>6. first + 1 \in Int /\ Len(line) \in Int
    BY <2>4
  <2> QED
    BY <2>5, <2>6, SubSeqProperties
<1> HIDE DEF commas, first, at
<1> QED
  BY <1>1, <1>2, FieldsType DEF Outcomes

(* The sets of fixes a read may end with.                                  *)
Possible == SUBSET Fixes

(* A line more keeps the types.                                            *)
LEMMA HandledType ==
  ASSUME NEW fixes \in Possible, NEW line \in Seq(Tokens)
  PROVE  Handled(fixes, line) \in Possible
<1> DEFINE Each(f) == IF f.result = "thrown" THEN {f}
                       ELSE {IF o.result = "ignored" THEN f ELSE o : o \in HandleLine(line)}
<1>1. ASSUME NEW f \in fixes PROVE Each(f) \subseteq Fixes
  <2>1. \A o \in HandleLine(line) : o \in Outcomes
    BY HandleLineType
  <2>2. \A o \in Outcomes : o.result # "ignored" => o \in Fixes
    BY ResultsDiffer DEF Outcomes, Fixes
  <2>3. f \in Fixes
    BY DEF Possible
  <2>4. CASE f.result = "thrown"
    BY <2>3, <2>4
  <2>5. CASE f.result # "thrown"
    <3>1. ASSUME NEW o \in HandleLine(line)
          PROVE  (IF o.result = "ignored" THEN f ELSE o) \in Fixes
      BY <2>1, <2>2, <2>3
    <3> QED
      BY <2>5, <3>1
  <2> QED
    BY <2>4, <2>5
<1>2. Handled(fixes, line) = UNION {Each(f) : f \in fixes}
  BY Zenon DEF Handled
<1> HIDE DEF Each
<1> QED
  BY <1>1, <1>2 DEF Possible

(* Handling the lines as a fold over the subsets of their positions.       *)
Handles(L, w) ==
  CHOOSE it : it = [s \in SUBSET DOMAIN w |->
    IF s = {} THEN {L} ELSE Handled(it[s \ {Max(s)}], w[Max(s)])]
HandleBy(w) == [i \in DOMAIN w |-> [a \in Possible |-> Handled(a, w[i])]]
HandlesIn(L, w) == FoldLeft(Handled, {L}, w)

(* It is one by the rules above.                                           *)
LEMMA HandlesSolve ==
  ASSUME NEW L \in Fixes, NEW w \in Seq(Seq(Tokens))
  PROVE  /\ HandlesIn(L, w) = Handles(L, w)[DOMAIN w]
         /\ DOMAIN w = 1..Len(w)
         /\ Solves(Handles(L, w), 1..Len(w), Possible, {L}, Tops(1..Len(w)), HandleBy(w))
<1> DEFINE D == 1..Len(w)  c == Tops(D)  G == HandleBy(w)  b == {L}
<1>1. Len(w) \in Nat /\ DOMAIN w = D /\ IsFiniteSet(D) /\ \A i \in D : w[i] \in Seq(Tokens)
  BY FS_Interval
<1>2. \A s \in SUBSET D : s # {} => c[s] \in s /\ c[s] = Max(s)
  BY <1>1, HasMax DEF Tops
<1>3. \A i \in D : \A a \in Possible : G[i][a] = Handled(a, w[i])
  BY <1>1 DEF HandleBy
<1>4. b \in Possible
  BY DEF Possible, b
<1>5. HandlesIn(L, w) = Handles(L, w)[DOMAIN w]
  BY DEF HandlesIn, FoldLeft, MapThenFoldSet, Handles
<1> HIDE DEF D, c, G, b
<1>6. \A i \in D, a \in Possible : G[i][a] \in Possible
  BY <1>1, <1>3, HandledType
<1>7. PICK it : Solves(it, D, Possible, b, c, G)
  <2>1. \A s \in SUBSET D : s # {} => c[s] \in s
    BY <1>2
  <2> QED
    BY <1>1, <1>4, <1>6, <2>1, FoldIsThere
<1>8. it = [s \in SUBSET D |-> IF s = {} THEN b ELSE Handled(it[s \ {Max(s)}], w[Max(s)])]
  <2>1. ASSUME NEW s \in SUBSET D
        PROVE  it[s] = IF s = {} THEN b ELSE Handled(it[s \ {Max(s)}], w[Max(s)])
    <3>1. it[s] = Step(c, G, b, it, s)
      BY <1>7 DEF Solves
    <3>2. CASE s = {}
      BY <3>1, <3>2 DEF Step
    <3>3. CASE s # {}
      <4>1. c[s] \in D /\ c[s] = Max(s) /\ it[s \ {c[s]}] \in Possible
        BY <1>2, <3>3, <1>7 DEF Solves
      <4> QED
        BY <4>1, <3>1, <3>3, <1>3 DEF Step
    <3> QED
      BY <3>2, <3>3
  <2> QED
    BY <2>1, <1>7 DEF Solves
<1> DEFINE g == Handles(L, w)
<1>9. g = [s \in SUBSET D |-> IF s = {} THEN b ELSE Handled(g[s \ {Max(s)}], w[Max(s)])]
  BY <1>1, <1>8, Zenon DEF Handles, b
<1> HIDE DEF g
<1>10. \A s \in SUBSET D : g[s] = IF s = {} THEN b ELSE Handled(g[s \ {Max(s)}], w[Max(s)])
  BY <1>9
<1> DEFINE K == {s \in SUBSET D : g[s] \in Possible}
<1>11. ASSUME NEW s \in SUBSET D, \A u \in SUBSET s : u # s => u \in K PROVE s \in K
  <2>1. CASE s = {}
    BY <2>1, <1>10, <1>4
  <2>2. CASE s # {}
    <3>1. Max(s) \in s /\ s \ {Max(s)} \in SUBSET s /\ s \ {Max(s)} # s
      BY <1>2, <2>2
    <3>2. g[s \ {Max(s)}] \in Possible /\ w[Max(s)] \in Seq(Tokens)
      BY <3>1, <1>11, <1>1
    <3> QED
      BY <2>2, <1>10, <3>2, HandledType
  <2> QED
    BY <2>1, <2>2
<1>12. SUBSET D \subseteq K
  <2>1. IsFiniteSet(D)
    BY <1>1
  <2> HIDE DEF K
  <2> QED
    BY ONLY <2>1, <1>11, SubsetInduction, Zenon
<1>13. g \in [SUBSET D -> Possible]
  BY <1>9, <1>12
<1>14. ASSUME NEW s \in SUBSET D PROVE g[s] = Step(c, G, b, g, s)
  <2>1. CASE s = {}
    BY <2>1, <1>10 DEF Step
  <2>2. CASE s # {}
    <3>1. Max(s) \in D /\ c[s] = Max(s) /\ g[s \ {Max(s)}] \in Possible
      BY <1>2, <2>2, <1>12
    <3>2. g[s] = Handled(g[s \ {Max(s)}], w[Max(s)])
      BY <1>10, <2>2
    <3>3. G[Max(s)][g[s \ {Max(s)}]] = Handled(g[s \ {Max(s)}], w[Max(s)])
      BY <1>3, <3>1
    <3> QED
      BY <3>1, <3>2, <3>3, <2>2, Zenon DEF Step
  <2> QED
    BY <2>1, <2>2
<1>15. Solves(g, D, Possible, b, c, G)
  BY <1>13, <1>14 DEF Solves
<1> QED
  BY <1>1, <1>5, <1>15 DEF g, b, c, G, D

(* One line more is one step of Handled more.                              *)
LEMMA HandlesGrow ==
  ASSUME NEW L \in Fixes, NEW w \in Seq(Seq(Tokens)), NEW t \in Seq(Tokens)
  PROVE  /\ HandlesIn(L, <<>>) = {L}
         /\ HandlesIn(L, w) \in Possible
         /\ HandlesIn(L, Append(w, t)) = Handled(HandlesIn(L, w), t)
<1> DEFINE n == Len(w)  v == Append(w, t)  b == {L}
<1>1. n \in Nat /\ v \in Seq(Seq(Tokens)) /\ Len(v) = n + 1 /\ v[n + 1] = t /\ \A i \in 1..n : v[i] = w[i]
  OBVIOUS
<1>2. HandlesIn(L, <<>>) = b
  <2>1. <<>> \in Seq(Seq(Tokens)) /\ DOMAIN <<>> = {}
    OBVIOUS
  <2>2. HandlesIn(L, <<>>) = Handles(L, <<>>)[{}] /\ {} \in SUBSET (1..Len(<<>>))
        /\ Solves(Handles(L, <<>>), 1..Len(<<>>), Possible, b, Tops(1..Len(<<>>)), HandleBy(<<>>))
    BY <2>1, HandlesSolve
  <2> QED
    BY <2>2, Zenon DEF Solves, Step
<1>3. /\ HandlesIn(L, w) = Handles(L, w)[1..n]
      /\ Solves(Handles(L, w), 1..n, Possible, b, Tops(1..n), HandleBy(w))
  BY HandlesSolve
<1>4. /\ HandlesIn(L, v) = Handles(L, v)[1..(n + 1)]
      /\ Solves(Handles(L, v), 1..(n + 1), Possible, b, Tops(1..(n + 1)), HandleBy(v))
  <2> HIDE DEF v, b
  <2> QED
    BY <1>1, HandlesSolve DEF b
<1>5. (\A i \in 1..n : HandleBy(w)[i] = HandleBy(v)[i]) /\ (\A a \in Possible : HandleBy(v)[n + 1][a] = Handled(a, t))
  <2> HIDE DEF v
  <2> QED
    BY <1>1 DEF HandleBy
<1> HIDE DEF n, v, b
<1>6. Handles(L, v)[1..(n + 1)] = HandleBy(v)[n + 1][Handles(L, w)[1..n]] /\ Handles(L, w)[1..n] \in Possible
  BY <1>1, <1>3, <1>4, <1>5, LeftFoldGrows
<1> QED
  BY <1>2, <1>3, <1>4, <1>5, <1>6 DEF v, b
-----------------------------------------------------------------------------
(* The parts of a sentence.                                                *)
LEMMA PartsAre ==
  /\ Len(Parts) = 6
  /\ Parts[1] = "start" /\ Parts[2] = "tag" /\ Parts[3] = "near"
  /\ Parts[4] = "far" /\ Parts[5] = "sum" /\ Parts[6] = "end"
BY DEF Parts

(* A sentence has them all.                                                *)
LEMMA SentenceIs ==
  ASSUME NEW n \in Nat, NEW gga \in BOOLEAN, NEW cold \in BOOLEAN
  PROVE  /\ Sentence(n, gga, cold) \in Seq(Tokens) /\ Len(Sentence(n, gga, cold)) = 6
         /\ \A i \in 1..6 : /\ Sentence(n, gga, cold)[i].part = Parts[i]
                            /\ Sentence(n, gga, cold)[i].n = n
                            /\ Sentence(n, gga, cold)[i].gga = gga
<1> DEFINE S == Sentence(n, gga, cold)
<1>1. S = [i \in 1..6 |-> [part |-> Parts[i], n |-> n, gga |-> gga, cold |-> cold]]
  BY PartsAre DEF Sentence
<1>2. \A i \in 1..6 : Parts[i] \in {"start", "tag", "near", "far", "sum", "end"}
  <2>1. \A i \in 1..6 : i = 1 \/ i = 2 \/ i = 3 \/ i = 4 \/ i = 5 \/ i = 6
    OBVIOUS
  <2> QED
    BY <2>1, PartsAre
<1> HIDE DEF S
<1>3. \A i \in 1..6 : S[i] = [part |-> Parts[i], n |-> n, gga |-> gga, cold |-> cold]
  BY <1>1
<1>4. \A i \in 1..6 : S[i] \in Tokens
  BY <1>2, <1>3 DEF Tokens
<1>5. S \in [1..6 -> Tokens]
  BY <1>1, <1>4
<1>6. S \in Seq(Tokens) /\ Len(S) = 6
  BY <1>5, ListIsSeq
<1> QED
  BY <1>3, <1>6 DEF S

(* What a whole sentence comes to: its fix, or nothing.                    *)
LEMMA WholeLine ==
  ASSUME NEW n \in Nat, NEW gga \in BOOLEAN, NEW cold \in BOOLEAN
  PROVE  HandleLine(SubSeq(Sentence(n, gga, cold), 1, 5)) = {IF gga THEN Fix(n, n) ELSE Ignored}
<1> DEFINE S == Sentence(n, gga, cold)
           line == SubSeq(S, 1, 5)
           commas == {i \in DOMAIN line : line[i].part \in {"tag", "near", "far"}}
           first == CHOOSE i \in commas : \A j \in commas : i <= j
           at == line[first]
           rest == SubSeq(line, first + 1, Len(line))
<1>1. S \in Seq(Tokens) /\ Len(S) = 6
      /\ \A i \in 1..6 : S[i].part = Parts[i] /\ S[i].n = n /\ S[i].gga = gga
  BY SentenceIs
<1>2. HandleLine(line) =
        IF commas = {} THEN {Thrown}
        ELSE IF at.part = "near" /\ at.cold /\ line[first - 1].part = "start" THEN {Thrown}
        ELSE IF at.part # "tag" \/ ~at.gga THEN {Ignored}
        ELSE Fields(rest)
  BY Zenon DEF HandleLine
<1> HIDE DEF S
<1>3. line \in Seq(Tokens) /\ Len(line) = 5 /\ \A i \in 1..5 : line[i] = S[i]
  <2>1. line \in Seq(Tokens) /\ Len(line) = 5 - 1 + 1 /\ \A i \in 1..(5 - 1 + 1) : line[i] = S[1 + i - 1]
    <3>1. 1 \in Nat \ {0} /\ 5 \in 0..Len(S) /\ 1 <= 5 + 1 /\ S \in Seq(Tokens)
      BY <1>1
    <3> QED
      BY ONLY <3>1, PartIs
  <2> QED
    BY <2>1
<1> HIDE DEF line
<1>4. DOMAIN line = 1..5 /\ \A i \in 1..5 : line[i].part = Parts[i] /\ line[i].n = n /\ line[i].gga = gga
  <2>1. \A i \in 1..5 : i \in 1..6
    OBVIOUS
  <2> QED
    BY <1>1, <1>3, <2>1
<1>5. commas = {2, 3, 4}
  <2>1. \A i \in 1..5 : i = 1 \/ i = 2 \/ i = 3 \/ i = 4 \/ i = 5
    OBVIOUS
  <2> QED
    BY <1>4, <2>1, PartsAre
<1> HIDE DEF commas
<1>6. first = 2
  <2>1. \E i \in commas : \A j \in commas : i <= j
    BY <1>5
  <2>2. first \in commas /\ \A j \in commas : first <= j
    BY <2>1, Zenon
  <2> HIDE DEF first
  <2> QED
    BY <1>5, <2>2
<1> HIDE DEF first
<1>7. at.part = "tag" /\ at.gga = gga
  BY <1>4, <1>6, PartsAre
<1>8. Fields(rest) = {Fix(n, n)}
  <2> DEFINE parts == [i \in DOMAIN rest |-> rest[i].part]
             Is(shape) == parts \in {shape, Append(shape, "sum")}
             t == <<"near", "far", "sum">>
  <2>1. rest = SubSeq(line, 3, 5)
    BY <1>3, <1>6
  <2>2. SubSeq(line, 3, 5) \in Seq(Tokens) /\ Len(SubSeq(line, 3, 5)) = 5 - 3 + 1
        /\ \A i \in 1..(5 - 3 + 1) : SubSeq(line, 3, 5)[i] = line[3 + i - 1]
    <3>1. 3 \in Nat \ {0} /\ 5 \in 0..Len(line) /\ 3 <= 5 + 1 /\ line \in Seq(Tokens)
      BY <1>3
    <3> QED
      BY ONLY <3>1, PartIs
  <2> DEFINE cut == SubSeq(line, 3, 5)
  <2> HIDE DEF rest, cut
  <2>3. rest \in Seq(Tokens) /\ Len(rest) = 3 /\ \A i \in 1..3 : rest[i] = line[3 + i - 1]
    <3>1. rest = cut /\ 5 - 3 + 1 = 3
      BY <2>1 DEF cut
    <3>2. cut \in Seq(Tokens) /\ Len(cut) = 3 /\ \A i \in 1..3 : cut[i] = line[3 + i - 1]
      BY <2>2, <3>1, Zenon DEF cut
    <3> QED
      BY <3>1, <3>2
  <2> USE DEF rest
  <2>4. Fields(rest) = IF Is(<<"near", "far">>) THEN {Fix(rest[1].n, rest[2].n)}
                     ELSE IF Is(<<"near">>) THEN {Fix(rest[1].n, 0)}
                     ELSE IF Is(<<>>) THEN {Fix(0, 0)} ELSE {Garbled, Thrown}
    BY Zenon DEF Fields
  <2> HIDE DEF rest
  <2>5. rest[1] = line[3] /\ rest[2] = line[4] /\ rest[3] = line[5] /\ DOMAIN rest = 1..3
    BY <2>3
  <2>6. rest[1].n = n /\ rest[2].n = n /\ rest[1].part = "near" /\ rest[2].part = "far" /\ rest[3].part = "sum"
    BY <1>4, <2>5, PartsAre
  <2>7. parts \in Seq({"near", "far", "sum"}) /\ Len(parts) = 3
        /\ parts[1] = "near" /\ parts[2] = "far" /\ parts[3] = "sum"
    <3>1. parts = [i \in 1..3 |-> rest[i].part]
      BY <2>5
    <3>2. \A i \in 1..3 : i = 1 \/ i = 2 \/ i = 3
      OBVIOUS
    <3> HIDE DEF parts
    <3>3. parts[1] = "near" /\ parts[2] = "far" /\ parts[3] = "sum"
      BY <3>1, <2>6
    <3>4. \A i \in 1..3 : parts[i] \in {"near", "far", "sum"}
      BY <3>2, <3>3
    <3>5. parts \in [1..3 -> {"near", "far", "sum"}]
      BY <3>1, <3>4
    <3> DEFINE K == {"near", "far", "sum"}
    <3> HIDE DEF K
    <3>6. parts \in Seq(K) /\ Len(parts) = 3
      <4>1. parts \in [1..3 -> K] /\ 3 \in Nat
        BY <3>5 DEF K
      <4> QED
        BY ONLY <4>1, ListIsSeq
    <3> QED
      BY <3>3, <3>6 DEF K
  <2>8. t \in Seq({"near", "far", "sum"}) /\ Len(t) = 3 /\ t[1] = "near" /\ t[2] = "far" /\ t[3] = "sum"
    <3> DEFINE S3 == {"near", "far", "sum"}
    <3>1. "near" \in S3 /\ "far" \in S3 /\ "sum" \in S3
      OBVIOUS
    <3> HIDE DEF S3
    <3>2. t \in Seq(S3) /\ Len(t) = 3 /\ t[1] = "near" /\ t[2] = "far" /\ t[3] = "sum"
      BY <3>1
    <3> QED
      BY <3>2 DEF S3
  <2>9. parts = t
    <3> HIDE DEF parts, t
    <3>1. \A i \in 1..3 : i = 1 \/ i = 2 \/ i = 3
      OBVIOUS
    <3>2. \A i \in 1..Len(parts) : parts[i] = t[i]
      BY <2>7, <2>8, <3>1
    <3> QED
      BY <2>7, <2>8, <3>2, SeqEqual
  <2>10. Is(<<"near", "far">>)
    BY <2>9, LineEnd, Zenon
  <2> HIDE DEF Is
  <2> QED
    BY <2>4, <2>6, <2>10
<1> HIDE DEF rest
<1> QED
  BY <1>2, <1>5, <1>7, <1>8 DEF line, S
-----------------------------------------------------------------------------
(* The type invariant of the reader.                                       *)
GpsTypeOK ==
  /\ receiver \in [left : Seq(Tokens), n : Nat]
  /\ wire \in Seq(Tokens) /\ buffer \in Seq(Tokens)
  /\ fix \in Fixes /\ fix # Thrown
  /\ given \in [intact : 0..2, whole : BOOLEAN, clean : BOOLEAN, due : Nat]

(* Nothing to read makes no line.                                          *)
LEMMA FramesBegin ==
  ASSUME NEW L \in Seq(Tokens), NEW w \in Seq(Tokens)
  PROVE  FramesIn(L, <<>>) = [line |-> L, lines |-> <<>>] /\ FramesIn(L, w) \in Accs
<1>1. [part |-> "start", n |-> 0, gga |-> TRUE, cold |-> TRUE] \in Tokens
  BY DEF Tokens
<1> HIDE DEF Tokens
<1> QED
  BY <1>1, FramesGrow

(* No line leaves the fix.                                                 *)
LEMMA HandlesBegin ==
  ASSUME NEW f \in Fixes, NEW w \in Seq(Seq(Tokens))
  PROVE  HandlesIn(f, <<>>) = {f} /\ HandlesIn(f, w) \in Possible
<1>1. <<>> \in Seq(Tokens)
  OBVIOUS
<1> QED
  BY <1>1, HandlesGrow

(* What was read and what is still to be read, taken as one, before and    *)
(* after a step.                                                           *)
LEMMA ReadingIs ==
  /\ Drained = FramesIn(buffer, wire) /\ Parsed = HandlesIn(fix, Drained.lines)
  /\ Drained' = FramesIn(buffer', wire') /\ Parsed' = HandlesIn(fix', Drained'.lines)
BY DEF Drained, Parsed, FramesIn, HandlesIn

(* They have their types.                                                  *)
LEMMA ReadingType ==
  ASSUME GpsTypeOK
  PROVE  Drained \in Accs /\ Parsed \in Possible
<1>1. Drained \in Accs
  BY ReadingIs, FramesBegin DEF GpsTypeOK
<1>2. Drained.lines \in Seq(Seq(Tokens))
  BY <1>1 DEF Accs
<1> QED
  BY <1>1, <1>2, ReadingIs, HandlesBegin DEF GpsTypeOK

(* When the UART is drained, what may be parsed is the fix.                *)
LEMMA NothingToRead ==
  ASSUME GpsTypeOK, wire = <<>>
  PROVE  Drained = [line |-> buffer, lines |-> <<>>] /\ Parsed = {fix}
<1>1. Drained = [line |-> buffer, lines |-> <<>>]
  BY ReadingIs, FramesBegin DEF GpsTypeOK
<1>2. <<>> \in Seq(Seq(Tokens)) /\ Drained.lines = <<>> /\ fix \in Fixes
  BY <1>1 DEF GpsTypeOK
<1>3. Parsed = HandlesIn(fix, <<>>)
  BY <1>2, ReadingIs, Zenon
<1>4. HandlesIn(fix, <<>>) = {fix}
  BY <1>2, HandlesBegin
<1> QED
  BY <1>1, <1>3, <1>4, Zenon

(* The same after a step.                                                  *)
LEMMA NothingLeftToRead ==
  ASSUME GpsTypeOK', wire' = <<>>
  PROVE  Drained' = [line |-> buffer', lines |-> <<>>] /\ Parsed' = {fix'}
<1>1. Drained' = [line |-> buffer', lines |-> <<>>]
  BY ReadingIs, FramesBegin DEF GpsTypeOK
<1>2. <<>> \in Seq(Seq(Tokens)) /\ Drained'.lines = <<>> /\ fix' \in Fixes
  BY <1>1 DEF GpsTypeOK
<1>3. Parsed' = HandlesIn(fix', <<>>)
  BY <1>2, ReadingIs, Zenon
<1>4. HandlesIn(fix', <<>>) = {fix'}
  BY <1>2, HandlesBegin
<1> QED
  BY <1>1, <1>3, <1>4, Zenon

(* One token more: the line grows, is dropped, or is handled.              *)
LEMMA TokenRead ==
  ASSUME GpsTypeOK, NEW t \in Tokens, wire' = Append(wire, t), UNCHANGED <<buffer, fix>>
  PROVE  /\ Drained' = Framed(Drained, t)
         /\ Drained'.lines = Drained.lines => Parsed' = Parsed
         /\ \A line \in Seq(Tokens) :
              Drained'.lines = Append(Drained.lines, line) => Parsed' = Handled(Parsed, line)
<1>1. Drained' = Framed(Drained, t)
  BY ReadingIs, FramesGrow DEF GpsTypeOK
<1>2. Drained.lines \in Seq(Seq(Tokens))
  BY ReadingType DEF Accs
<1>3. fix' = fix /\ fix \in Fixes
  BY DEF GpsTypeOK
<1>4. Parsed = HandlesIn(fix, Drained.lines) /\ Parsed' = HandlesIn(fix, Drained'.lines)
  BY <1>3, ReadingIs, Zenon
<1>5. ASSUME Drained'.lines = Drained.lines PROVE Parsed' = Parsed
  BY <1>4, <1>5, Zenon
<1>6. ASSUME NEW line \in Seq(Tokens), Drained'.lines = Append(Drained.lines, line)
      PROVE  Parsed' = Handled(Parsed, line)
  <2>1. HandlesIn(fix, Append(Drained.lines, line)) = Handled(HandlesIn(fix, Drained.lines), line)
    BY <1>2, <1>3, HandlesGrow
  <2> QED
    BY <1>4, <1>6, <2>1, Zenon
<1> QED
  BY <1>1, <1>5, <1>6, Zenon
-----------------------------------------------------------------------------
(* The rest of the sentence under way, after its first k tokens.           *)
RestIs(k, gga, cold) ==
  receiver.left = SubSeq(Sentence(receiver.n, gga, cold), k + 1, Len(Parts))

(* It is known what the line under way holds: nothing was lost, or a whole *)
(* sentence came since.                                                    *)
Told == given.clean \/ given.intact > 0

(* It holds what was sent of the sentence, or nothing of it.               *)
LineIs(k, gga, cold) ==
  IF given.whole
  THEN k \in 1..5 /\ Drained.line = SubSeq(Sentence(receiver.n, gga, cold), 1, k)
  ELSE Drained.line = <<>> /\ (given.intact > 0 => k \in {0, 6})

(* The reader is in step with the receiver.                                *)
InStep ==
  \E k \in 0..6, gga, cold \in BOOLEAN :
    RestIs(k, gga, cold) /\ (port /\ Told => LineIs(k, gga, cold))

(* The fix that is due is the only one a read can end with, but for an     *)
(* exception, and there is none while nothing was lost.                    *)
Due ==
  /\ given.due # 0 => given.intact > 0
  /\ port /\ given.due # 0 => Parsed \subseteq {Thrown, Fix(given.due, given.due)}
  /\ port /\ given.clean => Thrown \notin Parsed

GpsInv == GpsTypeOK /\ InStep /\ Due

(* A line with one outcome: the fix it stands for, or no change.           *)
LEMMA HandledOne ==
  ASSUME NEW fixes \in Possible, NEW line, NEW o \in Outcomes, o # Thrown, HandleLine(line) = {o}
  PROVE  /\ o = Ignored => Handled(fixes, line) = fixes
         /\ o # Ignored => Handled(fixes, line) \subseteq {Thrown, o}
         /\ Thrown \notin fixes => Thrown \notin Handled(fixes, line)
<1> DEFINE Each(f) == IF f.result = "thrown" THEN {f}
                       ELSE {IF x.result = "ignored" THEN f ELSE x : x \in HandleLine(line)}
<1>1. Handled(fixes, line) = UNION {Each(f) : f \in fixes}
  BY Zenon DEF Handled
<1>2. \A f \in fixes : f \in Fixes
  BY DEF Possible
<1>3. ASSUME NEW f \in fixes
      PROVE  Each(f) = IF f = Thrown THEN {Thrown} ELSE IF o = Ignored THEN {f} ELSE {o}
  <2>1. f.result = "thrown" <=> f = Thrown
    BY <1>2, ResultsDiffer
  <2>2. o.result = "ignored" <=> o = Ignored
    BY ResultsDiffer
  <2>3. {IF x.result = "ignored" THEN f ELSE x : x \in HandleLine(line)} = {IF o = Ignored THEN f ELSE o}
    BY <2>2
  <2> QED
    BY <2>1, <2>3
<1> HIDE DEF Each
<1> QED
  BY <1>1, <1>3

(* A step of the other parts keeps the invariant.                          *)
LEMMA GpsSame ==
  ASSUME GpsInv, UNCHANGED <<receiver, port, wire, buffer, fix, given>>
  PROVE  GpsInv'
<1>1. Drained' = Drained /\ Parsed' = Parsed
  BY DEF Drained, Parsed
<1>2. GpsTypeOK'
  BY DEF GpsInv, GpsTypeOK
<1>3. InStep'
  BY <1>1 DEF GpsInv, InStep, RestIs, LineIs, Told
<1>4. Due'
  BY <1>1 DEF GpsInv, Due
<1> QED
  BY <1>2, <1>3, <1>4 DEF GpsInv

(* The history of a port just opened.                                      *)
LEMMA SilenceIs ==
  /\ Silence \in [intact : 0..2, whole : BOOLEAN, clean : BOOLEAN, due : Nat]
  /\ Silence.intact = 0 /\ ~Silence.whole /\ Silence.clean /\ Silence.due = 0
BY DEF Silence

(* Opened or closed: nothing was read.                                     *)
LEMMA GpsResets ==
  ASSUME GpsInv, OpenGps(TRUE) \/ OpenGps(FALSE) \/ CloseGps
  PROVE  GpsInv'
<1>1. wire' = <<>> /\ buffer' = <<>> /\ fix' = NoFix /\ given' = Silence /\ receiver' = receiver
  BY DEF OpenGps, CloseGps
<1>2. NoFix \in Fixes /\ NoFix # Thrown
  BY ResultsDiffer DEF Fixes
<1>3. GpsTypeOK'
  BY <1>1, <1>2, SilenceIs DEF GpsInv, GpsTypeOK
<1>4. Drained' = [line |-> <<>>, lines |-> <<>>] /\ Parsed' = {NoFix}
  BY <1>1, <1>3, NothingLeftToRead
<1>5. PICK k \in 0..6, gga \in BOOLEAN, cold \in BOOLEAN : RestIs(k, gga, cold)
  BY DEF GpsInv, InStep
<1>6. RestIs(k, gga, cold)'
  BY <1>1, <1>5 DEF RestIs
<1>7. LineIs(k, gga, cold)'
  BY <1>1, <1>4, SilenceIs DEF LineIs
<1>8. InStep'
  BY <1>6, <1>7 DEF InStep
<1>9. Due'
  BY <1>1, <1>2, <1>4, SilenceIs DEF Due
<1> QED
  BY <1>3, <1>8, <1>9 DEF GpsInv

(* What is left of the sentence under way, and its next token.             *)
LEMMA RestLeft ==
  ASSUME GpsTypeOK, NEW k \in 0..6, NEW gga \in BOOLEAN, NEW cold \in BOOLEAN, RestIs(k, gga, cold)
  PROVE  /\ receiver.left = <<>> => k = 6
         /\ receiver.left # <<>> =>
              /\ k \in 0..5
              /\ Head(receiver.left) = Sentence(receiver.n, gga, cold)[k + 1]
              /\ Tail(receiver.left) = SubSeq(Sentence(receiver.n, gga, cold), k + 2, Len(Parts))
<1> DEFINE S == Sentence(receiver.n, gga, cold)
<1>1. receiver.n \in Nat
  BY DEF GpsTypeOK
<1>2. S \in Seq(Tokens) /\ Len(S) = 6
  BY <1>1, SentenceIs
<1>3. Len(Parts) = 6 /\ receiver.left = SubSeq(S, k + 1, 6)
  BY PartsAre DEF RestIs
<1> HIDE DEF S
<1>4. Len(SubSeq(S, k + 1, 6)) = 6 - (k + 1) + 1
  <2>1. k + 1 \in Nat \ {0} /\ 6 \in 0..Len(S) /\ k + 1 <= 6 + 1
    BY <1>2
  <2> QED
    BY <1>2, <2>1, PartIs
<1>5. ASSUME receiver.left = <<>> PROVE k = 6
  <2>1. 6 - (k + 1) + 1 = 0
    BY <1>3, <1>4, <1>5, EmptySeq
  <2> QED
    BY <2>1
<1>6. ASSUME receiver.left # <<>> PROVE k \in 0..5
  <2>1. k # 6
    <3> SUFFICES ASSUME k = 6 PROVE FALSE
      OBVIOUS
    <3>1. SubSeq(S, k + 1, 6) = <<>>
      BY SubSeqEmpty
    <3> QED
      BY <1>3, <1>6, <3>1
  <2> QED
    BY <2>1
<1>7. ASSUME receiver.left # <<>>
      PROVE  Head(receiver.left) = S[k + 1] /\ Tail(receiver.left) = SubSeq(S, k + 2, Len(Parts))
  <2>1. k \in Nat /\ k < Len(S) /\ S \in Seq(Tokens)
    BY <1>2, <1>6, <1>7
  <2>2. Head(SubSeq(S, k + 1, Len(S))) = S[k + 1] /\ Tail(SubSeq(S, k + 1, Len(S))) = SubSeq(S, k + 2, Len(S))
    BY <2>1, PartGrows
  <2> QED
    BY <1>2, <1>3, <2>2
<1> QED
  BY <1>5, <1>6, <1>7 DEF S

(* The receiver begins a sentence.                                         *)
LEMMA GpsSpeaks ==
  ASSUME GpsInv, NEW gga \in BOOLEAN, NEW cold \in BOOLEAN, Speaks(gga, cold)
  PROVE  GpsInv'
<1> DEFINE S == Sentence(receiver'.n, gga, cold)
<1>1. /\ receiver.left = <<>> /\ receiver.n \in Nat /\ UNCHANGED <<port, wire, buffer, fix, given>>
      /\ receiver' = [left |-> Sentence(receiver.n + 1, gga, cold), n |-> receiver.n + 1]
  BY DEF Speaks, GpsInv, GpsTypeOK
<1>2. receiver'.left = S /\ receiver'.n \in Nat
  BY <1>1
<1>3. S \in Seq(Tokens) /\ Len(S) = 6 /\ Len(Parts) = 6
  BY <1>2, SentenceIs, PartsAre
<1>4. GpsTypeOK'
  BY <1>1, <1>2, <1>3 DEF GpsInv, GpsTypeOK
<1>5. Drained' = Drained /\ Parsed' = Parsed
  BY <1>1 DEF Drained, Parsed
<1>6. RestIs(0, gga, cold)'
  <2> HIDE DEF S
  <2>1. S = SubSeq(S, 0 + 1, Len(Parts))
    BY <1>3, SubSeqFull
  <2> QED
    BY <1>2, <2>1 DEF RestIs, S
<1>7. port /\ Told => Drained.line = <<>> /\ ~given.whole
  <2>1. PICK k \in 0..6, g \in BOOLEAN, c \in BOOLEAN :
               RestIs(k, g, c) /\ (port /\ Told => LineIs(k, g, c))
    BY DEF GpsInv, InStep
  <2>2. k = 6
    BY <1>1, <2>1, RestLeft DEF GpsInv
  <2> QED
    BY <2>1, <2>2 DEF LineIs
<1>8. (port /\ Told => LineIs(0, gga, cold))'
  BY <1>1, <1>5, <1>7 DEF LineIs, Told
<1>9. InStep'
  BY <1>6, <1>8 DEF InStep
<1>10. Due'
  BY <1>1, <1>5 DEF GpsInv, Due
<1> QED
  BY <1>4, <1>9, <1>10 DEF GpsInv

(* A read moves what is on the wire into the buffer and the fix; the guard *)
(* against a long line does not touch a whole one.                         *)
LEMMA GpsReads ==
  ASSUME GpsInv, NEW f \in Parsed, ReadFix(f)
  PROVE  GpsInv'
<1>1. /\ port /\ f.result # "thrown" /\ fix' = f /\ buffer' = Guarded(Drained.line) /\ wire' = <<>>
      /\ UNCHANGED <<receiver, port, given>>
  BY DEF ReadFix
<1>2. Drained \in Accs /\ Parsed \in Possible
  BY ReadingType DEF GpsInv
<1>3. Drained.line \in Seq(Tokens) /\ f \in Fixes /\ f # Thrown
  BY <1>1, <1>2, ResultsDiffer DEF Accs, Possible
<1>4. GpsTypeOK'
  BY <1>1, <1>3 DEF GpsInv, GpsTypeOK, Guarded
<1>5. Drained' = [line |-> Guarded(Drained.line), lines |-> <<>>] /\ Parsed' = {f}
  BY <1>1, <1>4, NothingLeftToRead
<1>6. PICK k \in 0..6, gga \in BOOLEAN, cold \in BOOLEAN :
             RestIs(k, gga, cold) /\ (port /\ Told => LineIs(k, gga, cold))
  BY DEF GpsInv, InStep
<1>7. RestIs(k, gga, cold)'
  BY <1>1, <1>6 DEF RestIs
<1>8. (port /\ Told => LineIs(k, gga, cold))'
  <2> SUFFICES ASSUME port, Told PROVE LineIs(k, gga, cold)'
    BY <1>1 DEF Told
  <2>1. CASE given.whole
    <3> DEFINE R == Sentence(receiver.n, gga, cold)
    <3>1. k \in 1..5 /\ Drained.line = SubSeq(R, 1, k)
      BY <1>6, <2>1 DEF LineIs
    <3>2. R \in Seq(Tokens) /\ Len(R) = 6
      <4>1. receiver.n \in Nat
        BY DEF GpsInv, GpsTypeOK
      <4> QED
        BY <4>1, SentenceIs
    <3>3. Len(SubSeq(R, 1, k)) = k - 1 + 1
      <4> HIDE DEF R
      <4>1. 1 \in Nat \ {0} /\ k \in 0..Len(R) /\ 1 <= k + 1
        BY <3>1, <3>2
      <4> QED
        BY <3>2, <4>1, PartIs
    <3>4. Len(Drained.line) <= 4 * MaxLine
      <4> HIDE DEF R
      <4>1. MaxLine \in Nat /\ MaxLine >= 5
        BY GpsAssumption, PartsAre
      <4> QED
        BY <3>1, <3>3, <4>1
    <3>5. Drained'.line = Drained.line
      <4>1. Guarded(Drained.line) = Drained.line
        <5>1. ~(Len(Drained.line) > 4 * MaxLine)
          <6>1. Len(Drained.line) \in Nat /\ MaxLine \in Nat
            BY <1>3, LenProperties, GpsAssumption
          <6> QED
            BY <3>4, <6>1
        <5> QED
          BY <5>1 DEF Guarded
      <4> QED
        BY <1>5, <4>1
    <3> QED
      BY <1>1, <2>1, <3>1, <3>5 DEF LineIs
  <2>2. CASE ~given.whole
    <3>1. Drained.line = <<>> /\ (given.intact > 0 => k \in {0, 6})
      BY <1>6, <2>2 DEF LineIs
    <3>2. Drained'.line = <<>>
      BY <1>5, <3>1 DEF Guarded
    <3> QED
      BY <1>1, <2>2, <3>1, <3>2 DEF LineIs
  <2> QED
    BY <2>1, <2>2
<1>9. InStep'
  BY <1>7, <1>8 DEF InStep
<1>10. Due'
  BY <1>1, <1>3, <1>5 DEF GpsInv, Due
<1> QED
  BY <1>4, <1>9, <1>10 DEF GpsInv

(* What a token does to the history.                                       *)
LEMMA GivenWholeIs ==
  ASSUME GpsTypeOK, NEW t \in Tokens
  PROVE  /\ t.part = "start" =>
              /\ GivenWhole(t).whole /\ GivenWhole(t).intact = given.intact
              /\ GivenWhole(t).clean = given.clean /\ GivenWhole(t).due = given.due
         /\ t.part # "start" /\ (t.part # "end" \/ ~given.whole) => GivenWhole(t) = given
         /\ t.part = "end" /\ given.whole =>
              /\ ~GivenWhole(t).whole /\ GivenWhole(t).intact > 0
              /\ GivenWhole(t).clean = given.clean
              /\ GivenWhole(t).due = IF t.gga /\ Told THEN t.n ELSE given.due
         /\ GivenWhole(t) \in [intact : 0..2, whole : BOOLEAN, clean : BOOLEAN, due : Nat]
<1>1. given \in [intact : 0..2, whole : BOOLEAN, clean : BOOLEAN, due : Nat] /\ t.n \in Nat
  BY DEF GpsTypeOK, Tokens
<1>2. CASE t.part = "start"
  <2>1. GivenWhole(t) = [given EXCEPT !.whole = TRUE]
    BY <1>2 DEF GivenWhole
  <2> QED
    BY <1>1, <1>2, <2>1
<1>3. CASE t.part # "start" /\ (t.part # "end" \/ ~given.whole)
  BY <1>1, <1>3 DEF GivenWhole
<1>4. CASE t.part = "end" /\ given.whole
  <2> DEFINE more == IF given.intact = 2 THEN 2 ELSE given.intact + 1
             due == IF t.gga /\ Told THEN t.n ELSE given.due
  <2>1. GivenWhole(t) = [given EXCEPT !.whole = FALSE, !.intact = more, !.due = due]
    BY <1>4 DEF GivenWhole, Told
  <2>2. more \in 0..2 /\ more > 0 /\ due \in Nat
    BY <1>1
  <2> HIDE DEF more
  <2>3. GivenWhole(t).due = due
    <3> HIDE DEF due
    <3> QED
      BY <1>1, <2>1
  <2>4. GivenWhole(t).intact = more /\ ~GivenWhole(t).whole /\ GivenWhole(t).clean = given.clean
        /\ GivenWhole(t) \in [intact : 0..2, whole : BOOLEAN, clean : BOOLEAN, due : Nat]
    <3> HIDE DEF due
    <3> QED
      BY <1>1, <2>1, <2>2
  <2> QED
    BY <1>4, <2>2, <2>3, <2>4
<1> QED
  BY <1>2, <1>3, <1>4

(* What a token does to the line and to the lines.                         *)
LEMMA FramedIs ==
  ASSUME NEW acc \in Accs, NEW t \in Tokens
  PROVE  /\ t.part # "end" => Framed(acc, t).lines = acc.lines
         /\ t.part # "end" /\ (acc.line # <<>> \/ t.part = "start") =>
              Framed(acc, t).line = Append(acc.line, t)
         /\ acc.line = <<>> /\ t.part # "start" => Framed(acc, t) = acc
         /\ t.part = "end" => Framed(acc, t).line = <<>>
         /\ t.part = "end" /\ acc.line # <<>> /\ Len(acc.line) <= MaxLine =>
              Framed(acc, t).lines = Append(acc.lines, acc.line)
<1>1. CASE acc.line = <<>> /\ t.part # "start"
  BY <1>1 DEF Framed
<1>2. CASE ~(acc.line = <<>> /\ t.part # "start") /\ t.part # "end"
  <2>1. Framed(acc, t) = [acc EXCEPT !.line = Append(acc.line, t)]
    BY <1>2 DEF Framed
  <2> QED
    BY <1>2, <2>1 DEF Accs
<1>3. CASE acc.line # <<>> /\ t.part = "end"
  <2>1. Framed(acc, t) =
          [line |-> <<>>,
           lines |-> IF Len(acc.line) <= MaxLine THEN Append(acc.lines, acc.line) ELSE acc.lines]
    BY <1>3 DEF Framed
  <2> QED
    BY <1>3, <2>1
<1> QED
  BY <1>1, <1>2, <1>3

(* The first k tokens of a sentence, and one more.                         *)
LEMMA FirstPart ==
  ASSUME NEW n \in Nat, NEW gga \in BOOLEAN, NEW cold \in BOOLEAN, NEW k \in 0..5
  PROVE  /\ SubSeq(Sentence(n, gga, cold), 1, k) \in Seq(Tokens)
         /\ Len(SubSeq(Sentence(n, gga, cold), 1, k)) = k
         /\ SubSeq(Sentence(n, gga, cold), 1, k) = <<>> <=> k = 0
         /\ SubSeq(Sentence(n, gga, cold), 1, k + 1)
            = Append(SubSeq(Sentence(n, gga, cold), 1, k), Sentence(n, gga, cold)[k + 1])
<1> DEFINE S == Sentence(n, gga, cold)
           s == SubSeq(S, 1, k)
<1>1. S \in Seq(Tokens) /\ Len(S) = 6
  BY SentenceIs
<1> HIDE DEF S
<1>2. s \in Seq(Tokens) /\ Len(s) = k - 1 + 1
  <2>1. 1 \in Nat \ {0} /\ k \in 0..Len(S) /\ 1 <= k + 1
    BY <1>1
  <2> QED
    BY <1>1, <2>1, PartIs
<1>3. k = 0 => s = <<>>
  <2> SUFFICES ASSUME k = 0 PROVE s = <<>>
    OBVIOUS
  <2> QED
    BY SubSeqEmpty
<1>4. s = <<>> => k = 0
  <2> SUFFICES ASSUME s = <<>> PROVE k = 0
    OBVIOUS
  <2>1. k - 1 + 1 = 0
    BY <1>2, EmptySeq
  <2> QED
    BY <2>1
<1>5. SubSeq(S, 1, k + 1) = Append(s, S[k + 1])
  <2>1. k \in Nat /\ k < Len(S)
    BY <1>1
  <2> QED
    BY <1>1, <2>1, PartGrows
<1> HIDE DEF s
<1>6. Len(s) = k
  BY <1>2
<1> QED
  BY <1>2, <1>3, <1>4, <1>5, <1>6, Zenon DEF s, S

(* A token is lost, or the port is not open.                               *)
LEMMA TokenLost ==
  ASSUME GpsInv, TokenArrives, ~(port /\ ~losing)
  PROVE  GpsInv'
<1>1. /\ receiver.left # <<>> /\ receiver' = [receiver EXCEPT !.left = Tail(receiver.left)]
      /\ UNCHANGED <<port, wire, buffer, fix>> /\ given' = [Silence EXCEPT !.clean = FALSE]
  BY DEF TokenArrives
<1>2. given' \in [intact : 0..2, whole : BOOLEAN, clean : BOOLEAN, due : Nat]
      /\ given'.intact = 0 /\ ~given'.clean /\ given'.due = 0
  <2> DEFINE m == [Silence EXCEPT !.clean = FALSE]
  <2>1. m \in [intact : 0..2, whole : BOOLEAN, clean : BOOLEAN, due : Nat]
        /\ m.intact = 0 /\ ~m.clean /\ m.due = 0
    BY SilenceIs
  <2> HIDE DEF m
  <2>2. given' = m
    BY <1>1 DEF m
  <2> QED
    BY <2>1, <2>2, Zenon
<1>3. receiver \in [left : Seq(Tokens), n : Nat] /\ Tail(receiver.left) \in Seq(Tokens)
  BY <1>1, HeadTailProperties DEF GpsInv, GpsTypeOK
<1>4. GpsTypeOK'
  BY <1>1, <1>2, <1>3 DEF GpsInv, GpsTypeOK
<1>5. PICK k \in 0..6, gga \in BOOLEAN, cold \in BOOLEAN : RestIs(k, gga, cold)
  BY DEF GpsInv, InStep
<1>6. k \in 0..5 /\ Tail(receiver.left) = SubSeq(Sentence(receiver.n, gga, cold), k + 2, Len(Parts))
  BY <1>1, <1>5, RestLeft DEF GpsInv
<1>7. receiver'.left = Tail(receiver.left) /\ receiver'.n = receiver.n
  BY <1>1, <1>3
<1>8. k + 1 \in 0..6 /\ (k + 1) + 1 = k + 2
  BY <1>6
<1>9. RestIs(k + 1, gga, cold)'
  BY <1>6, <1>7, <1>8 DEF RestIs
<1>10. ~Told'
  BY <1>2 DEF Told
<1>11. InStep'
  BY <1>8, <1>9, <1>10 DEF InStep
<1>12. Due'
  BY <1>2 DEF Due
<1> QED
  BY <1>4, <1>11, <1>12 DEF GpsInv

(* A token arrives. The first of a sentence begins the line, the last one  *)
(* ends it, and what was whole comes to what it says.                      *)
LEMMA TokenGiven ==
  ASSUME GpsInv, TokenArrives, port, ~losing
  PROVE  GpsInv'
<1>1. PICK k \in 0..6, gga \in BOOLEAN, cold \in BOOLEAN :
             RestIs(k, gga, cold) /\ (port /\ Told => LineIs(k, gga, cold))
  BY DEF GpsInv, InStep
<1> DEFINE n == receiver.n
           S == Sentence(n, gga, cold)
           t == S[k + 1]
           line == SubSeq(S, 1, k)
<1>2. /\ receiver.left # <<>> /\ receiver' = [receiver EXCEPT !.left = Tail(receiver.left)]
      /\ UNCHANGED <<port, buffer, fix>>
      /\ wire' = Append(wire, Head(receiver.left)) /\ given' = GivenWhole(Head(receiver.left))
  BY DEF TokenArrives
<1>3. n \in Nat /\ GpsTypeOK
  BY DEF GpsInv, GpsTypeOK
<1>4. k \in 0..5 /\ Head(receiver.left) = t /\ Tail(receiver.left) = SubSeq(S, k + 2, Len(Parts))
  BY <1>1, <1>2, <1>3, RestLeft
<1>5. S \in Seq(Tokens) /\ Len(S) = 6
      /\ \A i \in 1..6 : S[i].part = Parts[i] /\ S[i].n = n /\ S[i].gga = gga
  BY <1>3, SentenceIs
<1>6. t \in Tokens /\ t.part = Parts[k + 1] /\ t.n = n /\ t.gga = gga
  <2> HIDE DEF S
  <2>1. k + 1 \in 1..6 /\ k + 1 \in 1..Len(S)
    BY <1>4, <1>5
  <2> QED
    BY <1>5, <2>1, ElementOfSeq
<1>7. /\ line \in Seq(Tokens) /\ Len(line) = k /\ (line = <<>> <=> k = 0)
      /\ SubSeq(S, 1, k + 1) = Append(line, t)
  BY <1>3, <1>4, FirstPart
<1>8. HandleLine(SubSeq(S, 1, 5)) = {IF gga THEN Fix(n, n) ELSE Ignored}
  BY <1>3, WholeLine
<1> HIDE DEF S, t
<1>9. wire' = Append(wire, t) /\ given' = GivenWhole(t)
  BY <1>2, <1>4
<1>10. /\ t.part = "start" =>
              /\ given'.whole /\ given'.intact = given.intact
              /\ given'.clean = given.clean /\ given'.due = given.due
       /\ t.part # "start" /\ (t.part # "end" \/ ~given.whole) => given' = given
       /\ t.part = "end" /\ given.whole =>
              /\ ~given'.whole /\ given'.intact > 0
              /\ given'.clean = given.clean
              /\ given'.due = IF t.gga /\ Told THEN t.n ELSE given.due
       /\ given' \in [intact : 0..2, whole : BOOLEAN, clean : BOOLEAN, due : Nat]
  BY <1>3, <1>6, <1>9, GivenWholeIs
<1>11. receiver \in [left : Seq(Tokens), n : Nat] /\ Tail(receiver.left) \in Seq(Tokens)
  BY <1>2, <1>3, HeadTailProperties DEF GpsTypeOK
<1>12. receiver'.left = SubSeq(S, k + 2, Len(Parts)) /\ receiver'.n = n
       /\ receiver' \in [left : Seq(Tokens), n : Nat]
  BY <1>2, <1>4, <1>11
<1>13. GpsTypeOK'
  <2>1. wire' \in Seq(Tokens)
    BY <1>3, <1>6, <1>9 DEF GpsTypeOK
  <2> QED
    BY <1>2, <1>3, <1>10, <1>12, <2>1 DEF GpsTypeOK
<1>14. RestIs(k + 1, gga, cold)' /\ k + 1 \in 1..6
  <2>1. k + 1 \in 1..6 /\ (k + 1) + 1 = k + 2
    BY <1>4
  <2>2. receiver'.left = SubSeq(Sentence(receiver'.n, gga, cold), k + 2, Len(Parts))
    BY <1>12 DEF S
  <2> QED
    BY <2>1, <2>2 DEF RestIs
<1>15. Drained \in Accs /\ Parsed \in Possible
  BY <1>3, ReadingType
<1>16. Drained' = Framed(Drained, t)
       /\ (Drained'.lines = Drained.lines => Parsed' = Parsed)
       /\ \A l \in Seq(Tokens) :
              Drained'.lines = Append(Drained.lines, l) => Parsed' = Handled(Parsed, l)
  BY <1>2, <1>3, <1>6, <1>9, TokenRead
<1>17. SubSeq(Sentence(receiver'.n, gga, cold), 1, k + 1) = Append(line, t)
  BY <1>7, <1>12 DEF S
<1>18. port /\ Told =>
         IF given.whole THEN k \in 1..5 /\ Drained.line = line
         ELSE Drained.line = <<>> /\ (given.intact > 0 => k \in {0, 6})
  BY <1>1, Zenon DEF LineIs, S
<1>19. Due
  BY DEF GpsInv
<1> HIDE DEF line
<1>20. ~Told => ~given.clean /\ given.intact = 0 /\ given.due = 0
  BY <1>3, <1>19 DEF Told, GpsTypeOK, Due
<1>21. SUFFICES (port /\ Told => LineIs(k + 1, gga, cold))' /\ Due'
  BY <1>13, <1>14 DEF GpsInv, InStep
<1>22. CASE k = 0
  <2>1. t.part = "start" /\ t.part # "end"
    BY <1>6, <1>22, PartsAre
  <2>2. /\ given'.whole /\ given'.intact = given.intact
        /\ given'.clean = given.clean /\ given'.due = given.due
    BY <1>10, <2>1
  <2>3. Drained'.line = Append(Drained.line, t) /\ Drained'.lines = Drained.lines
    BY <1>6, <1>15, <1>16, <2>1, FramedIs
  <2>4. Parsed' = Parsed
    BY <1>16, <2>3
  <2>5. Due'
    BY <1>2, <1>19, <2>2, <2>4 DEF Due
  <2>6. ASSUME port, Told PROVE LineIs(k + 1, gga, cold)'
    <3>1. Drained.line = line
      BY <1>7, <1>18, <1>22, <2>6
    <3>2. Drained'.line = SubSeq(Sentence(receiver'.n, gga, cold), 1, k + 1) /\ k + 1 \in 1..5
      BY <1>17, <1>22, <2>3, <3>1
    <3> QED
      BY <2>2, <3>2 DEF LineIs
  <2>7. Told' => Told
    BY <2>2 DEF Told
  <2> QED
    BY <1>2, <2>5, <2>6, <2>7
<1>23. CASE k \in 1..4
  <2>1. t.part # "start" /\ t.part # "end"
    <3>1. k = 1 \/ k = 2 \/ k = 3 \/ k = 4
      BY <1>23
    <3> QED
      BY <1>6, <3>1, PartsAre
  <2>2. given' = given
    BY <1>10, <2>1
  <2>3. Drained'.lines = Drained.lines
    BY <1>6, <1>15, <1>16, <2>1, FramedIs
  <2>4. Parsed' = Parsed
    BY <1>16, <2>3
  <2>5. Due'
    BY <1>2, <1>19, <2>2, <2>4 DEF Due
  <2>6. ASSUME port, Told, given.whole PROVE LineIs(k + 1, gga, cold)'
    <3>1. Drained.line = line /\ line # <<>>
      BY <1>7, <1>18, <1>23, <2>6
    <3>2. Drained'.line = Append(line, t)
      BY <1>6, <1>15, <1>16, <2>1, <3>1, FramedIs
    <3>3. Drained'.line = SubSeq(Sentence(receiver'.n, gga, cold), 1, k + 1) /\ k + 1 \in 1..5
      <4>1. k + 1 \in 1..5
        BY <1>23
      <4> QED
        BY <1>17, <3>2, <4>1, Zenon
    <3> QED
      BY <2>2, <2>6, <3>3 DEF LineIs
  <2>7. ASSUME port, Told, ~given.whole PROVE LineIs(k + 1, gga, cold)'
    <3>1. Drained.line = <<>> /\ ~(given.intact > 0)
      BY <1>18, <1>23, <2>7
    <3>2. Drained' = Drained
      BY <1>6, <1>15, <1>16, <2>1, <3>1, FramedIs
    <3> QED
      BY <2>2, <2>7, <3>1, <3>2 DEF LineIs
  <2>8. Told' => Told
    BY <2>2 DEF Told
  <2> QED
    BY <1>2, <2>5, <2>6, <2>7, <2>8
<1>24. CASE k = 5
  <2>1. t.part # "start" /\ t.part = "end" /\ k + 1 = 6
    BY <1>6, <1>24, PartsAre
  <2>2. Drained'.line = <<>>
    BY <1>6, <1>15, <1>16, <2>1, FramedIs
  <2>3. ~given'.whole
    BY <1>10, <2>1
  <2>4. (port /\ Told => LineIs(k + 1, gga, cold))'
    BY <2>1, <2>2, <2>3 DEF LineIs
  <2>5. CASE ~Told
    <3>1. ~given'.clean /\ given'.due = 0
      BY <1>10, <1>20, <2>1, <2>5
    <3> QED
      BY <2>4, <3>1 DEF Due
  <2>6. CASE Told /\ ~given.whole
    <3>1. given' = given /\ Drained.line = <<>>
      BY <1>10, <1>18, <2>1, <2>6
    <3>2. Drained' = Drained
      BY <1>6, <1>15, <1>16, <2>1, <3>1, FramedIs
    <3>3. Parsed' = Parsed
      BY <1>16, <3>2
    <3> QED
      BY <1>2, <1>19, <2>4, <3>1, <3>3 DEF Due
  <2>7. CASE Told /\ given.whole
    <3> DEFINE o == IF gga THEN Fix(n, n) ELSE Ignored
    <3>1. Drained.line = line /\ line # <<>> /\ Len(line) <= MaxLine
      <4>1. MaxLine \in Nat /\ MaxLine >= 5
        BY GpsAssumption, PartsAre
      <4> QED
        BY <1>7, <1>18, <1>24, <2>7, <4>1
    <3>2. Drained'.lines = Append(Drained.lines, line)
      BY <1>6, <1>15, <1>16, <2>1, <3>1, FramedIs
    <3>3. Parsed' = Handled(Parsed, line)
      BY <1>7, <1>16, <3>2
    <3>4. HandleLine(line) = {o}
      BY <1>8, <1>24 DEF line
    <3>5. o \in Outcomes /\ o # Thrown /\ (gga => o # Ignored)
      <4>1. Fix(n, n) \in FullFixes
        BY <1>3 DEF FullFixes
      <4>2. Ignored # Thrown /\ Fix(n, n) # Thrown /\ Fix(n, n) # Ignored
        BY ResultsDiffer
      <4> QED
        BY <4>1, <4>2 DEF Outcomes
    <3> HIDE DEF o
    <3>6. /\ o = Ignored => Parsed' = Parsed
          /\ o # Ignored => Parsed' \subseteq {Thrown, o}
          /\ Thrown \notin Parsed => Thrown \notin Parsed'
      BY <1>15, <3>3, <3>4, <3>5, HandledOne
    <3>7. given'.intact > 0 /\ given'.clean = given.clean
          /\ given'.due = IF gga THEN n ELSE given.due
      BY <1>6, <1>10, <2>1, <2>7
    <3>8. CASE gga
      <4>1. Parsed' \subseteq {Thrown, Fix(n, n)} /\ given'.due = n
        BY <3>5, <3>6, <3>7, <3>8 DEF o
      <4> QED
        BY <1>2, <1>19, <2>4, <3>6, <3>7, <4>1 DEF Due
    <3>9. CASE ~gga
      <4>1. Parsed' = Parsed /\ given'.due = given.due
        BY <3>6, <3>7, <3>9 DEF o
      <4> QED
        BY <1>2, <1>19, <2>4, <3>7, <4>1 DEF Due
    <3> QED
      BY <3>8, <3>9
  <2> QED
    BY <2>5, <2>6, <2>7
<1> QED
  BY <1>4, <1>22, <1>23, <1>24

(* Every step of the node keeps the reader in step.                        *)
LEMMA GpsStep == ASSUME GpsInv, [PiNext]_piVars PROVE GpsInv'
<1>1. CASE UNCHANGED gpsVars \/ LineFails
  BY <1>1, GpsSame DEF gpsVars, LineFails
<1>2. CASE CloseGps \/ \E ok \in BOOLEAN : OpenGps(ok)
  <2>1. CloseGps \/ OpenGps(TRUE) \/ OpenGps(FALSE)
    BY <1>2
  <2> QED
    BY <2>1, GpsResets
<1>3. CASE \E f \in Parsed : ReadFix(f)
  BY <1>3, GpsReads
<1>4. CASE \E gga, cold \in BOOLEAN : Speaks(gga, cold)
  BY <1>4, GpsSpeaks
<1>5. CASE TokenArrives
  BY <1>5, TokenLost, TokenGiven
<1>6. \/ UNCHANGED gpsVars \/ LineFails
      \/ CloseGps \/ \E ok \in BOOLEAN : OpenGps(ok)
      \/ \E f \in Parsed : ReadFix(f)
      \/ \E gga, cold \in BOOLEAN : Speaks(gga, cold)
      \/ TokenArrives
  BY DEF PiNext, piVars, NodeStarts, NodeDies, OnAccelTimer, OnTimer, SetBuzzer, OnPowerTimer, OnGpsTimer,
         ReadThrows, CaptainBoots, CaptainDies, HandlePower, BatteryMoves, Uart, GpsAlone
<1> QED
  BY <1>1, <1>2, <1>3, <1>4, <1>5, <1>6

(* It starts in step.                                                      *)
LEMMA GpsBegins == PiInit => GpsInv
<1> SUFFICES ASSUME PiInit PROVE GpsInv
  OBVIOUS
<1>1. /\ receiver = [left |-> <<>>, n |-> 0] /\ port = FALSE /\ wire = <<>> /\ buffer = <<>>
      /\ fix = NoFix /\ given = Silence
  BY DEF PiInit, GpsInit
<1>2. NoFix \in Fixes /\ NoFix # Thrown
  BY ResultsDiffer DEF Fixes
<1>3. GpsTypeOK
  BY <1>1, <1>2, SilenceIs DEF GpsTypeOK
<1>4. RestIs(6, TRUE, TRUE)
  <2>1. Len(Parts) = 6 /\ receiver.left = <<>>
    BY <1>1, PartsAre
  <2>2. SubSeq(Sentence(receiver.n, TRUE, TRUE), 6 + 1, 6) = <<>>
    BY SubSeqEmpty
  <2> QED
    BY <2>1, <2>2 DEF RestIs
<1>5. InStep
  <2>1. 6 \in 0..6 /\ TRUE \in BOOLEAN /\ ~port
    BY <1>1
  <2> QED
    BY <1>4, <2>1, Zenon DEF InStep
<1>6. Due
  BY <1>1, SilenceIs DEF Due
<1> QED
  BY <1>3, <1>5, <1>6 DEF GpsInv

(* However the bytes fall into reads, the fix shows the newest whole       *)
(* sentence once the UART is drained, and nothing throws while nothing is  *)
(* lost: for sentences of any kinds, any number of losses and any reads    *)
(* (GpsReader::drainAndParse, handleLine).                                 *)
THEOREM FixNewest == PiSpec => []FixIsNewest
<1>1. PiInit => GpsInv
  BY GpsBegins
<1>2. GpsInv /\ [PiNext]_piVars => GpsInv'
  BY GpsStep
<1>3. GpsInv => FixIsNewest
  <2> SUFFICES ASSUME GpsInv PROVE FixIsNewest
    OBVIOUS
  <2>1. ASSUME port, wire = <<>>, given.due # 0 PROVE fix = Fix(given.due, given.due)
    <3>1. Parsed = {fix} /\ fix # Thrown
      BY <2>1, NothingToRead DEF GpsInv, GpsTypeOK
    <3> QED
      BY <2>1, <3>1 DEF GpsInv, Due
  <2> QED
    BY <2>1 DEF GpsInv, Due, FixIsNewest
<1> QED
  BY <1>1, <1>2, <1>3, PTL DEF PiSpec
-----------------------------------------------------------------------------
(* The driver of the radio chip. A call is a sequence of steps: what may   *)
(* be in one.                                                              *)
Commands ==
  {Setup, Standby, SetTx, SetRx, Clear, Reset} \cup {Rf(side) : side \in {"idle", "tx", "rx"}}
    \cup {PktParams(len) : len \in 1..255} \cup {WriteBuffer(p) : p \in Outgoing}
    \cup UNION {{Power(p), Freq(p), ModParams(p)} : p \in Profiles}

SetsRf == <<Anyway(Rf("tx"))>>
Cleanups == {<<>>, SetsRf, Listen}

CallSteps ==
  [does : {"set"}, set : Commands, must : BOOLEAN, cleanup : Cleanups]
    \cup [does : {"wait", "take", "length", "data"}, set : {Setup}, must : BOOLEAN, cleanup : {<<>>}]

(* The types of the driver and of the chip. Flags are only held between    *)
(* the read and the clear of a step that reads them.                       *)
Plain ==
  /\ node \in {"down", "starting", "up", "deaf"} /\ lines \in BOOLEAN
  /\ BoardFields \subseteq DOMAIN board
  /\ call \in {"none", "start", "send", "reconfigure", "receive"}
  /\ result \in BOOLEAN /\ asked \in Profiles
  /\ faults \in Nat /\ kills \in Nat
  /\ node = "down" <=> call = "none"
  /\ node = "down" => heard = {}
  /\ call = "none" => todo = <<>>

Holding == got # {} => Doing("wait") \/ Doing("take")

ChipTypeOK == Plain /\ todo \in Seq(CallSteps) /\ Holding

(* What the steps of a call will have set when it ends: the last one that  *)
(* sets f decides, or the board as it is if none is left that does.        *)
Sets(step, f) == f \in DOMAIN step.set
Ahead(s, f) == \E i \in DOMAIN s : Sets(s[i], f)
Promised(s, f, v) ==
  \E i \in DOMAIN s : /\ Sets(s[i], f) /\ s[i].set[f] = v
                      /\ \A j \in DOMAIN s : j > i => ~Sets(s[j], f)
Will(f, v) == Promised(todo, f, v) \/ (~Ahead(todo, f) /\ board[f] = v)

SetsOrWaits(s) == \A i \in DOMAIN s : s[i].does \in {"set", "wait"}
SetsAll(s) == \A i \in DOMAIN s : s[i].must /\ s[i].does = "set"

(* A call that met no failure is on its way to a chip that listens.        *)
Heals ==
  call \in {"start", "send", "reconfigure"} /\ "call" \notin spoilt =>
    /\ Will("mode", "rx") /\ (lines => Will("rf", "rx"))
    /\ Ahead(todo, "irq") \/ (board.irq # {} => edge)
    /\ SetsOrWaits(todo)

(* One that has not failed is on its way to the whole profile.             *)
Whole ==
  call \in {"start", "reconfigure"} /\ result =>
    /\ Will("power", asked.dbm) /\ Will("freq", asked.freq) /\ Will("mods", Modulation(asked))
    /\ SetsAll(todo)

HealInv == Heals /\ Whole

(* The buffer the chip shares: what the rest of a call is like, and what   *)
(* RX_DONE says of the buffer. A call that writes a packet into it clears  *)
(* the flags after that, and only receive() reads it, which writes none.   *)
FromGround == board.buf.from = "ground"

FlaggedLater(s) ==
  \A i \in DOMAIN s : Sets(s[i], "buf") => \E j \in DOMAIN s : j >= i /\ Sets(s[j], "irq")
TakesFirst(s) == \A i \in DOMAIN s : s[i].does = "take" => i = 1

GroundPlan ==
  /\ FlaggedLater(todo) /\ TakesFirst(todo)
  /\ call = "receive" => ~Ahead(todo, "buf")
  /\ call # "receive" => SetsOrWaits(todo)

GroundBuffer ==
  /\ "rx_done" \in board.irq => FromGround \/ (Ahead(todo, "irq") /\ call # "receive")
  /\ call = "receive" /\ ("rx_done" \in got \/ (todo # <<>> /\ ~Doing("take"))) => FromGround
  /\ \A p \in heard : p.from = "ground"

GroundInv == node # "down" /\ "run" \notin spoilt => GroundPlan /\ GroundBuffer

(* The antenna switch: a step that begins a transmission comes after the   *)
(* switch is turned to it, with a wait right behind it, and before the     *)
(* switch is turned away another step has ended the transmission.          *)
Turns(step) == Sets(step, "rf") /\ step.set["rf"] # "tx"
Leaves(step) == Sets(step, "mode") /\ step.set["mode"] # "tx"
Transmits(step) == Sets(step, "mode") /\ step.set["mode"] = "tx"

NoTx(s) == \A i \in DOMAIN s : ~Transmits(s[i])
First(s, f) == \A i \in DOMAIN s : Transmits(s[i]) => \E j \in DOMAIN s : j < i /\ Sets(s[j], f)
LeavesFirst(s) == \A i \in DOMAIN s : Turns(s[i]) => \E j \in DOMAIN s : j < i /\ Leaves(s[j])
TxGuarded(s) ==
  \A i \in DOMAIN s : Transmits(s[i]) =>
    /\ i + 1 \in DOMAIN s /\ s[i + 1].does = "wait" /\ ~s[i + 1].must
    /\ s[i].cleanup = SetsRf
    /\ \A j \in DOMAIN s : j < i => ~Turns(s[j]) /\ (Sets(s[j], "rf") => s[j].must)
    /\ \A k \in DOMAIN s : k > i =>
         /\ ~Transmits(s[k])
         /\ Turns(s[k]) => \E j \in DOMAIN s : i < j /\ j < k /\ Leaves(s[j])

(* Before the first failure a chip that transmits is waited for, and no    *)
(* flag of an earlier transmission can end the wait. That is what the      *)
(* first failure may break, and then nothing but the switch is left.       *)
Aimed == TxGuarded(todo) /\ (AntennaAt("tx") \/ First(todo, "rf"))

Ended == {"tx_done", "timeout"}

AimedOnAir == board.mode = "tx" => AntennaAt("tx") /\ LeavesFirst(todo)

AwaitedOnAir ==
  /\ board.mode = "tx" =>
       Doing("wait") /\ ~Head(todo).must /\ (board.irq \cup got) \cap Ended = {} /\ NoTx(todo)
  /\ board.irq \cap Ended = {} \/ First(todo, "irq")

SafeInv ==
  /\ Aimed
  /\ kills = 0 =>
       /\ node = "down" => board.mode # "tx"
       /\ faults <= 1 => AimedOnAir
       /\ faults = 0 => AwaitedOnAir

(* The steps that the calls are made of are steps.                         *)
LEMMA StepTypes ==
  /\ \A c \in Commands, cleanup \in Cleanups : Must(c, cleanup) \in CallSteps
  /\ \A c \in Commands : Anyway(c) \in CallSteps
  /\ Waits \in CallSteps
  /\ \A what \in {"take", "length", "data"} : Reads(what) \in CallSteps
BY DEF Must, Anyway, Waits, Reads, CallSteps, Cleanups, Commands

(* What a run of commands is, one by one.                                  *)
LEMMA MustsOf ==
  ASSUME NEW cs \in Seq(Commands), NEW cleanup \in Cleanups
  PROVE  /\ Musts(cs, cleanup) \in Seq(CallSteps)
         /\ Len(Musts(cs, cleanup)) = Len(cs)
         /\ \A i \in 1..Len(cs) : Musts(cs, cleanup)[i] = Must(cs[i], cleanup)
<1>1. Musts(cs, cleanup) = [i \in 1..Len(cs) |-> Must(cs[i], cleanup)]
  BY DEF Musts
<1>2. \A i \in 1..Len(cs) : Must(cs[i], cleanup) \in CallSteps
  BY StepTypes
<1> HIDE DEF Musts
<1> QED
  BY <1>1, <1>2

Joined(s, t, u) == s \o t \o u

(* Three pieces of a call joined to one.                                   *)
LEMMA JoinedSteps ==
  ASSUME NEW s \in Seq(CallSteps), NEW t \in Seq(CallSteps), NEW u \in Seq(CallSteps)
  PROVE  /\ Joined(s, t, u) \in Seq(CallSteps)
         /\ Len(Joined(s, t, u)) = Len(s) + Len(t) + Len(u)
         /\ \A i \in 1..(Len(s) + Len(t) + Len(u)) :
              Joined(s, t, u)[i] = IF i <= Len(s) THEN s[i]
                                   ELSE IF i <= Len(s) + Len(t) THEN t[i - Len(s)]
                                   ELSE u[i - (Len(s) + Len(t))]
<1> DEFINE st == s \o t
<1>1. /\ st \in Seq(CallSteps) /\ Len(st) = Len(s) + Len(t)
      /\ \A i \in 1..Len(st) : st[i] = IF i <= Len(s) THEN s[i] ELSE t[i - Len(s)]
  OBVIOUS
<1> DEFINE stu == st \o u
<1> HIDE DEF st
<1>2. /\ stu \in Seq(CallSteps) /\ Len(stu) = Len(st) + Len(u)
      /\ \A i \in 1..Len(stu) : stu[i] = IF i <= Len(st) THEN st[i] ELSE u[i - Len(st)]
  <2>1. st \in Seq(CallSteps)
    BY <1>1
  <2> QED
    BY <2>1
<1>3. stu = Joined(s, t, u)
  BY DEF st, Joined
<1> HIDE DEF stu
<1> QED
  BY <1>1, <1>2, <1>3

(* The commands of the driver and what it cleans up with.                  *)
LEMMA CommandTypes ==
  /\ {Setup, Standby, SetTx, SetRx, Clear, Reset, Rf("idle"), Rf("tx"), Rf("rx")} \subseteq Commands
  /\ \A len \in 1..255 : PktParams(len) \in Commands
  /\ \A p \in Outgoing : WriteBuffer(p) \in Commands
  /\ \A p \in Profiles : {Power(p), Freq(p), ModParams(p)} \subseteq Commands
  /\ {<<>>, <<Anyway(Rf("tx"))>>, Listen} \subseteq Cleanups
BY DEF Commands, Cleanups, SetsRf

(* send() step by step.                                                    *)
LEMMA SendsAre ==
  ASSUME NEW p \in Outgoing
  PROVE  LET s == Sends(p)
             up == <<Anyway(Rf("tx"))>>
         IN  /\ Len(s) = 9 /\ s \in Seq(CallSteps)
             /\ s[1] = Must(Rf("tx"), <<>>) /\ s[2] = Must(PktParams(p.len), up)
             /\ s[3] = Must(WriteBuffer(p), up) /\ s[4] = Must(Clear, up) /\ s[5] = Must(SetTx, up)
             /\ s[6] = Waits /\ s[7] = Anyway(Standby) /\ s[8] = Anyway(Rf("rx")) /\ s[9] = Must(SetRx, <<>>)
<1> DEFINE up == <<Anyway(Rf("tx"))>>
           cs == <<PktParams(p.len), WriteBuffer(p), Clear, SetTx>>
           a == <<Must(Rf("tx"), <<>>)>>
           b == Musts(cs, up)
           c == <<Waits, Anyway(Standby), Anyway(Rf("rx")), Must(SetRx, <<>>)>>
<1>1. Sends(p) = a \o b \o c
  BY DEF Sends
<1>2. /\ cs \in Seq(Commands) /\ Len(cs) = 4
      /\ cs[1] = PktParams(p.len) /\ cs[2] = WriteBuffer(p) /\ cs[3] = Clear /\ cs[4] = SetTx
  <2>1. /\ PktParams(p.len) \in Commands /\ WriteBuffer(p) \in Commands
        /\ Clear \in Commands /\ SetTx \in Commands
    BY CommandTypes, ChipAssumption
  <2> QED
    BY <2>1
<1>3. up \in Cleanups
  BY CommandTypes
<1>4. a \in Seq(CallSteps) /\ Len(a) = 1 /\ a[1] = Must(Rf("tx"), <<>>)
  <2>1. Must(Rf("tx"), <<>>) \in CallSteps
    BY StepTypes, CommandTypes
  <2> QED
    BY <2>1
<1>5. /\ c \in Seq(CallSteps) /\ Len(c) = 4 /\ c[1] = Waits /\ c[2] = Anyway(Standby)
      /\ c[3] = Anyway(Rf("rx")) /\ c[4] = Must(SetRx, <<>>)
  <2>1. /\ Waits \in CallSteps /\ Anyway(Standby) \in CallSteps
        /\ Anyway(Rf("rx")) \in CallSteps /\ Must(SetRx, <<>>) \in CallSteps
    BY StepTypes, CommandTypes
  <2> QED
    BY <2>1
<1> HIDE DEF up, a, c, cs
<1>6. /\ b \in Seq(CallSteps) /\ Len(b) = 4
      /\ b[1] = Must(PktParams(p.len), up) /\ b[2] = Must(WriteBuffer(p), up)
      /\ b[3] = Must(Clear, up) /\ b[4] = Must(SetTx, up)
  BY <1>2, <1>3, MustsOf
<1> HIDE DEF b
<1> DEFINE s == Joined(a, b, c)
<1>7. Sends(p) = s
  BY <1>1 DEF Joined
<1>8. /\ s \in Seq(CallSteps) /\ Len(s) = 9
      /\ \A i \in 1..9 : s[i] = IF i <= 1 THEN a[i] ELSE IF i <= 5 THEN b[i - 1] ELSE c[i - 5]
  <2>1. /\ s \in Seq(CallSteps)
        /\ Len(s) = Len(a) + Len(b) + Len(c)
        /\ \A i \in 1..(Len(a) + Len(b) + Len(c)) :
             s[i] = IF i <= Len(a) THEN a[i]
                    ELSE IF i <= Len(a) + Len(b) THEN b[i - Len(a)] ELSE c[i - (Len(a) + Len(b))]
    BY ONLY <1>4, <1>5, <1>6, JoinedSteps, Zenon DEF s
  <2> HIDE DEF s
  <2> QED
    BY <2>1, <1>4, <1>5, <1>6
<1> HIDE DEF s
<1>9. /\ s[1] = a[1] /\ s[2] = b[1] /\ s[3] = b[2] /\ s[4] = b[3] /\ s[5] = b[4]
      /\ s[6] = c[1] /\ s[7] = c[2] /\ s[8] = c[3] /\ s[9] = c[4]
  BY <1>8
<1> QED
  BY <1>4, <1>5, <1>6, <1>7, <1>8, <1>9 DEF up

(* Two pieces of a call joined to one.                                     *)
LEMMA JoinedTwo ==
  ASSUME NEW s \in Seq(CallSteps), NEW t \in Seq(CallSteps)
  PROVE  /\ s \o t \in Seq(CallSteps) /\ Len(s \o t) = Len(s) + Len(t)
         /\ \A i \in 1..(Len(s) + Len(t)) : (s \o t)[i] = IF i <= Len(s) THEN s[i] ELSE t[i - Len(s)]
OBVIOUS

(* setReceiveMode() step by step.                                          *)
LEMMA ListenIs ==
  /\ Listen \in Seq(CallSteps) /\ Len(Listen) = 2
  /\ Listen[1] = Must(Rf("rx"), <<>>) /\ Listen[2] = Must(SetRx, <<>>)
<1> DEFINE cs == <<Rf("rx"), SetRx>>
<1>1. cs \in Seq(Commands) /\ Len(cs) = 2 /\ cs[1] = Rf("rx") /\ cs[2] = SetRx
  <2>1. Rf("rx") \in Commands /\ SetRx \in Commands
    BY CommandTypes
  <2> QED
    BY <2>1
<1>2. Listen = Musts(cs, <<>>) /\ <<>> \in Cleanups
  BY CommandTypes DEF Listen
<1> HIDE DEF cs
<1> QED
  BY <1>1, <1>2, MustsOf

(* configure() step by step.                                               *)
LEMMA ConfigureIs ==
  ASSUME NEW p \in Profiles, NEW after \in Cleanups
  PROVE  LET s == Configure(p, after)
         IN  /\ s \in Seq(CallSteps) /\ Len(s) = 7
             /\ s[1] = Must(Standby, after) /\ s[2] = Must(Setup, after) /\ s[3] = Must(Power(p), after)
             /\ s[4] = Must(Freq(p), after) /\ s[5] = Must(ModParams(p), after)
             /\ s[6] = Must(PktParams(255), after) /\ s[7] = Must(Clear, after)
<1> DEFINE cs == <<Standby, Setup, Power(p), Freq(p), ModParams(p), PktParams(255), Clear>>
<1>1. /\ cs \in Seq(Commands) /\ Len(cs) = 7
      /\ cs[1] = Standby /\ cs[2] = Setup /\ cs[3] = Power(p) /\ cs[4] = Freq(p) /\ cs[5] = ModParams(p)
      /\ cs[6] = PktParams(255) /\ cs[7] = Clear
  <2>1. /\ Standby \in Commands /\ Setup \in Commands /\ Power(p) \in Commands /\ Freq(p) \in Commands
        /\ ModParams(p) \in Commands /\ PktParams(255) \in Commands /\ Clear \in Commands
    BY CommandTypes
  <2> QED
    BY <2>1
<1>2. Configure(p, after) = Musts(cs, after)
  BY DEF Configure
<1> HIDE DEF cs
<1> QED
  BY <1>1, <1>2, MustsOf

(* A change of profile step by step.                                       *)
LEMMA ReconfiguresAre ==
  ASSUME NEW p \in Profiles
  PROVE  LET s == Reconfigures(p)
         IN  /\ s \in Seq(CallSteps) /\ Len(s) = 9
             /\ s[1] = Must(Standby, Listen) /\ s[2] = Must(Setup, Listen) /\ s[3] = Must(Power(p), Listen)
             /\ s[4] = Must(Freq(p), Listen) /\ s[5] = Must(ModParams(p), Listen)
             /\ s[6] = Must(PktParams(255), Listen) /\ s[7] = Must(Clear, Listen)
             /\ s[8] = Must(Rf("rx"), <<>>) /\ s[9] = Must(SetRx, <<>>)
<1> DEFINE a == Configure(p, Listen)
           s == a \o Listen
<1>1. Reconfigures(p) = s /\ Listen \in Cleanups
  BY CommandTypes DEF Reconfigures
<1>2. /\ a \in Seq(CallSteps) /\ Len(a) = 7
      /\ a[1] = Must(Standby, Listen) /\ a[2] = Must(Setup, Listen) /\ a[3] = Must(Power(p), Listen)
      /\ a[4] = Must(Freq(p), Listen) /\ a[5] = Must(ModParams(p), Listen)
      /\ a[6] = Must(PktParams(255), Listen) /\ a[7] = Must(Clear, Listen)
  BY <1>1, ConfigureIs
<1> HIDE DEF a
<1>3. /\ s \in Seq(CallSteps) /\ Len(s) = Len(a) + Len(Listen)
      /\ \A i \in 1..(Len(a) + Len(Listen)) : s[i] = IF i <= Len(a) THEN a[i] ELSE Listen[i - Len(a)]
  BY ONLY <1>2, ListenIs, JoinedTwo, Zenon DEF s
<1> HIDE DEF s
<1>4. Len(s) = 9 /\ \A i \in 1..9 : s[i] = IF i <= 7 THEN a[i] ELSE Listen[i - 7]
  BY <1>2, <1>3, ListenIs
<1> QED
  BY <1>1, <1>2, <1>3, <1>4, ListenIs

(* The constructor step by step.                                           *)
LEMMA StartsAre ==
  LET s == Starts
      p == ParamProfile
  IN  /\ s \in Seq(CallSteps) /\ Len(s) = 13
      /\ s[1] = Must(Rf("idle"), <<>>) /\ s[2] = Must(Reset, <<>>) /\ s[3] = Must(Standby, <<>>)
      /\ s[4] = Must(Setup, <<>>) /\ s[5] = Must(Standby, <<>>) /\ s[6] = Must(Setup, <<>>)
      /\ s[7] = Must(Power(p), <<>>) /\ s[8] = Must(Freq(p), <<>>) /\ s[9] = Must(ModParams(p), <<>>)
      /\ s[10] = Must(PktParams(255), <<>>) /\ s[11] = Must(Clear, <<>>)
      /\ s[12] = Must(Rf("rx"), <<>>) /\ s[13] = Must(SetRx, <<>>)
<1> DEFINE p == ParamProfile
           cs == <<Rf("idle"), Reset, Standby, Setup>>
           a == Opens
           b == Configure(p, <<>>)
           s == Joined(a, b, Listen)
<1>1. Starts = s /\ <<>> \in Cleanups /\ p \in Profiles
  BY CommandTypes, ChipAssumption DEF Starts, Joined
<1>2. /\ cs \in Seq(Commands) /\ Len(cs) = 4
      /\ cs[1] = Rf("idle") /\ cs[2] = Reset /\ cs[3] = Standby /\ cs[4] = Setup
  <2>1. Rf("idle") \in Commands /\ Reset \in Commands /\ Standby \in Commands /\ Setup \in Commands
    BY CommandTypes
  <2> QED
    BY <2>1
<1>3. Opens = Musts(cs, <<>>)
  BY DEF Opens
<1> HIDE DEF cs
<1>4. /\ a \in Seq(CallSteps) /\ Len(a) = 4
      /\ a[1] = Must(Rf("idle"), <<>>) /\ a[2] = Must(Reset, <<>>)
      /\ a[3] = Must(Standby, <<>>) /\ a[4] = Must(Setup, <<>>)
  BY <1>1, <1>2, <1>3, MustsOf
<1>5. /\ b \in Seq(CallSteps) /\ Len(b) = 7
      /\ b[1] = Must(Standby, <<>>) /\ b[2] = Must(Setup, <<>>) /\ b[3] = Must(Power(p), <<>>)
      /\ b[4] = Must(Freq(p), <<>>) /\ b[5] = Must(ModParams(p), <<>>)
      /\ b[6] = Must(PktParams(255), <<>>) /\ b[7] = Must(Clear, <<>>)
  BY <1>1, ConfigureIs
<1> HIDE DEF a, b
<1>6. /\ s \in Seq(CallSteps)
      /\ Len(s) = Len(a) + Len(b) + Len(Listen)
      /\ \A i \in 1..(Len(a) + Len(b) + Len(Listen)) :
           s[i] = IF i <= Len(a) THEN a[i]
                  ELSE IF i <= Len(a) + Len(b) THEN b[i - Len(a)] ELSE Listen[i - (Len(a) + Len(b))]
  <2>1. a \in Seq(CallSteps) /\ b \in Seq(CallSteps) /\ Listen \in Seq(CallSteps)
    BY <1>4, <1>5, ListenIs
  <2> QED
    BY ONLY <2>1, JoinedSteps, Zenon DEF s
<1> HIDE DEF s
<1>7. /\ Len(s) = 13
      /\ \A i \in 1..13 : s[i] = IF i <= 4 THEN a[i] ELSE IF i <= 11 THEN b[i - 4] ELSE Listen[i - 11]
  BY <1>4, <1>5, <1>6, ListenIs
<1> HIDE DEF p
<1>8. /\ s[1] = a[1] /\ s[2] = a[2] /\ s[3] = a[3] /\ s[4] = a[4]
      /\ s[5] = b[1] /\ s[6] = b[2] /\ s[7] = b[3] /\ s[8] = b[4]
      /\ s[9] = b[5] /\ s[10] = b[6] /\ s[11] = b[7]
      /\ s[12] = Listen[1] /\ s[13] = Listen[2]
  BY <1>7
<1> QED
  BY <1>1, <1>4, <1>5, <1>6, <1>7, <1>8, ListenIs DEF p

(* receive() step by step.                                                 *)
LEMMA ReceivesAre ==
  LET s == Receives
  IN  /\ s \in Seq(CallSteps) /\ Len(s) = 5
      /\ s[1] = Reads("take") /\ s[2] = Reads("length") /\ s[3] = Reads("data")
      /\ s[4] = Anyway(Clear) /\ s[5] = Anyway(SetRx)
<1>1. /\ Reads("take") \in CallSteps /\ Reads("length") \in CallSteps /\ Reads("data") \in CallSteps
      /\ Anyway(Clear) \in CallSteps /\ Anyway(SetRx) \in CallSteps
  BY StepTypes, CommandTypes
<1> QED
  BY <1>1 DEF Receives

(* The fields of a step.                                                   *)
LEMMA StepFields ==
  /\ \A c, cleanup : /\ Must(c, cleanup).does = "set" /\ Must(c, cleanup).set = c
                      /\ Must(c, cleanup).must = TRUE /\ Must(c, cleanup).cleanup = cleanup
  /\ \A c : /\ Anyway(c).does = "set" /\ Anyway(c).set = c
             /\ Anyway(c).must = FALSE /\ Anyway(c).cleanup = <<>>
  /\ \A what : Reads(what).does = what /\ Reads(what).set = Setup /\ Reads(what).must = TRUE
  /\ Waits.does = "wait" /\ Waits.set = Setup /\ Waits.must = FALSE
BY DEF Must, Anyway, Reads, Waits

(* What each command sets on the board.                                    *)
LEMMA CommandFields ==
  /\ DOMAIN Setup = {}
  /\ DOMAIN Standby = {"mode"} /\ Standby["mode"] = "standby"
  /\ DOMAIN SetTx = {"mode"} /\ SetTx["mode"] = "tx"
  /\ DOMAIN SetRx = {"mode"} /\ SetRx["mode"] = "rx"
  /\ DOMAIN Clear = {"irq"} /\ Clear["irq"] = {}
  /\ DOMAIN Reset = {"mode", "irq", "power", "freq", "mods", "len", "buf", "rxLen"}
  /\ Reset["mode"] = "standby" /\ Reset["irq"] = {}
  /\ \A side : DOMAIN Rf(side) = {"rf"} /\ Rf(side)["rf"] = side
  /\ \A len : DOMAIN PktParams(len) = {"len"}
  /\ \A p : DOMAIN WriteBuffer(p) = {"buf"}
  /\ \A p : /\ DOMAIN Power(p) = {"power"} /\ Power(p)["power"] = p.dbm
             /\ DOMAIN Freq(p) = {"freq"} /\ Freq(p)["freq"] = p.freq
             /\ DOMAIN ModParams(p) = {"mods"} /\ ModParams(p)["mods"] = Modulation(p)
BY DEF Setup, Standby, SetTx, SetRx, Clear, Reset, Rf, PktParams, WriteBuffer, Power, Freq, ModParams

(* send() as a table: what each step sets, and whether it must succeed.    *)
LEMMA SendsTable ==
  ASSUME NEW p \in Outgoing
  PROVE  LET s == Sends(p)
         IN  /\ DOMAIN s = 1..9
             /\ s[1].set = Rf("tx") /\ s[2].set = PktParams(p.len) /\ s[3].set = WriteBuffer(p)
             /\ s[4].set = Clear /\ s[5].set = SetTx /\ s[6].set = Setup /\ s[7].set = Standby
             /\ s[8].set = Rf("rx") /\ s[9].set = SetRx
             /\ DOMAIN s[1].set = {"rf"} /\ DOMAIN s[2].set = {"len"} /\ DOMAIN s[3].set = {"buf"}
             /\ DOMAIN s[4].set = {"irq"} /\ DOMAIN s[5].set = {"mode"} /\ DOMAIN s[6].set = {}
             /\ DOMAIN s[7].set = {"mode"} /\ DOMAIN s[8].set = {"rf"} /\ DOMAIN s[9].set = {"mode"}
             /\ \A i \in 1..9 : s[i].does = IF i = 6 THEN "wait" ELSE "set"
             /\ \A i \in 1..9 : s[i].must <=> i \notin 6..8
             /\ s[5].cleanup = <<Anyway(Rf("tx"))>>
<1> DEFINE s == Sends(p)
<1>1. Len(s) = 9 /\ s \in Seq(CallSteps)
  BY SendsAre
<1>2. DOMAIN s = 1..9
  BY <1>1
<1> HIDE DEF s
<1>3. /\ s[1].set = Rf("tx") /\ s[2].set = PktParams(p.len) /\ s[3].set = WriteBuffer(p)
      /\ s[4].set = Clear /\ s[5].set = SetTx /\ s[6].set = Setup /\ s[7].set = Standby
      /\ s[8].set = Rf("rx") /\ s[9].set = SetRx
      /\ \A i \in 1..9 : s[i].does = IF i = 6 THEN "wait" ELSE "set"
      /\ \A i \in 1..9 : s[i].must <=> i \notin 6..8
      /\ s[5].cleanup = <<Anyway(Rf("tx"))>>
  BY SendsAre, StepFields DEF s
<1>4. /\ DOMAIN s[1].set = {"rf"} /\ DOMAIN s[2].set = {"len"} /\ DOMAIN s[3].set = {"buf"}
      /\ DOMAIN s[4].set = {"irq"} /\ DOMAIN s[5].set = {"mode"} /\ DOMAIN s[6].set = {}
      /\ DOMAIN s[7].set = {"mode"} /\ DOMAIN s[8].set = {"rf"} /\ DOMAIN s[9].set = {"mode"}
  BY <1>3, CommandFields
<1> QED
  BY <1>2, <1>3, <1>4 DEF s

(* The same of a change of profile.                                        *)
LEMMA ReconfiguresTable ==
  ASSUME NEW p \in Profiles
  PROVE  LET s == Reconfigures(p)
         IN  /\ DOMAIN s = 1..9
             /\ s[1].set = Standby /\ s[2].set = Setup /\ s[3].set = Power(p) /\ s[4].set = Freq(p)
             /\ s[5].set = ModParams(p) /\ s[6].set = PktParams(255) /\ s[7].set = Clear
             /\ s[8].set = Rf("rx") /\ s[9].set = SetRx
             /\ DOMAIN s[1].set = {"mode"} /\ DOMAIN s[2].set = {} /\ DOMAIN s[3].set = {"power"}
             /\ DOMAIN s[4].set = {"freq"} /\ DOMAIN s[5].set = {"mods"} /\ DOMAIN s[6].set = {"len"}
             /\ DOMAIN s[7].set = {"irq"} /\ DOMAIN s[8].set = {"rf"} /\ DOMAIN s[9].set = {"mode"}
             /\ \A i \in 1..9 : s[i].must /\ s[i].does = "set"
<1> DEFINE s == Reconfigures(p)
<1>1. Len(s) = 9 /\ s \in Seq(CallSteps)
  BY ReconfiguresAre
<1>2. DOMAIN s = 1..9
  BY <1>1
<1> HIDE DEF s
<1>3. /\ s[1].set = Standby /\ s[2].set = Setup /\ s[3].set = Power(p) /\ s[4].set = Freq(p)
      /\ s[5].set = ModParams(p) /\ s[6].set = PktParams(255) /\ s[7].set = Clear
      /\ s[8].set = Rf("rx") /\ s[9].set = SetRx
      /\ \A i \in 1..9 : s[i].must /\ s[i].does = "set"
  BY ReconfiguresAre, StepFields DEF s
<1>4. /\ DOMAIN s[1].set = {"mode"} /\ DOMAIN s[2].set = {} /\ DOMAIN s[3].set = {"power"}
      /\ DOMAIN s[4].set = {"freq"} /\ DOMAIN s[5].set = {"mods"} /\ DOMAIN s[6].set = {"len"}
      /\ DOMAIN s[7].set = {"irq"} /\ DOMAIN s[8].set = {"rf"} /\ DOMAIN s[9].set = {"mode"}
  BY <1>3, CommandFields
<1> QED
  BY <1>2, <1>3, <1>4 DEF s

(* The same of the constructor.                                            *)
LEMMA StartsTable ==
  LET s == Starts
  IN  /\ DOMAIN s = 1..13
      /\ s[1].set = Rf("idle") /\ s[2].set = Reset /\ s[3].set = Standby /\ s[4].set = Setup
      /\ s[5].set = Standby /\ s[6].set = Setup /\ s[7].set = Power(ParamProfile)
      /\ s[8].set = Freq(ParamProfile) /\ s[9].set = ModParams(ParamProfile)
      /\ s[10].set = PktParams(255) /\ s[11].set = Clear /\ s[12].set = Rf("rx") /\ s[13].set = SetRx
      /\ DOMAIN s[1].set = {"rf"}
      /\ DOMAIN s[2].set = {"mode", "irq", "power", "freq", "mods", "len", "buf", "rxLen"}
      /\ DOMAIN s[3].set = {"mode"} /\ DOMAIN s[4].set = {} /\ DOMAIN s[5].set = {"mode"}
      /\ DOMAIN s[6].set = {} /\ DOMAIN s[7].set = {"power"} /\ DOMAIN s[8].set = {"freq"}
      /\ DOMAIN s[9].set = {"mods"} /\ DOMAIN s[10].set = {"len"} /\ DOMAIN s[11].set = {"irq"}
      /\ DOMAIN s[12].set = {"rf"} /\ DOMAIN s[13].set = {"mode"}
      /\ \A i \in 1..13 : s[i].must /\ s[i].does = "set"
<1> DEFINE s == Starts
<1>1. Len(s) = 13 /\ s \in Seq(CallSteps)
  BY StartsAre
<1>2. DOMAIN s = 1..13
  BY <1>1
<1> HIDE DEF s
<1>3. /\ s[1].set = Rf("idle") /\ s[2].set = Reset /\ s[3].set = Standby /\ s[4].set = Setup
      /\ s[5].set = Standby /\ s[6].set = Setup /\ s[7].set = Power(ParamProfile)
      /\ s[8].set = Freq(ParamProfile) /\ s[9].set = ModParams(ParamProfile)
      /\ s[10].set = PktParams(255) /\ s[11].set = Clear /\ s[12].set = Rf("rx") /\ s[13].set = SetRx
      /\ \A i \in 1..13 : s[i].must /\ s[i].does = "set"
  BY StartsAre, StepFields DEF s
<1>4. /\ DOMAIN s[1].set = {"rf"}
      /\ DOMAIN s[2].set = {"mode", "irq", "power", "freq", "mods", "len", "buf", "rxLen"}
      /\ DOMAIN s[3].set = {"mode"} /\ DOMAIN s[4].set = {} /\ DOMAIN s[5].set = {"mode"}
      /\ DOMAIN s[6].set = {} /\ DOMAIN s[7].set = {"power"} /\ DOMAIN s[8].set = {"freq"}
      /\ DOMAIN s[9].set = {"mods"} /\ DOMAIN s[10].set = {"len"} /\ DOMAIN s[11].set = {"irq"}
      /\ DOMAIN s[12].set = {"rf"} /\ DOMAIN s[13].set = {"mode"}
  BY <1>3, CommandFields
<1> QED
  BY <1>2, <1>3, <1>4 DEF s

(* The same of receive().                                                  *)
LEMMA ReceivesTable ==
  LET s == Receives
  IN  /\ DOMAIN s = 1..5
      /\ s[1].set = Setup /\ s[2].set = Setup /\ s[3].set = Setup /\ s[4].set = Clear
      /\ s[5].set = SetRx
      /\ DOMAIN s[1].set = {} /\ DOMAIN s[2].set = {} /\ DOMAIN s[3].set = {}
      /\ DOMAIN s[4].set = {"irq"} /\ DOMAIN s[5].set = {"mode"}
      /\ s[1].does = "take" /\ s[2].does = "length" /\ s[3].does = "data"
      /\ s[4].does = "set" /\ s[5].does = "set"
<1> DEFINE s == Receives
<1>1. Len(s) = 5 /\ s \in Seq(CallSteps)
  BY ReceivesAre
<1>2. DOMAIN s = 1..5
  BY <1>1
<1> HIDE DEF s
<1>3. /\ s[1].set = Setup /\ s[2].set = Setup /\ s[3].set = Setup /\ s[4].set = Clear
      /\ s[5].set = SetRx
      /\ s[1].does = "take" /\ s[2].does = "length" /\ s[3].does = "data"
      /\ s[4].does = "set" /\ s[5].does = "set"
  BY ReceivesAre, StepFields DEF s
<1>4. /\ DOMAIN s[1].set = {} /\ DOMAIN s[2].set = {} /\ DOMAIN s[3].set = {}
      /\ DOMAIN s[4].set = {"irq"} /\ DOMAIN s[5].set = {"mode"}
  BY <1>3, CommandFields
<1> QED
  BY <1>2, <1>3, <1>4 DEF s

(* The first step of a call, and the rest.                                 *)
LEMMA TailIs ==
  ASSUME NEW s \in Seq(CallSteps), s # <<>>
  PROVE  /\ Len(s) \in Nat \ {0} /\ Head(s) = s[1] /\ Head(s) \in CallSteps
         /\ Tail(s) \in Seq(CallSteps) /\ Len(Tail(s)) = Len(s) - 1
         /\ \A i \in 1..(Len(s) - 1) : Tail(s)[i] = s[i + 1]
         /\ DOMAIN s = 1..Len(s) /\ DOMAIN Tail(s) = 1..(Len(s) - 1)
OBVIOUS

(* The steps of the rest are those of the call, one place further on.      *)
LEMMA TailHas ==
  ASSUME NEW s \in Seq(CallSteps), s # <<>>
  PROVE  /\ 1 \in DOMAIN s /\ Head(s) = s[1]
         /\ \A i \in DOMAIN Tail(s) : i + 1 \in DOMAIN s /\ Tail(s)[i] = s[i + 1] /\ i \in Nat
         /\ \A i \in DOMAIN s : i \in Nat /\ (i = 1 \/ (i - 1 \in DOMAIN Tail(s) /\ Tail(s)[i - 1] = s[i] /\ i > 1))
BY TailIs

(* A call sets f if its first step does or the rest does.                  *)
LEMMA AheadTail ==
  ASSUME NEW s \in Seq(CallSteps), s # <<>>, NEW f
  PROVE  Ahead(s, f) <=> Sets(Head(s), f) \/ Ahead(Tail(s), f)
<1> HIDE DEF Sets
<1>1. ASSUME NEW i \in DOMAIN s, Sets(s[i], f) PROVE Sets(Head(s), f) \/ Ahead(Tail(s), f)
  BY <1>1, TailHas DEF Ahead
<1>2. ASSUME NEW i \in DOMAIN Tail(s), Sets(Tail(s)[i], f) PROVE Ahead(s, f)
  BY <1>2, TailHas DEF Ahead
<1> QED
  BY <1>1, <1>2, TailHas DEF Ahead

(* The last step that sets f is in the rest, or is the first one.          *)
LEMMA PromisedTail ==
  ASSUME NEW s \in Seq(CallSteps), s # <<>>, NEW f, NEW v, Promised(s, f, v)
  PROVE  \/ Promised(Tail(s), f, v)
         \/ Sets(Head(s), f) /\ Head(s).set[f] = v /\ ~Ahead(Tail(s), f)
<1> HIDE DEF Sets
<1>1. PICK i \in DOMAIN s : /\ Sets(s[i], f) /\ s[i].set[f] = v
                           /\ \A j \in DOMAIN s : j > i => ~Sets(s[j], f)
  BY DEF Promised
<1>2. \A j \in DOMAIN Tail(s) : j + 1 > i => ~Sets(Tail(s)[j], f)
  BY <1>1, TailHas
<1>3. CASE i = 1
  <2>1. \A j \in DOMAIN Tail(s) : ~Sets(Tail(s)[j], f)
    BY <1>2, <1>3, TailHas
  <2> QED
    BY <1>1, <1>3, <2>1, TailHas DEF Ahead
<1>4. CASE i # 1
  <2>1. i - 1 \in DOMAIN Tail(s) /\ Tail(s)[i - 1] = s[i] /\ i \in Nat
    BY <1>4, TailHas
  <2>2. \A j \in DOMAIN Tail(s) : j > i - 1 => ~Sets(Tail(s)[j], f)
    BY <1>2, <2>1, TailHas
  <2> QED
    BY <1>1, <2>1, <2>2 DEF Promised
<1> QED
  BY <1>3, <1>4

(* A command sets what it names and leaves the rest of the board.          *)
LEMMA BoardSet ==
  ASSUME NEW c, NEW b
  PROVE  /\ DOMAIN After(c, b) = DOMAIN b
         /\ \A f \in DOMAIN b : After(c, b)[f] = IF f \in DOMAIN c THEN c[f] ELSE b[f]
BY DEF After
-----------------------------------------------------------------------------
(* The types hold at first, whatever the wiring.                           *)
LEMMA TypeInit == ChipInit => ChipTypeOK
<1> SUFFICES ASSUME ChipInit PROVE ChipTypeOK
  OBVIOUS
<1>1. BoardFields \subseteq DOMAIN board
  BY BoardSet DEF ChipInit, BoardFields
<1>2. todo \in Seq(CallSteps)
  BY DEF ChipInit
<1> QED
  BY <1>1, <1>2, ChipAssumption DEF ChipInit, ChipTypeOK, Plain, Holding

(* A call that begins keeps the types.                                     *)
LEMMA TypeCall ==
  ASSUME ChipTypeOK, \/ Start \/ Receive
                     \/ \E p \in Outgoing : Send(p)
                     \/ \E p \in Profiles : Reconfigure(p)
  PROVE  ChipTypeOK'
<1>1. CASE Start
  BY <1>1, StartsAre, ChipAssumption DEF Start, Calls, ChipTypeOK, Plain, Holding
<1>2. CASE Receive
  BY <1>2, ReceivesAre DEF Receive, Calls, ChipTypeOK, Plain, Holding, AtRest
<1>3. ASSUME NEW p \in Outgoing, Send(p) PROVE ChipTypeOK'
  BY <1>3, SendsAre DEF Send, Calls, ChipTypeOK, Plain, Holding, AtRest
<1>4. ASSUME NEW p \in Profiles, Reconfigure(p) PROVE ChipTypeOK'
  BY <1>4, ReconfiguresAre DEF Reconfigure, Calls, ChipTypeOK, Plain, Holding, AtRest
<1> QED
  BY <1>1, <1>2, <1>3, <1>4

(* What is left after a step, failed or not, is made of steps.             *)
LEMMA InsteadType ==
  ASSUME ChipTypeOK, todo # <<>>
  PROVE  Rest \in Seq(CallSteps) /\ Instead \in Seq(CallSteps)
<1>1. Rest \in Seq(CallSteps) /\ Head(todo) \in CallSteps
  BY TailIs DEF ChipTypeOK, Rest
<1>2. Head(todo).cleanup \in Cleanups
  BY <1>1 DEF CallSteps, Cleanups
<1>3. Cleanups \subseteq Seq(CallSteps)
  <2>1. Anyway(Rf("tx")) \in CallSteps
    BY StepTypes, CommandTypes
  <2> QED
    BY <2>1, ListenIs DEF Cleanups, SetsRf
<1> QED
  BY <1>1, <1>2, <1>3 DEF Instead

(* Every step keeps the types.                                             *)
LEMMA TypeStep == ASSUME ChipTypeOK, [ChipNext]_chipVars PROVE ChipTypeOK'
<1>1. CASE Started
  <2>1. UNCHANGED <<lines, board, driver, faults, kills>> /\ node # "down" /\ node' \in {"up", "deaf"}
    BY <1>1 DEF Started
  <2> QED
    BY <2>1 DEF driver, ChipTypeOK, Plain, Holding, Doing
<1>5. CASE Kill
  <2>1. todo' = <<>> /\ <<>> \in Seq(CallSteps)
    BY <1>5 DEF Kill
  <2>2. /\ node' = "down" /\ kills' = kills + 1 /\ call' = "none" /\ got' = {} /\ result' = FALSE
        /\ heard' = {} /\ UNCHANGED <<lines, board, asked, faults>>
    BY <1>5 DEF Kill
  <2>3. Plain'
    <3>1. kills' \in Nat
      BY <2>2 DEF ChipTypeOK, Plain
    <3>2. result' \in BOOLEAN
      BY <2>2, Zenon
    <3> QED
      BY <2>1, <2>2, <3>1, <3>2 DEF ChipTypeOK, Plain
  <2>4. Holding'
    BY <2>2 DEF Holding
  <2> QED
    BY <2>1, <2>3, <2>4 DEF ChipTypeOK
<1>2. CASE Set \/ ReadFlags \/ ClearFlags \/ ReadLength \/ ReadBuffer
  <2>1. todo # <<>>
    BY <1>2 DEF Set, ReadFlags, ClearFlags, ReadLength, ReadBuffer, Doing
  <2>2. todo' \in Seq(CallSteps)
    <3>1. /\ todo \in Seq(CallSteps) /\ Rest \in Seq(CallSteps)
          /\ Instead \in Seq(CallSteps) /\ <<>> \in Seq(CallSteps)
      BY <2>1, InsteadType DEF ChipTypeOK
    <3>2. todo' \in {todo, Rest, Instead, <<>>}
      BY <1>2 DEF Set, ReadFlags, ClearFlags, ReadLength, ReadBuffer
    <3> QED
      BY <3>1, <3>2
  <2>3. Plain'
    <3>1. BoardFields \subseteq DOMAIN board'
      BY <1>2, BoardSet DEF Set, ReadFlags, ClearFlags, ReadLength, ReadBuffer, ChipTypeOK, Plain
    <3>2. UNCHANGED <<node, lines, call, asked, kills>>
      BY <1>2 DEF Set, ReadFlags, ClearFlags, ReadLength, ReadBuffer
    <3>3. heard' = heard \/ node # "down"
      BY <1>2, <2>1 DEF Set, ReadFlags, ClearFlags, ReadLength, ReadBuffer, ChipTypeOK, Plain
    <3>4. Goes \/ Fails
      BY <1>2 DEF Set, ReadFlags, ClearFlags, ReadLength, ReadBuffer
    <3>5. faults' \in Nat
      BY <3>4 DEF Goes, Fails, ChipTypeOK, Plain
    <3>6. result' \in BOOLEAN
      <4>1. CASE Goes
        BY <4>1 DEF Goes, ChipTypeOK, Plain
      <4>2. CASE Fails
        BY <4>2, Zenon DEF Fails
      <4> QED
        BY <3>4, <4>1, <4>2
    <3> QED
      BY <2>1, <3>1, <3>2, <3>3, <3>5, <3>6 DEF ChipTypeOK, Plain
  <2>4. Holding'
    <3>1. CASE ReadFlags
      BY <3>1 DEF ReadFlags, Goes, Fails, ChipTypeOK, Holding, Doing
    <3>2. CASE ~ReadFlags
      <4>1. got' = {} \/ (got' = got /\ ~Doing("wait") /\ ~Doing("take"))
        BY <1>2, <3>2 DEF Set, ClearFlags, ReadLength, ReadBuffer, Doing
      <4> QED
        BY <4>1 DEF ChipTypeOK, Holding
    <3> QED
      BY <3>1, <3>2
  <2> QED
    BY <2>2, <2>3, <2>4 DEF ChipTypeOK
<1>3. CASE TransmissionEnds \/ \E p \in Incoming : PacketArrives(p)
  <2>1. UNCHANGED <<node, lines, driver, spoilt, faults, kills>> /\ DOMAIN board' = DOMAIN board
    BY <1>3 DEF TransmissionEnds, PacketArrives, Flags
  <2> QED
    BY <2>1 DEF driver, ChipTypeOK, Plain, Holding, Doing
<1>4. CASE UNCHANGED chipVars
  BY <1>4 DEF chipVars, driver, ChipTypeOK, Plain, Holding, Doing
<1> QED
  BY <1>1, <1>2, <1>3, <1>4, <1>5, TypeCall DEF ChipNext
-----------------------------------------------------------------------------
(* A send, a change of profile and a start end with a chip that listens;   *)
(* the last two with the whole profile, if every step succeeds.            *)
LEMMA HealingCalls ==
  /\ \A p \in Outgoing :
       LET s == Sends(p) IN
       Promised(s, "mode", "rx") /\ Promised(s, "rf", "rx") /\ Ahead(s, "irq") /\ SetsOrWaits(s)
  /\ \A p \in Profiles :
       LET s == Reconfigures(p) IN
       /\ Promised(s, "mode", "rx") /\ Promised(s, "rf", "rx") /\ Ahead(s, "irq")
       /\ Promised(s, "power", p.dbm) /\ Promised(s, "freq", p.freq) /\ Promised(s, "mods", Modulation(p))
       /\ SetsAll(s)
  /\ LET s == Starts
         p == ParamProfile IN
     /\ Promised(s, "mode", "rx") /\ Promised(s, "rf", "rx") /\ Ahead(s, "irq")
     /\ Promised(s, "power", p.dbm) /\ Promised(s, "freq", p.freq) /\ Promised(s, "mods", Modulation(p))
     /\ SetsAll(s)
<1>1. ASSUME NEW p \in Outgoing
      PROVE  /\ Promised(Sends(p), "mode", "rx") /\ Promised(Sends(p), "rf", "rx")
             /\ Ahead(Sends(p), "irq") /\ SetsOrWaits(Sends(p))
  <2> DEFINE s == Sends(p)
  <2>1. DOMAIN s = 1..9 /\ Sets(s[4], "irq") /\ SetsOrWaits(s)
    BY SendsTable DEF Sets, SetsOrWaits
  <2>2. /\ Sets(s[9], "mode") /\ s[9].set["mode"] = "rx"
        /\ Sets(s[8], "rf") /\ s[8].set["rf"] = "rx" /\ ~Sets(s[9], "rf")
    BY SendsTable, CommandFields DEF Sets
  <2> HIDE DEF s, Sets
  <2> QED
    BY <2>1, <2>2 DEF Promised, Ahead, s
<1>2. ASSUME NEW p \in Profiles
      PROVE  LET s == Reconfigures(p) IN
             /\ Promised(s, "mode", "rx") /\ Promised(s, "rf", "rx") /\ Ahead(s, "irq")
             /\ Promised(s, "power", p.dbm) /\ Promised(s, "freq", p.freq)
             /\ Promised(s, "mods", Modulation(p)) /\ SetsAll(s)
  <2> DEFINE s == Reconfigures(p)
  <2>1. DOMAIN s = 1..9 /\ Sets(s[7], "irq") /\ SetsAll(s)
    BY ReconfiguresTable DEF Sets, SetsAll
  <2>2. /\ Sets(s[9], "mode") /\ s[9].set["mode"] = "rx"
        /\ Sets(s[8], "rf") /\ s[8].set["rf"] = "rx" /\ ~Sets(s[9], "rf")
    BY ReconfiguresTable, CommandFields DEF Sets
  <2>3. /\ Sets(s[3], "power") /\ s[3].set["power"] = p.dbm
        /\ Sets(s[4], "freq") /\ s[4].set["freq"] = p.freq
        /\ Sets(s[5], "mods") /\ s[5].set["mods"] = Modulation(p)
    BY ReconfiguresTable, CommandFields DEF Sets
  <2>4. \A j \in 1..9 : /\ j > 3 => ~Sets(s[j], "power")
                        /\ j > 4 => ~Sets(s[j], "freq")
                        /\ j > 5 => ~Sets(s[j], "mods")
    BY ReconfiguresTable DEF Sets
  <2> HIDE DEF s, Sets
  <2> QED
    BY <2>1, <2>2, <2>3, <2>4 DEF Promised, Ahead, s
<1>3. LET s == Starts
          p == ParamProfile IN
      /\ Promised(s, "mode", "rx") /\ Promised(s, "rf", "rx") /\ Ahead(s, "irq")
      /\ Promised(s, "power", p.dbm) /\ Promised(s, "freq", p.freq)
      /\ Promised(s, "mods", Modulation(p)) /\ SetsAll(s)
  <2> DEFINE s == Starts
             p == ParamProfile
  <2>1. DOMAIN s = 1..13 /\ Sets(s[11], "irq") /\ SetsAll(s)
    BY StartsTable DEF Sets, SetsAll
  <2>2. /\ Sets(s[13], "mode") /\ s[13].set["mode"] = "rx"
        /\ Sets(s[12], "rf") /\ s[12].set["rf"] = "rx" /\ ~Sets(s[13], "rf")
    BY StartsTable, CommandFields DEF Sets
  <2>3. /\ Sets(s[7], "power") /\ s[7].set["power"] = p.dbm
        /\ Sets(s[8], "freq") /\ s[8].set["freq"] = p.freq
        /\ Sets(s[9], "mods") /\ s[9].set["mods"] = Modulation(p)
    <3>1. Sets(s[7], "power") /\ Sets(s[8], "freq") /\ Sets(s[9], "mods")
      BY StartsTable DEF Sets
    <3>2. s[7].set = Power(p) /\ s[8].set = Freq(p) /\ s[9].set = ModParams(p)
      BY StartsTable
    <3> HIDE DEF s, p
    <3> QED
      BY <3>1, <3>2, CommandFields
  <2>4. \A j \in 1..13 : /\ j > 7 => ~Sets(s[j], "power")
                         /\ j > 8 => ~Sets(s[j], "freq")
                         /\ j > 9 => ~Sets(s[j], "mods")
    BY StartsTable DEF Sets
  <2> HIDE DEF s, p, Sets
  <2> QED
    BY <2>1, <2>2, <2>3, <2>4 DEF Promised, Ahead, s, p
<1> QED
  BY <1>1, <1>2, <1>3

(* A step that sets what it says keeps what the call will have set.        *)
LEMMA WillRest ==
  ASSUME todo \in Seq(CallSteps), todo # <<>>, todo' = Rest, NEW f, NEW v, Will(f, v),
         board'[f] = IF Sets(Head(todo), f) THEN Head(todo).set[f] ELSE board[f]
  PROVE  Promised(todo', f, v) \/ (~Ahead(todo', f) /\ board'[f] = v)
<1> HIDE DEF Sets
<1>1. todo' = Tail(todo)
  BY DEF Rest
<1>2. CASE Promised(todo, f, v)
  BY <1>1, <1>2, PromisedTail
<1>3. CASE ~Ahead(todo, f) /\ board[f] = v
  BY <1>1, <1>3, AheadTail
<1> QED
  BY <1>2, <1>3 DEF Will

(* What a step can touch: a command that sets the switch or begins a       *)
(* transmission sets nothing else, and one that sets flags clears them.    *)
LEMMA StepTouches ==
  ASSUME NEW step \in CallSteps
  PROVE  /\ step.does # "set" => \A f : ~Sets(step, f)
         /\ Sets(step, "irq") => step.set["irq"] = {}
         /\ Sets(step, "rf") => DOMAIN step.set = {"rf"}
         /\ Sets(step, "mode") => Transmits(step) \/ Leaves(step)
         /\ Transmits(step) => DOMAIN step.set = {"mode"}
         /\ step.cleanup \in Cleanups
<1>1. step.does # "set" => step.set = Setup
  BY DEF CallSteps
<1>2. step.set \in Commands /\ step.cleanup \in Cleanups
  BY CommandTypes DEF CallSteps
<1>3. ASSUME NEW c \in Commands
      PROVE  /\ "irq" \in DOMAIN c => c["irq"] = {}
             /\ "rf" \in DOMAIN c => DOMAIN c = {"rf"}
             /\ "mode" \in DOMAIN c /\ c["mode"] = "tx" => DOMAIN c = {"mode"}
  <2>1. CASE c \in {Setup, Standby, SetTx, SetRx, Clear, Reset}
    BY <2>1, CommandFields
  <2>2. ASSUME NEW side, c = Rf(side) PROVE DOMAIN c = {"rf"}
    BY <2>2, CommandFields
  <2>3. ASSUME NEW len, c = PktParams(len) PROVE DOMAIN c = {"len"}
    BY <2>3, CommandFields
  <2>4. ASSUME NEW p, c = WriteBuffer(p) PROVE DOMAIN c = {"buf"}
    BY <2>4, CommandFields
  <2>5. ASSUME NEW p, c \in {Power(p), Freq(p), ModParams(p)} PROVE DOMAIN c \in {{"power"}, {"freq"}, {"mods"}}
    BY <2>5, CommandFields
  <2>6. \/ c \in {Setup, Standby, SetTx, SetRx, Clear, Reset}
        \/ \E side : c = Rf(side)
        \/ \E len : c = PktParams(len)
        \/ \E p : c = WriteBuffer(p)
        \/ \E p : c \in {Power(p), Freq(p), ModParams(p)}
    BY DEF Commands
  <2> QED
    BY <2>1, <2>2, <2>3, <2>4, <2>5, <2>6
<1> QED
  BY <1>1, <1>2, <1>3, CommandFields DEF Sets, Transmits, Leaves

(* A command that takes effect.                                            *)
LEMMA SetGoes ==
  ASSUME ChipTypeOK, Set, Goes
  PROVE  /\ todo # <<>> /\ todo \in Seq(CallSteps) /\ todo' = Rest /\ Head(todo) \in CallSteps
         /\ \A f \in BoardFields : f # "rf" \/ lines =>
              board'[f] = IF Sets(Head(todo), f) THEN Head(todo).set[f] ELSE board[f]
         /\ UNCHANGED <<node, lines, edge, call, got, asked, heard, went, kills, spoilt, faults, result>>
<1> DEFINE c == Head(todo).set
<1>1. todo # <<>> /\ todo \in Seq(CallSteps) /\ Head(todo) \in CallSteps
  BY TailIs DEF Set, Doing, ChipTypeOK
<1>2. UNCHANGED <<node, lines, edge, call, got, asked, heard, went, kills>>
  BY DEF Set
<1>3. UNCHANGED <<spoilt, faults, result>>
  BY DEF Goes
<1>4. ~Fails
  BY DEF Goes, Fails, ChipTypeOK, Plain
<1>5. todo' = Rest /\ board' = IF Wired(c) THEN After(c, board) ELSE board
  BY <1>4 DEF Set
<1>6. ASSUME NEW f \in BoardFields, f # "rf" \/ lines
      PROVE  board'[f] = IF f \in DOMAIN c THEN c[f] ELSE board[f]
  <2>1. f \in DOMAIN board
    BY DEF ChipTypeOK, Plain
  <2>2. CASE Wired(c)
    BY <1>5, <2>1, <2>2, BoardSet
  <2>3. CASE ~Wired(c)
    <3>1. DOMAIN c = {"rf"} /\ ~lines
      BY <2>3 DEF Wired
    <3> QED
      BY <1>5, <1>6, <2>3, <3>1
  <2> QED
    BY <2>2, <2>3
<1> QED
  BY <1>1, <1>2, <1>3, <1>5, <1>6 DEF Sets

(* A call that begins promises all that it should.                         *)
LEMMA HealCalls ==
  ASSUME ChipTypeOK, \/ Start \/ Receive
                     \/ \E p \in Outgoing : Send(p)
                     \/ \E p \in Profiles : Reconfigure(p)
  PROVE  HealInv'
<1>1. CASE Start
  <2>1. todo' = Starts /\ asked' = ParamProfile /\ call' = "start"
    BY <1>1 DEF Start, Calls
  <2> QED
    BY <2>1, HealingCalls DEF HealInv, Heals, Whole, Will, SetsOrWaits, SetsAll
<1>2. CASE Receive
  BY <1>2 DEF Receive, Calls, HealInv, Heals, Whole
<1>3. ASSUME NEW p \in Outgoing, Send(p) PROVE HealInv'
  <2>1. todo' = Sends(p) /\ call' = "send"
    BY <1>3 DEF Send, Calls
  <2> QED
    BY <2>1, HealingCalls DEF HealInv, Heals, Whole, Will
<1>4. ASSUME NEW p \in Profiles, Reconfigure(p) PROVE HealInv'
  <2>1. todo' = Reconfigures(p) /\ asked' = p /\ call' = "reconfigure"
    BY <1>4 DEF Reconfigure, Calls
  <2> QED
    BY <2>1, HealingCalls DEF HealInv, Heals, Whole, Will, SetsOrWaits, SetsAll
<1> QED
  BY <1>1, <1>2, <1>3, <1>4

(* What is known of all steps is known of the first and of the rest.       *)
LEMMA HeadAndRest ==
  ASSUME todo \in Seq(CallSteps), todo # <<>>, todo' = Rest
  PROVE  /\ Head(todo) \in CallSteps
         /\ \A f : Ahead(todo, f) <=> Sets(Head(todo), f) \/ Ahead(todo', f)
         /\ SetsOrWaits(todo) => Head(todo).does \in {"set", "wait"} /\ SetsOrWaits(todo')
         /\ SetsAll(todo) => Head(todo).does = "set" /\ Head(todo).must /\ SetsAll(todo')
<1>1. todo' = Tail(todo)
  BY DEF Rest
<1> QED
  BY <1>1, AheadTail, TailHas, TailIs DEF SetsOrWaits, SetsAll

(* A command that takes effect keeps what the call promises.               *)
LEMMA HealSet == ASSUME ChipTypeOK, HealInv, Set, Goes PROVE HealInv'
<1>1. /\ todo # <<>> /\ todo \in Seq(CallSteps) /\ todo' = Rest /\ Head(todo) \in CallSteps
      /\ UNCHANGED <<lines, edge, call, asked, spoilt, result>>
  BY SetGoes
<1>2. ASSUME NEW f \in BoardFields, NEW v, f # "rf" \/ lines, Will(f, v)
      PROVE  Promised(todo', f, v) \/ (~Ahead(todo', f) /\ board'[f] = v)
  BY <1>1, <1>2, SetGoes, WillRest
<1>3. {"mode", "rf", "irq", "power", "freq", "mods"} \subseteq BoardFields
  BY CommandFields DEF BoardFields
<1>4. Heals'
  <2> SUFFICES ASSUME call \in {"start", "send", "reconfigure"}, "call" \notin spoilt
               PROVE  /\ Will("mode", "rx")' /\ (lines => Will("rf", "rx")')
                      /\ Ahead(todo', "irq") \/ (board'.irq # {} => edge)
                      /\ SetsOrWaits(todo')
    BY <1>1 DEF Heals
  <2>1. Will("mode", "rx")' /\ (lines => Will("rf", "rx")')
    BY <1>2, <1>3 DEF Will, HealInv, Heals
  <2>2. Ahead(todo', "irq") \/ (board'.irq # {} => edge)
    <3>1. board'["irq"] = IF Sets(Head(todo), "irq") THEN {} ELSE board["irq"]
      BY <1>1, <1>3, SetGoes, StepTouches
    <3> QED
      BY <1>1, <3>1, HeadAndRest DEF HealInv, Heals
  <2>3. SetsOrWaits(todo')
    BY <1>1, HeadAndRest DEF HealInv, Heals
  <2> QED
    BY <2>1, <2>2, <2>3
<1>5. Whole'
  BY <1>1, <1>2, <1>3, HeadAndRest DEF HealInv, Whole, Will
<1> QED
  BY <1>4, <1>5 DEF HealInv

(* A failure spoils the call, and is reported where it matters.            *)
LEMMA HealFails ==
  ASSUME ChipTypeOK, HealInv, Fails, todo # <<>>, UNCHANGED call
  PROVE  HealInv'
<1>1. "call" \in spoilt'
  BY DEF Fails
<1>2. call \in {"start", "reconfigure"} => ~result'
  <2>1. call \in {"start", "reconfigure"} /\ result => Head(todo).must
    BY TailHas DEF HealInv, Whole, SetsAll, ChipTypeOK
  <2> QED
    BY <2>1 DEF Fails
<1> QED
  BY <1>1, <1>2 DEF HealInv, Heals, Whole

(* The flags may become fewer, the call may go on.                         *)
LEMMA WaitGoes ==
  ASSUME ChipTypeOK, ReadFlags \/ ClearFlags, Goes, Doing("wait")
  PROVE  /\ todo # <<>> /\ todo \in Seq(CallSteps) /\ \A f : ~Sets(Head(todo), f)
         /\ UNCHANGED <<node, lines, edge, call, asked, heard, spoilt, faults, kills, result>>
         /\ todo' \in {todo, Rest}
         /\ \A f \in BoardFields \ {"irq"} : board'[f] = board[f]
         /\ board'["irq"] \subseteq board["irq"]
<1>1. todo # <<>> /\ todo \in Seq(CallSteps)
  BY DEF Doing, ChipTypeOK
<1>2. Head(todo) \in CallSteps /\ Head(todo).does = "wait"
  BY <1>1, TailIs DEF Doing
<1>3. \A f : ~Sets(Head(todo), f)
  BY <1>2, StepTouches
<1>4. ~Doing("take")
  BY DEF Doing
<1>5. UNCHANGED <<node, lines, edge, call, asked, heard, spoilt, faults, kills, result>>
  BY DEF ReadFlags, ClearFlags, Goes
<1>6. ~Fails
  BY DEF Goes, Fails, ChipTypeOK, Plain
<1>7. /\ \/ UNCHANGED board
         \/ board' = [board EXCEPT !.irq = Cleared]
      /\ todo' \in {todo, Rest}
  BY <1>4, <1>6 DEF ReadFlags, ClearFlags
<1>8. BoardFields \subseteq DOMAIN board /\ "irq" \in BoardFields
  BY CommandFields DEF ChipTypeOK, Plain, BoardFields
<1>9. /\ \A f \in BoardFields \ {"irq"} : board'[f] = board[f]
      /\ board'["irq"] \subseteq board["irq"]
  BY <1>7, <1>8 DEF Cleared
<1> QED
  BY <1>1, <1>3, <1>5, <1>7, <1>9

(* What the chip does by itself raises a flag, and wakes the process.      *)
LEMMA ChipGoes ==
  ASSUME ChipTypeOK, TransmissionEnds \/ \E p \in Incoming : PacketArrives(p)
  PROVE  /\ UNCHANGED <<node, lines, driver, spoilt, faults, kills>>
         /\ board["mode"] = "rx" => board'["mode"] = "rx"
         /\ \A f \in BoardFields \ {"mode", "irq", "buf", "rxLen"} : board'[f] = board[f]
         /\ edge' = (node # "down" /\ (edge \/ board.irq = {}))
<1>1. UNCHANGED <<node, lines, driver, spoilt, faults, kills>>
  BY DEF TransmissionEnds, PacketArrives, Flags
<1>2. edge' = (node # "down" /\ (edge \/ board.irq = {}))
  BY DEF TransmissionEnds, PacketArrives, Flags
<1>3. BoardFields \subseteq DOMAIN board
  BY DEF ChipTypeOK, Plain
<1>4. CASE TransmissionEnds
  <2>1. PICK flag : board' = [[board EXCEPT !.mode = "fs"] EXCEPT !.irq = @ \cup {flag}]
    BY <1>4 DEF TransmissionEnds, Flags
  <2>2. board.mode = "tx"
    BY <1>4 DEF TransmissionEnds
  <2>3. \A f \in BoardFields \ {"mode", "irq"} : board'[f] = board[f]
    BY <2>1, <1>3
  <2> QED
    BY <1>1, <1>2, <2>2, <2>3
<1>5. ASSUME NEW p \in Incoming, PacketArrives(p)
      PROVE  \A f \in BoardFields \ {"irq", "buf", "rxLen"} : board'[f] = board[f]
  <2>1. board' = [[board EXCEPT !.buf = p, !.rxLen = p.len] EXCEPT !.irq = @ \cup {"rx_done"}]
    BY <1>5 DEF PacketArrives, Flags
  <2> QED
    BY <2>1, <1>3
<1>6. "mode" \in BoardFields
  BY CommandFields DEF BoardFields
<1> QED
  BY <1>1, <1>2, <1>4, <1>5, <1>6

(* Every step keeps what a call promises.                                  *)
LEMMA HealStep == ASSUME ChipTypeOK, HealInv, [ChipNext]_chipVars PROVE HealInv'
<1>1. CASE Started \/ UNCHANGED chipVars
  <2>1. UNCHANGED <<lines, board, edge, call, todo, asked, spoilt, result>>
    BY <1>1 DEF Started, driver, chipVars
  <2> QED
    BY <2>1 DEF HealInv, Heals, Whole, Will
<1>2. CASE Kill
  BY <1>2 DEF Kill, HealInv, Heals, Whole
<1>3. CASE (Set \/ ReadFlags \/ ClearFlags \/ ReadLength \/ ReadBuffer) /\ Fails
  <2>1. todo # <<>> /\ UNCHANGED call
    BY <1>3 DEF Set, ReadFlags, ClearFlags, ReadLength, ReadBuffer, Doing
  <2> QED
    BY <1>3, <2>1, HealFails
<1>4. CASE Set /\ Goes
  BY <1>4, HealSet
<1>5. CASE (ReadFlags \/ ClearFlags) /\ Goes /\ Doing("wait")
  <2>1. /\ todo # <<>> /\ todo \in Seq(CallSteps) /\ \A f : ~Sets(Head(todo), f)
        /\ UNCHANGED <<lines, edge, call, asked, spoilt, result>> /\ todo' \in {todo, Rest}
        /\ \A f \in BoardFields \ {"irq"} : board'[f] = board[f]
        /\ board'["irq"] \subseteq board["irq"]
    BY <1>5, WaitGoes
  <2>2. ASSUME NEW f \in BoardFields \ {"irq"}, NEW v, Will(f, v)
        PROVE  Promised(todo', f, v) \/ (~Ahead(todo', f) /\ board'[f] = v)
    <3>1. CASE todo' = todo
      BY <2>1, <2>2, <3>1 DEF Will
    <3>2. CASE todo' = Rest
      BY <2>1, <2>2, <3>2, WillRest
    <3> QED
      BY <2>1, <3>1, <3>2
  <2>3. /\ Ahead(todo, "irq") => Ahead(todo', "irq")
        /\ SetsOrWaits(todo) => SetsOrWaits(todo')
        /\ SetsAll(todo) => SetsAll(todo')
    BY <2>1, HeadAndRest
  <2>4. {"mode", "rf", "power", "freq", "mods"} \subseteq BoardFields \ {"irq"}
    BY CommandFields DEF BoardFields
  <2>5. Heals'
    BY <2>1, <2>2, <2>3, <2>4 DEF HealInv, Heals, Will
  <2>6. Whole'
    BY <2>1, <2>2, <2>3, <2>4 DEF HealInv, Whole, Will
  <2> QED
    BY <2>5, <2>6 DEF HealInv
<1>6. CASE Goes /\ (ReadLength \/ ReadBuffer \/ ((ReadFlags \/ ClearFlags) /\ ~Doing("wait")))
  <2>1. todo # <<>> /\ Head(todo).does \in {"take", "length", "data"} /\ UNCHANGED <<call, spoilt, result>>
    BY <1>6 DEF ReadFlags, ClearFlags, ReadLength, ReadBuffer, Goes, Doing
  <2>2. todo \in Seq(CallSteps)
    BY DEF ChipTypeOK
  <2>3. ~SetsOrWaits(todo) /\ ~SetsAll(todo)
    BY <2>1, <2>2, TailHas DEF SetsOrWaits, SetsAll
  <2> QED
    BY <2>1, <2>3 DEF HealInv, Heals, Whole
<1>7. CASE TransmissionEnds \/ \E p \in Incoming : PacketArrives(p)
  <2>1. UNCHANGED <<node, lines, call, todo, asked, result, spoilt>>
    BY <1>7, ChipGoes DEF driver
  <2>2. call # "none" => node # "down"
    BY DEF ChipTypeOK, Plain
  <2>3. {"rf", "power", "freq", "mods"} \subseteq BoardFields \ {"mode", "irq", "buf", "rxLen"}
    BY CommandFields DEF BoardFields
  <2>4. Heals'
    BY <1>7, <2>1, <2>2, <2>3, ChipGoes DEF HealInv, Heals, Will
  <2>5. Whole'
    BY <1>7, <2>1, <2>3, ChipGoes DEF HealInv, Whole, Will
  <2> QED
    BY <2>4, <2>5 DEF HealInv
<1>8. (Set \/ ReadFlags \/ ClearFlags \/ ReadLength \/ ReadBuffer) => Goes \/ Fails
  BY DEF Set, ReadFlags, ClearFlags, ReadLength, ReadBuffer
<1>9. CASE Start \/ Receive \/ (\E p \in Outgoing : Send(p)) \/ (\E p \in Profiles : Reconfigure(p))
  BY <1>9, HealCalls
<1>10. CASE Set \/ ReadFlags \/ ClearFlags \/ ReadLength \/ ReadBuffer
  BY <1>3, <1>4, <1>5, <1>6, <1>8, <1>10
<1> QED
  BY <1>1, <1>2, <1>7, <1>9, <1>10 DEF ChipNext

(* The types, and what a call promises, hold of every behaviour.           *)
THEOREM HealInvariant == ChipSpec => [](ChipTypeOK /\ HealInv)
<1>1. ChipInit => ChipTypeOK /\ HealInv
  BY TypeInit DEF ChipInit, HealInv, Heals, Whole
<1>2. (ChipTypeOK /\ HealInv) /\ [ChipNext]_chipVars => (ChipTypeOK /\ HealInv)'
  BY TypeStep, HealStep
<1> QED
  BY <1>1, <1>2, PTL DEF ChipSpec

(* A start, a send or a change of profile that meets no failure leaves     *)
(* the chip listening, whatever failed before it, in this process or in    *)
(* one that was killed.                                                    *)
THEOREM CleanCallHealsAlways == ChipSpec => []CleanCallHeals
<1>1. ChipTypeOK /\ HealInv => CleanCallHeals
  <2>1. \A f, v : Will(f, v) /\ todo = <<>> => board[f] = v
    BY DEF Will, Promised, Ahead
  <2>2. todo = <<>> => ~Ahead(todo, "irq")
    BY DEF Ahead
  <2>3. ChipTypeOK /\ node = "up" => call \in {"start", "send", "reconfigure", "receive"}
    BY DEF ChipTypeOK, Plain
  <2> QED
    BY <2>1, <2>2, <2>3 DEF HealInv, Heals, CleanCallHeals, AtRest, Listening, AntennaAt
<1> QED
  BY <1>1, HealInvariant, PTL

(* A start or a change of profile that reports success has set the whole   *)
(* profile, wherever transfers fail.                                       *)
THEOREM WholeProfile == ChipSpec => []ProfileIsWhole
<1>1. HealInv => ProfileIsWhole
  <2>1. \A f, v : Will(f, v) /\ todo = <<>> => board[f] = v
    BY DEF Will, Promised, Ahead
  <2> QED
    BY <2>1 DEF HealInv, Whole, ProfileIsWhole, AtRest
<1> QED
  BY <1>1, HealInvariant, PTL
-----------------------------------------------------------------------------
(* Every call clears the flags after it has written a packet; receive()    *)
(* takes flags first and writes none.                                      *)
LEMMA GroundCalls ==
  /\ \A p \in Outgoing : FlaggedLater(Sends(p)) /\ TakesFirst(Sends(p)) /\ SetsOrWaits(Sends(p))
  /\ \A p \in Profiles :
       FlaggedLater(Reconfigures(p)) /\ TakesFirst(Reconfigures(p)) /\ SetsOrWaits(Reconfigures(p))
  /\ FlaggedLater(Starts) /\ TakesFirst(Starts) /\ SetsOrWaits(Starts)
  /\ FlaggedLater(Receives) /\ TakesFirst(Receives) /\ ~Ahead(Receives, "buf")
  /\ Receives # <<>> /\ Head(Receives).does = "take"
<1>1. ASSUME NEW p \in Outgoing PROVE FlaggedLater(Sends(p))
  <2> DEFINE s == Sends(p)
  <2>1. /\ DOMAIN s = 1..9 /\ Sets(s[4], "irq")
        /\ \A i \in 1..9 : Sets(s[i], "buf") => i = 3
    BY SendsTable DEF Sets
  <2> HIDE DEF s, Sets
  <2> QED
    BY <2>1 DEF FlaggedLater, s
<1>2. ASSUME NEW p \in Profiles PROVE FlaggedLater(Reconfigures(p))
  <2> DEFINE s == Reconfigures(p)
  <2>1. DOMAIN s = 1..9 /\ \A i \in 1..9 : ~Sets(s[i], "buf")
    BY ReconfiguresTable DEF Sets
  <2> HIDE DEF s, Sets
  <2> QED
    BY <2>1 DEF FlaggedLater, s
<1>3. FlaggedLater(Starts)
  <2> DEFINE s == Starts
  <2>1. /\ DOMAIN s = 1..13 /\ Sets(s[11], "irq")
        /\ \A i \in 1..13 : Sets(s[i], "buf") => i = 2
    BY StartsTable DEF Sets
  <2> HIDE DEF s, Sets
  <2> QED
    BY <2>1 DEF FlaggedLater, s
<1>4. /\ FlaggedLater(Receives) /\ TakesFirst(Receives) /\ ~Ahead(Receives, "buf")
  <2> DEFINE s == Receives
  <2>1. /\ DOMAIN s = 1..5 /\ \A i \in 1..5 : ~Sets(s[i], "buf")
        /\ \A i \in 1..5 : s[i].does = "take" => i = 1
    BY ReceivesTable DEF Sets
  <2> HIDE DEF s, Sets
  <2> QED
    BY <2>1 DEF FlaggedLater, TakesFirst, Ahead, s
<1>5. \A s : SetsAll(s) => SetsOrWaits(s)
  BY DEF SetsAll, SetsOrWaits
<1>6. \A s : SetsOrWaits(s) => TakesFirst(s)
  BY DEF TakesFirst, SetsOrWaits
<1>7. Receives # <<>> /\ Head(Receives).does = "take"
  BY ReceivesAre, TailHas, StepFields
<1> QED
  BY <1>1, <1>2, <1>3, <1>4, <1>5, <1>6, <1>7, HealingCalls

(* The rest of such a call is such a call, and takes no more flags.        *)
LEMMA GroundRest ==
  ASSUME todo \in Seq(CallSteps), todo # <<>>, todo' = Rest, FlaggedLater(todo), TakesFirst(todo)
  PROVE  /\ FlaggedLater(todo') /\ TakesFirst(todo') /\ ~Doing("take")'
         /\ Sets(Head(todo), "buf") => Sets(Head(todo), "irq") \/ Ahead(todo', "irq")
<1> DEFINE t == Tail(todo)
<1>1. todo' = t
  BY DEF Rest
<1>2. /\ 1 \in DOMAIN todo /\ Head(todo) = todo[1]
      /\ \A i \in DOMAIN t : i + 1 \in DOMAIN todo /\ t[i] = todo[i + 1] /\ i \in Nat
      /\ \A i \in DOMAIN todo : i \in Nat /\ (i = 1 \/ (i - 1 \in DOMAIN t /\ t[i - 1] = todo[i] /\ i > 1))
  BY TailHas
<1>3. t \in Seq(CallSteps) /\ \A i \in DOMAIN t : i \in Nat /\ i >= 1
  BY TailIs
<1> HIDE DEF t, Sets
<1>4. FlaggedLater(t)
  <2> SUFFICES ASSUME NEW i \in DOMAIN t, Sets(t[i], "buf")
               PROVE  \E j \in DOMAIN t : j >= i /\ Sets(t[j], "irq")
    BY DEF FlaggedLater
  <2>1. i + 1 \in DOMAIN todo /\ Sets(todo[i + 1], "buf") /\ i \in Nat /\ i >= 1
    BY <1>2, <1>3
  <2>2. PICK j \in DOMAIN todo : j >= i + 1 /\ Sets(todo[j], "irq")
    BY <2>1 DEF FlaggedLater
  <2>3. j \in Nat /\ j # 1
    BY <1>2, <2>1, <2>2
  <2>4. j - 1 \in DOMAIN t /\ t[j - 1] = todo[j]
    BY <1>2, <2>2, <2>3
  <2>5. j - 1 >= i
    BY <2>1, <2>2, <2>3
  <2> QED
    BY <2>2, <2>4, <2>5
<1>5. \A i \in DOMAIN t : t[i].does # "take"
  <2> SUFFICES ASSUME NEW i \in DOMAIN t, t[i].does = "take" PROVE FALSE
    OBVIOUS
  <2>1. i + 1 \in DOMAIN todo /\ i + 1 = 1
    BY <1>2 DEF TakesFirst
  <2> QED
    BY <1>3, <2>1
<1>6. TakesFirst(t)
  BY <1>5 DEF TakesFirst
<1>7. t # <<>> => Head(t).does # "take"
  BY <1>3, <1>5, TailHas
<1>8. Sets(Head(todo), "buf") => Sets(Head(todo), "irq") \/ Ahead(t, "irq")
  <2> SUFFICES ASSUME Sets(todo[1], "buf"), ~Sets(todo[1], "irq")
               PROVE  \E k \in DOMAIN t : Sets(t[k], "irq")
    BY <1>2 DEF Ahead
  <2>1. PICK j \in DOMAIN todo : Sets(todo[j], "irq")
    BY <1>2 DEF FlaggedLater
  <2> QED
    BY <1>2, <2>1
<1> QED
  BY <1>1, <1>4, <1>6, <1>7, <1>8 DEF Doing

(* So is what is left of it after any step.                                *)
LEMMA GroundPlanKept ==
  ASSUME todo \in Seq(CallSteps), todo # <<>>, todo' \in {todo, Rest, <<>>}, UNCHANGED call, GroundPlan
  PROVE  GroundPlan'
<1>1. CASE todo' = todo
  BY <1>1 DEF GroundPlan
<1>2. CASE todo' = <<>>
  BY <1>2 DEF GroundPlan, FlaggedLater, TakesFirst, Ahead, SetsOrWaits
<1>3. CASE todo' = Rest
  BY <1>3, GroundRest, HeadAndRest DEF GroundPlan
<1> QED
  BY <1>1, <1>2, <1>3

(* A call that begins knows the buffer: at rest RX_DONE is that of a       *)
(* packet of the ground, and only receive() believes the flag.             *)
LEMMA GroundCall ==
  ASSUME ChipTypeOK, GroundInv, \/ Start \/ Receive
                                \/ \E p \in Outgoing : Send(p)
                                \/ \E p \in Profiles : Reconfigure(p)
  PROVE  GroundInv'
<1>1. CASE Receive
  <2>1. /\ todo = <<>> /\ todo' = Receives /\ call' = "receive" /\ got' = {} /\ heard' = {}
        /\ UNCHANGED <<node, board>> /\ node = "up" /\ spoilt' = spoilt \ {"call"}
    BY <1>1 DEF Receive, Calls, AtRest
  <2>2. ~Ahead(todo, "irq")
    BY <2>1 DEF Ahead
  <2>3. GroundPlan'
    BY <2>1, GroundCalls DEF GroundPlan
  <2>4. Doing("take")'
    BY <2>1, GroundCalls DEF Doing
  <2> QED
    BY <2>1, <2>2, <2>3, <2>4 DEF GroundInv, GroundBuffer, FromGround
<1>2. ASSUME call' # "receive", heard' = {}, Ahead(todo', "irq"),
             FlaggedLater(todo') /\ TakesFirst(todo') /\ SetsOrWaits(todo')
      PROVE  GroundInv'
  BY <1>2 DEF GroundInv, GroundPlan, GroundBuffer
<1>3. CASE Start
  BY <1>2, <1>3, GroundCalls, HealingCalls DEF Start, Calls
<1>4. ASSUME NEW p \in Outgoing, Send(p) PROVE GroundInv'
  BY <1>2, <1>4, GroundCalls, HealingCalls DEF Send, Calls
<1>5. ASSUME NEW p \in Profiles, Reconfigure(p) PROVE GroundInv'
  BY <1>2, <1>5, GroundCalls, HealingCalls DEF Reconfigure, Calls
<1> QED
  BY <1>1, <1>3, <1>4, <1>5

(* A command that takes effect: the one that writes a packet leaves the    *)
(* clearing of the flags ahead.                                            *)
LEMMA GroundSet == ASSUME ChipTypeOK, GroundInv, Set, Goes PROVE GroundInv'
<1>1. /\ todo # <<>> /\ todo \in Seq(CallSteps) /\ todo' = Rest /\ Head(todo) \in CallSteps
      /\ UNCHANGED <<node, call, got, heard, spoilt>> /\ ~Doing("take")
  BY SetGoes DEF Set, Doing
<1>2. /\ {"irq", "buf"} \subseteq BoardFields /\ "irq" # "rf" /\ "buf" # "rf"
  BY CommandFields DEF BoardFields
<1>3. board'["irq"] = IF Sets(Head(todo), "irq") THEN {} ELSE board["irq"]
  BY <1>1, <1>2, SetGoes, StepTouches
<1>4. ~Sets(Head(todo), "buf") => board'["buf"] = board["buf"]
  BY <1>2, SetGoes
<1> SUFFICES ASSUME node # "down", "run" \notin spoilt PROVE GroundPlan' /\ GroundBuffer'
  BY <1>1 DEF GroundInv
<1>5. GroundPlan /\ GroundBuffer
  BY DEF GroundInv
<1>6. GroundPlan'
  BY <1>1, <1>5, GroundPlanKept
<1>7. Sets(Head(todo), "buf") => Sets(Head(todo), "irq") \/ Ahead(todo', "irq")
  BY <1>1, <1>5, GroundRest DEF GroundPlan
<1>8. call = "receive" => ~Sets(Head(todo), "buf") /\ FromGround
  BY <1>1, <1>5, HeadAndRest DEF GroundPlan, GroundBuffer
<1>9. "rx_done" \in board'.irq => FromGround' \/ (Ahead(todo', "irq") /\ call # "receive")
  BY <1>1, <1>3, <1>4, <1>5, <1>7, <1>8, HeadAndRest DEF GroundBuffer, FromGround
<1> QED
  BY <1>1, <1>4, <1>5, <1>6, <1>8, <1>9 DEF GroundBuffer, FromGround

(* Every step keeps what RX_DONE says of the buffer.                       *)
LEMMA GroundStep == ASSUME ChipTypeOK, GroundInv, [ChipNext]_chipVars PROVE GroundInv'
<1>1. CASE Started \/ UNCHANGED chipVars
  <2>1. UNCHANGED <<board, call, todo, got, heard, spoilt>> /\ (node' # "down" => node # "down")
    BY <1>1 DEF Started, driver, chipVars
  <2> QED
    BY <2>1 DEF GroundInv, GroundPlan, GroundBuffer, FromGround, Doing
<1>2. CASE Kill
  BY <1>2 DEF Kill, GroundInv
<1>3. CASE (Set \/ ReadFlags \/ ClearFlags \/ ReadLength \/ ReadBuffer) /\ Fails
  BY <1>3 DEF Fails, GroundInv
<1>4. CASE Set /\ Goes
  BY <1>4, GroundSet
<1>5. ~(Goes /\ Fails)
  BY DEF Goes, Fails, ChipTypeOK, Plain
<1>6. CASE (ReadFlags \/ ClearFlags) /\ Goes /\ Doing("wait")
  <2>1. /\ todo # <<>> /\ todo \in Seq(CallSteps) /\ \A f : ~Sets(Head(todo), f)
        /\ UNCHANGED <<node, call, heard, spoilt>> /\ todo' \in {todo, Rest}
        /\ \A f \in BoardFields \ {"irq"} : board'[f] = board[f]
        /\ board'["irq"] \subseteq board["irq"]
    BY <1>6, WaitGoes
  <2> SUFFICES ASSUME node # "down", "run" \notin spoilt PROVE GroundPlan' /\ GroundBuffer'
    BY <2>1 DEF GroundInv
  <2>2. GroundPlan /\ GroundBuffer
    BY DEF GroundInv
  <2>3. board'["buf"] = board["buf"]
    BY <2>1, CommandFields DEF BoardFields
  <2>4. call = "receive" => FromGround
    BY <1>6, <2>1, <2>2 DEF GroundBuffer, Doing
  <2>5. Ahead(todo, "irq") => Ahead(todo', "irq")
    BY <2>1, HeadAndRest
  <2>6. GroundPlan'
    BY <2>1, <2>2, GroundPlanKept
  <2> QED
    BY <2>1, <2>2, <2>3, <2>4, <2>5, <2>6 DEF GroundBuffer, FromGround
<1>7. CASE Goes /\ (ReadLength \/ ReadBuffer \/ ((ReadFlags \/ ClearFlags) /\ ~Doing("wait")))
  <2>1. /\ todo # <<>> /\ Head(todo).does \in {"take", "length", "data"}
        /\ UNCHANGED <<node, call, spoilt>> /\ todo \in Seq(CallSteps)
    BY <1>7 DEF ReadFlags, ClearFlags, ReadLength, ReadBuffer, Goes, Doing, ChipTypeOK
  <2> SUFFICES ASSUME node # "down", "run" \notin spoilt PROVE GroundPlan' /\ GroundBuffer'
    BY <2>1 DEF GroundInv
  <2>2. GroundPlan /\ GroundBuffer
    BY DEF GroundInv
  <2>3. call = "receive"
    <3>1. ~SetsOrWaits(todo)
      BY <2>1, TailHas DEF SetsOrWaits
    <3> QED
      BY <2>2, <3>1 DEF GroundPlan
  <2>4. todo' \in {todo, Rest, <<>>}
    BY <1>5, <1>7 DEF ReadFlags, ClearFlags, ReadLength, ReadBuffer
  <2>5. GroundPlan'
    BY <2>1, <2>2, <2>4, GroundPlanKept
  <2>6. board'["buf"] = board["buf"] /\ board'["irq"] \subseteq board["irq"]
    <3>1. board' = board \/ board' = [board EXCEPT !.irq = Cleared]
      BY <1>5, <1>7 DEF ReadFlags, ClearFlags, ReadLength, ReadBuffer
    <3>2. BoardFields \subseteq DOMAIN board /\ "buf" \in BoardFields /\ "irq" \in BoardFields
      BY CommandFields DEF BoardFields, ChipTypeOK, Plain
    <3> QED
      BY <3>1, <3>2 DEF Cleared
  <2>7. CASE FromGround
    <3>1. \A p \in heard' : p.from = "ground"
      BY <1>5, <1>7, <2>2, <2>7 DEF GroundBuffer, FromGround, ReadFlags, ClearFlags, ReadLength, ReadBuffer
    <3> QED
      BY <2>5, <2>6, <2>7, <3>1 DEF GroundBuffer, FromGround
  <2>8. CASE ~FromGround
    <3>1. Doing("take") /\ "rx_done" \notin got /\ "rx_done" \notin board.irq
      BY <2>1, <2>2, <2>3, <2>8 DEF GroundBuffer
    <3>2. /\ ReadFlags \/ ClearFlags
          /\ UNCHANGED heard /\ "rx_done" \notin got'
          /\ todo' = todo \/ todo' = <<>>
      BY <1>5, <1>7, <3>1 DEF ReadFlags, ClearFlags, ReadLength, ReadBuffer, Doing
    <3> QED
      BY <2>2, <2>3, <2>5, <2>6, <3>1, <3>2 DEF GroundBuffer, Doing
  <2> QED
    BY <2>7, <2>8
<1>8. CASE TransmissionEnds
  <2>1. UNCHANGED <<node, call, todo, got, heard, spoilt>>
    BY <1>8, ChipGoes DEF driver
  <2>2. PICK flag \in {"tx_done", "timeout"} : board' = [[board EXCEPT !.mode = "fs"] EXCEPT !.irq = @ \cup {flag}]
    BY <1>8 DEF TransmissionEnds, Flags
  <2>3. BoardFields \subseteq DOMAIN board /\ "buf" \in BoardFields /\ "irq" \in BoardFields
    BY CommandFields DEF BoardFields, ChipTypeOK, Plain
  <2>4. board'["buf"] = board["buf"] /\ ("rx_done" \in board'["irq"] => "rx_done" \in board["irq"])
    BY <2>2, <2>3
  <2> QED
    BY <2>1, <2>4 DEF GroundInv, GroundPlan, GroundBuffer, FromGround, Doing
<1>9. ASSUME NEW p \in Incoming, PacketArrives(p) PROVE GroundInv'
  <2>1. UNCHANGED <<node, call, todo, got, heard, spoilt>>
    BY <1>9, ChipGoes DEF driver
  <2>2. board' = [[board EXCEPT !.buf = p, !.rxLen = p.len] EXCEPT !.irq = @ \cup {"rx_done"}]
    BY <1>9 DEF PacketArrives, Flags
  <2>3. BoardFields \subseteq DOMAIN board /\ "buf" \in BoardFields
    BY CommandFields DEF BoardFields, ChipTypeOK, Plain
  <2>4. board'.buf.from = "ground"
    BY <2>2, <2>3, ChipAssumption
  <2> QED
    BY <2>1, <2>4 DEF GroundInv, GroundPlan, GroundBuffer, FromGround, Doing
<1>10. CASE Start \/ Receive \/ (\E p \in Outgoing : Send(p)) \/ (\E p \in Profiles : Reconfigure(p))
  BY <1>10, GroundCall
<1>11. CASE Set \/ ReadFlags \/ ClearFlags \/ ReadLength \/ ReadBuffer
  <2>1. Goes \/ Fails
    BY <1>11 DEF Set, ReadFlags, ClearFlags, ReadLength, ReadBuffer
  <2> QED
    BY <1>3, <1>4, <1>6, <1>7, <1>11, <2>1
<1> QED
  BY <1>1, <1>2, <1>8, <1>9, <1>10, <1>11 DEF ChipNext

(* What receive() returns is a packet of the ground as long as no          *)
(* transfer has failed, although the buffer is shared with transmissions.  *)
THEOREM HearsTheGroundAlways == ChipSpec => []HearsTheGround
<1>1. ChipInit => ChipTypeOK /\ GroundInv
  BY TypeInit DEF ChipInit, GroundInv
<1>2. (ChipTypeOK /\ GroundInv) /\ [ChipNext]_chipVars => (ChipTypeOK /\ GroundInv)'
  BY TypeStep, GroundStep
<1>3. ChipTypeOK /\ GroundInv => HearsTheGround
  BY DEF ChipTypeOK, Plain, GroundInv, GroundBuffer, HearsTheGround
<1> QED
  BY <1>1, <1>2, <1>3, PTL DEF ChipSpec
-----------------------------------------------------------------------------
(* If a step that sets f comes before every one that transmits, it does    *)
(* so in the rest, but for the step itself.                                *)
LEMMA FirstTail ==
  ASSUME NEW s \in Seq(CallSteps), s # <<>>, NEW f, First(s, f)
  PROVE  ~Transmits(Head(s)) /\ (~Sets(Head(s), f) => First(Tail(s), f))
<1> DEFINE t == Tail(s)
<1>1. /\ 1 \in DOMAIN s /\ Head(s) = s[1]
      /\ \A i \in DOMAIN t : i + 1 \in DOMAIN s /\ t[i] = s[i + 1] /\ i \in Nat
      /\ \A i \in DOMAIN s : i \in Nat /\ (i = 1 \/ (i - 1 \in DOMAIN t /\ t[i - 1] = s[i] /\ i > 1))
  BY TailHas
<1> HIDE DEF t, Transmits, Sets
<1>2. ~Transmits(s[1])
  BY <1>1 DEF First
<1>3. ASSUME ~Sets(s[1], f), NEW i \in DOMAIN t, Transmits(t[i])
      PROVE  \E j \in DOMAIN t : j < i /\ Sets(t[j], f)
  <2>1. i + 1 \in DOMAIN s /\ Transmits(s[i + 1]) /\ i \in Nat
    BY <1>1, <1>3
  <2>2. PICK j \in DOMAIN s : j < i + 1 /\ Sets(s[j], f)
    BY <2>1 DEF First
  <2>3. j \in Nat /\ j - 1 \in DOMAIN t /\ t[j - 1] = s[j]
    BY <1>1, <1>3, <2>2
  <2> QED
    BY <2>1, <2>2, <2>3
<1> QED
  BY <1>1, <1>2, <1>3 DEF First, t

(* The same of the steps that end a transmission and those that turn the   *)
(* switch away.                                                            *)
LEMMA LeavesTail ==
  ASSUME NEW s \in Seq(CallSteps), s # <<>>, LeavesFirst(s)
  PROVE  ~Turns(Head(s)) /\ (~Leaves(Head(s)) => LeavesFirst(Tail(s)))
<1> DEFINE t == Tail(s)
<1>1. /\ 1 \in DOMAIN s /\ Head(s) = s[1]
      /\ \A i \in DOMAIN t : i + 1 \in DOMAIN s /\ t[i] = s[i + 1] /\ i \in Nat
      /\ \A i \in DOMAIN s : i \in Nat /\ (i = 1 \/ (i - 1 \in DOMAIN t /\ t[i - 1] = s[i] /\ i > 1))
  BY TailHas
<1> HIDE DEF t, Turns, Leaves
<1>2. ~Turns(s[1])
  BY <1>1 DEF LeavesFirst
<1>3. ASSUME ~Leaves(s[1]), NEW i \in DOMAIN t, Turns(t[i])
      PROVE  \E j \in DOMAIN t : j < i /\ Leaves(t[j])
  <2>1. i + 1 \in DOMAIN s /\ Turns(s[i + 1]) /\ i \in Nat
    BY <1>1, <1>3
  <2>2. PICK j \in DOMAIN s : j < i + 1 /\ Leaves(s[j])
    BY <2>1 DEF LeavesFirst
  <2>3. j \in Nat /\ j - 1 \in DOMAIN t /\ t[j - 1] = s[j]
    BY <1>1, <1>3, <2>2
  <2> QED
    BY <2>1, <2>2, <2>3
<1> QED
  BY <1>1, <1>2, <1>3 DEF LeavesFirst, t

(* The rest of a guarded call is guarded. Once its first step transmits,   *)
(* the rest waits, transmits no more, and turns the switch away only       *)
(* afterwards.                                                             *)
LEMMA TxGuardedTail ==
  ASSUME NEW s \in Seq(CallSteps), s # <<>>, TxGuarded(s)
  PROVE  /\ TxGuarded(Tail(s))
         /\ Transmits(Head(s)) =>
              /\ NoTx(Tail(s)) /\ LeavesFirst(Tail(s)) /\ Head(s).cleanup = SetsRf
              /\ Tail(s) # <<>> /\ Head(Tail(s)).does = "wait" /\ ~Head(Tail(s)).must
         /\ NoTx(Tail(s)) \/ (~Turns(Head(s)) /\ (Sets(Head(s), "rf") => Head(s).must))
<1> DEFINE t == Tail(s)
<1>1. /\ 1 \in DOMAIN s /\ Head(s) = s[1]
      /\ \A i \in DOMAIN t : i + 1 \in DOMAIN s /\ t[i] = s[i + 1] /\ i \in Nat /\ i >= 1
      /\ \A i \in DOMAIN s : i \in Nat /\ (i = 1 \/ (i - 1 \in DOMAIN t /\ t[i - 1] = s[i] /\ i > 1))
  BY TailHas, TailIs
<1>2. t \in Seq(CallSteps)
  BY TailIs
<1> HIDE DEF t, Turns, Leaves, Transmits, Sets
<1>3. ASSUME NEW i \in DOMAIN t, Transmits(t[i])
      PROVE  /\ i + 1 \in DOMAIN t /\ t[i + 1].does = "wait" /\ ~t[i + 1].must
             /\ t[i].cleanup = SetsRf
             /\ \A j \in DOMAIN t : j < i => ~Turns(t[j]) /\ (Sets(t[j], "rf") => t[j].must)
             /\ \A k \in DOMAIN t : k > i =>
                  /\ ~Transmits(t[k])
                  /\ Turns(t[k]) => \E j \in DOMAIN t : i < j /\ j < k /\ Leaves(t[j])
             /\ ~Turns(s[1]) /\ (Sets(s[1], "rf") => s[1].must)
  <2>1. i + 1 \in DOMAIN s /\ Transmits(s[i + 1]) /\ i \in Nat /\ i >= 1
    BY <1>1, <1>3
  <2>2. /\ (i + 1) + 1 \in DOMAIN s /\ s[(i + 1) + 1].does = "wait" /\ ~s[(i + 1) + 1].must
        /\ s[i + 1].cleanup = SetsRf
        /\ \A j \in DOMAIN s : j < i + 1 => ~Turns(s[j]) /\ (Sets(s[j], "rf") => s[j].must)
        /\ \A k \in DOMAIN s : k > i + 1 =>
             /\ ~Transmits(s[k])
             /\ Turns(s[k]) => \E j \in DOMAIN s : i + 1 < j /\ j < k /\ Leaves(s[j])
    BY <2>1 DEF TxGuarded
  <2>3. i + 1 \in DOMAIN t /\ t[i + 1] = s[(i + 1) + 1]
    <3>1. (i + 1) + 1 # 1 /\ ((i + 1) + 1) - 1 = i + 1
      BY <2>1
    <3>2. ((i + 1) + 1) - 1 \in DOMAIN t /\ t[((i + 1) + 1) - 1] = s[(i + 1) + 1]
      BY <1>1, <2>2, <3>1
    <3> QED
      BY <3>1, <3>2
  <2>4. ASSUME NEW j \in DOMAIN t, j < i PROVE ~Turns(t[j]) /\ (Sets(t[j], "rf") => t[j].must)
    <3>1. j + 1 \in DOMAIN s /\ t[j] = s[j + 1] /\ j \in Nat
      BY <1>1
    <3>2. j + 1 < i + 1
      BY <2>1, <2>4, <3>1
    <3> QED
      BY <2>2, <3>1, <3>2
  <2>5. ASSUME NEW k \in DOMAIN t, k > i
        PROVE  /\ ~Transmits(t[k])
               /\ Turns(t[k]) => \E j \in DOMAIN t : i < j /\ j < k /\ Leaves(t[j])
    <3>1. k + 1 \in DOMAIN s /\ t[k] = s[k + 1] /\ k \in Nat /\ k + 1 > i + 1
      BY <1>1, <2>1, <2>5
    <3>2. ~Transmits(t[k])
      BY <2>2, <3>1
    <3>3. ASSUME Turns(t[k]) PROVE \E j \in DOMAIN t : i < j /\ j < k /\ Leaves(t[j])
      <4>1. PICK j \in DOMAIN s : i + 1 < j /\ j < k + 1 /\ Leaves(s[j])
        BY <2>2, <3>1, <3>3
      <4>2. j \in Nat /\ j # 1
        BY <1>1, <2>1, <4>1
      <4>3. j - 1 \in DOMAIN t /\ t[j - 1] = s[j]
        BY <1>1, <4>1, <4>2
      <4>4. i < j - 1 /\ j - 1 < k
        BY <2>1, <3>1, <4>1, <4>2
      <4> QED
        BY <4>1, <4>3, <4>4
    <3> QED
      BY <3>2, <3>3
  <2>6. ~Turns(s[1]) /\ (Sets(s[1], "rf") => s[1].must)
    <3>1. 1 < i + 1
      BY <2>1
    <3> QED
      BY <1>1, <2>2, <3>1
  <2> QED
    BY <1>1, <2>2, <2>3, <2>4, <2>5, <2>6
<1>4. ASSUME Transmits(s[1])
      PROVE  /\ NoTx(t) /\ LeavesFirst(t) /\ s[1].cleanup = SetsRf
             /\ t # <<>> /\ Head(t).does = "wait" /\ ~Head(t).must
  <2>1. /\ 1 + 1 \in DOMAIN s /\ s[1 + 1].does = "wait" /\ ~s[1 + 1].must
        /\ s[1].cleanup = SetsRf
        /\ \A k \in DOMAIN s : k > 1 =>
             /\ ~Transmits(s[k])
             /\ Turns(s[k]) => \E j \in DOMAIN s : 1 < j /\ j < k /\ Leaves(s[j])
    BY <1>1, <1>4 DEF TxGuarded
  <2>2. (1 + 1) - 1 \in DOMAIN t /\ t[(1 + 1) - 1] = s[1 + 1]
    BY <1>1, <2>1
  <2>3. 1 \in DOMAIN t /\ t[1].does = "wait" /\ ~t[1].must
    BY <2>1, <2>2
  <2>4. t # <<>> /\ Head(t) = t[1]
    BY <1>2, <2>3, TailHas
  <2>5. NoTx(t)
    <3>1. \A k \in DOMAIN t : k + 1 \in DOMAIN s /\ k + 1 > 1 /\ t[k] = s[k + 1]
      BY <1>1
    <3> QED
      BY <2>1, <3>1 DEF NoTx
  <2>6. ASSUME NEW k \in DOMAIN t, Turns(t[k]) PROVE \E j \in DOMAIN t : j < k /\ Leaves(t[j])
    <3>1. k + 1 \in DOMAIN s /\ k + 1 > 1 /\ t[k] = s[k + 1] /\ k \in Nat
      BY <1>1
    <3>2. PICK j \in DOMAIN s : 1 < j /\ j < k + 1 /\ Leaves(s[j])
      BY <2>1, <2>6, <3>1
    <3>3. j \in Nat /\ j - 1 \in DOMAIN t /\ t[j - 1] = s[j] /\ j - 1 < k
      BY <1>1, <3>1, <3>2
    <3> QED
      BY <3>2, <3>3
  <2> QED
    BY <2>1, <2>3, <2>4, <2>5, <2>6 DEF LeavesFirst
<1> QED
  BY <1>1, <1>3, <1>4 DEF TxGuarded, NoTx, t

(* send() is guarded, turns the switch and clears the flags first; no      *)
(* other call transmits.                                                   *)
LEMMA SafeCalls ==
  /\ \A p \in Outgoing :
       LET s == Sends(p) IN TxGuarded(s) /\ First(s, "rf") /\ First(s, "irq") /\ LeavesFirst(s)
  /\ \A p \in Profiles : NoTx(Reconfigures(p)) /\ LeavesFirst(Reconfigures(p))
  /\ NoTx(Starts)
  /\ NoTx(Receives) /\ LeavesFirst(Receives)
<1>1. ASSUME NEW p \in Outgoing
      PROVE  LET s == Sends(p) IN TxGuarded(s) /\ First(s, "rf") /\ First(s, "irq") /\ LeavesFirst(s)
  <2> DEFINE s == Sends(p)
  <2>1. DOMAIN s = 1..9
    BY SendsTable
  <2>0. /\ s[7].set = Standby /\ s[9].set = SetRx /\ s[1].set = Rf("tx")
        /\ \A i \in 1..9 : /\ Sets(s[i], "mode") => i \in {5, 7, 9}
                           /\ Sets(s[i], "rf") => i \in {1, 8}
    BY SendsTable DEF Sets
  <2>2. \A i \in 1..9 : Transmits(s[i]) => i = 5
    <3> HIDE DEF s, Sets
    <3> QED
      BY <2>0, CommandFields DEF Transmits
  <2>3. \A i \in 1..9 : Turns(s[i]) => i = 8
    <3> HIDE DEF s, Sets
    <3> QED
      BY <2>0, CommandFields DEF Turns
  <2>4. Leaves(s[7]) /\ Sets(s[1], "rf") /\ Sets(s[4], "irq")
    BY SendsTable, CommandFields DEF Leaves, Sets
  <2>5. \A i \in 1..5 : Sets(s[i], "rf") => i = 1
    BY SendsTable DEF Sets
  <2>6. s[1].must /\ s[6].does = "wait" /\ ~s[6].must /\ s[5].cleanup = SetsRf
    BY SendsTable DEF SetsRf
  <2> HIDE DEF s, Turns, Leaves, Transmits, Sets
  <2>7. First(s, "rf") /\ First(s, "irq")
    BY <2>1, <2>2, <2>4 DEF First
  <2>8. LeavesFirst(s)
    BY <2>1, <2>3, <2>4 DEF LeavesFirst
  <2>9. TxGuarded(s)
    <3>1. /\ 5 + 1 \in DOMAIN s /\ s[5 + 1].does = "wait" /\ ~s[5 + 1].must
      BY <2>1, <2>6
    <3>2. \A j \in DOMAIN s : j < 5 => ~Turns(s[j]) /\ (Sets(s[j], "rf") => s[j].must)
      BY <2>1, <2>3, <2>5, <2>6
    <3>3. \A k \in DOMAIN s : k > 5 => /\ ~Transmits(s[k])
                                       /\ Turns(s[k]) => \E j \in DOMAIN s : 5 < j /\ j < k /\ Leaves(s[j])
      BY <2>1, <2>2, <2>3, <2>4
    <3> QED
      BY <2>1, <2>2, <2>6, <3>1, <3>2, <3>3 DEF TxGuarded
  <2> QED
    BY <2>7, <2>8, <2>9 DEF s
<1>2. ASSUME NEW p \in Profiles PROVE NoTx(Reconfigures(p)) /\ LeavesFirst(Reconfigures(p))
  <2> DEFINE s == Reconfigures(p)
  <2>1. DOMAIN s = 1..9 /\ Leaves(s[1]) /\ ~Turns(s[1])
    BY ReconfiguresTable, CommandFields DEF Leaves, Turns, Sets
  <2>2. \A i \in 1..9 : ~Transmits(s[i])
    BY ReconfiguresTable, CommandFields DEF Transmits, Sets
  <2> HIDE DEF s, Turns, Leaves, Transmits
  <2> QED
    BY <2>1, <2>2 DEF NoTx, LeavesFirst, s
<1>3. NoTx(Starts)
  <2> DEFINE s == Starts
  <2>1. DOMAIN s = 1..13
    BY StartsTable
  <2>2. \A i \in 1..13 : ~Transmits(s[i])
    <3>1. \A i \in 1..13 : Sets(s[i], "mode") => i \in {2, 3, 5, 13}
      BY StartsTable DEF Sets
    <3>2. s[2].set = Reset /\ s[3].set = Standby /\ s[5].set = Standby /\ s[13].set = SetRx
      BY StartsTable
    <3> HIDE DEF s, Sets
    <3>3. \A i \in {2, 3, 5, 13} : ~Transmits(s[i])
      BY <3>2, CommandFields DEF Transmits
    <3> QED
      BY <3>1, <3>3 DEF Transmits
  <2> HIDE DEF s, Transmits
  <2> QED
    BY <2>1, <2>2 DEF NoTx, s
<1>4. NoTx(Receives) /\ LeavesFirst(Receives)
  <2> DEFINE s == Receives
  <2>1. DOMAIN s = 1..5 /\ \A i \in 1..5 : ~Transmits(s[i]) /\ ~Turns(s[i])
    BY ReceivesTable, CommandFields DEF Transmits, Turns, Sets
  <2> HIDE DEF s, Transmits, Turns
  <2> QED
    BY <2>1 DEF NoTx, LeavesFirst, s
<1> QED
  BY <1>1, <1>2, <1>3, <1>4

(* What transmits nothing is guarded.                                      *)
LEMMA NoTxIs ==
  ASSUME NEW s, NoTx(s)
  PROVE  TxGuarded(s) /\ \A f : First(s, f)
BY DEF NoTx, TxGuarded, First

(* No cleanup transmits, and that of send() does not turn the switch       *)
(* away.                                                                   *)
LEMMA SafeCleanups ==
  /\ \A s \in Cleanups : NoTx(s)
  /\ NoTx(SetsRf) /\ LeavesFirst(SetsRf)
  /\ NoTx(<<>>) /\ LeavesFirst(<<>>)
<1>1. NoTx(<<>>) /\ LeavesFirst(<<>>)
  BY DEF NoTx, LeavesFirst
<1>2. NoTx(SetsRf) /\ LeavesFirst(SetsRf)
  <2>1. ~Transmits(Anyway(Rf("tx"))) /\ ~Turns(Anyway(Rf("tx")))
    BY StepFields, CommandFields DEF Transmits, Turns, Sets
  <2>2. DOMAIN SetsRf = 1..1 /\ SetsRf[1] = Anyway(Rf("tx"))
    BY DEF SetsRf
  <2> HIDE DEF SetsRf, Transmits, Turns
  <2> QED
    BY <2>1, <2>2 DEF NoTx, LeavesFirst
<1>3. NoTx(Listen)
  <2>1. /\ ~Transmits(Must(Rf("rx"), <<>>)) /\ ~Transmits(Must(SetRx, <<>>))
    BY StepFields, CommandFields DEF Transmits, Sets
  <2>2. DOMAIN Listen = 1..2
    BY ListenIs
  <2> HIDE DEF Transmits, Listen
  <2> QED
    BY <2>1, <2>2, ListenIs DEF NoTx
<1> QED
  BY <1>1, <1>2, <1>3 DEF Cleanups, SetsRf

(* A call that begins meets a transmission only after a failure, and then  *)
(* ends it before it turns the switch away.                                *)
LEMMA SafeStart ==
  ASSUME ChipTypeOK, SafeInv, \/ Start \/ Receive
                              \/ \E p \in Outgoing : Send(p)
                              \/ \E p \in Profiles : Reconfigure(p)
  PROVE  SafeInv'
<1>1. UNCHANGED <<lines, board, faults, kills>> /\ got' = {} /\ node' # "down" /\ todo = <<>>
  BY DEF Start, Receive, Send, Reconfigure, Calls, AtRest, ChipTypeOK, Plain
<1>2. ASSUME kills = 0, faults = 0 PROVE board.mode # "tx"
  BY <1>1, <1>2 DEF SafeInv, AwaitedOnAir, Doing
<1>3. ASSUME TxGuarded(todo'), First(todo', "rf"), First(todo', "irq"),
             LeavesFirst(todo') \/ (kills = 0 => board.mode # "tx")
      PROVE  SafeInv'
  BY <1>1, <1>2, <1>3 DEF SafeInv, Aimed, AimedOnAir, AwaitedOnAir, AntennaAt
<1>4. CASE Start
  <2>1. todo' = Starts /\ node = "down"
    BY <1>4 DEF Start, Calls
  <2>2. kills = 0 => board.mode # "tx"
    BY <2>1 DEF SafeInv
  <2> QED
    BY <1>3, <2>1, <2>2, SafeCalls, NoTxIs
<1>5. CASE Receive
  <2>1. todo' = Receives
    BY <1>5 DEF Receive, Calls
  <2> QED
    BY <1>3, <2>1, SafeCalls, NoTxIs
<1>6. ASSUME NEW p \in Outgoing, Send(p) PROVE SafeInv'
  <2>1. todo' = Sends(p)
    BY <1>6 DEF Send, Calls
  <2> QED
    BY <1>3, <2>1, SafeCalls
<1>7. ASSUME NEW p \in Profiles, Reconfigure(p) PROVE SafeInv'
  <2>1. todo' = Reconfigures(p)
    BY <1>7 DEF Reconfigure, Calls
  <2> QED
    BY <1>3, <2>1, SafeCalls, NoTxIs
<1> QED
  BY <1>4, <1>5, <1>6, <1>7

(* A command that takes effect.                                            *)
LEMMA SafeSet == ASSUME ChipTypeOK, SafeInv, Set, Goes PROVE SafeInv'
<1>1. /\ todo # <<>> /\ todo \in Seq(CallSteps) /\ todo' = Tail(todo) /\ Head(todo) \in CallSteps
      /\ UNCHANGED <<node, lines, kills, faults, got>> /\ ~Doing("wait") /\ got = {} /\ node # "down"
  BY SetGoes DEF Set, Doing, Rest, ChipTypeOK, Plain, Holding
<1>2. /\ board'["mode"] = IF Sets(Head(todo), "mode") THEN Head(todo).set["mode"] ELSE board["mode"]
      /\ board'["irq"] = IF Sets(Head(todo), "irq") THEN {} ELSE board["irq"]
      /\ lines => board'["rf"] = IF Sets(Head(todo), "rf") THEN Head(todo).set["rf"] ELSE board["rf"]
  BY <1>1, SetGoes, StepTouches, CommandFields DEF BoardFields
<1>3. TxGuarded(todo') /\ TxGuarded(todo)
  BY <1>1, TxGuardedTail DEF SafeInv, Aimed
<1>4. AntennaAt("tx") /\ ~Turns(Head(todo)) => AntennaAt("tx")'
  BY <1>1, <1>2 DEF AntennaAt, Turns
<1>5. First(todo, "rf") => ~Transmits(Head(todo)) /\ (First(todo', "rf") \/ Sets(Head(todo), "rf"))
  BY <1>1, FirstTail
<1>6. First(todo, "irq") => ~Transmits(Head(todo)) /\ (First(todo', "irq") \/ Sets(Head(todo), "irq"))
  BY <1>1, FirstTail
<1>7. Aimed'
  <2>1. CASE NoTx(todo')
    BY <1>3, <2>1, NoTxIs DEF Aimed
  <2>2. CASE ~NoTx(todo')
    <3>1. ~Turns(Head(todo))
      BY <1>1, <1>3, <2>2, TxGuardedTail
    <3>2. Sets(Head(todo), "rf") => AntennaAt("tx")'
      BY <1>1, <1>2, <3>1 DEF AntennaAt, Turns
    <3> QED
      BY <1>3, <1>4, <1>5, <3>1, <3>2 DEF SafeInv, Aimed
  <2> QED
    BY <2>1, <2>2
<1>8. CASE Transmits(Head(todo))
  <2>1. /\ NoTx(todo') /\ LeavesFirst(todo') /\ todo' # <<>> /\ Head(todo').does = "wait" /\ ~Head(todo').must
    BY <1>1, <1>3, <1>8, TxGuardedTail
  <2>2. DOMAIN Head(todo).set = {"mode"}
    BY <1>1, <1>8, StepTouches
  <2>3. AntennaAt("tx")'
    <3>1. AntennaAt("tx")
      BY <1>5, <1>8 DEF SafeInv, Aimed
    <3> QED
      BY <1>4, <2>2, <3>1 DEF Turns, Sets
  <2>4. board'["irq"] = board["irq"]
    BY <1>2, <2>2 DEF Sets
  <2>5. kills = 0 /\ faults = 0 => board.irq \cap Ended = {}
    BY <1>6, <1>8 DEF SafeInv, AwaitedOnAir
  <2>6. First(todo', "irq")
    BY <2>1, NoTxIs
  <2>7. AimedOnAir'
    BY <2>1, <2>3 DEF AimedOnAir
  <2>8. kills = 0 /\ faults = 0 => AwaitedOnAir'
    BY <1>1, <2>1, <2>4, <2>5, <2>6 DEF AwaitedOnAir, Doing
  <2> QED
    BY <1>1, <1>7, <2>7, <2>8 DEF SafeInv
<1>9. CASE ~Transmits(Head(todo))
  <2>1. board'["mode"] = "tx" => board["mode"] = "tx" /\ ~Leaves(Head(todo))
    BY <1>1, <1>2, <1>9, StepTouches DEF Transmits, Leaves
  <2>2. AimedOnAir => AimedOnAir'
    BY <1>1, <1>4, <2>1, LeavesTail DEF AimedOnAir
  <2>3. AwaitedOnAir => AwaitedOnAir'
    BY <1>1, <1>2, <1>6, <2>1 DEF AwaitedOnAir
  <2> QED
    BY <1>1, <1>7, <2>2, <2>3 DEF SafeInv
<1> QED
  BY <1>8, <1>9

(* A failure: the first one meets a transmission only while it is awaited, *)
(* or begins it, and then the call cleans up.                              *)
LEMMA SafeFails ==
  ASSUME ChipTypeOK, SafeInv, Fails, Set \/ ReadFlags \/ ClearFlags \/ ReadLength \/ ReadBuffer
  PROVE  SafeInv'
<1>1. /\ todo # <<>> /\ todo \in Seq(CallSteps) /\ Head(todo) \in CallSteps /\ node # "down"
      /\ UNCHANGED <<node, lines, kills>> /\ faults' = faults + 1 /\ faults \in Nat
  BY TailIs DEF Fails, Set, ReadFlags, ClearFlags, ReadLength, ReadBuffer, Doing, ChipTypeOK, Plain
<1>2. ~Goes
  BY DEF Goes, Fails, ChipTypeOK, Plain
<1>3. todo' = IF Head(todo).must THEN Head(todo).cleanup ELSE Tail(todo)
  BY <1>2 DEF Set, ReadFlags, ClearFlags, ReadLength, ReadBuffer, Instead, Rest
<1>4. TxGuarded(todo)
  BY DEF SafeInv, Aimed
<1>5. /\ {"mode", "rf", "irq"} \subseteq DOMAIN board /\ Head(todo).cleanup \in Cleanups
  BY <1>1, StepTouches, CommandFields DEF ChipTypeOK, Plain, BoardFields
<1>6. ~Sets(Head(todo), "rf") => (AntennaAt("tx") => AntennaAt("tx")')
  <2> SUFFICES ASSUME ~Sets(Head(todo), "rf") PROVE board'["rf"] = board["rf"]
    BY <1>1 DEF AntennaAt
  <2>1. CASE Set
    <3>1. Partly(Head(todo).set) = Head(todo).set
      BY DEF Partly, Sets
    <3>2. board' \in {board, After(Head(todo).set, board)}
      BY <1>2, <2>1, <3>1 DEF Set
    <3> QED
      BY <1>5, <3>2, BoardSet DEF Sets
  <2>2. CASE ~Set
    <3>1. board' = board \/ board' = [board EXCEPT !.irq = Cleared]
      BY <1>2, <2>2 DEF ReadFlags, ClearFlags, ReadLength, ReadBuffer
    <3> QED
      BY <1>5, <3>1
  <2> QED
    BY <2>1, <2>2
<1>7. Aimed'
  <2>1. CASE NoTx(todo')
    BY <2>1, NoTxIs DEF Aimed
  <2>2. CASE ~NoTx(todo')
    <3>1. ~Head(todo).must
      BY <1>3, <1>5, <2>2, SafeCleanups
    <3>2. todo' = Tail(todo) /\ ~Sets(Head(todo), "rf") /\ TxGuarded(todo')
      BY <1>1, <1>3, <1>4, <2>2, <3>1, TxGuardedTail
    <3>3. First(todo, "rf") => First(todo', "rf")
      BY <1>1, <3>2, FirstTail
    <3> QED
      BY <1>6, <3>2, <3>3 DEF SafeInv, Aimed
  <2> QED
    BY <2>1, <2>2
<1>8. ASSUME kills = 0, faults = 0 PROVE AimedOnAir'
  <2>1. AwaitedOnAir /\ AimedOnAir
    BY <1>8 DEF SafeInv
  <2> SUFFICES ASSUME board'.mode = "tx" PROVE AntennaAt("tx")' /\ LeavesFirst(todo')
    BY DEF AimedOnAir
  <2>2. CASE board.mode = "tx"
    <3>1. Head(todo).does = "wait" /\ ~Head(todo).must
      BY <2>1, <2>2 DEF AwaitedOnAir, Doing
    <3>2. \A f : ~Sets(Head(todo), f)
      BY <1>1, <3>1, StepTouches
    <3>3. LeavesFirst(todo')
      BY <1>1, <1>3, <2>1, <2>2, <3>1, <3>2, LeavesTail DEF AimedOnAir, Leaves
    <3> QED
      BY <1>6, <2>1, <2>2, <3>2, <3>3 DEF AimedOnAir
  <2>3. CASE board.mode # "tx"
    <3>1. Set
      <4> SUFFICES ASSUME ~Set PROVE board'["mode"] = board["mode"]
        BY <2>3
      <4>1. board' = board \/ board' = [board EXCEPT !.irq = Cleared]
        BY <1>2 DEF ReadFlags, ClearFlags, ReadLength, ReadBuffer
      <4> QED
        BY <1>5, <4>1
    <3>2. board' = After(Partly(Head(todo).set), board)
      BY <1>2, <2>3, <3>1 DEF Set
    <3>3. DOMAIN Partly(Head(todo).set) = DOMAIN Head(todo).set /\ (Sets(Head(todo), "mode") => Partly(Head(todo).set) = Head(todo).set)
      BY CommandFields DEF Partly, Sets
    <3>4. Transmits(Head(todo))
      <4>1. Sets(Head(todo), "mode") /\ board'["mode"] = Head(todo).set["mode"]
        BY <1>5, <2>3, <3>2, <3>3, BoardSet DEF Sets
      <4> QED
        BY <4>1 DEF Transmits
    <3>5. ~Sets(Head(todo), "rf")
      BY <1>1, <3>4, StepTouches DEF Sets
    <3>6. AntennaAt("tx")
      BY <1>1, <3>4, FirstTail DEF SafeInv, Aimed
    <3>7. LeavesFirst(todo')
      BY <1>1, <1>3, <1>4, <3>4, TxGuardedTail, SafeCleanups
    <3> QED
      BY <1>6, <3>5, <3>6, <3>7
  <2> QED
    BY <2>2, <2>3
<1> QED
  BY <1>1, <1>7, <1>8 DEF SafeInv

(* Flags read or cleared, or the received packet read: the chip's mode and *)
(* the switch stay, and a transmission is awaited until one of the flags   *)
(* that end it has been read.                                              *)
LEMMA SafeReads ==
  ASSUME ChipTypeOK, SafeInv, Goes, ReadFlags \/ ClearFlags \/ ReadLength \/ ReadBuffer
  PROVE  SafeInv'
<1>1. /\ todo # <<>> /\ todo \in Seq(CallSteps) /\ Head(todo) \in CallSteps /\ node # "down"
      /\ UNCHANGED <<node, lines, kills, faults>> /\ Head(todo).does # "set"
  BY TailIs DEF Goes, ReadFlags, ClearFlags, ReadLength, ReadBuffer, Doing, ChipTypeOK, Plain
<1>2. ~Fails
  BY DEF Goes, Fails, ChipTypeOK, Plain
<1>3. todo' \in {todo, Tail(todo), <<>>}
  BY <1>2 DEF ReadFlags, ClearFlags, ReadLength, ReadBuffer, Rest
<1>4. \A f : ~Sets(Head(todo), f)
  BY <1>1, StepTouches
<1>5. /\ board'["mode"] = board["mode"] /\ board'["rf"] = board["rf"]
      /\ board'["irq"] \subseteq board["irq"]
  <2>1. board' = board \/ board' = [board EXCEPT !.irq = Cleared]
    BY <1>2 DEF ReadFlags, ClearFlags, ReadLength, ReadBuffer
  <2>2. {"mode", "rf", "irq"} \subseteq DOMAIN board
    BY CommandFields DEF ChipTypeOK, Plain, BoardFields
  <2> QED
    BY <2>1, <2>2 DEF Cleared
<1>6. AntennaAt("tx") => AntennaAt("tx")'
  BY <1>1, <1>5 DEF AntennaAt
<1>7. /\ TxGuarded(todo) => TxGuarded(todo')
      /\ \A f : First(todo, f) => First(todo', f)
      /\ LeavesFirst(todo) => LeavesFirst(todo')
  <2>1. CASE todo' = todo
    BY <2>1
  <2>2. CASE todo' = Tail(todo)
    BY <1>1, <1>4, <2>2, TxGuardedTail, FirstTail, LeavesTail DEF Leaves
  <2>3. CASE todo' = <<>>
    BY <2>3, SafeCleanups, NoTxIs
  <2> QED
    BY <1>3, <2>1, <2>2, <2>3
<1>8. Aimed' /\ (AimedOnAir => AimedOnAir')
  BY <1>5, <1>6, <1>7 DEF SafeInv, Aimed, AimedOnAir
<1>9. AwaitedOnAir => AwaitedOnAir'
  <2> SUFFICES ASSUME AwaitedOnAir PROVE AwaitedOnAir'
    OBVIOUS
  <2>1. board'.irq \cap Ended = {} \/ First(todo', "irq")
    BY <1>5, <1>7 DEF AwaitedOnAir
  <2>2. ASSUME board.mode = "tx"
        PROVE  todo' = todo /\ (board'.irq \cup got') \cap Ended = {}
    <3>1. Doing("wait") /\ (board.irq \cup got) \cap Ended = {} /\ ~Doing("take")
      BY <2>2 DEF AwaitedOnAir, Doing
    <3>2. ReadFlags \/ ClearFlags
      BY <3>1 DEF ReadLength, ReadBuffer, Doing
    <3>3. got' \subseteq board.irq \cup got /\ todo' = todo
      BY <1>2, <3>1, <3>2 DEF ReadFlags, ClearFlags, Ended
    <3> QED
      BY <1>5, <3>1, <3>3
  <2> QED
    BY <1>5, <2>1, <2>2 DEF AwaitedOnAir, Doing
<1> QED
  BY <1>1, <1>8, <1>9 DEF SafeInv

(* Every step keeps the switch where a transmission needs it.              *)
LEMMA SafeStep == ASSUME ChipTypeOK, SafeInv, [ChipNext]_chipVars PROVE SafeInv'
<1>1. CASE Started \/ UNCHANGED chipVars
  <2>1. UNCHANGED <<lines, board, todo, got, faults, kills>> /\ (node' = "down" => node = "down")
    BY <1>1 DEF Started, driver, chipVars
  <2> QED
    BY <2>1 DEF SafeInv, Aimed, AimedOnAir, AwaitedOnAir, AntennaAt, Doing
<1>2. CASE Kill
  <2>1. todo' = <<>> /\ kills' # 0
    BY <1>2 DEF Kill, ChipTypeOK, Plain
  <2> QED
    BY <2>1, SafeCleanups, NoTxIs DEF SafeInv, Aimed
<1>3. CASE Start \/ Receive \/ (\E p \in Outgoing : Send(p)) \/ (\E p \in Profiles : Reconfigure(p))
  BY <1>3, SafeStart
<1>4. CASE Set \/ ReadFlags \/ ClearFlags \/ ReadLength \/ ReadBuffer
  <2>1. Goes \/ Fails
    BY <1>4 DEF Set, ReadFlags, ClearFlags, ReadLength, ReadBuffer
  <2> QED
    BY <1>4, <2>1, SafeSet, SafeReads, SafeFails
<1>5. CASE TransmissionEnds \/ \E p \in Incoming : PacketArrives(p)
  <2>1. UNCHANGED <<node, lines, todo, got, faults, kills>>
    BY <1>5, ChipGoes DEF driver
  <2>2. board'["rf"] = board["rf"]
    BY <1>5, ChipGoes, CommandFields DEF BoardFields
  <2>3. {"mode", "irq"} \subseteq DOMAIN board
    BY CommandFields DEF ChipTypeOK, Plain, BoardFields
  <2>4. board'.mode # "tx"
    <3>1. CASE TransmissionEnds
      <4>1. PICK flag : board' = [[board EXCEPT !.mode = "fs"] EXCEPT !.irq = @ \cup {flag}]
        BY <3>1 DEF TransmissionEnds, Flags
      <4> QED
        BY <2>3, <4>1
    <3>2. CASE \E p \in Incoming : PacketArrives(p)
      BY <3>2, ChipGoes DEF PacketArrives
    <3> QED
      BY <1>5, <3>1, <3>2
  <2>5. Aimed'
    BY <2>1, <2>2 DEF SafeInv, Aimed, AntennaAt
  <2>6. ASSUME AwaitedOnAir PROVE AwaitedOnAir'
    <3>1. CASE TransmissionEnds
      <4>1. First(todo, "irq")
        BY <2>6, <3>1, NoTxIs DEF AwaitedOnAir, TransmissionEnds
      <4> QED
        BY <2>1, <2>4, <4>1 DEF AwaitedOnAir
    <3>2. ASSUME NEW p \in Incoming, PacketArrives(p) PROVE AwaitedOnAir'
      <4>1. board' = [[board EXCEPT !.buf = p, !.rxLen = p.len] EXCEPT !.irq = @ \cup {"rx_done"}]
        BY <3>2 DEF PacketArrives, Flags
      <4>2. board'["irq"] = board["irq"] \cup {"rx_done"}
        BY <2>3, <4>1
      <4> QED
        BY <2>1, <2>4, <2>6, <4>2 DEF AwaitedOnAir, Ended
    <3> QED
      BY <1>5, <3>1, <3>2
  <2> QED
    BY <2>1, <2>4, <2>5, <2>6 DEF SafeInv, AimedOnAir
<1> QED
  BY <1>1, <1>2, <1>3, <1>4, <1>5 DEF ChipNext

(* As long as the process lives, one failure, wherever it falls, never     *)
(* makes the chip transmit into a switch that is turned away.              *)
THEOREM TransmitsSafely == ChipSpec => []OneFaultTransmitsSafely
<1>1. ChipInit => ChipTypeOK /\ SafeInv
  <2>1. ASSUME ChipInit PROVE board.mode # "tx" /\ board.irq = {}
    <3>1. "mode" \in BoardFields /\ "irq" \in BoardFields
      BY CommandFields DEF BoardFields
    <3> QED
      BY <2>1, <3>1, CommandFields DEF ChipInit
  <2> QED
    BY <2>1, TypeInit, SafeCleanups, NoTxIs DEF ChipInit, SafeInv, Aimed, AimedOnAir, AwaitedOnAir
<1>2. (ChipTypeOK /\ SafeInv) /\ [ChipNext]_chipVars => (ChipTypeOK /\ SafeInv)'
  BY TypeStep, SafeStep
<1>3. SafeInv => OneFaultTransmitsSafely
  BY DEF SafeInv, AimedOnAir, OneFaultTransmitsSafely
<1> QED
  BY <1>1, <1>2, <1>3, PTL DEF ChipSpec
=============================================================================
