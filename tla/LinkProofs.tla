------------------------------ MODULE LinkProofs ------------------------------
(***************************************************************************)
(* Theorems about the two links of the payload. Neither uses the other:    *)
(*                                                                         *)
(* - the bridge over its SPI link (StmLink), for any number of faults:     *)
(*   every step is a step of the bridge of StmBridge, or leaves it alone,  *)
(*   so that what StmBridgeProofs shows of the bridge holds however much   *)
(*   the link loses; and what the faults can do to the board and the pose; *)
(* - the radio node (Radio), for any profiles, any number of packets and   *)
(*   any limit of the header.                                              *)
(*                                                                         *)
(* The wake-up property is not inductive: it says something of a sleeping  *)
(* thread only. QueueFlagged and SentUnlessBusy say at every step of the   *)
(* loop who still owes the queue a look, and Dead what a process that died *)
(* left behind for the next one, which is nothing.                         *)
(***************************************************************************)
EXTENDS StmLink, Radio, FiniteSetTheorems, SequenceTheorems, TLAPS

P == INSTANCE StmBridgeProofs WITH stm <- told

Transfers == {"poll", "ask", "listen", "write", "start", "stop", "pose", "reset"}

(* Sets of transfers are finite.                                           *)
LEMMA TransfersFinite == ASSUME NEW failed \in SUBSET Transfers
                         PROVE  IsFiniteSet(failed) /\ Cardinality(failed) \in Nat
<1>1. \A S, x : IsFiniteSet(S) => IsFiniteSet(S \cup {x})
  BY FS_AddElement
<1>2. IsFiniteSet({"poll"} \cup {"ask"} \cup {"listen"} \cup {"write"})
  <2>1. IsFiniteSet({"poll"} \cup {"ask"})
    BY <1>1, FS_Singleton, Zenon
  <2>2. IsFiniteSet({"poll"} \cup {"ask"} \cup {"listen"})
    BY <1>1, <2>1, Zenon
  <2> QED
    BY <1>1, <2>2, Zenon
<1>3. IsFiniteSet(({"poll"} \cup {"ask"} \cup {"listen"} \cup {"write"})
                    \cup {"start"} \cup {"stop"} \cup {"pose"} \cup {"reset"})
  <2> DEFINE four == {"poll"} \cup {"ask"} \cup {"listen"} \cup {"write"}
  <2>1. IsFiniteSet(four \cup {"start"})
    BY <1>1, <1>2, Zenon
  <2> HIDE DEF four
  <2>2. IsFiniteSet(four \cup {"start"} \cup {"stop"})
    BY <1>1, <2>1, Zenon
  <2>3. IsFiniteSet(four \cup {"start"} \cup {"stop"} \cup {"pose"})
    BY <1>1, <2>2, Zenon
  <2>4. IsFiniteSet(four \cup {"start"} \cup {"stop"} \cup {"pose"} \cup {"reset"})
    BY <1>1, <2>3, Zenon
  <2> QED
    BY <2>4 DEF four
<1>4. failed \subseteq ({"poll"} \cup {"ask"} \cup {"listen"} \cup {"write"})
                    \cup {"start"} \cup {"stop"} \cup {"pose"} \cup {"reset"}
  BY DEF Transfers
<1>5. IsFiniteSet(failed)
  BY <1>3, <1>4, FS_Subset
<1> QED
  BY <1>5, FS_CardinalityType

(* One transfer more or less.                                              *)
LEMMA WithoutOne ==
  ASSUME NEW S, IsFiniteSet(S), NEW x
  PROVE  /\ IsFiniteSet(S \ {x})
         /\ Cardinality(S \ {x}) = IF x \in S THEN Cardinality(S) - 1 ELSE Cardinality(S)
BY FS_RemoveElement

(* The number of transfers that fail counts each kind.                     *)
One(p) == IF p THEN 1 ELSE 0
LEMMA EachFaultCounts ==
  ASSUME NEW failed \in SUBSET Transfers
  PROVE  One("poll" \in failed) + One("ask" \in failed) + One("listen" \in failed)
           <= Cardinality(failed)
<1> DEFINE a == failed \ {"poll"}
           b == a \ {"ask"}
           c == b \ {"listen"}
<1>1. IsFiniteSet(failed)
  BY TransfersFinite
<1>2. IsFiniteSet(a)
      /\ Cardinality(a) = IF "poll" \in failed THEN Cardinality(failed) - 1 ELSE Cardinality(failed)
  BY <1>1, WithoutOne
<1>3. IsFiniteSet(b)
      /\ Cardinality(b) = IF "ask" \in failed THEN Cardinality(a) - 1 ELSE Cardinality(a)
  <2>1. "ask" \in failed <=> "ask" \in a
    OBVIOUS
  <2> HIDE DEF a
  <2> QED
    BY <1>2, <2>1, WithoutOne
<1>4. IsFiniteSet(c)
      /\ Cardinality(c) = IF "listen" \in failed THEN Cardinality(b) - 1 ELSE Cardinality(b)
  <2>1. "listen" \in failed <=> "listen" \in b
    OBVIOUS
  <2> HIDE DEF a, b
  <2> QED
    BY <1>3, <2>1, WithoutOne
<1>5. /\ Cardinality(failed) \in Nat /\ Cardinality(a) \in Nat
      /\ Cardinality(b) \in Nat /\ Cardinality(c) \in Nat
  BY <1>1, <1>2, <1>3, <1>4, FS_CardinalityType
<1> QED
  BY <1>2, <1>3, <1>4, <1>5 DEF One
-----------------------------------------------------------------------------
(* What the transfers make of a board is a board.                          *)
LEMMA HeardType ==
  ASSUME NEW b \in Boards, NEW change \in Boards, NEW heard \in BOOLEAN
  PROVE  Heard(b, heard, change) \in Boards
BY DEF Heard, Boards, Replies

LEMMA MoveType ==
  ASSUME NEW b \in Boards, NEW motion \in B!StmStates, NEW heard \in BOOLEAN
  PROVE  Move(b, motion, heard) \in Boards
<1> DEFINE moved == [b EXCEPT !.doing = motion, !.failed = IF motion = "arm" THEN FALSE ELSE @]
<1>1. moved \in Boards
  BY DEF Boards
<1> QED
  BY <1>1, HeardType DEF Move

LEMMA ResetType == Reset \in Boards
BY LinkAssumption DEF Reset, Boards, Pose, Replies, B!StmStates

LEMMA ReadType ==
  ASSUME board \in Boards, NEW failed
  PROVE  Polled(failed) \in Boards /\ Read(failed) \in Boards
<1>1. Polled(failed) \in Boards
  BY HeardType DEF Polled
<1>2. CASE Asked(beat') = {}
  BY <1>1, <1>2 DEF Read
<1>3. CASE Asked(beat') # {}
  <2>1. PICK what \in {"link1", "link2"} : Asked(beat') = {what}
    BY <1>3 DEF Asked
  <2>2. Read(failed) = AskListen(Polled(failed), what, failed)
    BY <1>3, <2>1 DEF Read
  <2> QED
    BY <1>1, <2>1, <2>2 DEF AskListen, Boards, Replies
<1> QED
  BY <1>1, <1>2, <1>3

LEMMA BootsType ==
  ASSUME board \in Boards, disk \in SUBSET Pose, NEW failed
  PROVE  Boots(failed) \in Boards
<1> DEFINE b == IF "reset" \in failed THEN board ELSE Reset
           p == CHOOSE q \in disk : TRUE
<1>1. b \in Boards
  BY ResetType
<1>2. CASE disk = {}
  BY <1>1, <1>2 DEF Boots
<1>3. CASE disk # {}
  <2>1. p \in Pose
    BY <1>3
  <2>2. [b EXCEPT !.pose = p] \in Boards
    BY <1>1, <2>1 DEF Boards
  <2>3. Boots(failed) = Heard(b, "pose" \notin failed, [b EXCEPT !.pose = p])
    BY <1>3 DEF Boots
  <2> HIDE DEF b, p
  <2> QED
    BY <1>1, <2>2, <2>3, HeardType
<1> QED
  BY <1>2, <1>3

(* A status has a state of the board, and a pose.                          *)
LEMMA DecodedType ==
  ASSUME board \in Boards, NEW failed, NEW answer \in Decoded(failed)
  PROVE  answer.state \in B!StmStates /\ answer.pose \in Pose
BY DEF Decoded, Boards, Genuine

(* The history of the faults.                                              *)
LEMMA BlamedType ==
  ASSUME tale \in Tales, NEW failed \in SUBSET Transfers,
         tale.faults + Cardinality(failed) <= MaxFaults
  PROVE  Blamed(failed) \in Tales
BY TransfersFinite, LinkAssumption DEF Blamed, Tales

LEMMA JudgedType ==
  ASSUME tale \in Tales, NEW failed \in SUBSET Transfers,
         tale.faults + Cardinality(failed) <= MaxFaults
  PROVE  Judged(failed) \in Tales
<1>1. Blamed(failed) \in Tales
  BY BlamedType
<1>2. Wrong(failed) \in Nat
  BY DEF Wrong
<1>3. \A place \in {"lost", "moved", "kept"} : Seen(place) \in {"lost", "kept"}
  BY DEF Seen
<1>4. ASSUME NEW t \in Tales, NEW w \in Nat, NEW place \in {"lost", "moved", "kept"}
      PROVE  [t EXCEPT !.spoilt = @ + w, !.place = place] \in Tales
  <2>1. t.spoilt + w \in Nat
    BY DEF Tales
  <2> QED
    BY <2>1 DEF Tales
<1> DEFINE place == IF ~Saves(beat') THEN Blamed(failed).place
                    ELSE IF Genuine(failed) THEN Seen(Blamed(failed).place) ELSE "lost"
<1>5. place \in {"lost", "moved", "kept"}
  BY <1>1, <1>3 DEF Tales
<1>6. Judged(failed) = [Blamed(failed) EXCEPT !.spoilt = @ + Wrong(failed), !.place = place]
  BY DEF Judged
<1> DEFINE t == Blamed(failed)
           w == Wrong(failed)
<1>7. [t EXCEPT !.spoilt = @ + w, !.place = place] \in Tales
  <2>1. t \in Tales /\ w \in Nat
    BY <1>1, <1>2
  <2> HIDE DEF t, w, place
  <2> QED
    BY <1>4, <1>5, <2>1
<1> QED
  BY <1>6, <1>7
-----------------------------------------------------------------------------
BInv == B!BridgeTypeOK /\ B!MotionHasGoal /\ B!HoldIsKnown /\ B!ArmGoalKept

(* P and B are the same instance of StmBridge.                             *)
LEMMA SameInv == P!BridgeInv <=> BInv
BY DEF BInv, P!BridgeInv, P!BridgeTypeOK, P!MotionHasGoal, P!HoldIsKnown, P!ArmGoalKept,
   B!BridgeTypeOK, B!MotionHasGoal, B!HoldIsKnown, B!ArmGoalKept, P!Working, B!Working,
   P!Server, B!Server, P!Motions, B!Motions, P!StmStates, B!StmStates, P!Doors, B!Doors

LEMMA SameNext == B!BridgeNext => P!BridgeNext
BY DEF P!BridgeNext, B!BridgeNext, P!AcceptArm, B!AcceptArm, P!AcceptFlip, B!AcceptFlip,
   P!ServoIds, B!ServoIds, P!Known, B!Known, P!HoldShut, B!HoldShut, P!JogMotor, B!JogMotor,
   P!TickFinishes, B!TickFinishes, P!TickCancels, B!TickCancels, P!TimePasses, B!TimePasses,
   P!MotionEnds, B!MotionEnds, P!BridgeRestart, B!BridgeRestart, P!Over, B!Over,
   P!Overtime, B!Overtime, P!Dropped, B!Dropped,
   P!Working, B!Working, P!Server, B!Server, P!Motions, B!Motions,
   P!StmStates, B!StmStates, P!Doors, B!Doors, P!bridge, B!bridge

LEMMA BInvStep == BInv /\ [B!BridgeNext]_bridge => BInv'
<1> SUFFICES ASSUME BInv, [B!BridgeNext]_bridge PROVE BInv'
  OBVIOUS
<1>1. P!BridgeInv'
  <2>1. P!BridgeInv /\ [P!BridgeNext]_(P!bridge)
    BY SameInv, SameNext DEF bridge, P!bridge
  <2> QED
    BY <2>1, P!NextInv, LinkAssumption
<1> QED
  BY <1>1, SameInv, PTL
-----------------------------------------------------------------------------
(* attemptRestart is never reached: each poll counts at most one failure.  *)
LEMMA NeverRestarts == ASSUME NEW failed PROVE ~Restarts(failed)
BY DEF Restarts, NumFails

LEMMA PollCases ==
  ASSUME Poll
  PROVE  \E failed \in SUBSET Transfers : \E answer \in Decoded(failed) :
           /\ tale.faults + Cardinality(failed) <= MaxFaults
           /\ \/ PollFinishes(answer, failed)
              \/ PollCancels(answer, failed)
              \/ PollWaits(answer, failed)
<1>1. Made(NextBeat) \cup {"stop"} \subseteq Transfers
  BY DEF Made, Transfers
<1> QED
  BY <1>1, NeverRestarts DEF Poll

(* Every step of the link is a step of the bridge, or leaves it alone.     *)
LEMMA StepRefines == LinkTypeOK /\ [LinkNext]_link => [B!BridgeNext]_bridge
<1> SUFFICES ASSUME LinkTypeOK, [LinkNext]_link PROVE [B!BridgeNext]_bridge
  OBVIOUS
<1>1. ASSUME NEW c \in Clients \ {handle.flip, handle.arm}, NEW servo \in Servos, NEW failed,
             FlipGoal(c, servo, failed)
      PROVE  B!BridgeNext
  <2>1. servo \in B!ServoIds
    BY LinkAssumption DEF B!ServoIds, B!Doors
  <2> QED
    BY <1>1, <2>1, LinkAssumption DEF FlipGoal, B!BridgeNext
<1>2. ASSUME NEW c \in Clients \ {handle.flip, handle.arm}, NEW target, NEW failed,
             ArmGoal(c, target, failed)
      PROVE  B!BridgeNext
  BY <1>2, LinkAssumption DEF ArmGoal, B!BridgeNext
<1>3. ASSUME NEW shouldHold \in BOOLEAN, NEW failed, Hold(shouldHold, failed)
      PROVE  B!BridgeNext
  BY <1>3 DEF Hold, B!BridgeNext
<1>4. ASSUME NEW failed, Jog(failed) \/ BridgeStarts(failed)
      PROVE  B!BridgeNext
  BY <1>4 DEF Jog, BridgeStarts, B!BridgeNext
<1>5. ASSUME NEW place, NEW failed, ZeroArm(place, failed)
      PROVE  UNCHANGED bridge
  BY <1>5 DEF ZeroArm
<1>6. CASE CrashInSave \/ TimePasses
  BY <1>6 DEF CrashInSave, TimePasses, B!BridgeNext
<1>7. CASE Poll
  <2>1. PICK failed \in SUBSET Transfers : \E answer \in Decoded(failed) :
           \/ PollFinishes(answer, failed)
           \/ PollCancels(answer, failed)
           \/ PollWaits(answer, failed)
    BY <1>7, PollCases
  <2>2. PICK answer \in Decoded(failed) :
           \/ PollFinishes(answer, failed)
           \/ PollCancels(answer, failed)
           \/ PollWaits(answer, failed)
    BY <2>1
  <2>3. answer.state \in B!StmStates
    BY DecodedType DEF LinkTypeOK
  <2> QED
    BY <2>2, <2>3 DEF PollFinishes, PollCancels, PollWaits, B!BridgeNext
<1>8. ASSUME NEW stalls, MotionEnds(stalls)
      PROVE  UNCHANGED bridge
  BY <1>8 DEF MotionEnds
<1>9. CASE ArmMoves \/ Reboots \/ Booted \/ UNCHANGED link
  BY <1>9 DEF ArmMoves, Reboots, Booted, link
<1> QED
  BY <1>1, <1>2, <1>3, <1>4, <1>5, <1>6, <1>7, <1>8, <1>9 DEF LinkNext
-----------------------------------------------------------------------------
(* What each step leaves of the board, the history and the rest is typed.  *)
LEMMA TaleType ==
  ASSUME NEW t \in Tales, NEW motion \in {"unfed", "due", "made"}, NEW deaf \in BOOLEAN,
         NEW place \in {"lost", "moved", "kept"}, NEW lies \in Nat
  PROVE  /\ [t EXCEPT !.motion = motion, !.deaf = deaf] \in Tales
         /\ [t EXCEPT !.motion = motion] \in Tales
         /\ [t EXCEPT !.deaf = deaf] \in Tales
         /\ [t EXCEPT !.place = place] \in Tales
         /\ [t EXCEPT !.place = place, !.deaf = deaf] \in Tales
         /\ [t EXCEPT !.lies = lies] \in Tales
BY DEF Tales

LEMMA StartType ==
  ASSUME NEW t \in Tales, NEW motion \in {"unfed", "due", "made"}, NEW deaf \in BOOLEAN
  PROVE  /\ [t EXCEPT !.motion = motion, !.deaf = deaf] \in Tales
         /\ [t EXCEPT !.deaf = deaf] \in Tales
BY DEF Tales

LEMMA BeatType == LinkTypeOK => NextBeat \in 0 .. ImuEvery - 1 /\ 0 \in 0 .. ImuEvery - 1
BY LinkAssumption DEF LinkTypeOK, NextBeat

LEMMA PollTypes ==
  ASSUME LinkTypeOK, NEW failed \in SUBSET Transfers, NEW answer \in Decoded(failed),
         tale.faults + Cardinality(failed) <= MaxFaults,
         \/ PollFinishes(answer, failed)
         \/ PollCancels(answer, failed)
         \/ PollWaits(answer, failed)
  PROVE  /\ board' \in Boards /\ tale' \in Tales /\ arm' = arm
         /\ beat' \in 0 .. ImuEvery - 1 /\ disk' \in SUBSET Pose
<1>1. Polls(answer, failed)
  BY DEF PollFinishes, PollCancels, PollWaits
<1>2. arm' = arm /\ beat' \in 0 .. ImuEvery - 1 /\ disk' \in SUBSET Pose
  BY <1>1, BeatType, DecodedType DEF Polls, LinkTypeOK
<1>3. Read(failed) \in Boards /\ Move(Read(failed), "chilling", "stop" \notin failed) \in Boards
  BY ReadType, MoveType DEF LinkTypeOK, B!StmStates
<1>4. board' \in Boards
  BY <1>3 DEF PollFinishes, PollCancels, PollWaits
<1>5. Judged(failed) \in Tales
  BY JudgedType DEF LinkTypeOK
<1> DEFINE j == Judged(failed)
<1>6. CASE PollFinishes(answer, failed)
  <2>1. PICK lies \in Nat : tale' = [j EXCEPT !.lies = lies]
    <3>1. j.lies \in Nat
      BY <1>5 DEF Tales
    <3>2. (IF Succeeds(answer) /\ tale.motion # "made" THEN j.lies + 1 ELSE j.lies) \in Nat
      BY <3>1
    <3> QED
      BY <1>6, <3>2 DEF PollFinishes
  <2> HIDE DEF j
  <2> QED
    BY <1>2, <1>4, <1>5, <2>1, TaleType DEF j
<1>7. CASE PollCancels(answer, failed)
  <2>1. tale' = [j EXCEPT !.deaf = "stop" \in failed]
    BY <1>7 DEF PollCancels
  <2> DEFINE deaf == "stop" \in failed
  <2>2. deaf \in BOOLEAN
    OBVIOUS
  <2>3. j \in Tales
    BY <1>5
  <2> HIDE DEF j, deaf
  <2>4. [j EXCEPT !.deaf = deaf] \in Tales
    BY <2>2, <2>3, TaleType
  <2> QED
    BY <1>2, <1>4, <2>1, <2>4 DEF deaf
<1>8. CASE PollWaits(answer, failed)
  BY <1>2, <1>4, <1>5, <1>8 DEF PollWaits
<1> QED
  BY <1>6, <1>7, <1>8
-----------------------------------------------------------------------------
Rest == /\ board \in Boards /\ tale \in Tales /\ arm \in Pose
        /\ beat \in 0 .. ImuEvery - 1 /\ disk \in SUBSET Pose
Safe == Rest /\ BoardObeys /\ SpoiltByFaults /\ PoseIsKept

(* A transfer settles what the board owes, and moves no arm.               *)
LEMMA MoveFields ==
  ASSUME NEW b \in Boards, NEW motion \in B!StmStates, NEW heard \in BOOLEAN
  PROVE  /\ Move(b, motion, heard).doing = IF heard THEN motion ELSE b.doing
         /\ Move(b, motion, heard).reply = IF heard THEN "status" ELSE b.reply
         /\ Move(b, motion, heard).pose = b.pose
BY DEF Move, Heard, Boards

LEMMA HeardFields ==
  ASSUME NEW b \in Boards, NEW target \in Pose, NEW heard \in BOOLEAN
  PROVE  /\ Heard(b, heard, [b EXCEPT !.target = target]) \in Boards
         /\ Heard(b, heard, [b EXCEPT !.target = target]).doing = b.doing
         /\ Heard(b, heard, [b EXCEPT !.target = target]).reply \in {"status", b.reply}
         /\ Heard(b, heard, [b EXCEPT !.target = target]).pose = b.pose
         /\ Heard(b, heard, b) \in Boards
         /\ Heard(b, heard, b).doing = b.doing
         /\ Heard(b, heard, b).reply \in {"status", b.reply}
         /\ Heard(b, heard, b).pose = b.pose
BY DEF Heard, Boards, Replies

(* The history after a step that starts, or stops, a motion.               *)
LEMMA BlamedFields ==
  ASSUME tale \in Tales, NEW failed \in SUBSET Transfers,
         tale.faults + Cardinality(failed) <= MaxFaults
  PROVE  /\ Blamed(failed) \in Tales
         /\ Blamed(failed).faults >= tale.faults
         /\ Blamed(failed).spoilt = tale.spoilt
         /\ Blamed(failed).place = tale.place
         /\ Blamed(failed).deaf = tale.deaf
         /\ Blamed(failed).motion = tale.motion
         /\ Blamed(failed).lies = tale.lies
         /\ Blamed(failed).faults = tale.faults + Cardinality(failed)
BY BlamedType, TransfersFinite DEF Blamed, Tales

LEMMA StartSafe ==
  ASSUME Safe, NEW failed \in SUBSET Transfers, tale.faults + Cardinality(failed) <= MaxFaults,
         NEW motion \in B!StmStates, NEW due \in {"unfed", "due", "made"},
         NEW b \in Boards, b.doing = board.doing, b.pose = board.pose,
         b.reply \in {"status", board.reply},
         board' = Move(b, motion, "start" \notin failed), told' = motion,
         \/ tale' = [Blamed(failed) EXCEPT !.motion = due, !.deaf = "start" \in failed]
         \/ tale' = [Blamed(failed) EXCEPT !.deaf = "start" \in failed],
         UNCHANGED <<arm, beat, disk>>
  PROVE  Safe'
<1> DEFINE heard == "start" \notin failed
           t == Blamed(failed)
<1>0. heard \in BOOLEAN /\ (~heard) \in BOOLEAN
  OBVIOUS
<1>1. /\ t \in Tales /\ t.faults >= tale.faults /\ t.spoilt = tale.spoilt
      /\ t.place = tale.place
  BY BlamedFields DEF Safe, Rest
<1>2. /\ board'.doing = IF heard THEN motion ELSE b.doing
      /\ board'.reply = IF heard THEN "status" ELSE b.reply
      /\ board'.pose = b.pose /\ board' \in Boards
  BY MoveFields, MoveType
<1>3. tale' = [t EXCEPT !.motion = due, !.deaf = ~heard] \/ tale' = [t EXCEPT !.deaf = ~heard]
  OBVIOUS
<1> HIDE DEF heard, t
<1>4. tale' \in Tales
  <2> DEFINE deaf == ~heard
             both == [t EXCEPT !.motion = due, !.deaf = deaf]
             one  == [t EXCEPT !.deaf = deaf]
  <2>1. deaf \in BOOLEAN
    BY <1>0
  <2>2. tale' = both \/ tale' = one
    BY <1>3
  <2>3. both \in Tales /\ one \in Tales
    <3> HIDE DEF deaf
    <3> QED
      BY <1>1, <2>1, StartType
  <2> QED
    BY <2>2, <2>3
<1>5. /\ tale'.faults = t.faults /\ tale'.spoilt = t.spoilt /\ tale'.place = t.place
      /\ tale'.deaf = ~heard
  BY <1>1, <1>3 DEF Tales
<1>6. BoardObeys'
  BY <1>2, <1>5 DEF BoardObeys
<1>7. SpoiltByFaults'
  BY <1>1, <1>2, <1>5 DEF SpoiltByFaults, Owed, Safe, Rest, Tales
<1>8. PoseIsKept'
  BY <1>1, <1>2, <1>5 DEF PoseIsKept, Safe
<1> QED
  BY <1>2, <1>4, <1>6, <1>7, <1>8 DEF Safe, Rest

(* A poll: each status or reading that is not what it is taken for has its *)
(* own lost transfer, now or, for a reply still owed, before.              *)
LEMMA ReadFields ==
  ASSUME board \in Boards, NEW failed
  PROVE  /\ Read(failed).doing = board.doing
         /\ Read(failed).pose = board.pose
         /\ Polled(failed).reply = IF "poll" \in failed THEN board.reply ELSE "status"
         /\ Read(failed).reply =
              IF Asked(beat') = {} THEN Polled(failed).reply
              ELSE IF "listen" \notin failed THEN "status"
              ELSE IF "ask" \notin failed THEN CHOOSE w \in Asked(beat') : TRUE
              ELSE Polled(failed).reply
<1>1. /\ Polled(failed) \in Boards /\ Polled(failed).doing = board.doing
      /\ Polled(failed).pose = board.pose
      /\ Polled(failed).reply = IF "poll" \in failed THEN board.reply ELSE "status"
  BY ReadType DEF Polled, Heard, Boards
<1>2. CASE Asked(beat') = {}
  BY <1>1, <1>2 DEF Read
<1>3. CASE Asked(beat') # {}
  BY <1>1, <1>3 DEF Read, AskListen, Boards
<1> QED
  BY <1>1, <1>2, <1>3

LEMMA PollAccounts ==
  ASSUME Safe, NEW failed \in SUBSET Transfers, tale.faults + Cardinality(failed) <= MaxFaults,
         board' \in Boards, board'.reply \in {"status", Read(failed).reply},
         tale'.spoilt = Judged(failed).spoilt, tale'.faults = Judged(failed).faults
  PROVE  SpoiltByFaults'
<1>1. board \in Boards /\ tale \in Tales
  BY DEF Safe, Rest
<1>2. tale'.spoilt = tale.spoilt + Wrong(failed) /\ tale'.faults = tale.faults + Cardinality(failed)
  BY <1>1, BlamedFields DEF Judged, Tales
<1>3. tale.spoilt \in Nat /\ tale.faults \in Nat /\ Cardinality(failed) \in Nat
  BY <1>1, TransfersFinite DEF Tales
<1>4. Owed' <= One(Read(failed).reply # "status") /\ Owed = One(board.reply # "status")
  BY DEF Owed, One
<1>5. Wrong(failed) + One(Read(failed).reply # "status")
        <= One(board.reply # "status") + One("poll" \in failed) + One("ask" \in failed)
             + One("listen" \in failed)
  <2>1. Wrong(failed) <= One(Misread(failed)) + One("poll" \in failed \/ board.reply # "status")
    BY DEF Wrong, Genuine, One
  <2>2. Misread(failed) => "listen" \notin failed /\ "ask" \in failed /\ Asked(beat') # {}
    BY DEF Misread, Listened
  <2>3. Read(failed).reply # "status" =>
          \/ "poll" \in failed /\ board.reply # "status" /\ Asked(beat') = {}
          \/ Asked(beat') # {} /\ "listen" \in failed /\ "ask" \notin failed
          \/ Asked(beat') # {} /\ "listen" \in failed /\ "poll" \in failed /\ board.reply # "status"
    BY <1>1, ReadFields
  <2> QED
    BY <2>1, <2>2, <2>3 DEF One, Wrong, Genuine
<1>6. tale.spoilt + One(board.reply # "status") <= tale.faults
  BY <1>4 DEF Safe, SpoiltByFaults
<1> QED
  BY <1>2, <1>3, <1>4, <1>5, <1>6, EachFaultCounts DEF SpoiltByFaults, One, Wrong, Owed

LEMMA PollSafe ==
  ASSUME Safe, BInv, NEW failed \in SUBSET Transfers, NEW answer \in Decoded(failed),
         tale.faults + Cardinality(failed) <= MaxFaults,
         \/ PollFinishes(answer, failed)
         \/ PollCancels(answer, failed)
         \/ PollWaits(answer, failed)
  PROVE  Safe'
<1>1. LinkTypeOK
  BY DEF Safe, Rest, BInv, LinkTypeOK
<1>2. /\ board' \in Boards /\ tale' \in Tales /\ arm' = arm
      /\ beat' \in 0 .. ImuEvery - 1 /\ disk' \in SUBSET Pose
  BY <1>1, PollTypes
<1>3. Read(failed) \in Boards /\ Judged(failed) \in Tales
  BY <1>1, ReadType, JudgedType DEF LinkTypeOK
<1> DEFINE heard == "stop" \notin failed
           r == Read(failed)
           j == Judged(failed)
<1>4. /\ r.doing = board.doing /\ r.pose = board.pose /\ r \in Boards
  BY <1>1, <1>3, ReadFields DEF LinkTypeOK
<1>5. \/ board' = r /\ told' = told /\ tale'.deaf = j.deaf
      \/ /\ board' = Move(r, "chilling", heard) /\ told' = "chilling" /\ tale'.deaf = ~heard
  <2>1. CASE PollFinishes(answer, failed)
    BY <1>3, <2>1 DEF PollFinishes, B!TickFinishes, Tales
  <2>2. CASE PollCancels(answer, failed)
    BY <1>3, <2>2 DEF PollCancels, B!TickCancels, Tales
  <2>3. CASE PollWaits(answer, failed)
    BY <2>3 DEF PollWaits, bridge
  <2> QED
    BY <2>1, <2>2, <2>3
<1>6. tale'.spoilt = j.spoilt /\ tale'.faults = j.faults /\ tale'.place = j.place
  BY <1>3 DEF PollFinishes, PollCancels, PollWaits, Tales
<1>7. j.deaf = tale.deaf
  BY <1>1, BlamedFields DEF Judged, LinkTypeOK, Tales
<1>8. /\ board'.pose = board.pose /\ board'.reply \in {"status", r.reply}
      /\ \/ board'.doing = board.doing /\ told' = told /\ tale'.deaf = j.deaf
         \/ tale'.deaf = ~heard /\ (heard => board'.doing = "chilling")
  <2>1. heard \in BOOLEAN /\ "chilling" \in B!StmStates
    BY DEF B!StmStates
  <2> HIDE DEF heard, r, j
  <2> QED
    BY <1>4, <1>5, <2>1, MoveFields
<1>9. BoardObeys'
  <2> HIDE DEF heard, r, j
  <2> QED
    BY <1>7, <1>8 DEF BoardObeys, Safe
<1>10. SpoiltByFaults'
  BY <1>2, <1>6, <1>8, PollAccounts
<1>11. PoseIsKept'
  <2>1. j.place = IF ~Saves(beat') THEN tale.place
                  ELSE IF Genuine(failed) THEN Seen(tale.place) ELSE "lost"
    BY <1>1, <1>3, BlamedFields DEF Judged, LinkTypeOK, Tales
  <2>2. disk' = IF Saves(beat') THEN {answer.pose} ELSE disk
    BY DEF PollFinishes, PollCancels, PollWaits, Polls
  <2>3. Genuine(failed) => answer.pose = board.pose
    BY DEF Decoded
  <2> QED
    BY <1>2, <1>6, <1>8, <2>1, <2>2, <2>3 DEF PoseIsKept, Safe, Seen
<1> QED
  BY <1>1, <1>2, <1>9, <1>10, <1>11 DEF Safe, Rest

(* The board's own steps, and those that set its place.                    *)
LEMMA BoardSafe ==
  ASSUME Safe,
         ArmMoves \/ (\E stalls \in BOOLEAN : MotionEnds(stalls)) \/ Reboots \/ Booted
  PROVE  Safe'
<1> USE DEF Safe, Rest, BoardObeys, SpoiltByFaults, PoseIsKept, Owed
<1>1. CASE ArmMoves
  <2>1. board' \in Boards /\ board'.doing = board.doing /\ board'.reply = board.reply
    BY <1>1 DEF ArmMoves, Boards
  <2>2. board'.pose = board.target /\ board.target \in Pose /\ board.pose \in Pose
    BY <1>1 DEF ArmMoves, Boards
  <2>3. arm' \in Pose /\ (arm = board.pose => arm' = board'.pose)
    BY <1>1, <2>2, LinkAssumption DEF ArmMoves, Pose
  <2>4. /\ tale' \in Tales /\ tale'.place = After(tale.place) /\ tale'.deaf = tale.deaf
        /\ tale'.spoilt = tale.spoilt /\ tale'.faults = tale.faults
    BY <1>1 DEF ArmMoves, Tales, After
  <2> QED
    BY <1>1, <2>1, <2>3, <2>4 DEF ArmMoves, After, bridge
<1>2. ASSUME NEW stalls \in BOOLEAN, MotionEnds(stalls)
      PROVE  Safe'
  <2>1. /\ board' \in Boards /\ board'.doing = "chilling" /\ board'.reply = board.reply
        /\ board'.pose = board.pose
    BY <1>2 DEF MotionEnds, Boards, B!StmStates
  <2>2. /\ tale' \in Tales /\ tale'.place = tale.place
        /\ tale'.spoilt = tale.spoilt /\ tale'.faults = tale.faults
    BY <1>2 DEF MotionEnds, Tales
  <2> QED
    BY <1>2, <2>1, <2>2 DEF MotionEnds
<1>3. CASE Reboots
  <2>1. board' \in Boards /\ board'.doing = "chilling" /\ board'.reply = "status"
    BY <1>3, ResetType DEF Reboots, Boards, Reset
  <2>2. /\ tale' \in Tales /\ tale'.place = "lost"
        /\ tale'.spoilt = tale.spoilt /\ tale'.faults = tale.faults + 1
    <3>1. tale.faults + 1 \in 0 .. MaxFaults
      BY <1>3, LinkAssumption DEF Reboots, Tales
    <3> QED
      BY <1>3, <3>1 DEF Reboots, Tales
  <2>3. tale.spoilt \in Nat /\ tale.faults \in Nat
    BY DEF Tales
  <2> QED
    BY <1>3, <2>1, <2>2, <2>3 DEF Reboots
<1>4. CASE Booted
  <2>1. /\ board' \in Boards /\ board'.doing = board.doing /\ board'.reply = board.reply
        /\ board'.pose = board.pose
    BY <1>4 DEF Booted, Boards
  <2> QED
    BY <1>4, <2>1 DEF Booted, bridge
<1> QED
  BY <1>1, <1>2, <1>3, <1>4

(* The callbacks of the bridge.                                            *)
LEMMA GoalSafe ==
  ASSUME Safe, NEW failed, NEW c,
         \/ \E servo \in Servos : FlipGoal(c, servo, failed)
         \/ \E target \in Pose : ArmGoal(c, target, failed)
         \/ Jog(failed)
  PROVE  Safe'
<1> DEFINE due == IF "write" \in failed THEN "unfed" ELSE "due"
<1>1. due \in {"unfed", "due", "made"} /\ board \in Boards
  BY DEF Safe, Rest
<1>2. failed \in SUBSET Transfers /\ tale.faults + Cardinality(failed) <= MaxFaults
  BY DEF FlipGoal, ArmGoal, Jog, Fails, Transfers
<1>3. ASSUME NEW servo \in Servos, FlipGoal(c, servo, failed)
      PROVE  Safe'
  <2> DEFINE b == Heard(board, "write" \notin failed, board)
             motion == B!Known(servo)
  <2>1. motion \in B!StmStates
    BY DEF B!Known, B!StmStates, B!Doors, B!Motions
  <2>2. /\ b \in Boards /\ b.doing = board.doing /\ b.pose = board.pose
        /\ b.reply \in {"status", board.reply}
    BY <1>1 DEF Heard, Boards, Replies
  <2>3. /\ board' = Move(b, motion, "start" \notin failed) /\ told' = motion
        /\ tale' = [Blamed(failed) EXCEPT !.motion = due, !.deaf = "start" \in failed]
        /\ UNCHANGED <<arm, beat, disk>>
    BY <1>3 DEF FlipGoal, B!AcceptFlip
  <2> HIDE DEF b, motion, due
  <2> QED
    BY <1>1, <1>2, <2>1, <2>2, <2>3, StartSafe
<1>4. ASSUME NEW target \in Pose, ArmGoal(c, target, failed)
      PROVE  Safe'
  <2> DEFINE polled == Heard(board, "poll" \notin failed, board)
             b == Heard(polled, "write" \notin failed, [polled EXCEPT !.target = target])
  <2>1. "arm" \in B!StmStates
    BY DEF B!StmStates, B!Motions
  <2>2. /\ polled \in Boards /\ polled.doing = board.doing /\ polled.pose = board.pose
        /\ polled.reply \in {"status", board.reply}
    BY <1>1 DEF Heard, Boards, Replies
  <2>3. /\ b \in Boards /\ b.doing = polled.doing /\ b.pose = polled.pose
        /\ b.reply \in {"status", polled.reply}
    <3> HIDE DEF polled
    <3> QED
      BY <2>2 DEF Heard, Boards, Replies
  <2>4. /\ board' = Move(b, "arm", "start" \notin failed) /\ told' = "arm"
        /\ tale' = [Blamed(failed) EXCEPT !.motion = due, !.deaf = "start" \in failed]
        /\ UNCHANGED <<arm, beat, disk>>
    BY <1>4 DEF ArmGoal, B!AcceptArm
  <2> HIDE DEF b, polled, due
  <2> QED
    BY <1>1, <1>2, <2>1, <2>2, <2>3, <2>4, StartSafe
<1>5. CASE Jog(failed)
  <2> DEFINE b == Heard(board, "write" \notin failed, board)
  <2>1. "jogging" \in B!StmStates
    BY DEF B!StmStates
  <2>2. /\ b \in Boards /\ b.doing = board.doing /\ b.pose = board.pose
        /\ b.reply \in {"status", board.reply}
    BY <1>1 DEF Heard, Boards, Replies
  <2>3. /\ board' = Move(b, "jogging", "start" \notin failed) /\ told' = "jogging"
        /\ tale' = [Blamed(failed) EXCEPT !.deaf = "start" \in failed]
        /\ UNCHANGED <<arm, beat, disk>>
    BY <1>5 DEF Jog, B!JogMotor
  <2> HIDE DEF b, due
  <2> QED
    BY <1>1, <1>2, <2>1, <2>2, <2>3, StartSafe
<1> QED
  BY <1>3, <1>4, <1>5

LEMMA HoldSafe == ASSUME Safe, BInv, NEW shouldHold \in BOOLEAN, NEW failed, Hold(shouldHold, failed)
                  PROVE  Safe'
<1> DEFINE moves == mode' # mode
<1>1. /\ failed \in SUBSET Transfers /\ tale.faults + Cardinality(failed) <= MaxFaults
      /\ failed \subseteq {"start"}
  BY DEF Hold, Fails, Transfers
<1>2. CASE moves
  <2>1. told' \in B!StmStates /\ ((failed = {}) <=> "start" \notin failed)
    BY <1>1, <1>2 DEF Hold, B!HoldShut, B!StmStates
  <2>2. /\ board' = Move(board, told', "start" \notin failed)
        /\ tale' = [Blamed(failed) EXCEPT !.deaf = "start" \in failed]
        /\ UNCHANGED <<arm, beat, disk>>
    BY <1>2, <2>1 DEF Hold
  <2> DEFINE motion == told'
             due == "due"
  <2>3. motion \in B!StmStates /\ told' = motion /\ due \in {"unfed", "due", "made"}
    BY <2>1
  <2>4. board' = Move(board, motion, "start" \notin failed)
    BY <2>2
  <2>5. board \in Boards
    BY DEF Safe, Rest
  <2> HIDE DEF motion, due
  <2> QED
    BY <1>1, <2>2, <2>3, <2>4, <2>5, StartSafe
<1>3. CASE ~moves
  <2>1. told' = told \/ told' \in {"holding", "chilling"}
    BY DEF Hold, B!HoldShut
  <2>2. failed = {} /\ board' = board /\ UNCHANGED <<arm, beat, disk>> /\ told' = told
    BY <1>3 DEF Hold, Fails, B!HoldShut
  <2>3. /\ tale' \in Tales /\ tale'.deaf = tale.deaf /\ tale'.place = tale.place
        /\ tale'.spoilt = tale.spoilt /\ tale'.faults >= tale.faults
    BY <1>1, <1>3, BlamedFields DEF Hold, Safe, Rest, Tales
  <2>4. tale.faults \in Nat /\ tale'.faults \in Nat /\ tale.spoilt \in Nat
    BY <2>3 DEF Safe, Rest, Tales
  <2> QED
    BY <2>2, <2>3, <2>4
    DEF Safe, Rest, BoardObeys, SpoiltByFaults, PoseIsKept, Owed
<1> QED
  BY <1>2, <1>3

LEMMA ZeroSafe == ASSUME Safe, NEW place \in Pose, NEW failed, ZeroArm(place, failed)
                  PROVE  Safe'
<1>1. failed \in SUBSET Transfers /\ tale.faults + Cardinality(failed) <= MaxFaults
  BY DEF ZeroArm, Fails, Transfers
<1>2. /\ board' \in Boards /\ board'.doing = board.doing
      /\ board'.reply \in {"status", board.reply}
      /\ board'.pose = IF failed = {} THEN place ELSE board.pose
  BY DEF ZeroArm, Heard, Safe, Rest, Boards, Replies
<1>3. /\ Blamed(failed) \in Tales /\ Blamed(failed).faults >= tale.faults
      /\ Blamed(failed).spoilt = tale.spoilt
      /\ Blamed(failed).place = tale.place /\ Blamed(failed).deaf = tale.deaf
  BY <1>1, BlamedFields DEF Safe, Rest
<1>4. /\ tale' \in Tales /\ tale'.deaf = tale.deaf /\ tale'.spoilt = tale.spoilt
      /\ tale'.faults >= tale.faults
      /\ tale'.place = IF failed # {} THEN After(tale.place)
                       ELSE IF place = arm THEN "moved" ELSE "lost"
  BY <1>3 DEF ZeroArm, Tales, After
<1>5. tale.faults \in Nat /\ tale'.faults \in Nat /\ tale.spoilt \in Nat
  BY <1>4 DEF Safe, Rest, Tales
<1>6. UNCHANGED <<arm, beat, disk, told>>
  BY DEF ZeroArm, bridge
<1> QED
  BY <1>2, <1>4, <1>5, <1>6
  DEF Safe, Rest, BoardObeys, SpoiltByFaults, PoseIsKept, Owed, After

LEMMA RestartSafe == ASSUME Safe, NEW failed, BridgeStarts(failed) \/ CrashInSave
                     PROVE  Safe'
<1> USE DEF Safe, Rest, BoardObeys, SpoiltByFaults, PoseIsKept, Owed
<1>1. CASE BridgeStarts(failed)
  <2>1. failed \in SUBSET Transfers /\ tale.faults + Cardinality(failed) <= MaxFaults
    BY <1>1 DEF BridgeStarts, Fails, Transfers
  <2>2. /\ Blamed(failed) \in Tales /\ Blamed(failed).faults >= tale.faults
        /\ Blamed(failed).spoilt = tale.spoilt /\ Blamed(failed).place = tale.place
    BY <2>1, BlamedFields
  <2>3. /\ tale' \in Tales /\ tale'.deaf = ("reset" \in failed) /\ tale'.spoilt = tale.spoilt
        /\ tale'.faults >= tale.faults
        /\ tale'.place = IF "pose" \in failed THEN "lost" ELSE Kept(tale.place)
    <3> DEFINE t == Blamed(failed)
               place == IF "pose" \in failed THEN "lost" ELSE Kept(t.place)
               deaf == "reset" \in failed
    <3>1. place \in {"lost", "moved", "kept"} /\ deaf \in BOOLEAN /\ t \in Tales
      BY <2>2 DEF Kept
    <3>2. tale' = [t EXCEPT !.place = place, !.deaf = deaf]
      BY <1>1 DEF BridgeStarts
    <3>3. /\ t.faults >= tale.faults /\ t.spoilt = tale.spoilt
          /\ place = IF "pose" \in failed THEN "lost" ELSE Kept(tale.place)
      BY <2>2
    <3> HIDE DEF t, place, deaf
    <3>4. /\ tale' \in Tales /\ tale'.deaf = deaf /\ tale'.spoilt = t.spoilt
          /\ tale'.faults = t.faults /\ tale'.place = place
      BY <3>1, <3>2 DEF Tales
    <3> QED
      BY <3>3, <3>4 DEF deaf
  <2>4. board' \in Boards /\ board' = Boots(failed)
    BY <1>1, BootsType DEF BridgeStarts
  <2> DEFINE b == IF "reset" \in failed THEN board ELSE Reset
             p == CHOOSE q \in disk : TRUE
  <2>5. b \in Boards /\ b.reply \in {"status", board.reply}
        /\ ("reset" \notin failed => b.doing = "chilling")
    BY ResetType DEF Reset
  <2>6. disk = {arm} => p = arm
    OBVIOUS
  <2>7. Boots(failed) = IF disk = {} THEN b ELSE Heard(b, "pose" \notin failed, [b EXCEPT !.pose = p])
    BY DEF Boots
  <2> HIDE DEF b, p
  <2>8. /\ board'.doing = b.doing /\ board'.reply \in {"status", b.reply}
        /\ disk # {} /\ "pose" \notin failed => board'.pose = p
    BY <2>4, <2>5, <2>7 DEF Heard, Boards
  <2>9. arm' = arm /\ disk' = disk /\ beat' \in 0 .. ImuEvery - 1
    BY <1>1, LinkAssumption DEF BridgeStarts
  <2>10. tale.faults \in Nat /\ tale'.faults \in Nat /\ tale.spoilt \in Nat
    BY <2>3 DEF Tales
  <2>11. BoardObeys'
    BY <2>3, <2>5, <2>8
  <2>12. SpoiltByFaults'
    BY <2>3, <2>5, <2>8, <2>10
  <2>13. tale'.place # "lost" => /\ tale'.place = "kept" /\ tale.place = "kept"
                                /\ "pose" \notin failed
    BY <2>3 DEF Kept
  <2>14. PoseIsKept'
    BY <2>6, <2>8, <2>9, <2>13
  <2> QED
    BY <2>3, <2>4, <2>9, <2>11, <2>12, <2>14
<1>2. CASE CrashInSave
  <2>1. board' \in Boards /\ board'.doing = "chilling" /\ board'.reply = "status"
    BY <1>2, ResetType DEF CrashInSave, Reset
  <2>2. /\ tale' \in Tales /\ tale'.place = "lost" /\ tale'.spoilt = tale.spoilt
        /\ tale'.faults = tale.faults
    BY <1>2 DEF CrashInSave, Tales
  <2>3. arm' = arm /\ disk' = {} /\ beat' \in 0 .. ImuEvery - 1
    BY <1>2, LinkAssumption DEF CrashInSave
  <2>4. tale.faults \in Nat /\ tale.spoilt \in Nat
    BY DEF Tales
  <2> QED
    BY <2>1, <2>2, <2>3, <2>4
<1> QED
  BY <1>1, <1>2

(* The clock, and steps that change nothing, leave board and history alone.*)
LEMMA ClockSafe == ASSUME Safe, TimePasses \/ UNCHANGED link PROVE Safe'
<1>1. UNCHANGED <<board, arm, beat, disk, tale, told>>
  BY DEF TimePasses, B!TimePasses, link, bridge
<1> QED
  BY <1>1 DEF Safe, Rest, BoardObeys, SpoiltByFaults, PoseIsKept, Owed
-----------------------------------------------------------------------------
(* A success is reported by a poll in time that finds the board elsewhere  *)
(* than in the motion. The motion under way is unearned when that would be *)
(* false: its parameters were lost, or the board is not about it and was   *)
(* not stalled in it. An unearned motion holds a fault in reserve, and the *)
(* lie that it may end in is the only one that fault pays for.             *)
Unearned ==
  /\ B!Working /\ tale.motion # "made"
  /\ \/ tale.motion = "unfed"
     \/ board.doing # mode /\ ~(mode = "arm" /\ board.failed /\ board.doing = "chilling")

Earned ==
  /\ B!Working => told = mode
  /\ tale.lies + One(Unearned) <= tale.faults

LEMMA OneType == \A p : One(p) \in {0, 1}
BY DEF One

LEMMA TaleNumbers == ASSUME tale \in Tales
                     PROVE  tale.lies \in Nat /\ tale.faults \in Nat
BY LinkAssumption DEF Tales

(* A transfer that is lost is a fault more.                                *)
LEMMA LostIsCounted ==
  ASSUME NEW failed \in SUBSET Transfers, failed # {}
  PROVE  Cardinality(failed) \in Nat /\ Cardinality(failed) >= 1
<1>1. IsFiniteSet(failed) /\ Cardinality(failed) \in Nat
  BY TransfersFinite
<1>2. Cardinality(failed) # 0
  BY <1>1, FS_EmptySet
<1> QED
  BY <1>1, <1>2

(* Nothing is promised once the bridge works for nobody.                   *)
LEMMA IdleEarns ==
  ASSUME tale \in Tales, tale' \in Tales, Earned, mode' \notin B!Motions,
         tale'.lies = tale.lies, tale'.faults >= tale.faults
  PROVE  Earned'
<1>1. ~Unearned' /\ ~(B!Working')
  BY DEF Unearned, B!Working
<1>2. tale'.lies <= tale'.faults
  BY OneType, TaleNumbers DEF Earned, Tales, One
<1> QED
  BY <1>1, <1>2 DEF Earned, One, Tales

(* Steps that leave the motion alone, whatever else they lose.             *)
LEMMA SteadyEarns ==
  ASSUME tale \in Tales, tale' \in Tales, Earned, mode' = mode, told' = told,
         tale'.motion = tale.motion, board'.doing = board.doing, board'.failed = board.failed,
         tale'.lies = tale.lies, tale'.faults >= tale.faults
  PROVE  Earned'
<1>1. (Unearned' <=> Unearned) /\ (B!Working' <=> B!Working)
  BY DEF Unearned, B!Working
<1>2. One(Unearned) \in Nat /\ One(Unearned)' = One(Unearned)
  BY <1>1 DEF One
<1> QED
  BY <1>1, <1>2, TaleNumbers DEF Earned, Tales

(* A fault more is reserve enough for any motion.                          *)
LEMMA FaultEarns ==
  ASSUME tale \in Tales, tale' \in Tales, Earned, B!Working' => told' = mode',
         tale'.lies = tale.lies, tale'.faults >= tale.faults + 1
  PROVE  Earned'
<1>1. tale.lies + 1 <= tale'.faults
  BY OneType, TaleNumbers DEF Earned, Tales, One
<1>2. One(Unearned)' \in {0, 1}
  BY DEF One
<1> QED
  BY <1>1, <1>2 DEF Earned, Tales

(* A goal that starts with no transfer lost is heard and fed.              *)
LEMMA StartEarns ==
  ASSUME Safe, Safe', Earned, NEW failed \in SUBSET Transfers,
         tale.faults + Cardinality(failed) <= MaxFaults, NEW motion \in B!StmStates,
         NEW b \in Boards,
         board' = Move(b, motion, "start" \notin failed), told' = motion,
         mode' \in {motion, "idle"},
         tale' = [Blamed(failed) EXCEPT !.motion = IF "write" \in failed THEN "unfed" ELSE "due",
                                        !.deaf = "start" \in failed]
  PROVE  Earned'
<1>1. /\ Blamed(failed) \in Tales /\ Blamed(failed).lies = tale.lies
      /\ Blamed(failed).faults = tale.faults + Cardinality(failed)
  BY BlamedFields DEF Safe, Rest
<1>2. tale \in Tales /\ tale' \in Tales
  BY DEF Safe, Rest
<1> DEFINE t == Blamed(failed)
           due == IF "write" \in failed THEN "unfed" ELSE "due"
           deaf == "start" \in failed
<1>3. tale' = [t EXCEPT !.motion = due, !.deaf = deaf]
  OBVIOUS
<1>4. tale'.lies = tale.lies /\ tale'.faults = tale.faults + Cardinality(failed)
      /\ tale'.motion = due
  <2> HIDE DEF t, due, deaf
  <2>1. t \in Tales /\ t.lies = tale.lies /\ t.faults = tale.faults + Cardinality(failed)
    BY <1>1 DEF t
  <2> QED
    BY <1>3, <2>1 DEF Tales
<1>5. B!Working' => told' = mode'
  BY DEF B!Working, B!Motions, B!Doors
<1>6. CASE failed # {}
  BY <1>2, <1>4, <1>5, <1>6, LostIsCounted, TaleNumbers, FaultEarns
<1>7. CASE failed = {}
  <2> DEFINE heard == "start" \notin failed
  <2>1. heard \in BOOLEAN /\ board' = Move(b, motion, heard)
    OBVIOUS
  <2>2. board'.doing = motion
    <3>1. board'.doing = IF heard THEN motion ELSE b.doing
      <4> HIDE DEF heard
      <4> QED
        BY <2>1, MoveFields
    <3>2. heard
      BY <1>7
    <3> QED
      BY <3>1, <3>2, Zenon
  <2>3. tale'.motion = "due"
    BY <1>4, <1>7
  <2>4. ~Unearned'
    BY <2>2, <2>3 DEF Unearned, B!Working, B!Motions, B!Doors
  <2>5. Cardinality(failed) \in Nat
    BY TransfersFinite
  <2>6. tale.lies <= tale.faults
    BY <1>2, OneType, TaleNumbers DEF Earned, Tales, One
  <2>7. One(Unearned)' = 0
    BY <2>4 DEF One
  <2> QED
    BY <1>2, <1>4, <1>5, <2>5, <2>6, <2>7, TaleNumbers DEF Earned
<1> QED
  BY <1>6, <1>7

LEMMA GoalEarns ==
  ASSUME Safe, Safe', Earned, NEW failed, NEW c,
         \/ \E servo \in Servos : FlipGoal(c, servo, failed)
         \/ \E target \in Pose : ArmGoal(c, target, failed)
  PROVE  Earned'
<1>1. failed \in SUBSET Transfers /\ tale.faults + Cardinality(failed) <= MaxFaults
  BY DEF FlipGoal, ArmGoal, Fails, Transfers
<1>2. board \in Boards
  BY DEF Safe, Rest
<1>3. ASSUME NEW servo \in Servos, FlipGoal(c, servo, failed)
      PROVE  Earned'
  <2> DEFINE b == Heard(board, "write" \notin failed, board)
             motion == B!Known(servo)
  <2>1. motion \in B!StmStates /\ b \in Boards
    BY <1>2 DEF B!Known, B!StmStates, B!Doors, B!Motions, Heard, Boards, Replies
  <2>2. /\ board' = Move(b, motion, "start" \notin failed) /\ told' = motion
        /\ mode' \in {motion, "idle"}
        /\ tale' = [Blamed(failed) EXCEPT
                       !.motion = IF "write" \in failed THEN "unfed" ELSE "due",
                       !.deaf = "start" \in failed]
    BY <1>3 DEF FlipGoal, B!AcceptFlip, B!Known
  <2> HIDE DEF b, motion
  <2> QED
    BY <1>1, <2>1, <2>2, StartEarns
<1>4. ASSUME NEW target \in Pose, ArmGoal(c, target, failed)
      PROVE  Earned'
  <2> DEFINE polled == Heard(board, "poll" \notin failed, board)
             b == Heard(polled, "write" \notin failed, [polled EXCEPT !.target = target])
             motion == "arm"
  <2>1. polled \in Boards /\ motion \in B!StmStates
    BY <1>2 DEF Heard, Boards, Replies, B!StmStates, B!Motions
  <2>2. b \in Boards
    <3> HIDE DEF polled
    <3> QED
      BY <2>1 DEF Heard, Boards, Replies
  <2>3. /\ board' = Move(b, motion, "start" \notin failed) /\ told' = motion
        /\ mode' \in {motion, "idle"}
        /\ tale' = [Blamed(failed) EXCEPT
                       !.motion = IF "write" \in failed THEN "unfed" ELSE "due",
                       !.deaf = "start" \in failed]
    BY <1>4 DEF ArmGoal, B!AcceptArm
  <2> HIDE DEF b, polled, motion
  <2> QED
    BY <1>1, <2>1, <2>2, <2>3, StartEarns
<1> QED
  BY <1>3, <1>4

(* The services: they need an idle bridge, or change nothing.              *)
LEMMA ServiceEarns ==
  ASSUME Safe, Safe', BInv, Earned, NEW failed, NEW place, NEW shouldHold \in BOOLEAN,
         Jog(failed) \/ ZeroArm(place, failed) \/ Hold(shouldHold, failed)
  PROVE  Earned'
<1>1. failed \in SUBSET Transfers /\ tale.faults + Cardinality(failed) <= MaxFaults
  BY DEF Jog, ZeroArm, Hold, Fails, Transfers
<1>2. /\ Blamed(failed) \in Tales /\ Blamed(failed).lies = tale.lies
      /\ Blamed(failed).faults >= tale.faults /\ Blamed(failed).motion = tale.motion
  BY <1>1, BlamedFields DEF Safe, Rest
<1>3. tale \in Tales /\ tale' \in Tales
  BY DEF Safe, Rest
<1>4. tale'.lies = tale.lies /\ tale'.faults >= tale.faults /\ tale'.motion = tale.motion
  <2> DEFINE t == Blamed(failed)
  <2>1. \E deaf, where : tale' = [t EXCEPT !.deaf = deaf] \/ tale' = [t EXCEPT !.place = where]
    BY DEF Jog, ZeroArm, Hold
  <2> HIDE DEF t
  <2> QED
    BY <1>2, <2>1 DEF Tales, t
<1>5. CASE mode' \notin B!Motions
  BY <1>3, <1>4, <1>5, IdleEarns
<1>6. CASE mode' \in B!Motions
  <2>1. Hold(shouldHold, failed) /\ mode' = mode
    BY <1>6 DEF Jog, ZeroArm, Hold, B!HoldShut, B!JogMotor, bridge, B!Motions, B!Doors
  <2>2. told' = told /\ board' = board
    BY <1>6, <2>1 DEF Hold, B!HoldShut, B!Motions, B!Doors
  <2> QED
    BY <1>3, <1>4, <2>1, <2>2, SteadyEarns
<1> QED
  BY <1>5, <1>6

LEMMA RestartEarns ==
  ASSUME Safe, Safe', Earned, NEW failed, BridgeStarts(failed) \/ CrashInSave
  PROVE  Earned'
<1>1. mode' = "idle"
  BY DEF BridgeStarts, CrashInSave, B!BridgeRestart
<1>2. tale \in Tales /\ tale' \in Tales
  BY DEF Safe, Rest
<1>3. CASE BridgeStarts(failed)
  <2>1. failed \in SUBSET Transfers /\ tale.faults + Cardinality(failed) <= MaxFaults
    BY <1>3 DEF BridgeStarts, Fails, Transfers
  <2>2. Blamed(failed) \in Tales /\ Blamed(failed).lies = tale.lies
        /\ Blamed(failed).faults >= tale.faults
    BY <1>2, <2>1, BlamedFields
  <2>3. tale'.lies = Blamed(failed).lies /\ tale'.faults = Blamed(failed).faults
    BY <1>3, <2>2 DEF BridgeStarts, Tales
  <2> QED
    BY <1>1, <1>2, <2>2, <2>3, IdleEarns DEF B!Motions, B!Doors
<1>4. CASE CrashInSave
  <2>1. tale'.lies = tale.lies /\ tale'.faults = tale.faults
    BY <1>2, <1>4 DEF CrashInSave, Tales
  <2> QED
    BY <1>1, <1>2, <2>1, TaleNumbers, IdleEarns DEF B!Motions, B!Doors
<1> QED
  BY <1>3, <1>4

(* The poll that reports a success falsely lost its own transfer, or the   *)
(* motion was unearned and its reserve pays.                               *)
LEMMA PollEarns ==
  ASSUME Safe, Safe', BInv, Earned, NEW failed \in SUBSET Transfers,
         NEW answer \in Decoded(failed), tale.faults + Cardinality(failed) <= MaxFaults,
         \/ PollFinishes(answer, failed)
         \/ PollCancels(answer, failed)
         \/ PollWaits(answer, failed)
  PROVE  Earned'
<1>1. tale \in Tales /\ tale' \in Tales /\ board \in Boards
  BY DEF Safe, Rest
<1>2. Judged(failed) \in Tales
  BY <1>1, JudgedType
<1>3. /\ Judged(failed).lies = tale.lies /\ Judged(failed).motion = tale.motion
      /\ Judged(failed).faults = tale.faults + Cardinality(failed)
      /\ Cardinality(failed) \in Nat
  BY <1>1, BlamedFields, TransfersFinite DEF Judged, Tales
<1>4. tale.lies \in Nat /\ tale.faults \in Nat /\ tale.lies <= tale.faults
  BY <1>1, OneType, TaleNumbers DEF Earned, One
<1>5. CASE PollFinishes(answer, failed)
  <2> DEFINE lie == Succeeds(answer) /\ tale.motion # "made"
             j == Judged(failed)
  <2>1. tale' = [j EXCEPT !.lies = IF lie THEN @ + 1 ELSE @]
    BY <1>5 DEF PollFinishes
  <2>2. tale'.faults = tale.faults + Cardinality(failed)
        /\ tale'.lies = IF lie THEN tale.lies + 1 ELSE tale.lies
    <3> HIDE DEF lie
    <3> QED
      BY <1>2, <1>3, <2>1 DEF Tales
  <2>3. lie => \/ "poll" \in failed
               \/ Unearned
    <3> SUFFICES ASSUME lie, "poll" \notin failed
                 PROVE  Unearned
      OBVIOUS
    <3>1. B!Working /\ answer.state # mode
      BY <1>5 DEF PollFinishes, B!TickFinishes, B!Over, B!Overtime, Succeeds,
                  BInv, B!MotionHasGoal
    <3>2. answer.state = board.doing /\ answer.failed = board.failed
      BY DEF Decoded
    <3> QED
      BY <3>1, <3>2 DEF Unearned, Succeeds
  <2>4. tale'.lies <= tale'.faults
    <3>1. CASE "poll" \in failed
      <4>1. Cardinality(failed) >= 1
        BY <3>1, LostIsCounted
      <4> HIDE DEF lie
      <4> QED
        BY <1>3, <1>4, <2>2, <4>1
    <3>2. CASE "poll" \notin failed /\ lie
      <4>1. tale.lies + 1 <= tale.faults
        BY <2>3, <3>2 DEF Earned, One
      <4> QED
        BY <1>3, <1>4, <2>2, <3>2, <4>1
    <3>3. CASE ~lie
      <4> HIDE DEF lie
      <4> QED
        BY <1>3, <1>4, <2>2, <3>3
    <3> QED
      BY <3>1, <3>2, <3>3
  <2>5. mode' = "idle"
    BY <1>5 DEF PollFinishes, B!TickFinishes
  <2>6. ~Unearned' /\ ~(B!Working')
    BY <2>5 DEF Unearned, B!Working, B!Motions, B!Doors
  <2>7. One(Unearned)' = 0
    BY <2>6 DEF One
  <2> QED
    BY <1>1, <2>4, <2>6, <2>7 DEF Earned, Tales
<1>6. CASE PollCancels(answer, failed)
  <2>1. mode' = "idle"
    BY <1>6 DEF PollCancels, B!TickCancels
  <2>2. tale'.lies = Judged(failed).lies /\ tale'.faults = Judged(failed).faults
    BY <1>2, <1>6 DEF PollCancels, Tales
  <2> QED
    BY <1>1, <1>3, <1>4, <2>1, <2>2, IdleEarns DEF B!Motions, B!Doors
<1>7. CASE PollWaits(answer, failed)
  <2>1. tale' = Judged(failed) /\ board' = Read(failed) /\ mode' = mode /\ told' = told
    BY <1>7 DEF PollWaits, bridge
  <2>2. Read(failed).doing = board.doing /\ Read(failed).failed = board.failed
    BY <1>1 DEF Read, AskListen, Polled, Heard, Boards
  <2> QED
    BY <1>1, <1>3, <1>4, <2>1, <2>2, SteadyEarns
<1> QED
  BY <1>5, <1>6, <1>7

(* A motion that ends as told is made; one that stalls is found out.       *)
LEMMA BoardEarns ==
  ASSUME Safe, Safe', Earned,
         ArmMoves \/ (\E stalls \in BOOLEAN : MotionEnds(stalls)) \/ Reboots \/ Booted
  PROVE  Earned'
<1>1. tale \in Tales /\ tale' \in Tales /\ board \in Boards
  BY DEF Safe, Rest
<1>2. CASE ArmMoves \/ Booted
  <2>1. /\ mode' = mode /\ told' = told
        /\ board'.doing = board.doing /\ board'.failed = board.failed
    BY <1>1, <1>2 DEF ArmMoves, Booted, Boards, bridge
  <2>2. tale'.motion = tale.motion /\ tale'.lies = tale.lies /\ tale'.faults = tale.faults
    BY <1>1, <1>2 DEF ArmMoves, Booted, Tales
  <2> QED
    BY <1>1, <2>1, <2>2, TaleNumbers, SteadyEarns
<1>3. ASSUME NEW stalls \in BOOLEAN, MotionEnds(stalls)
      PROVE  Earned'
  <2>1. mode' = mode /\ told' = told
    BY <1>3 DEF MotionEnds, bridge
  <2>2. /\ board.doing \in B!Motions \cup {"jogging"} /\ (stalls => board.doing = "arm")
        /\ board'.doing = "chilling" /\ board'.failed = stalls
    BY <1>1, <1>3 DEF MotionEnds, Boards
  <2>3. /\ tale'.lies = tale.lies /\ tale'.faults = tale.faults
        /\ tale'.motion = IF tale.motion = "due" /\ ~stalls /\ board.doing = told
                          THEN "made" ELSE tale.motion
    BY <1>1, <1>3 DEF MotionEnds, Tales
  <2>4. Unearned' => Unearned
    BY <1>1, <2>1, <2>2, <2>3 DEF Unearned, Earned, B!Working, B!Motions, B!Doors, Tales
  <2>5. One(Unearned)' <= One(Unearned) /\ One(Unearned) \in Nat /\ One(Unearned)' \in Nat
    BY <2>4 DEF One
  <2>6. B!Working' => told' = mode'
    BY <2>1 DEF Earned, B!Working
  <2> QED
    BY <1>1, <2>3, <2>5, <2>6, TaleNumbers DEF Earned
<1>4. CASE Reboots
  <2>1. tale'.lies = tale.lies /\ tale'.faults = tale.faults + 1
    BY <1>1, <1>4 DEF Reboots, Tales
  <2>2. B!Working' => told' = mode'
    BY <1>4 DEF Reboots, bridge, Earned, B!Working
  <2> QED
    BY <1>1, <2>1, <2>2, TaleNumbers, FaultEarns
<1> QED
  BY <1>2, <1>3, <1>4

LEMMA ClockEarns == ASSUME Safe, Earned, TimePasses \/ UNCHANGED link PROVE Earned'
<1>1. tale' = tale /\ board' = board /\ mode' = mode /\ told' = told
  BY DEF TimePasses, B!TimePasses, link, bridge
<1> QED
  BY <1>1, TaleNumbers, SteadyEarns DEF Safe, Rest
-----------------------------------------------------------------------------
LinkInv == BInv /\ Safe

LEMMA InitInv == LinkInit => LinkInv
<1> SUFFICES ASSUME LinkInit PROVE LinkInv
  OBVIOUS
<1>1. P!BridgeInit
  BY DEF LinkInit, B!BridgeInit, P!BridgeInit
<1>2. BInv
  BY <1>1, P!InitInv, LinkAssumption, SameInv
<1>3. Rest
  BY ResetType, LinkAssumption DEF LinkInit, Rest, Tales, Pose
<1> QED
  BY <1>2, <1>3, LinkAssumption
  DEF LinkInv, Safe, LinkInit, BoardObeys, SpoiltByFaults, PoseIsKept, Owed, Reset

LEMMA NextInv == LinkInv /\ [LinkNext]_link => LinkInv'
<1> SUFFICES ASSUME LinkInv, [LinkNext]_link PROVE LinkInv'
  OBVIOUS
<1>1. BInv /\ Safe /\ LinkTypeOK
  BY DEF LinkInv, Safe, Rest, BInv, LinkTypeOK
<1>2. BInv'
  BY <1>1, StepRefines, BInvStep
<1>3. Safe'
  <2>1. CASE Poll
    <3>1. PICK failed \in SUBSET Transfers : \E answer \in Decoded(failed) :
             /\ tale.faults + Cardinality(failed) <= MaxFaults
             /\ \/ PollFinishes(answer, failed)
                \/ PollCancels(answer, failed)
                \/ PollWaits(answer, failed)
      BY <2>1, PollCases
    <3> QED
      BY <1>1, <3>1, PollSafe
  <2>2. CASE TimePasses \/ UNCHANGED link
    BY <1>1, <2>2, ClockSafe
  <2> QED
    BY <1>1, <2>1, <2>2, GoalSafe, HoldSafe, ZeroSafe, RestartSafe, BoardSafe DEF LinkNext
<1> QED
  BY <1>2, <1>3 DEF LinkInv

THEOREM LinkInvariant == LinkSpec => []LinkInv
BY InitInv, NextInv, PTL DEF LinkSpec

(* Every variable of the bridge and of the link keeps its type.            *)
THEOREM LinkTypes == LinkSpec => []LinkTypeOK
<1>1. LinkInv => LinkTypeOK
  BY DEF LinkInv, BInv, Safe, Rest, LinkTypeOK
<1> QED
  BY <1>1, LinkInvariant, PTL

(* With what it last told the board for what the board does, the bridge    *)
(* over a link that loses transfers is the bridge of StmBridge.            *)
THEOREM LinkRefinesBridge == LinkSpec => B!BridgeInit /\ [][B!BridgeNext]_(B!bridge)
<1>1. LinkInit => B!BridgeInit
  BY DEF LinkInit
<1>2. LinkTypeOK /\ [LinkNext]_link => [B!BridgeNext]_(B!bridge)
  BY StepRefines DEF bridge, B!bridge
<1> QED
  BY <1>1, <1>2, LinkTypes, PTL DEF LinkSpec

(* A motion mode always has the goal it works for, and an accepted arm     *)
(* goal is settled before the next motion, however much the link loses.    *)
THEOREM LinkKeepsGoals == LinkSpec => []MotionsHaveGoals
<1>1. LinkInv => MotionsHaveGoals
  BY DEF LinkInv, BInv, MotionsHaveGoals
<1> QED
  BY <1>1, LinkInvariant, PTL

(* A board that does not obey was not heard from: the start, the stop or   *)
(* the reset that should have reached it was lost.                         *)
THEOREM OnlyLossDisobeys == LinkSpec => []BoardObeys
<1>1. LinkInv => BoardObeys
  BY DEF LinkInv, Safe
<1> QED
  BY <1>1, LinkInvariant, PTL

(* Each fault has at most one reply taken for one of another kind.         *)
THEOREM OneReplyPerFault == LinkSpec => []SpoiltByFaults
<1>1. LinkInv => SpoiltByFaults
  BY DEF LinkInv, Safe
<1> QED
  BY <1>1, LinkInvariant, PTL

(* The place of the arm survives the crashes of the bridge.                *)
THEOREM PoseSurvives == LinkSpec => []PoseIsKept
<1>1. LinkInv => PoseIsKept
  BY DEF LinkInv, Safe
<1> QED
  BY <1>1, LinkInvariant, PTL

(* Every false success has a fault of its own, and an unearned motion has  *)
(* one in reserve.                                                         *)
EarnedInv == LinkInv /\ Earned

LEMMA InitEarned == LinkInit => EarnedInv
<1> SUFFICES ASSUME LinkInit PROVE EarnedInv
  OBVIOUS
<1>1. LinkInv
  BY InitInv
<1>2. ~B!Working /\ tale.lies = 0 /\ tale.faults = 0
  BY DEF LinkInit, B!BridgeInit, B!Working, B!Motions, B!Doors
<1>3. One(Unearned) = 0
  BY <1>2 DEF One, Unearned
<1> QED
  BY <1>1, <1>2, <1>3 DEF EarnedInv, Earned

LEMMA NextEarned == EarnedInv /\ [LinkNext]_link => EarnedInv'
<1> SUFFICES ASSUME EarnedInv, [LinkNext]_link PROVE EarnedInv'
  OBVIOUS
<1>1. LinkInv'
  BY NextInv DEF EarnedInv
<1>2. BInv /\ Safe /\ Safe' /\ Earned
  BY <1>1 DEF EarnedInv, LinkInv
<1>3. ASSUME Poll
      PROVE  Earned'
  <2>1. PICK failed \in SUBSET Transfers : \E answer \in Decoded(failed) :
           /\ tale.faults + Cardinality(failed) <= MaxFaults
           /\ \/ PollFinishes(answer, failed)
              \/ PollCancels(answer, failed)
              \/ PollWaits(answer, failed)
    BY <1>3, PollCases
  <2> QED
    BY <1>2, <2>1, PollEarns
<1>4. ASSUME TimePasses \/ UNCHANGED link
      PROVE  Earned'
  BY <1>2, <1>4, ClockEarns
<1>5. ASSUME NEW failed, Jog(failed) \/ BridgeStarts(failed) \/ CrashInSave
      PROVE  Earned'
  BY <1>2, <1>5, ServiceEarns, RestartEarns
<1>6. ASSUME NEW place, NEW shouldHold \in BOOLEAN, NEW failed,
             ZeroArm(place, failed) \/ Hold(shouldHold, failed)
      PROVE  Earned'
  BY <1>2, <1>6, ServiceEarns
<1>7. ASSUME NEW c, NEW failed,
             \/ \E servo \in Servos : FlipGoal(c, servo, failed)
             \/ \E target \in Pose : ArmGoal(c, target, failed)
      PROVE  Earned'
  BY <1>2, <1>7, GoalEarns
<1>8. ASSUME ArmMoves \/ (\E stalls \in BOOLEAN : MotionEnds(stalls)) \/ Reboots \/ Booted
      PROVE  Earned'
  BY <1>2, <1>8, BoardEarns
<1>9. Earned'
  <2>1. [LinkNext]_link
    BY DEF EarnedInv
  <2> QED
    BY <2>1, <1>3, <1>4, <1>5, <1>6, <1>7, <1>8 DEF LinkNext
<1> QED
  BY <1>1, <1>9 DEF EarnedInv

(* Every false success was paid for by a fault, at every step of a motion, *)
(* and a motion that could still end in one holds its fault in reserve.    *)
THEOREM LiesAreEarned == LinkSpec => []EarnedInv
BY InitEarned, NextEarned, PTL DEF LinkSpec

(* A goal is reported as a success without its motion at most once for     *)
(* each fault: neither the 30 ms of grace nor goals that follow one        *)
(* another make a false success of their own.                              *)
THEOREM SuccessHolds == LinkSpec => []SuccessIsTrue
<1>1. EarnedInv => SuccessIsTrue
  BY OneType, TaleNumbers DEF EarnedInv, LinkInv, Safe, Rest, Earned, SuccessIsTrue, One
<1> QED
  BY <1>1, LiesAreEarned, PTL
-----------------------------------------------------------------------------
(* A process that is gone holds nothing.                                   *)
Dead ==
  node = "down" =>
    /\ pc = "none" /\ flags = {} /\ ~submitting /\ ~linkDue
    /\ outbound = <<>> /\ about = <<>> /\ chip = Nothing

(* The radio thread ends only when the node does, and a deaf node has none.*)
StopMeansJoin ==
  /\ node = "deaf" => pc = "none"
  /\ "stop" \in flags => node = "joining"
  /\ pc = "exited" => node \in {"stopping", "joining"}

(* A packet in the queue is about to be flagged, flagged, or flagged in    *)
(* this iteration and not drained yet.                                     *)
QueueFlagged ==
  node = "up" /\ outbound # <<>> =>
    submitting \/ "packet" \in flags \/ ("packet" \in status /\ pc = "drain")

(* The loop goes round again while it has something to send and may.       *)
SentUnlessBusy ==
  pc \in {"check", "wait"} /\ ~busy /\ MaySend => about = <<>>

(* A link test runs under its timer.                                       *)
TestTimed == isLinkTesting => linkTimer

RInv ==
  /\ RadioTypeOK /\ Dead /\ StopMeansJoin
  /\ QueueFlagged /\ SentUnlessBusy /\ RxNoticed
  /\ TestTimed /\ AnnouncedIsThere
-----------------------------------------------------------------------------
(* Raising a flag keeps the type of the flags.                             *)
LEMMA RaiseFlag ==
  ASSUME flags \subseteq Flags, NEW f \in Flags, flags' = flags \cup {f}
  PROVE  flags' \subseteq Flags
OBVIOUS

(* A callback that writes flags keeps the types.                           *)
LEMMA CallbackTypes ==
  ASSUME RadioTypeOK, flags' \subseteq Flags,
         submitting' \in BOOLEAN, linkDue' \in BOOLEAN, edge' \in BOOLEAN,
         UNCHANGED <<node, outbound, accepted, loopVars, linkVars, linkTimer, hw, chip, air>>
  PROVE  RadioTypeOK'
BY DEF RadioTypeOK, loopVars, linkVars

(* What the kinds of a received packet carry.                              *)
LEMMA HeardKinds ==
  ASSUME NEW p \in Hearable \cup {Nothing}
  PROVE  /\ p.kind \in {"control", "test", "other", "nothing"}
         /\ p.kind = "control" => p.profile \in Profiles
         /\ p.kind = "nothing" <=> p = Nothing
         /\ p # Nothing => p.more \in BOOLEAN
BY DEF Hearable, Nothing

(* Nothing is not heard from the ground.                                   *)
LEMMA NothingNotHeard == Nothing \notin Hearable
BY DEF Hearable, Nothing

(* A header never says more than its bits hold, nor more than there is.    *)
LEMMA AnnouncedBounds ==
  ASSUME NEW n \in Nat
  PROVE  Announced(n) \in 0..MaxAnnounced /\ Announced(n) <= n
BY RadioAssumption DEF Announced

(* The type of a transmission, and what it announces.                      *)
LEMMA TransmitsAnnounces ==
  ASSUME RadioTypeOK, NEW packet \in 0..MaxPackets, NEW n \in Nat, Transmits(packet, n)
  PROVE  /\ air' \in [queue : 0..MaxAnnounced, packet : 0..MaxPackets]
         /\ air'.queue <= n
         /\ air'.packet = IF packet = 0 THEN air.packet ELSE packet
         /\ chip' = Nothing /\ edge' = TRUE
BY AnnouncedBounds DEF Transmits, RadioTypeOK

(* SendFront: either nothing is sent or the front of the queue is.         *)
LEMMA SendFrontCases ==
  ASSUME RadioTypeOK, SendFront
  PROVE  \/ /\ MaySend /\ about # <<>>
            /\ about' = Tail(about) /\ about' \in Seq(Packets)
            /\ air' \in [queue : 0..MaxAnnounced, packet : 0..MaxPackets]
            /\ air'.queue <= Len(about') /\ air'.packet = Head(about)
            /\ chip' = Nothing /\ edge' = TRUE
         \/ /\ ~MaySend \/ about = <<>>
            /\ UNCHANGED <<air, chip, edge, about>>
<1>1. CASE MaySend /\ about # <<>>
  <2>1. about \in Seq(Packets)
    BY DEF RadioTypeOK
  <2>2. Head(about) \in Packets /\ Tail(about) \in Seq(Packets)
        /\ Len(about) \in Nat /\ Len(about) >= 1 /\ Len(Tail(about)) = Len(about) - 1
    BY <1>1, <2>1
  <2>3. Head(about) \in 0..MaxPackets /\ Head(about) # 0 /\ Following \in Nat
    BY <2>2, RadioAssumption DEF Packets, Following
  <2>4. Transmits(Head(about), Following) /\ about' = Tail(about)
    BY <1>1 DEF SendFront
  <2> HIDE DEF RadioTypeOK
  <2>5. /\ air' \in [queue : 0..MaxAnnounced, packet : 0..MaxPackets]
        /\ air'.queue <= Following /\ air'.packet = Head(about)
        /\ chip' = Nothing /\ edge' = TRUE
    BY <2>3, <2>4, TransmitsAnnounces
  <2> QED
    BY <1>1, <2>2, <2>4, <2>5 DEF Following
<1>2. CASE ~(MaySend /\ about # <<>>)
  BY <1>2 DEF SendFront
<1> QED
  BY <1>1, <1>2

(* The end of an iteration writes these and no other field.                *)
LEMMA TransmitTypes ==
  ASSUME RadioTypeOK, pc' \in Pcs, status' \subseteq Flags, busy' \in BOOLEAN,
         about' \in Seq(Packets), chip' \in Hearable \cup {Nothing}, edge' \in BOOLEAN,
         air' \in [queue : 0..MaxAnnounced, packet : 0..MaxPackets],
         UNCHANGED <<node, flags, queueVars, rx, linkVars, timerVars, hw>>
  PROVE  RadioTypeOK'
BY DEF RadioTypeOK, queueVars, linkVars, timerVars
-----------------------------------------------------------------------------
(* A node that starts for the first time.                                  *)
LEMMA InitRInv == RadioInit => RInv
<1> SUFFICES ASSUME RadioInit PROVE RInv
  OBVIOUS
<1>1. <<>> \in Seq(Packets) /\ Len(<<>>) = 0
  OBVIOUS
<1>2. 0 \in 0..MaxAnnounced /\ 0 \in 0..MaxPackets
  BY RadioAssumption
<1>3. air \in [queue : 0..MaxAnnounced, packet : 0..MaxPackets] /\ air.queue = 0
  BY <1>2 DEF RadioInit
<1>4. {profileUnderTest, stableProfile, hw} \subseteq Profiles
  BY RadioAssumption DEF RadioInit
<1>5. RadioTypeOK
  BY <1>1, <1>2, <1>3, <1>4 DEF RadioInit, RadioTypeOK, Pcs
<1> QED
  BY <1>1, <1>3, <1>5 DEF RadioInit, RInv, Dead, StopMeansJoin, QueueFlagged, SentUnlessBusy,
     RxNoticed, TestTimed, AnnouncedIsThere

(* A process that dies leaves a state like the first one.                  *)
LEMMA GoneRInv == ASSUME RInv, Gone PROVE RInv'
<1>1. <<>> \in Seq(Packets) /\ Len(<<>>) = 0
  OBVIOUS
<1>2. air' \in [queue : 0..MaxAnnounced, packet : 0..MaxPackets] /\ air'.queue = 0
  BY RadioAssumption DEF Gone, RInv, RadioTypeOK
<1>3. RadioTypeOK'
  BY <1>1, <1>2, RadioAssumption DEF Gone, RInv, RadioTypeOK, Flags, Pcs
<1> QED
  BY <1>1, <1>2, <1>3 DEF Gone, RInv, Dead, StopMeansJoin, QueueFlagged, SentUnlessBusy,
     RxNoticed, TestTimed, AnnouncedIsThere
-----------------------------------------------------------------------------
(* The executor's callbacks, the constructor and the destructor.           *)
LEMMA CallbackRInv ==
  ASSUME RInv,
         Start \/ Shutdown \/ Destruct \/ SubmitPush \/ SubmitFlag
           \/ LinkTimerFires \/ LinkTestChanceExpired
  PROVE  RInv'
<1> USE DEF RInv, RadioTypeOK, Dead, StopMeansJoin, QueueFlagged, SentUnlessBusy, MaySend,
        RxNoticed, TestTimed, AnnouncedIsThere
<1>1. CASE Start
  BY <1>1 DEF Start, Opens, Pcs, queueVars, linkVars, timerVars, chipVars
<1>2. CASE Shutdown
  BY <1>2 DEF Shutdown, queueVars, linkVars, loopVars, chipVars
<1>3. CASE Destruct
  BY <1>3 DEF Destruct, Flags, queueVars, linkVars, loopVars, timerVars, chipVars
<1>4. CASE SubmitPush
  <2>1. accepted' \in 0..MaxPackets /\ accepted + 1 \in Packets
    BY <1>4, RadioAssumption DEF SubmitPush, Packets
  <2>2. outbound' \in Seq(Packets)
    BY <1>4, <2>1 DEF SubmitPush
  <2> QED
    BY <1>4, <2>1, <2>2 DEF SubmitPush, linkVars, loopVars, timerVars, chipVars
<1>5. CASE SubmitFlag
  <2>1. /\ submitting /\ submitting' = FALSE /\ flags' = flags \cup {"packet"}
        /\ UNCHANGED <<node, outbound, accepted, loopVars, linkVars, timerVars, chipVars, air>>
    BY <1>5 DEF SubmitFlag
  <2>2. flags' \subseteq Flags
    BY <2>1, RaiseFlag DEF Flags
  <2>3. "stop" \in flags' => "stop" \in flags
    BY <2>1
  <2>4. RadioTypeOK'
    BY <2>1, <2>2, CallbackTypes DEF timerVars, chipVars
  <2>5. Dead' /\ StopMeansJoin'
    BY <2>1, <2>3 DEF timerVars, loopVars, chipVars
  <2>6. QueueFlagged' /\ SentUnlessBusy' /\ RxNoticed' /\ TestTimed' /\ AnnouncedIsThere'
    BY <2>1 DEF linkVars, loopVars, timerVars, chipVars
  <2> QED
    BY <2>4, <2>5, <2>6
<1>6. CASE LinkTimerFires
  BY <1>6 DEF LinkTimerFires, queueVars, loopVars, chipVars
<1>7. CASE LinkTestChanceExpired
  <2>1. /\ flags' = flags \cup {"expired"} /\ linkDue' = FALSE /\ linkDue
        /\ UNCHANGED <<node, queueVars, loopVars, linkVars, linkTimer, chipVars, air>>
    BY <1>7 DEF LinkTestChanceExpired
  <2>2. flags' \subseteq Flags
    BY <2>1, RaiseFlag DEF Flags
  <2>3. "stop" \in flags' => "stop" \in flags
    BY <2>1
  <2>4. RadioTypeOK'
    BY <2>1, <2>2, CallbackTypes DEF queueVars, chipVars
  <2>5. Dead' /\ StopMeansJoin'
    BY <2>1, <2>3 DEF queueVars, loopVars, chipVars
  <2>6. QueueFlagged' /\ SentUnlessBusy' /\ RxNoticed' /\ TestTimed' /\ AnnouncedIsThere'
    BY <2>1 DEF queueVars, linkVars, loopVars, chipVars
  <2> QED
    BY <2>4, <2>5, <2>6
<1> QED
  BY <1>1, <1>2, <1>3, <1>4, <1>5, <1>6, <1>7

(* The interrupt thread and the chip.                                      *)
LEMMA ChipRInv ==
  ASSUME RInv, SignalInterrupt \/ \E p \in Hearable : ChipReceives(p)
  PROVE  RInv'
<1> USE DEF RInv, RadioTypeOK, Dead, StopMeansJoin, QueueFlagged, SentUnlessBusy, MaySend,
        RxNoticed, TestTimed, AnnouncedIsThere
<1>1. CASE SignalInterrupt
  <2>1. /\ flags' = flags \cup {"interrupt"} /\ edge' = FALSE /\ pc # "none"
        /\ UNCHANGED <<node, queueVars, loopVars, linkVars, timerVars, hw, chip, air>>
    BY <1>1 DEF SignalInterrupt
  <2>2. flags' \subseteq Flags
    BY <2>1, RaiseFlag DEF Flags
  <2>3. "stop" \in flags' => "stop" \in flags
    BY <2>1
  <2>4. RadioTypeOK'
    BY <2>1, <2>2, CallbackTypes DEF queueVars, timerVars
  <2>5. Dead' /\ StopMeansJoin'
    BY <2>1, <2>3 DEF queueVars, loopVars, timerVars
  <2>6. QueueFlagged' /\ SentUnlessBusy' /\ RxNoticed' /\ TestTimed' /\ AnnouncedIsThere'
    BY <2>1 DEF queueVars, linkVars, loopVars, timerVars
  <2> QED
    BY <2>4, <2>5, <2>6
<1>2. ASSUME NEW p \in Hearable, ChipReceives(p) PROVE RInv'
  <2>1. /\ chip' = p /\ pc # "none" /\ edge' \in BOOLEAN
        /\ edge' \/ (edge = edge' /\ chip # Nothing)
    BY <1>2 DEF ChipReceives
  <2>2. RadioTypeOK'
    BY <1>2, <2>1 DEF ChipReceives, queueVars, linkVars, loopVars, timerVars
  <2>3. RxNoticed'
    BY <1>2, <2>1 DEF ChipReceives, loopVars
  <2>4. Dead' /\ StopMeansJoin'
    BY <1>2, <2>1 DEF ChipReceives, queueVars, loopVars
  <2>5. QueueFlagged' /\ SentUnlessBusy' /\ TestTimed' /\ AnnouncedIsThere'
    BY <1>2 DEF ChipReceives, queueVars, linkVars, loopVars, timerVars
  <2> QED
    BY <2>2, <2>3, <2>4, <2>5
<1> QED
  BY <1>1, <1>2

(* The radio thread, up to the reading of the chip.                        *)
LEMMA LoopHeadRInv == ASSUME RInv, Check \/ Take \/ Drain \/ Receive PROVE RInv'
<1> USE DEF RInv, RadioTypeOK, Dead, StopMeansJoin, QueueFlagged, SentUnlessBusy, MaySend,
        RxNoticed, TestTimed, AnnouncedIsThere
<1>1. CASE Check
  BY <1>1 DEF Check, Pcs, queueVars, linkVars, timerVars, chipVars
<1>2. CASE Take
  BY <1>2 DEF Take, Pcs, Flags, queueVars, linkVars, timerVars, chipVars
<1>3. CASE Drain
  <2>1. CASE "packet" \in status
    <3>1. /\ Drained \in Seq(Packets) /\ <<>> \in Seq(Packets)
          /\ Len(Drained) >= Len(about) /\ Len(Drained) \in Nat /\ Len(about) \in Nat
      BY DEF Drained
    <3>2. /\ about' = Drained /\ outbound' = <<>> /\ ~submitting
          /\ pc = "drain" /\ pc' = "receive"
      BY <1>3, <2>1 DEF Drain
    <3>3. air.queue \in Nat
      BY RadioAssumption
    <3>4. AnnouncedIsThere'
      BY <1>3, <3>1, <3>2, <3>3 DEF Drain
    <3>5. RadioTypeOK'
      BY <1>3, <3>1, <3>2 DEF Drain, Pcs, linkVars, timerVars, chipVars
    <3> QED
      BY <1>3, <3>2, <3>4, <3>5 DEF Drain, linkVars, timerVars, chipVars
  <2>2. CASE "packet" \notin status
    BY <1>3, <2>2 DEF Drain, Pcs, linkVars, timerVars, chipVars
  <2> QED
    BY <2>1, <2>2
<1>4. CASE Receive
  <2>1. rx' \in Hearable \cup {Nothing} /\ chip' \in Hearable \cup {Nothing}
    BY <1>4 DEF Receive
  <2>2. profileUnderTest' \in Profiles
    BY <1>4, <2>1, HeardKinds DEF Receive
  <2>3. "interrupt" \in status => chip' = Nothing
    BY <1>4 DEF Receive
  <2> QED
    BY <1>4, <2>1, <2>2, <2>3 DEF Receive, Pcs, queueVars, timerVars
<1> QED
  BY <1>1, <1>2, <1>3, <1>4

(* The radio thread, from the reading of the chip to the end of the loop.  *)
LEMMA LoopTailRInv == ASSUME RInv, Expire \/ Hear \/ Transmit PROVE RInv'
<1> USE DEF RInv, RadioTypeOK, Dead, StopMeansJoin, QueueFlagged, SentUnlessBusy, MaySend,
        RxNoticed, TestTimed, AnnouncedIsThere
<1>1. CASE Expire
  <2>1. /\ {profileUnderTest', hw'} \subseteq Profiles
        /\ isLinkTesting' \in BOOLEAN /\ linkTimer' \in BOOLEAN
        /\ chip' \in Hearable \cup {Nothing} /\ chip' \in {chip, Nothing}
        /\ isLinkTesting' => linkTimer'
    BY <1>1 DEF Expire, Configures
  <2>2. RadioTypeOK'
    BY <1>1, <2>1 DEF Expire, Pcs, queueVars
  <2>3. Dead' /\ StopMeansJoin' /\ QueueFlagged' /\ SentUnlessBusy'
    BY <1>1, <2>1 DEF Expire, queueVars
  <2>4. RxNoticed' /\ TestTimed' /\ AnnouncedIsThere'
    BY <1>1, <2>1 DEF Expire, queueVars
  <2> QED
    BY <2>2, <2>3, <2>4
<1>2. CASE Hear
  <2>1. Len(about) \in Nat /\ 0 \in Nat /\ 0 \in 0..MaxPackets
    BY RadioAssumption
  <2>2. state' \in {"Idle", "RxEnforced"} /\ rx' = Nothing /\ pc' = "transmit" /\ pc = "hear"
    BY <1>2, HeardKinds DEF Hear
  <2>3. CASE HearConfig
    <3>1. /\ air' \in [queue : 0..MaxAnnounced, packet : 0..MaxPackets]
          /\ air'.queue <= 0 /\ chip' = Nothing /\ edge' = TRUE
      BY <2>1, <2>3, TransmitsAnnounces DEF HearConfig
    <3>2. air'.queue <= Len(about)
      BY <2>1, <3>1, RadioAssumption
    <3> QED
      BY <1>2, <2>2, <2>3, <3>1, <3>2 DEF Hear, HearConfig, Configures, Pcs, queueVars
  <2>4. CASE HearTest
    <3>1. /\ air' \in [queue : 0..MaxAnnounced, packet : 0..MaxPackets]
          /\ air'.queue <= Len(about) /\ chip' = Nothing /\ edge' = TRUE
      BY <2>1, <2>4, TransmitsAnnounces DEF HearTest
    <3> QED
      BY <1>2, <2>2, <2>4, <3>1 DEF Hear, HearTest, Pcs, queueVars
  <2>5. CASE rx.kind \in {"other", "nothing"}
             /\ UNCHANGED <<air, chipVars, isLinkTesting, linkTimer, stableProfile>>
    BY <1>2, <2>2, <2>5 DEF Hear, Pcs, queueVars, chipVars
  <2> QED
    BY <1>2, <2>3, <2>4, <2>5 DEF Hear
<1>3. CASE Transmit
  <2>1. SendFront
    BY <1>3 DEF Transmit
  <2>2. /\ busy' \in BOOLEAN
        /\ ~busy' /\ MaySend => about' = <<>>
    BY <1>3 DEF Transmit, WorkLeft
  <2>3. MaySend' = MaySend
    BY <1>3 DEF Transmit, linkVars
  <2>4. /\ about' \in Seq(Packets)
        /\ air' \in [queue : 0..MaxAnnounced, packet : 0..MaxPackets]
        /\ air'.queue <= Len(about')
        /\ \/ chip' = Nothing /\ edge' = TRUE
           \/ UNCHANGED <<chip, edge>>
        /\ about = <<>> => about' = <<>>
    BY <2>1, SendFrontCases
  <2>5. /\ chip' \in Hearable \cup {Nothing} /\ edge' \in BOOLEAN
        /\ status' \subseteq Flags /\ pc' \in Pcs
    BY <1>3, <2>4 DEF Transmit, Pcs
  <2>6. UNCHANGED <<node, flags, queueVars, rx, linkVars, timerVars, hw>>
    BY <1>3 DEF Transmit
  <2>7. RadioTypeOK'
    BY <2>2, <2>4, <2>5, <2>6, TransmitTypes
  <2>8. Dead' /\ StopMeansJoin' /\ QueueFlagged' /\ AnnouncedIsThere'
    BY <1>3, <2>4 DEF Transmit, queueVars, timerVars
  <2>9. SentUnlessBusy'
    BY <1>3, <2>2, <2>3 DEF Transmit
  <2>10. RxNoticed' /\ TestTimed'
    BY <1>3, <2>4 DEF Transmit, linkVars, timerVars
  <2> QED
    BY <2>7, <2>8, <2>9, <2>10
<1> QED
  BY <1>1, <1>2, <1>3

(* Every step keeps the invariant.                                         *)
LEMMA NextRInv == RInv /\ [RadioNext]_radioVars => RInv'
<1> SUFFICES ASSUME RInv, [RadioNext]_radioVars PROVE RInv'
  OBVIOUS
<1>1. CASE Join \/ Kill
  BY <1>1, GoneRInv DEF Join, Kill
<1>2. CASE UNCHANGED radioVars
  BY <1>2 DEF radioVars, queueVars, loopVars, linkVars, timerVars, chipVars, RInv, RadioTypeOK,
     Dead, StopMeansJoin, QueueFlagged, SentUnlessBusy, MaySend, RxNoticed, TestTimed,
     AnnouncedIsThere
<1> QED
  BY <1>1, <1>2, CallbackRInv, ChipRInv, LoopHeadRInv, LoopTailRInv DEF RadioNext, RadioLoop

(* The invariant holds of every behaviour of the node.                     *)
THEOREM RadioInvariant == RadioSpec => []RInv
BY InitRInv, NextRInv, PTL DEF RadioSpec

(* Every field keeps its type; the header says at most what fits.          *)
THEOREM RadioTypes == RadioSpec => []RadioTypeOK
BY RadioInvariant, PTL DEF RInv

(* No wake-up is lost: the radio thread sleeps only when nothing waits     *)
(* that it may send.                                                       *)
THEOREM NoLostWakeUp == RadioSpec => []NeverSleepsOnWork
<1>1. RInv => NeverSleepsOnWork
  BY DEF RInv, QueueFlagged, SentUnlessBusy, NeverSleepsOnWork, Asleep
<1> QED
  BY <1>1, RadioInvariant, PTL

(* A received packet never stays in the chip unnoticed.                    *)
THEOREM NoLostInterrupt == RadioSpec => []RxNoticed
BY RadioInvariant, PTL DEF RInv

(* A link test always runs under a timer that can end it.                  *)
THEOREM LinkTestTimed == RadioSpec => []LinkTestEndsByItself
<1>1. RInv => LinkTestEndsByItself
  BY DEF RInv, TestTimed, LinkTestEndsByItself
<1> QED
  BY <1>1, RadioInvariant, PTL

(* The ground is never told to wait for a packet that is not there.        *)
THEOREM AnnouncedHonest == RadioSpec => []AnnouncedIsThere
BY RadioInvariant, PTL DEF RInv
-----------------------------------------------------------------------------
(* Between two link changes the profile under test is that of the chip, or *)
(* no link change was heard yet; else it differs from it only while a link *)
(* change is being handled.                                                *)
TestIsInUse ==
  rx.kind # "control" =>
    profileUnderTest = hw \/ (hw = ParamProfile /\ profileUnderTest = DefaultProfile)

(* A received packet belongs to one iteration of the loop.                 *)
RxOfIteration == pc \notin {"expire", "hear"} => rx = Nothing

ProfileInv == RxOfIteration /\ TestIsInUse /\ StableUnlessUntested

(* The profiles after a step, whatever the parameter file names.           *)
LEMMA NextProfileInv ==
  ASSUME Dead, ProfileInv, [RadioNext]_radioVars
  PROVE  ProfileInv'
<1> USE DEF ProfileInv, RxOfIteration, TestIsInUse, StableUnlessUntested
<1>1. CASE Join \/ Kill
  BY <1>1 DEF Join, Kill, Gone
<1>2. CASE Receive
  <2>1. rx = Nothing /\ rx.kind # "control"
    BY <1>2 DEF Receive, Nothing
  <2> QED
    BY <1>2, <2>1 DEF Receive
<1>3. CASE Expire
  BY <1>3 DEF Expire, Configures
<1>4. CASE Hear
  <2>1. rx' = Nothing /\ rx'.kind # "control"
    BY <1>4 DEF Hear, Nothing
  <2>2. CASE HearConfig
    BY <1>4, <2>1, <2>2 DEF Hear, HearConfig, Configures
  <2>3. CASE HearTest
    BY <1>4, <2>1, <2>3 DEF Hear, HearTest
  <2>4. CASE rx.kind \in {"other", "nothing"}
             /\ UNCHANGED <<air, chipVars, isLinkTesting, linkTimer, stableProfile>>
    BY <1>4, <2>1, <2>4 DEF Hear, chipVars
  <2> QED
    BY <1>4, <2>2, <2>3, <2>4 DEF Hear
<1>5. ASSUME UNCHANGED <<rx, profileUnderTest, hw, stableProfile, isLinkTesting>>,
             pc' \in {"expire", "hear"} \/ pc \notin {"expire", "hear"}
      PROVE  ProfileInv'
  BY <1>5
<1>6. CASE \/ Start \/ Shutdown \/ Destruct \/ SubmitPush \/ SubmitFlag
           \/ LinkTimerFires \/ LinkTestChanceExpired
  BY <1>5, <1>6 DEF Dead, Start, Shutdown, Destruct, SubmitPush, SubmitFlag, LinkTimerFires,
     LinkTestChanceExpired, linkVars, loopVars, chipVars
<1>7. CASE SignalInterrupt \/ \E p \in Hearable : ChipReceives(p)
  BY <1>5, <1>7 DEF SignalInterrupt, ChipReceives, linkVars, loopVars
<1>8. CASE Check \/ Take \/ Drain \/ Transmit
  BY <1>5, <1>8 DEF Check, Take, Drain, Transmit, linkVars, chipVars
<1>9. CASE UNCHANGED radioVars
  BY <1>5, <1>9 DEF radioVars, linkVars, loopVars, chipVars
<1> QED
  BY <1>1, <1>2, <1>3, <1>4, <1>6, <1>7, <1>8, <1>9 DEF RadioNext, RadioLoop

(* Outside of link tests the chip is on the profile that the node would    *)
(* revert to, for any parameter file, but for a payload that has heard link*)
(* tests and no link change (the run radio_bare_test).                     *)
THEOREM StableInUse == RadioSpec => []StableUnlessUntested
<1>1. RadioInit => ProfileInv
  BY DEF RadioInit, ProfileInv, RxOfIteration, TestIsInUse, StableUnlessUntested
<1>2. Dead /\ ProfileInv /\ [RadioNext]_radioVars => ProfileInv'
  BY NextProfileInv
<1>3. ProfileInv => StableUnlessUntested
  BY DEF ProfileInv
<1>4. RInv => Dead
  BY DEF RInv
<1> QED
  BY <1>1, <1>2, <1>3, <1>4, RadioInvariant, PTL DEF RadioSpec
-----------------------------------------------------------------------------
(* Sequences: what the queue does to the packets already on their way.     *)
LEMMA AppendBehind ==
  ASSUME NEW s \in Seq(Packets), NEW t \in Seq(Packets), NEW p \in Packets
  PROVE  s \o Append(t, p) = Append(s \o t, p)
OBVIOUS

LEMMA TakeFront ==
  ASSUME NEW s \in Seq(Packets), NEW t \in Seq(Packets), s # <<>>
  PROVE  /\ s \o t # <<>>
         /\ Head(s \o t) = Head(s) /\ Tail(s \o t) = Tail(s) \o t
OBVIOUS

LEMMA NothingBehind == ASSUME NEW s \in Seq(Packets) PROVE s \o <<>> = s
OBVIOUS

(* The first state of the node is one of the outbox.                       *)
LEMMA InitOutbox == RadioInit => Box!Init
BY DEF RadioInit, Box!Init

(* Each step of the node accepts a packet, sends the front one, loses all  *)
(* to a restart, or leaves the outbox alone.                               *)
LEMMA NextOutbox ==
  ASSUME RadioTypeOK, RadioTypeOK', [RadioNext]_radioVars
  PROVE  Box!Accept \/ Box!Send \/ Box!Drop
           \/ UNCHANGED <<accepted, about \o outbound, air.packet>>
<1>1. outbound \in Seq(Packets) /\ about \in Seq(Packets) /\ accepted \in 0..MaxPackets
  BY DEF RadioTypeOK
<1>2. ASSUME UNCHANGED <<accepted, about, outbound, air>>
      PROVE  UNCHANGED <<accepted, about \o outbound, air.packet>>
  BY <1>2
<1>3. CASE Join \/ Kill
  <2>1. /\ about' = <<>> /\ outbound' = <<>> /\ accepted' = accepted
        /\ air' = [air EXCEPT !.queue = 0]
    BY <1>3 DEF Join, Kill, Gone
  <2>2. air'.packet = air.packet
    BY <2>1 DEF RadioTypeOK
  <2>3. about' \o outbound' = <<>>
    BY <2>1
  <2> QED
    BY <2>1, <2>2, <2>3 DEF Box!Drop
<1>4. CASE SubmitPush
  <2>1. accepted + 1 \in Packets /\ accepted' = accepted + 1
    BY <1>1, <1>4, RadioAssumption DEF SubmitPush, Packets
  <2>2. about' = about /\ outbound' = Append(outbound, accepted') /\ air' = air
    BY <1>4 DEF SubmitPush, loopVars
  <2>3. about' \o outbound' = Append(about \o outbound, accepted')
    BY <1>1, <2>1, <2>2, AppendBehind
  <2> QED
    BY <2>1, <2>2, <2>3 DEF Box!Accept
<1>5. CASE Drain
  <2>1. CASE "packet" \in status
    <3>1. about' = about \o outbound /\ outbound' = <<>> /\ about' \in Seq(Packets)
      BY <1>5, <2>1 DEF Drain, Drained, RadioTypeOK
    <3>2. about' \o outbound' = about \o outbound
      BY <3>1, NothingBehind
    <3> QED
      BY <1>5, <3>2 DEF Drain
  <2>2. CASE "packet" \notin status
    BY <1>2, <1>5, <2>2 DEF Drain
  <2> QED
    BY <2>1, <2>2
<1>6. CASE Hear
  <2>1. ASSUME NEW n \in Nat, Transmits(0, n) PROVE air'.packet = air.packet
    BY <2>1 DEF Transmits
  <2>2. air'.packet = air.packet
    BY <1>1, <1>6, <2>1 DEF Hear, HearConfig, HearTest
  <2>3. UNCHANGED <<accepted, about, outbound>>
    BY <1>6 DEF Hear, queueVars
  <2> QED
    BY <2>2, <2>3
<1>7. CASE Transmit
  <2>1. SendFront /\ accepted' = accepted /\ outbound' = outbound
    BY <1>7 DEF Transmit, queueVars
  <2>2. CASE /\ about # <<>> /\ about' = Tail(about) /\ air'.packet = Head(about)
    BY <1>1, <2>1, <2>2, TakeFront DEF Box!Send
  <2>3. CASE UNCHANGED <<air, chip, edge, about>>
    BY <1>2, <2>1, <2>3
  <2> QED
    BY <2>1, <2>2, <2>3, SendFrontCases
<1>8. CASE \/ Start \/ Shutdown \/ Destruct \/ SubmitFlag
           \/ LinkTimerFires \/ LinkTestChanceExpired
  BY <1>2, <1>8 DEF Start, Shutdown, Destruct, SubmitFlag, LinkTimerFires,
     LinkTestChanceExpired, queueVars, loopVars
<1>9. CASE SignalInterrupt \/ \E p \in Hearable : ChipReceives(p)
  BY <1>2, <1>9 DEF SignalInterrupt, ChipReceives, queueVars, loopVars
<1>10. CASE Check \/ Take \/ Receive \/ Expire
  BY <1>2, <1>10 DEF Check, Take, Receive, Expire, queueVars
<1>11. CASE UNCHANGED radioVars
  BY <1>2, <1>11 DEF radioVars, queueVars, loopVars
<1> QED
  BY <1>3, <1>4, <1>5, <1>6, <1>7, <1>8, <1>9, <1>10, <1>11 DEF RadioNext, RadioLoop

(* The radio node implements the outbox: accepted packets go on air once   *)
(* and in order, or are lost by a restart, with any interleaving of the    *)
(* submitters, the two threads and the chip.                               *)
THEOREM ImplementsOutbox == RadioSpec => OutboxSpec
<1>1. RadioTypeOK /\ RadioTypeOK' /\ [RadioNext]_radioVars
        => [Box!Accept \/ Box!Send \/ Box!Drop]_<<accepted, about \o outbound, air.packet>>
  BY NextOutbox
<1> QED
  BY <1>1, InitOutbox, RadioTypes, PTL DEF RadioSpec, OutboxSpec, Box!Spec
===============================================================================
