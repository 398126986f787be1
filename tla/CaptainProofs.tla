---------------------------- MODULE CaptainProofs ----------------------------
(***************************************************************************)
(* Theorems about the captain, for any number of goals and threads, any    *)
(* limits and any paths.                                                   *)
(*                                                                         *)
(* The invariants of a running captain are inductive once one says what a  *)
(* dead one leaves behind: no members, no goals, no threads, and a hold    *)
(* request outstanding only if the saved state is Flight.                  *)
(***************************************************************************)
EXTENDS Captain, TLAPS, SequenceTheorems

GoalMaps == [GoalIds -> Goals \cup {NoGoal}]
ThreadMaps == [ThreadIds -> Threads \cup {NoThread}]

DownIsBlank ==
  ~up => /\ phase = "Pad" /\ ~flightTimer /\ heartbeat = "flight"
         /\ ~takeoff /\ ~boosted
         /\ threads = [t \in ThreadIds |-> NoThread]
         /\ holdAsked => lastState = "Flight"

(* The inductive invariant.                                                *)
Safe == TimerInFlight /\ SavedIsPhase /\ HoldFollowsFlight /\ PadRearmed

IInv == TypeOK /\ Safe /\ DownIsBlank
-----------------------------------------------------------------------------
(* The operators on goals, threads and hold requests keep their types.     *)
LEMMA SentType ==
  ASSUME NEW base \in GoalMaps,
         NEW owner \in AutoStates \cup ManualStates, NEW target \in Targets,
         NEW after \in Sent(base, owner, target)
  PROVE  after \in GoalMaps
<1>1. PICK g \in GoalIds :
        after = [base EXCEPT ![g] = [owner |-> owner, target |-> target,
                                     stage |-> "sent"]]
  BY DEF Sent
<1>2. [owner |-> owner, target |-> target, stage |-> "sent"] \in Goals
  BY DEF Goals
<1> QED
  BY <1>1, <1>2 DEF GoalMaps

LEMMA ConsumedType ==
  ASSUME TypeOK, NEW g \in GoalIds
  PROVE  Consumed(g) \in GoalMaps
BY DEF TypeOK, Consumed, GoalMaps

LEMMA SpawnedType ==
  ASSUME NEW base \in ThreadMaps, NEW e \in ArmStates \cup ManualStates,
         NEW after \in Spawned(base, e)
  PROVE  after \in ThreadMaps
<1>1. PICK t \in ThreadIds :
        after = [base EXCEPT ![t] = [of |-> e, pc |-> "sleep", reg |-> 0]]
  BY DEF Spawned
<1>2. [of |-> e, pc |-> "sleep", reg |-> 0] \in Threads
  BY DEF Threads, ArmPcs, ManualPcs
<1> QED
  BY <1>1, <1>2 DEF ThreadMaps

(* A step of a thread stays within the steps of its expert's kind.         *)
Fits(of, pc) == (of \in ArmStates /\ pc \in ArmPcs)
                  \/ (of \in ManualStates /\ pc \in ManualPcs)

LEMMA EndedType ==
  ASSUME TypeOK, NEW t \in ThreadIds
  PROVE  Ended(t) \in ThreadMaps
BY DEF TypeOK, Ended, ThreadMaps

LEMMA ToPcType ==
  ASSUME TypeOK, NEW t \in ThreadIds, threads[t] # NoThread,
         NEW pc, Fits(threads[t].of, pc), NEW reg \in Nat
  PROVE  ToPc(t, pc, reg) \in ThreadMaps
<1>1. threads[t] \in Threads
  BY DEF TypeOK
<1>2. [threads[t] EXCEPT !.pc = pc, !.reg = reg] \in Threads
  BY <1>1 DEF Threads, Fits
<1> QED
  BY <1>2 DEF TypeOK, ToPc, ThreadMaps

LEMMA HoldCallsType ==
  ASSUME NEW from, NEW to
  PROVE  /\ HoldCalls(from, to) \in Seq(BOOLEAN)
         /\ (HoldCalls(from, to) = <<>>) <=> (from # "Flight" /\ to # "Flight")
         /\ HoldCalls(from, to) # <<>> =>
              (HoldCalls(from, to)[Len(HoldCalls(from, to))] <=> to = "Flight")
<1>1. CASE from = "Flight" /\ to = "Flight"
  <2>1. HoldCalls(from, to) = <<FALSE, TRUE>>
    BY <1>1 DEF HoldCalls
  <2>2. /\ <<FALSE, TRUE>> \in Seq(BOOLEAN) /\ Len(<<FALSE, TRUE>>) = 2
        /\ <<FALSE, TRUE>>[2] = TRUE /\ <<FALSE, TRUE>> # <<>>
    OBVIOUS
  <2> QED BY <1>1, <2>1, <2>2
<1>2. CASE from = "Flight" /\ to # "Flight"
  <2>1. HoldCalls(from, to) = <<FALSE>>
    BY <1>2 DEF HoldCalls
  <2>2. /\ <<FALSE>> \in Seq(BOOLEAN) /\ Len(<<FALSE>>) = 1
        /\ <<FALSE>>[1] = FALSE /\ <<FALSE>> # <<>>
    OBVIOUS
  <2> QED BY <1>2, <2>1, <2>2
<1>3. CASE from # "Flight" /\ to = "Flight"
  <2>1. HoldCalls(from, to) = <<TRUE>>
    BY <1>3 DEF HoldCalls
  <2>2. /\ <<TRUE>> \in Seq(BOOLEAN) /\ Len(<<TRUE>>) = 1
        /\ <<TRUE>>[1] = TRUE /\ <<TRUE>> # <<>>
    OBVIOUS
  <2> QED BY <1>3, <2>1, <2>2
<1>4. CASE from # "Flight" /\ to # "Flight"
  <2>1. HoldCalls(from, to) = <<>>
    BY <1>4 DEF HoldCalls
  <2> QED BY <1>4, <2>1
<1> QED BY <1>1, <1>2, <1>3, <1>4

LEMMA AskHoldType ==
  ASSUME TypeOK, NEW from, NEW to, AskHold(HoldCalls(from, to))
  PROVE  /\ holdReqs' \in Seq(BOOLEAN)
         /\ holdAsked' \in BOOLEAN
         /\ holdAsked' <=> IF from # "Flight" /\ to # "Flight" THEN holdAsked
                           ELSE to = "Flight"
<1>1. holdReqs \in Seq(BOOLEAN) /\ holdAsked \in BOOLEAN
  BY DEF TypeOK
<1>2. holdReqs' \in Seq(BOOLEAN)
  BY <1>1, HoldCallsType DEF AskHold
<1>3. HoldCalls(from, to) # <<>> =>
        HoldCalls(from, to)[Len(HoldCalls(from, to))] \in BOOLEAN
  BY HoldCallsType, LenProperties
<1> QED
  BY <1>1, <1>2, <1>3, HoldCallsType DEF AskHold
-----------------------------------------------------------------------------
(* Entering a state, and a whole change of state.                          *)
LEMMA SettledType ==
  ASSUME NEW to \in States, NEW near
  PROVE  /\ Settled(to, near) \in States
         /\ Settled(to, near) = "Flight" <=> to = "Flight"
         /\ Settled(to, near) \in PadStates <=> to \in PadStates
BY DEF Settled, States, ArmStates, PadStates

LEMMA EnterStateType ==
  ASSUME TypeOK, NEW to \in States, NEW near, NEW latch \in BOOLEAN,
         NEW base \in GoalMaps, EnterState(to, near, latch, base)
  PROVE  /\ phase' = Settled(to, near)
         /\ heartbeat' \in {"flight", "landed"}
         /\ runcam' \in BOOLEAN
         /\ takeoff' \in BOOLEAN
         /\ boosted' \in BOOLEAN
         /\ opened' \in SUBSET Doors
         /\ pathIndex' \in [ArmStates -> Nat]
         /\ sideAttempts' \in [ArmStates -> Nat]
         /\ goals' \in GoalMaps
         /\ phase' \in PadStates => ~boosted' /\ ~takeoff' /\ heartbeat' = "flight"
<1> DEFINE here == Settled(to, near)
<1>1. phase' = here
  BY DEF EnterState
<1>2. heartbeat' \in {"flight", "landed"}
  BY DEF EnterState, TypeOK
<1>3. runcam' \in BOOLEAN
  BY DEF EnterState
<1>4. takeoff' \in BOOLEAN
  BY DEF EnterState, TypeOK
<1>5. boosted' \in BOOLEAN
  BY DEF EnterState, LatchAfter
<1>6. opened' \in SUBSET Doors
  BY DEF EnterState, TypeOK, Doors
<1>7. pathIndex' \in [ArmStates -> Nat] /\ sideAttempts' \in [ArmStates -> Nat]
  BY DEF EnterState, TypeOK
<1>8. goals' \in GoalMaps
  <2>1. CASE here = "Flipping"
    <3>1. goals' \in Sent(base, here, "servo2")
      BY <2>1 DEF EnterState
    <3>2. here \in AutoStates \cup ManualStates /\ "servo2" \in Targets
      BY <2>1 DEF AutoStates, Targets, Servos, Doors
    <3> QED BY <3>1, <3>2, SentType
  <2>2. CASE here \in ArmStates
    <3>1. goals' \in Sent(base, here, "pose")
      BY <2>2 DEF EnterState, ArmStates
    <3>2. here \in AutoStates \cup ManualStates /\ "pose" \in Targets
      BY <2>2 DEF AutoStates, Targets
    <3> QED BY <3>1, <3>2, SentType
  <2>3. CASE here # "Flipping" /\ here \notin ArmStates
    BY <2>3 DEF EnterState
  <2> QED BY <2>1, <2>2, <2>3
<1>9. here \in PadStates => ~boosted' /\ ~takeoff' /\ heartbeat' = "flight"
  BY DEF EnterState, LatchAfter, PadStates
<1> QED BY <1>1, <1>2, <1>3, <1>4, <1>5, <1>6, <1>7, <1>8, <1>9

(* What a change of state of a running captain establishes, for the fields *)
(* it writes.                                                              *)
MachineOK ==
  /\ phase \in States
  /\ lastState \in States \cup {"None"}
  /\ flightTimer \in BOOLEAN
  /\ heartbeat \in {"flight", "landed"}
  /\ runcam \in BOOLEAN
  /\ takeoff \in BOOLEAN
  /\ holdReqs \in Seq(BOOLEAN)
  /\ holdAsked \in BOOLEAN

EntryOK ==
  /\ boosted \in BOOLEAN
  /\ opened \in SUBSET Doors
  /\ pathIndex \in [ArmStates -> Nat]
  /\ sideAttempts \in [ArmStates -> Nat]
  /\ goals \in GoalMaps

RestOK ==
  /\ up \in BOOLEAN
  /\ armKnown \in BOOLEAN
  /\ attempts \in 0..FlipLimit + 1
  /\ photo \in [ManualStates -> BOOLEAN]
  /\ comeBack \in [ManualStates -> BOOLEAN]
  /\ threads \in ThreadMaps

LEMMA TypeParts == TypeOK <=> MachineOK /\ EntryOK /\ RestOK
BY DEF TypeOK, MachineOK, EntryOK, RestOK, GoalMaps, ThreadMaps

LEMMA TypePartsNext == MachineOK' /\ EntryOK' /\ RestOK' => TypeOK'
BY DEF TypeOK, MachineOK, EntryOK, RestOK, GoalMaps, ThreadMaps

LEMMA ChangeKeeps ==
  ASSUME IInv, up, up' = up, NEW latch \in BOOLEAN, NEW to \in States, NEW near,
         NEW base \in GoalMaps, ChangeStateWith(latch, to, near, base)
  PROVE  MachineOK' /\ EntryOK' /\ Safe' /\ DownIsBlank'
<1> USE DEF IInv
<1>1. EnterState(to, near, latch, base) /\ AskHold(HoldCalls(phase, to))
  BY DEF ChangeStateWith
<1>2. MachineOK'
  <2>1. lastState' \in States /\ flightTimer' \in BOOLEAN
    BY SettledType DEF ChangeStateWith, TimerAfter
  <2>2. holdReqs' \in Seq(BOOLEAN) /\ holdAsked' \in BOOLEAN
    BY <1>1, AskHoldType
  <2> QED BY <1>1, <2>1, <2>2, EnterStateType, SettledType DEF MachineOK
<1>3. EntryOK'
  BY <1>1, EnterStateType DEF EntryOK
<1>4. phase' = Settled(to, near)
  BY <1>1, EnterStateType
<1>5. TimerInFlight'
  BY <1>4, SettledType DEF ChangeStateWith, TimerAfter, Safe, TimerInFlight
<1>6. SavedIsPhase'
  BY <1>4 DEF ChangeStateWith, SavedIsPhase
<1>7. HoldFollowsFlight'
  BY <1>1, <1>4, SettledType, AskHoldType DEF Safe, HoldFollowsFlight
<1>8. PadRearmed'
  BY <1>1, EnterStateType DEF PadRearmed
<1> QED BY <1>2, <1>3, <1>5, <1>6, <1>7, <1>8 DEF Safe, DownIsBlank
-----------------------------------------------------------------------------
(* Steps that leave the state machine alone.                               *)
LEMMA SameMachine ==
  ASSUME IInv, UNCHANGED <<up, machine, boosted>>, up \/ threads' = threads
  PROVE  MachineOK' /\ Safe' /\ DownIsBlank'
<1>1. UNCHANGED <<up, phase, lastState, flightTimer, heartbeat, runcam, takeoff,
                  holdReqs, holdAsked, boosted>>
  BY DEF machine
<1>2. MachineOK'
  BY <1>1, TypeParts DEF IInv, MachineOK
<1>3. Safe'
  BY <1>1 DEF IInv, Safe, TimerInFlight, SavedIsPhase, HoldFollowsFlight, PadRearmed
<1>4. DownIsBlank'
  BY <1>1 DEF IInv, DownIsBlank
<1> QED BY <1>2, <1>3, <1>4

LEMMA BootKeeps == ASSUME IInv, Boot PROVE IInv'
<1> DEFINE to == IF lastState = "None" THEN "Pad" ELSE lastState
           no == FALSE
<1>1. TypeOK /\ DownIsBlank /\ ~up /\ up'
  BY DEF IInv, Boot
<1>2. to \in States /\ boosted \in BOOLEAN /\ goals \in GoalMaps
  BY <1>1 DEF TypeOK, States, GoalMaps
<1>3. EnterState(to, no, boosted, goals) /\ AskHold(HoldCalls("Pad", to))
  BY DEF Boot
<1> HIDE DEF to, no
<1>4. phase' = Settled(to, no) /\ phase' \in States
  BY <1>1, <1>2, <1>3, EnterStateType, SettledType
<1>5. flightTimer' = (to = "Flight")
  BY DEF Boot, to
<1>6. lastState' = IF to \in ArmStates THEN "Emergency" ELSE lastState
  BY DEF Boot, to
<1>7. MachineOK'
  <2>1. lastState' \in States \cup {"None"} /\ flightTimer' \in BOOLEAN
    BY <1>1, <1>5, <1>6 DEF TypeOK, States
  <2> QED BY <1>1, <1>2, <1>3, <1>4, <2>1, EnterStateType, AskHoldType DEF MachineOK
<1>8. EntryOK'
  BY <1>1, <1>2, <1>3, EnterStateType DEF EntryOK
<1>9. RestOK'
  BY <1>1, TypeParts DEF RestOK, Boot, flags
<1>10. TimerInFlight'
  BY <1>2, <1>4, <1>5, SettledType DEF TimerInFlight
<1>11. SavedIsPhase'
  BY <1>4, <1>6 DEF SavedIsPhase, Settled, ArmStates, to, no
<1>12. HoldFollowsFlight'
  BY <1>1, <1>2, <1>3, <1>4, SettledType, AskHoldType DEF HoldFollowsFlight, DownIsBlank, to
<1>13. PadRearmed'
  BY <1>1, <1>2, <1>3, EnterStateType DEF PadRearmed
<1> QED BY <1>1, <1>7, <1>8, <1>9, <1>10, <1>11, <1>12, <1>13, TypePartsNext
        DEF IInv, Safe, DownIsBlank

LEMMA FailureKeeps == ASSUME IInv, Failure \/ RestartSystem PROVE IInv'
<1> DEFINE Left == /\ lastState' \in States \cup {"None"}
                   /\ holdReqs' \in Seq(BOOLEAN) /\ holdAsked' \in BOOLEAN
                   /\ holdAsked' => lastState' = "Flight"
<1>1. Die /\ up
  BY DEF Failure, Crash, CrashInChange, RestartSystem
<1>2. Left
  <2>1. CASE Crash
    BY <1>1, <2>1 DEF Crash, IInv, TypeOK, Safe, SavedIsPhase, HoldFollowsFlight
  <2>2. ASSUME NEW to \in States, CrashInChange(to)
        PROVE  Left
    <3>1. AskHold(HoldCalls(phase, "Pad"))
      BY <2>2 DEF CrashInChange, HoldCalls
    <3> QED BY <1>1, <2>2, <3>1, AskHoldType
            DEF CrashInChange, IInv, TypeOK, Safe, HoldFollowsFlight
  <2>3. CASE RestartSystem
    <3>1. <<>> \in Seq(BOOLEAN)
      OBVIOUS
    <3> QED BY <2>3, <3>1 DEF RestartSystem, IInv, TypeOK
  <2> QED BY <2>1, <2>2, <2>3 DEF Failure
<1>3. MachineOK'
  BY <1>1, <1>2 DEF MachineOK, Die, States
<1>4. EntryOK'
  BY <1>1 DEF EntryOK, Die, GoalMaps
<1>5. RestOK'
  <2>1. up' \in BOOLEAN /\ armKnown' \in BOOLEAN
    BY <1>1 DEF Die
  <2>2. attempts' \in 0..FlipLimit + 1
    BY <1>1, CaptainAssumption DEF Die
  <2>3. photo' \in [ManualStates -> BOOLEAN] /\ comeBack' \in [ManualStates -> BOOLEAN]
    BY <1>1 DEF Die
  <2>4. threads' \in ThreadMaps
    BY <1>1 DEF Die, ThreadMaps
  <2> QED BY <2>1, <2>2, <2>3, <2>4 DEF RestOK
<1>6. Safe' /\ DownIsBlank'
  BY <1>1, <1>2 DEF Die, Safe, TimerInFlight, SavedIsPhase, HoldFollowsFlight,
                    PadRearmed, DownIsBlank
<1> QED BY <1>3, <1>4, <1>5, <1>6, TypePartsNext DEF IInv
-----------------------------------------------------------------------------
(* Callbacks of the executor.                                              *)
LEMMA Unpacked ==
  IInv => /\ TypeOK /\ MachineOK /\ EntryOK /\ RestOK
          /\ goals \in GoalMaps /\ boosted \in BOOLEAN
BY TypeParts DEF IInv, EntryOK

LEMMA AccelSampleKeeps ==
  ASSUME IInv, NEW over \in BOOLEAN, AccelSample(over) PROVE IInv'
<1> DEFINE on == TRUE
<1>1. up /\ up' = up /\ RestOK'
  BY Unpacked DEF AccelSample, RestOK, flags
<1>2. CASE boosted \/ over
  <2>1. ChangeStateWith(on, "Flight", FALSE, goals)
    BY <1>2 DEF AccelSample
  <2>2. "Flight" \in States /\ on \in BOOLEAN
    BY DEF States
  <2> HIDE DEF on
  <2>3. MachineOK' /\ EntryOK' /\ Safe' /\ DownIsBlank'
    BY <1>1, <2>1, <2>2, Unpacked, ChangeKeeps
  <2> QED BY <1>1, <2>3, TypePartsNext DEF IInv
<1>3. CASE ~(boosted \/ over)
  <2>1. UNCHANGED <<up, machine, entry>>
    BY <1>1, <1>3 DEF AccelSample
  <2>2. MachineOK' /\ Safe' /\ DownIsBlank'
    BY <1>1, <2>1, SameMachine DEF entry
  <2>3. EntryOK'
    BY <2>1, Unpacked DEF EntryOK, entry
  <2> QED BY <1>1, <2>2, <2>3, TypePartsNext DEF IInv
<1> QED BY <1>2, <1>3

LEMMA FlightTimerKeeps == ASSUME IInv, FlightTimerFires PROVE IInv'
<1>1. up /\ up' = up /\ RestOK'
  BY Unpacked DEF FlightTimerFires, RestOK, flags
<1>2. ChangeStateWith(boosted, "Flipping", FALSE, goals)
  BY DEF FlightTimerFires, ChangeState, IInv, Safe, TimerInFlight
<1>3. "Flipping" \in States
  BY DEF States
<1>4. MachineOK' /\ EntryOK' /\ Safe' /\ DownIsBlank'
  BY <1>1, <1>2, <1>3, Unpacked, ChangeKeeps
<1> QED BY <1>1, <1>4, TypePartsNext DEF IInv

LEMMA ArmStatusKeeps == ASSUME IInv, ArmStatus PROVE IInv'
<1>1. RestOK' /\ EntryOK'
  BY Unpacked DEF ArmStatus, RestOK, EntryOK, entry, flags
<1>2. MachineOK' /\ Safe' /\ DownIsBlank'
  BY SameMachine DEF ArmStatus, entry
<1> QED BY <1>1, <1>2, TypePartsNext DEF IInv

LEMMA NextServoType ==
  ASSUME NEW face, NextServo(face) # "none" PROVE NextServo(face) \in Doors
BY DEF NextServo, FirstUnopened, Doors

LEMMA FlipFinishKeeps ==
  ASSUME IInv, NEW g \in GoalIds, NEW face, NEW near, FlipFinish(g, face, near)
  PROVE  IInv'
<1>1. up /\ up' = up
  BY DEF FlipFinish
<1>2. RestOK'
  <2>1. attempts' \in 0..FlipLimit + 1
    BY Unpacked, CaptainAssumption DEF FlipFinish, AttemptsAfter, RestOK
  <2> QED BY <2>1, Unpacked DEF FlipFinish, RestOK, flags
<1>3. Consumed(g) \in GoalMaps
  BY ConsumedType, Unpacked
<1>4. CASE attempts >= FlipLimit
  <2>1. ChangeStateWith(boosted, "Emergency", FALSE, Consumed(g))
    BY <1>4 DEF FlipFinish, ChangeState
  <2>2. "Emergency" \in States
    BY DEF States
  <2>3. MachineOK' /\ EntryOK' /\ Safe' /\ DownIsBlank'
    BY <1>1, <1>3, <2>1, <2>2, Unpacked, ChangeKeeps
  <2> QED BY <1>2, <2>3, TypePartsNext DEF IInv
<1>5. CASE ~(attempts >= FlipLimit) /\ NextServo(face) = "none"
  <2>1. ChangeStateWith(boosted, "Unfolding", near, Consumed(g))
    BY <1>5 DEF FlipFinish, ChangeState
  <2>2. "Unfolding" \in States
    BY DEF States
  <2>3. MachineOK' /\ EntryOK' /\ Safe' /\ DownIsBlank'
    BY <1>1, <1>3, <2>1, <2>2, Unpacked, ChangeKeeps
  <2> QED BY <1>2, <2>3, TypePartsNext DEF IInv
<1>6. CASE ~(attempts >= FlipLimit) /\ NextServo(face) # "none"
  <2>1. StartFlip(NextServo(face), Consumed(g))
    BY <1>6 DEF FlipFinish
  <2>2. NextServo(face) \in Doors /\ NextServo(face) \in Targets
    BY <1>6, NextServoType DEF Targets, Servos
  <2>3. "Flipping" \in AutoStates \cup ManualStates
    BY DEF AutoStates
  <2>4. goals' \in GoalMaps
    BY <1>3, <2>1, <2>2, <2>3, SentType DEF StartFlip
  <2>5. EntryOK'
    BY <2>1, <2>2, <2>4, Unpacked DEF StartFlip, EntryOK
  <2>6. MachineOK' /\ Safe' /\ DownIsBlank'
    BY <1>1, <2>1, SameMachine DEF StartFlip
  <2> QED BY <1>2, <2>5, <2>6, TypePartsNext DEF IInv
<1> QED BY <1>4, <1>5, <1>6

LEMMA AfterPathType == ASSUME NEW e PROVE AfterPath(e) \in States
BY DEF AfterPath, States

LEMMA SendTargetType ==
  ASSUME IInv, NEW e \in ArmStates, NEW base \in GoalMaps, SendTarget(e, base),
         sideAttempts' \in [ArmStates -> Nat]
  PROVE  EntryOK'
<1>1. e \in AutoStates \cup ManualStates /\ "pose" \in Targets
  BY DEF AutoStates, Targets
<1>2. goals' \in GoalMaps
  BY <1>1, SentType DEF SendTarget
<1> QED BY <1>2, Unpacked DEF SendTarget, EntryOK

LEMMA DecideNextKeeps ==
  ASSUME IInv, NEW g \in GoalIds, NEW near, DecideNext(g, near) PROVE IInv'
<1> DEFINE e == goals[g].owner
<1>1. up /\ up' = up /\ e \in ArmStates
  BY DEF DecideNext
<1>2. threads' \in ThreadMaps
  <2>1. e \in ArmStates \cup ManualStates
    BY <1>1
  <2>2. threads' = threads \/ threads' \in Spawned(threads, e)
    BY DEF DecideNext
  <2> QED BY <2>1, <2>2, SpawnedType, Unpacked DEF RestOK
<1>3. RestOK'
  BY <1>2, Unpacked DEF DecideNext, RestOK, flags
<1>4. Consumed(g) \in GoalMaps
  BY ConsumedType, Unpacked
<1>5. CASE PathDone(e)
  <2>1. ChangeStateWith(boosted, AfterPath(e), near, Consumed(g))
    BY <1>5 DEF DecideNext, ChangeState
  <2>2. MachineOK' /\ EntryOK' /\ Safe' /\ DownIsBlank'
    BY <1>1, <1>4, <2>1, AfterPathType, Unpacked, ChangeKeeps
  <2> QED BY <1>3, <2>2, TypePartsNext DEF IInv
<1>6. CASE ~PathDone(e) /\ sideAttempts[e] > SideLimit
  <2>1. ChangeStateWith(boosted, "Emergency", near, Consumed(g))
    BY <1>6 DEF DecideNext, ChangeState
  <2>2. "Emergency" \in States
    BY DEF States
  <2>3. MachineOK' /\ EntryOK' /\ Safe' /\ DownIsBlank'
    BY <1>1, <1>4, <2>1, <2>2, Unpacked, ChangeKeeps
  <2> QED BY <1>3, <2>3, TypePartsNext DEF IInv
<1>7. CASE ~PathDone(e) /\ ~(sideAttempts[e] > SideLimit) /\ near
  <2>1. goals' = Consumed(g) /\ UNCHANGED <<machine, boosted, opened, pathIndex, sideAttempts>>
    BY <1>7 DEF DecideNext
  <2>2. EntryOK'
    BY <1>4, <2>1, Unpacked DEF EntryOK
  <2>3. MachineOK' /\ Safe' /\ DownIsBlank'
    BY <1>1, <2>1, SameMachine
  <2> QED BY <1>3, <2>2, <2>3, TypePartsNext DEF IInv
<1>8. CASE ~PathDone(e) /\ ~(sideAttempts[e] > SideLimit) /\ ~near
  <2>1. /\ SendTarget(e, Consumed(g))
        /\ sideAttempts' = [sideAttempts EXCEPT ![e] = @ + 1]
    BY <1>8 DEF DecideNext
  <2>2. sideAttempts' \in [ArmStates -> Nat]
    BY <1>1, <2>1, Unpacked DEF EntryOK
  <2>3. EntryOK'
    BY <1>1, <1>4, <2>1, <2>2, SendTargetType
  <2>4. MachineOK' /\ Safe' /\ DownIsBlank'
    BY <1>1, <2>1, SameMachine DEF SendTarget
  <2> QED BY <1>3, <2>3, <2>4, TypePartsNext DEF IInv
<1> QED BY <1>5, <1>6, <1>7, <1>8

LEMMA ManualArmResultKeeps ==
  ASSUME IInv, NEW g \in GoalIds, ManualArmResult(g) PROVE IInv'
<1> DEFINE e == goals[g].owner
<1>1. up /\ up' = up /\ e \in ManualStates /\ e \in ArmStates \cup ManualStates
  BY DEF ManualArmResult
<1>2. threads' \in ThreadMaps
  <2>1. threads' = threads \/ threads' \in Spawned(threads, e)
    BY DEF ManualArmResult
  <2> QED BY <1>1, <2>1, SpawnedType, Unpacked DEF RestOK
<1>3. photo' \in [ManualStates -> BOOLEAN] /\ comeBack' \in [ManualStates -> BOOLEAN]
  <2>1. CASE comeBack[e]
    BY <2>1, Unpacked DEF ManualArmResult, flags, RestOK
  <2>2. CASE ~comeBack[e]
    <3>1. /\ comeBack' = [comeBack EXCEPT ![e] = TRUE]
          /\ photo' = [photo EXCEPT ![e] = TRUE]
      BY <2>2 DEF ManualArmResult
    <3> QED BY <3>1, Unpacked DEF RestOK
  <2> QED BY <2>1, <2>2
<1>4. RestOK'
  BY <1>1, <1>2, <1>3, Unpacked DEF ManualArmResult, RestOK
<1>5. EntryOK'
  BY ConsumedType, Unpacked DEF ManualArmResult, EntryOK
<1>6. MachineOK' /\ Safe' /\ DownIsBlank'
  BY <1>1, SameMachine DEF ManualArmResult
<1> QED BY <1>4, <1>5, <1>6, TypePartsNext DEF IInv

LEMMA ManualLoggedKeeps ==
  ASSUME IInv, NEW g \in GoalIds, ManualLogged(g) PROVE IInv'
<1>1. RestOK'
  BY Unpacked DEF ManualLogged, RestOK, flags
<1>2. EntryOK'
  BY ConsumedType, Unpacked DEF ManualLogged, EntryOK
<1>3. MachineOK' /\ Safe' /\ DownIsBlank'
  BY SameMachine DEF ManualLogged
<1> QED BY <1>1, <1>2, <1>3, TypePartsNext DEF IInv

LEMMA GoalCallbackKeeps ==
  ASSUME IInv, NEW g \in GoalIds, GoalCallback(g) PROVE IInv'
BY FlipFinishKeeps, DecideNextKeeps, ManualArmResultKeeps, ManualLoggedKeeps
   DEF GoalCallback, AutoCallback, ManualCallback
-----------------------------------------------------------------------------
(* Steps of the camera-wait threads.                                       *)
LEMMA ActiveThread ==
  ASSUME IInv, NEW t \in ThreadIds, threads[t].pc # "free"
  PROVE  /\ up
         /\ threads[t] # NoThread
         /\ Fits(threads[t].of, threads[t].pc)
         /\ threads[t].reg \in Nat
<1>1. threads[t] # NoThread
  BY DEF NoThread
<1>2. threads[t] \in Threads
  BY <1>1, Unpacked DEF RestOK, ThreadMaps
<1>3. up
  BY <1>1 DEF IInv, DownIsBlank
<1> QED BY <1>1, <1>2, <1>3 DEF Threads, Fits

LEMMA PcKinds ==
  ASSUME NEW of, NEW pc, Fits(of, pc)
  PROVE  /\ pc \in ArmPcs \ {"sleep"} => of \in ArmStates
         /\ pc \in ManualPcs \ {"sleep"} => of \in ManualStates
BY DEF Fits, ArmPcs, ManualPcs

(* A thread step that changes only the threads.                            *)
LEMMA ThreadOnly ==
  ASSUME IInv, up, threads' \in ThreadMaps,
         UNCHANGED <<up, machine, entry, armKnown, attempts, flags>>
  PROVE  IInv'
<1>1. RestOK' /\ EntryOK'
  BY Unpacked DEF RestOK, EntryOK, entry, flags
<1>2. MachineOK' /\ Safe' /\ DownIsBlank'
  BY SameMachine DEF entry
<1> QED BY <1>1, <1>2, TypePartsNext DEF IInv

LEMMA ThreadWakesKeeps ==
  ASSUME IInv, NEW t \in ThreadIds, ThreadWakes(t) PROVE IInv'
<1> DEFINE pc == IF threads[t].of \in ArmStates THEN "load_index"
                 ELSE "clear_photo"
<1>1. up /\ threads[t] # NoThread /\ Fits(threads[t].of, "sleep")
  BY ActiveThread DEF ThreadWakes
<1>2. threads' \in {Ended(t), ToPc(t, pc, 0)}
  BY DEF ThreadWakes
<1>3. Fits(threads[t].of, pc) /\ 0 \in Nat
  BY <1>1 DEF Fits, ArmPcs, ManualPcs
<1> HIDE DEF pc
<1>4. threads' \in ThreadMaps
  BY <1>1, <1>2, <1>3, ToPcType, EndedType, Unpacked
<1> QED BY <1>1, <1>4, ThreadOnly DEF ThreadWakes

LEMMA LoadKeeps ==
  ASSUME IInv, NEW t \in ThreadIds, LoadIndex(t) \/ LoadAttempts(t) PROVE IInv'
<1>1. up /\ threads[t] # NoThread /\ Fits(threads[t].of, threads[t].pc)
  BY ActiveThread DEF LoadIndex, LoadAttempts
<1>2. threads[t].of \in ArmStates
  BY <1>1, PcKinds DEF LoadIndex, LoadAttempts, ArmPcs
<1>3. pathIndex[threads[t].of] \in Nat /\ sideAttempts[threads[t].of] \in Nat
  BY <1>2, Unpacked DEF EntryOK
<1>4. /\ Fits(threads[t].of, "store_index")
      /\ Fits(threads[t].of, "store_attempts")
  BY <1>2 DEF Fits, ArmPcs
<1>5. threads' \in ThreadMaps
  BY <1>1, <1>3, <1>4, ToPcType, Unpacked DEF LoadIndex, LoadAttempts
<1> QED BY <1>1, <1>5, ThreadOnly DEF LoadIndex, LoadAttempts

LEMMA StoreIndexKeeps ==
  ASSUME IInv, NEW t \in ThreadIds, StoreIndex(t) PROVE IInv'
<1> DEFINE e == threads[t].of
<1>1. /\ up /\ threads[t] # NoThread /\ threads[t].reg \in Nat
      /\ Fits(e, threads[t].pc)
  BY ActiveThread DEF StoreIndex
<1>2. e \in ArmStates
  BY <1>1, PcKinds DEF StoreIndex, ArmPcs
<1>3. Fits(e, "send_pose") /\ 0 \in Nat
  BY <1>2 DEF Fits, ArmPcs
<1>4. threads' \in ThreadMaps
  BY <1>1, <1>3, ToPcType, Unpacked DEF StoreIndex
<1>5. RestOK'
  BY <1>4, Unpacked DEF StoreIndex, RestOK, flags
<1>6. /\ pathIndex' = [pathIndex EXCEPT ![e] = threads[t].reg + 1]
      /\ sideAttempts' = [sideAttempts EXCEPT ![e] = 0]
      /\ UNCHANGED <<boosted, opened, goals>>
  BY DEF StoreIndex
<1>7. threads[t].reg + 1 \in Nat
  BY <1>1
<1> HIDE DEF e
<1>8. /\ pathIndex' \in [ArmStates -> Nat] /\ sideAttempts' \in [ArmStates -> Nat]
  BY <1>6, <1>7, Unpacked DEF EntryOK
<1>9. EntryOK'
  BY <1>6, <1>8, Unpacked DEF EntryOK
<1>10. MachineOK' /\ Safe' /\ DownIsBlank'
  BY <1>1, SameMachine DEF StoreIndex
<1> QED BY <1>5, <1>9, <1>10, TypePartsNext DEF IInv

LEMMA StoreAttemptsKeeps ==
  ASSUME IInv, NEW t \in ThreadIds, StoreAttempts(t) PROVE IInv'
<1>1. up /\ threads[t].reg \in Nat
  BY ActiveThread DEF StoreAttempts
<1>2. RestOK'
  BY EndedType, Unpacked DEF StoreAttempts, RestOK, flags
<1>3. /\ sideAttempts' = [sideAttempts EXCEPT ![threads[t].of] = threads[t].reg + 1]
      /\ UNCHANGED <<boosted, opened, pathIndex, goals>>
  BY DEF StoreAttempts
<1>4. threads[t].reg + 1 \in Nat
  BY <1>1
<1>5. sideAttempts' \in [ArmStates -> Nat]
  BY <1>3, <1>4, Unpacked DEF EntryOK
<1>6. EntryOK'
  BY <1>3, <1>5, Unpacked DEF EntryOK
<1>7. MachineOK' /\ Safe' /\ DownIsBlank'
  BY <1>1, SameMachine DEF StoreAttempts
<1> QED BY <1>2, <1>6, <1>7, TypePartsNext DEF IInv

LEMMA SendPoseKeeps ==
  ASSUME IInv, NEW t \in ThreadIds, NEW near, SendPose(t, near) PROVE IInv'
<1> DEFINE e == threads[t].of
<1>1. up /\ up' = up /\ threads[t] # NoThread /\ Fits(e, threads[t].pc)
  BY ActiveThread DEF SendPose
<1>2. goals \in GoalMaps
  BY Unpacked
<1>3. CASE pathIndex[e] > PathLen[e]
  <2>1. ChangeStateWith(boosted, AfterPath(e), near, goals) /\ threads' = Ended(t)
    BY <1>3 DEF SendPose, ChangeState
  <2>2. RestOK'
    BY <2>1, EndedType, Unpacked DEF SendPose, RestOK, flags
  <2>3. MachineOK' /\ EntryOK' /\ Safe' /\ DownIsBlank'
    BY <1>1, <1>2, <2>1, AfterPathType, Unpacked, ChangeKeeps
  <2> QED BY <2>2, <2>3, TypePartsNext DEF IInv
<1>4. CASE ~(pathIndex[e] > PathLen[e])
  <2>1. SendTarget(e, goals) /\ threads' = ToPc(t, "load_attempts", 0)
        /\ UNCHANGED sideAttempts
    BY <1>4 DEF SendPose
  <2>2. e \in ArmStates
    BY <1>1, PcKinds DEF SendPose, ArmPcs
  <2>3. Fits(e, "load_attempts") /\ 0 \in Nat
    BY <2>2 DEF Fits, ArmPcs
  <2>4. threads' \in ThreadMaps
    BY <1>1, <2>1, <2>3, ToPcType, Unpacked
  <2>5. RestOK'
    BY <2>4, Unpacked DEF SendPose, RestOK, flags
  <2>6. sideAttempts' \in [ArmStates -> Nat]
    BY <2>1, Unpacked DEF EntryOK
  <2>7. EntryOK'
    BY <1>2, <2>1, <2>2, <2>6, SendTargetType
  <2>8. MachineOK' /\ Safe' /\ DownIsBlank'
    BY <1>1, <2>1, SameMachine DEF SendTarget
  <2> QED BY <2>5, <2>7, <2>8, TypePartsNext DEF IInv
<1> QED BY <1>3, <1>4

LEMMA ClearKeeps ==
  ASSUME IInv, NEW t \in ThreadIds, ClearPhoto(t) \/ ClearBack(t) PROVE IInv'
<1>1. up /\ threads[t] # NoThread /\ Fits(threads[t].of, threads[t].pc)
  BY ActiveThread DEF ClearPhoto, ClearBack
<1>2. threads[t].of \in ManualStates
  BY <1>1, PcKinds DEF ClearPhoto, ClearBack, ManualPcs
<1>3. Fits(threads[t].of, "clear_back") /\ Fits(threads[t].of, "send_return")
      /\ 0 \in Nat
  BY <1>2 DEF Fits, ManualPcs
<1>4. threads' \in {ToPc(t, "clear_back", 0), ToPc(t, "send_return", 0)}
  BY DEF ClearPhoto, ClearBack
<1>5. threads' \in ThreadMaps
  BY <1>1, <1>3, <1>4, ToPcType, Unpacked
<1>6. photo' \in [ManualStates -> BOOLEAN] /\ comeBack' \in [ManualStates -> BOOLEAN]
  BY Unpacked DEF ClearPhoto, ClearBack, RestOK
<1>7. RestOK' /\ EntryOK'
  BY <1>5, <1>6, Unpacked DEF ClearPhoto, ClearBack, RestOK, EntryOK, entry
<1>8. MachineOK' /\ Safe' /\ DownIsBlank'
  BY <1>1, SameMachine DEF ClearPhoto, ClearBack, entry
<1> QED BY <1>7, <1>8, TypePartsNext DEF IInv

LEMMA SendReturnKeeps ==
  ASSUME IInv, NEW t \in ThreadIds, SendReturn(t) PROVE IInv'
<1>1. up /\ Fits(threads[t].of, threads[t].pc)
  BY ActiveThread DEF SendReturn
<1>2. RestOK'
  BY EndedType, Unpacked DEF SendReturn, RestOK, flags
<1>3. threads[t].of \in AutoStates \cup ManualStates /\ "plain" \in Targets
  BY <1>1, PcKinds DEF SendReturn, ManualPcs, Targets, ManualMoves
<1>4. goals' \in GoalMaps
  BY <1>3, SentType, Unpacked DEF SendReturn
<1>5. EntryOK'
  BY <1>4, Unpacked DEF SendReturn, EntryOK
<1>6. MachineOK' /\ Safe' /\ DownIsBlank'
  BY <1>1, SameMachine DEF SendReturn
<1> QED BY <1>2, <1>5, <1>6, TypePartsNext DEF IInv

LEMMA ThreadStepKeeps ==
  ASSUME IInv, NEW t \in ThreadIds, ThreadStep(t) PROVE IInv'
BY ThreadWakesKeeps, LoadKeeps, StoreIndexKeeps, SendPoseKeeps,
   StoreAttemptsKeeps, ClearKeeps, SendReturnKeeps
   DEF ThreadStep, AutoThreadStep, ManualThreadStep
-----------------------------------------------------------------------------
(* Commands of the ground.                                                 *)
LEMMA CommandKeeps ==
  ASSUME IInv, NEW to \in States, NEW near, up, ChangeState(to, near, goals),
         UNCHANGED <<up, armKnown, attempts, flags, threads>>
  PROVE  IInv'
<1>1. ChangeStateWith(boosted, to, near, goals) /\ up' = up
  BY DEF ChangeState
<1>2. RestOK'
  BY Unpacked DEF RestOK, flags
<1>3. MachineOK' /\ EntryOK' /\ Safe' /\ DownIsBlank'
  BY <1>1, Unpacked, ChangeKeeps
<1> QED BY <1>2, <1>3, TypePartsNext DEF IInv

(* A goal of a manual expert is sent.                                      *)
LEMMA ManualSendKeeps ==
  ASSUME IInv, up, phase \in ManualStates, NEW target \in Targets,
         goals' \in Sent(goals, phase, target), RestOK',
         UNCHANGED <<up, machine, boosted, opened, pathIndex, sideAttempts, threads>>
  PROVE  IInv'
<1>1. goals' \in GoalMaps
  BY SentType, Unpacked
<1>2. EntryOK'
  BY <1>1, Unpacked DEF EntryOK
<1>3. MachineOK' /\ Safe' /\ DownIsBlank'
  BY SameMachine
<1> QED BY <1>2, <1>3, TypePartsNext DEF IInv

LEMMA ArmCommandKeeps ==
  ASSUME IInv, NEW move \in ManualMoves, ArmCommand(move) PROVE IInv'
<1>1. photo' \in [ManualStates -> BOOLEAN] /\ comeBack' \in [ManualStates -> BOOLEAN]
  BY Unpacked DEF ArmCommand, RestOK
<1>2. RestOK'
  BY <1>1, Unpacked DEF ArmCommand, RestOK
<1>3. move \in Targets
  BY DEF Targets
<1> QED BY <1>2, <1>3, ManualSendKeeps DEF ArmCommand

LEMMA MoveServoKeeps ==
  ASSUME IInv, NEW servo \in Servos, MoveServo(servo) PROVE IInv'
<1>1. RestOK'
  BY Unpacked DEF MoveServo, RestOK, flags
<1>2. servo \in Targets
  BY DEF Targets
<1> QED BY <1>1, <1>2, ManualSendKeeps DEF MoveServo

LEMMA VideoKeeps == ASSUME IInv, NEW on \in BOOLEAN, Video(on) PROVE IInv'
<1>1. RestOK' /\ EntryOK'
  BY Unpacked DEF Video, RestOK, EntryOK, entry, flags
<1>2. MachineOK'
  BY Unpacked DEF Video, MachineOK
<1>3. Safe' /\ DownIsBlank'
  BY DEF Video, entry, IInv, Safe, TimerInFlight, SavedIsPhase,
         HoldFollowsFlight, PadRearmed, DownIsBlank
<1> QED BY <1>1, <1>2, <1>3, TypePartsNext DEF IInv

LEMMA GroundKeeps == ASSUME IInv, Ground PROVE IInv'
<1>1. \A c \in DOMAIN CommandState : CommandState[c] \in States
  BY DEF CommandState, States
<1>2. ASSUME NEW c \in DOMAIN CommandState, NEW near, RadioCommand(c, near)
      PROVE  IInv'
  BY <1>1, <1>2, CommandKeeps DEF RadioCommand
<1>3. ASSUME NEW to \in States, NEW near, RequestStateChange(to, near)
      PROVE  IInv'
  BY <1>3, CommandKeeps DEF RequestStateChange
<1> QED BY <1>2, <1>3, ArmCommandKeeps, MoveServoKeeps, VideoKeeps DEF Ground
-----------------------------------------------------------------------------
(* Answers of the bridge.                                                  *)
LEMMA GoalsOnly ==
  ASSUME IInv, goals' \in GoalMaps,
         UNCHANGED <<up, machine, boosted, opened, pathIndex, sideAttempts,
                     armKnown, attempts, flags, threads>>
  PROVE  IInv'
<1>1. RestOK' /\ EntryOK'
  BY Unpacked DEF RestOK, EntryOK, flags
<1>2. MachineOK' /\ Safe' /\ DownIsBlank'
  BY SameMachine
<1> QED BY <1>1, <1>2, TypePartsNext DEF IInv

LEMMA AnswerKeeps ==
  ASSUME IInv, NEW g \in GoalIds, NEW from \in {"sent", "running"},
         NEW to \in {"rejected", "running", "finished"}, AnswerGoal(g, from, to)
  PROVE  IInv'
<1>1. goals[g] \in Goals
  BY Unpacked DEF AnswerGoal, GoalMaps, NoGoal
<1>2. [goals[g] EXCEPT !.stage = to] \in Goals
  BY <1>1 DEF Goals
<1>3. goals' \in GoalMaps
  BY <1>2, Unpacked DEF AnswerGoal, GoalMaps
<1> QED BY <1>3, GoalsOnly DEF AnswerGoal

LEMMA LoseGoalKeeps ==
  ASSUME IInv, NEW g \in GoalIds, LoseGoal(g) PROVE IInv'
BY ConsumedType, Unpacked, GoalsOnly DEF LoseGoal

LEMMA TakeHoldKeeps == ASSUME IInv, TakeHold PROVE IInv'
<1>1. RestOK' /\ EntryOK'
  BY Unpacked DEF TakeHold, RestOK, EntryOK, entry, flags
<1>2. holdReqs' \in Seq(BOOLEAN)
  BY Unpacked, HeadTailProperties DEF TakeHold, MachineOK
<1>3. MachineOK'
  BY <1>2, Unpacked DEF TakeHold, MachineOK
<1>4. Safe' /\ DownIsBlank'
  BY DEF TakeHold, entry, IInv, Safe, TimerInFlight, SavedIsPhase,
         HoldFollowsFlight, PadRearmed, DownIsBlank
<1> QED BY <1>1, <1>3, <1>4, TypePartsNext DEF IInv

LEMMA BridgeKeeps == ASSUME IInv, Bridge PROVE IInv'
BY AnswerKeeps, LoseGoalKeeps, TakeHoldKeeps
   DEF Bridge, AcceptGoal, RejectGoal, FinishGoal
-----------------------------------------------------------------------------
LEMMA AutonomousKeeps == ASSUME IInv, Autonomous PROVE IInv'
BY BootKeeps, AccelSampleKeeps, ArmStatusKeeps, FlightTimerKeeps,
   GoalCallbackKeeps, ThreadStepKeeps
   DEF Autonomous, Samples

LEMMA StutterKeeps == ASSUME IInv, UNCHANGED vars PROVE IInv'
<1>1. RestOK' /\ EntryOK'
  BY Unpacked DEF vars, RestOK, EntryOK, entry, flags
<1>2. MachineOK' /\ Safe' /\ DownIsBlank'
  BY SameMachine DEF vars, entry
<1> QED BY <1>1, <1>2, TypePartsNext DEF IInv

LEMMA InitHolds == ASSUME Init PROVE IInv
<1>1. MachineOK
  <2>1. <<>> \in Seq(BOOLEAN)
    OBVIOUS
  <2> QED BY <2>1 DEF Init, MachineOK, States
<1>2. pathIndex \in [ArmStates -> Nat] /\ sideAttempts \in [ArmStates -> Nat]
  BY DEF Init
<1>3. goals \in GoalMaps /\ threads \in ThreadMaps
  BY DEF Init, GoalMaps, ThreadMaps
<1>4. EntryOK
  BY <1>2, <1>3 DEF Init, EntryOK
<1>5. photo \in [ManualStates -> BOOLEAN] /\ comeBack \in [ManualStates -> BOOLEAN]
  BY DEF Init
<1>6. up \in BOOLEAN /\ armKnown \in BOOLEAN
  BY DEF Init
<1>7. attempts \in 0..FlipLimit + 1
  BY CaptainAssumption DEF Init
<1>8. RestOK
  BY <1>3, <1>5, <1>6, <1>7 DEF RestOK
<1>9. Safe /\ DownIsBlank
  BY DEF Init, Safe, TimerInFlight, SavedIsPhase, HoldFollowsFlight, PadRearmed,
         DownIsBlank
<1> QED BY <1>1, <1>4, <1>8, <1>9, TypeParts DEF IInv

LEMMA NextKeeps == ASSUME IInv, [Next]_vars PROVE IInv'
BY AutonomousKeeps, GroundKeeps, FailureKeeps, BridgeKeeps, StutterKeeps DEF Next

THEOREM Inductive == Spec => []IInv
<1>1. Init => IInv
  BY InitHolds
<1>2. IInv /\ [Next]_vars => IInv'
  BY NextKeeps
<1> QED BY <1>1, <1>2, PTL DEF Spec

(* Every field of the captain keeps its type: no handler leaves the state, *)
(* a counter, a flag, a goal or a thread outside the values the code means *)
(* it to have; a thread of one kind of expert never runs the steps of the  *)
(* other.                                                                  *)
THEOREM TypeCorrect == Spec => []TypeOK
<1>1. IInv => TypeOK
  BY DEF IInv
<1> QED BY <1>1, Inductive, PTL

(* The flight timer runs exactly in Flight, for every sequence of radio    *)
(* commands, sensor samples, answers, stale threads and crashes.           *)
THEOREM TimerSafe == Spec => []TimerInFlight
<1>1. IInv => TimerInFlight
  BY DEF IInv, Safe
<1> QED BY <1>1, Inductive, PTL

(* A running captain's active state is the one it would resume after a     *)
(* crash, nested changes of state included.                                *)
THEOREM SavedSafe == Spec => []SavedIsPhase
<1>1. IInv => SavedIsPhase
  BY DEF IInv, Safe
<1> QED BY <1>1, Inductive, PTL

(* The last hold_shut request of a running captain asks to hold exactly    *)
(* when it is in Flight, whatever crashes came before.                     *)
THEOREM HoldSafe == Spec => []HoldFollowsFlight
<1>1. IInv => HoldFollowsFlight
  BY DEF IInv, Safe
<1> QED BY <1>1, Inductive, PTL

(* On the pad, however it was reached, the boost latch and the takeoff     *)
(* time are clear and the flight heartbeat is on.                          *)
THEOREM PadSafe == Spec => []PadRearmed
<1>1. IInv => PadRearmed
  BY DEF IInv, Safe
<1> QED BY <1>1, Inductive, PTL
=============================================================================
