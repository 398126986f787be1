---------------------------- MODULE MissionProofs ----------------------------
(***************************************************************************)
(* How the captain's work moves the mission on, for any number of goals    *)
(* and threads: the captain implements the mission the ground understands  *)
(* (Mission), and left to itself it keeps one chain of work.               *)
(***************************************************************************)
EXTENDS CaptainProofs, MCPilots

(* The work under way, of a map of goals and a map of threads.             *)
Owners(gs, ts) ==
  {e \in AutoStates : \/ \E g \in GoalIds : gs[g].owner = e
                     \/ \E t \in ThreadIds : ts[t].of = e}

(* A dead process waits for no answer.                                     *)
DeadIsIdle == ~up => \A g \in GoalIds : goals[g] = NoGoal

MInv == IInv /\ DeadIsIdle
-----------------------------------------------------------------------------
LEMMA PendingIs == Pending = Owners(goals, threads) /\ Pending' = Owners(goals', threads')
BY DEF Pending, Owners

LEMMA SentOwners ==
  ASSUME NEW base \in GoalMaps, NEW ts, NEW owner, NEW target,
         NEW after \in Sent(base, owner, target)
  PROVE  Owners(after, ts) = Owners(base, ts) \cup ({owner} \cap AutoStates)
<1>1. PICK g \in GoalIds :
        /\ base[g] = NoGoal
        /\ after = [base EXCEPT ![g] = [owner |-> owner, target |-> target, stage |-> "sent"]]
  BY DEF Sent
<1>2. base[g].owner = "none" /\ after[g].owner = owner
  BY <1>1 DEF NoGoal, GoalMaps
<1>3. \A h \in GoalIds \ {g} : after[h] = base[h]
  BY <1>1 DEF GoalMaps
<1> QED
  BY <1>2, <1>3 DEF Owners, AutoStates, ArmStates

LEMMA AllButOne ==
  ASSUME NEW A, NEW B, NEW e, NEW S, A \subseteq B, B \subseteq S,
         \A x \in S \ {e} : x \in A <=> x \in B
  PROVE  A = B \/ A = B \ {e}
<1>1. CASE e \in A
  BY <1>1
<1>2. CASE e \notin A
  BY <1>2
<1> QED
  BY <1>1, <1>2

LEMMA ConsumedOwners ==
  ASSUME MInv, NEW g \in GoalIds, NEW ts
  PROVE  \/ Owners(Consumed(g), ts) = Owners(goals, ts)
         \/ Owners(Consumed(g), ts) = Owners(goals, ts) \ {goals[g].owner}
<1> DEFINE after == Consumed(g)
<1>1. after[g].owner = "none" /\ \A h \in GoalIds \ {g} : after[h] = goals[h]
  BY Unpacked DEF MInv, Consumed, GoalMaps, NoGoal
<1> HIDE DEF after
<1>2. \A e \in AutoStates \ {goals[g].owner} : e \in Owners(after, ts) <=> e \in Owners(goals, ts)
  BY <1>1 DEF Owners, AutoStates, ArmStates
<1>3. Owners(after, ts) \subseteq Owners(goals, ts)
  BY <1>1 DEF Owners, AutoStates, ArmStates
<1>4. Owners(after, ts) \subseteq AutoStates /\ Owners(goals, ts) \subseteq AutoStates
  BY DEF Owners
<1>5. Owners(after, ts) = Owners(goals, ts) \/ Owners(after, ts) = Owners(goals, ts) \ {goals[g].owner}
  BY <1>2, <1>3, <1>4, AllButOne
<1> QED
  BY <1>5 DEF after

LEMMA SpawnedOwners ==
  ASSUME MInv, NEW gs, NEW e, NEW after \in Spawned(threads, e)
  PROVE  Owners(gs, after) = Owners(gs, threads) \cup ({e} \cap AutoStates)
<1>1. PICK t \in ThreadIds :
        /\ threads[t] = NoThread
        /\ after = [threads EXCEPT ![t] = [of |-> e, pc |-> "sleep", reg |-> 0]]
  BY DEF Spawned
<1>2. threads[t].of = "none" /\ after[t].of = e
  BY <1>1, Unpacked DEF MInv, NoThread, RestOK, ThreadMaps
<1>3. \A u \in ThreadIds \ {t} : after[u] = threads[u]
  BY <1>1, Unpacked DEF MInv, RestOK, ThreadMaps
<1> QED
  BY <1>2, <1>3 DEF Owners, AutoStates, ArmStates

LEMMA EndedOwners ==
  ASSUME MInv, NEW t \in ThreadIds, NEW gs
  PROVE  \/ Owners(gs, Ended(t)) = Owners(gs, threads)
         \/ Owners(gs, Ended(t)) = Owners(gs, threads) \ {threads[t].of}
<1> DEFINE after == Ended(t)
<1>1. after[t].of = "none" /\ \A u \in ThreadIds \ {t} : after[u] = threads[u]
  BY Unpacked DEF MInv, Ended, RestOK, ThreadMaps, NoThread
<1> HIDE DEF after
<1>2. \A e \in AutoStates \ {threads[t].of} : e \in Owners(gs, after) <=> e \in Owners(gs, threads)
  BY <1>1 DEF Owners, AutoStates, ArmStates
<1>3. Owners(gs, after) \subseteq Owners(gs, threads)
  BY <1>1 DEF Owners, AutoStates, ArmStates
<1>4. Owners(gs, after) \subseteq AutoStates /\ Owners(gs, threads) \subseteq AutoStates
  BY DEF Owners
<1>5. Owners(gs, after) = Owners(gs, threads) \/ Owners(gs, after) = Owners(gs, threads) \ {threads[t].of}
  BY <1>2, <1>3, <1>4, AllButOne
<1> QED
  BY <1>5 DEF after

LEMMA ToPcOwners ==
  ASSUME MInv, NEW t \in ThreadIds, threads[t] # NoThread, NEW pc, NEW reg, NEW gs
  PROVE  Owners(gs, ToPc(t, pc, reg)) = Owners(gs, threads)
<1> DEFINE after == ToPc(t, pc, reg)
<1>1. threads[t] \in Threads
  BY Unpacked DEF MInv, RestOK, ThreadMaps
<1>2. after[t] = [threads[t] EXCEPT !.pc = pc, !.reg = reg]
  BY Unpacked DEF MInv, ToPc, RestOK, ThreadMaps
<1>3. after[t].of = threads[t].of /\ \A u \in ThreadIds \ {t} : after[u] = threads[u]
  BY <1>1, <1>2, Unpacked DEF MInv, ToPc, RestOK, ThreadMaps, Threads
<1> HIDE DEF after
<1>4. Owners(gs, after) = Owners(gs, threads)
  BY <1>3 DEF Owners
<1> QED
  BY <1>4 DEF after
-----------------------------------------------------------------------------
(* A state is entered in the mission as in the captain.                    *)
LEMMA EnterMoves ==
  ASSUME MInv, up', NEW to \in States, NEW near, NEW latch \in BOOLEAN,
         NEW base \in GoalMaps, EnterState(to, near, latch, base)
  PROVE  Moving!Enter(Settled(to, near), Owners(base, threads'))
<1> DEFINE here == Settled(to, near)
<1>1. phase' = here
  BY DEF EnterState
<1>2. Owners(goals', threads') = Owners(base, threads') \cup ({here} \cap AutoStates)
  <2>1. CASE here = "Flipping"
    BY <2>1, SentOwners DEF EnterState
  <2>2. CASE here \in ArmStates
    BY <2>2, SentOwners DEF EnterState, ArmStates
  <2>3. CASE here # "Flipping" /\ here \notin ArmStates
    BY <2>3 DEF EnterState, AutoStates
  <2> QED
    BY <2>1, <2>2, <2>3
<1>3. AutoStates = Moving!Activities
  BY DEF AutoStates, ArmStates, Moving!Activities
<1> HIDE DEF here
<1>4. Moving!Enter(here, Owners(base, threads'))
  BY <1>1, <1>2, <1>3, PendingIs DEF Moving!Enter
<1> QED
  BY <1>4 DEF here

(* Nothing the mission tells apart has changed.                            *)
Unseen == up' = up /\ phase' = phase /\ (up \/ lastState' = lastState) /\ Pending' = Pending

LEMMA UnseenStutters ==
  Unseen => UNCHANGED <<up, IF up THEN phase ELSE IF lastState = "None" THEN "Pad" ELSE lastState,
                        Pending>>
BY DEF Unseen
(* Work that stops without moving the mission on, or goes on.              *)
LEMMA Fades ==
  ASSUME MInv, NEW e, up' = up, phase' = phase, lastState' = lastState,
         Pending' = Pending \/ Pending' = Pending \ {e}
  PROVE  Moving!Next \/ Unseen
<1>1. CASE e \in Pending /\ Pending' = Pending \ {e}
  <2>1. e \in Moving!Activities
    BY <1>1 DEF Pending, AutoStates, ArmStates, Moving!Activities
  <2>2. Moving!Quiesce(e)
    BY <1>1 DEF Moving!Quiesce
  <2> QED
    BY <2>1, <2>2 DEF Moving!Next
<1>2. CASE ~(e \in Pending /\ Pending' = Pending \ {e})
  <2>1. Pending' = Pending
    BY <1>2
  <2> QED
    BY <2>1 DEF Unseen
<1> QED
  BY <1>1, <1>2

LEMMA ChangeMoves ==
  ASSUME MInv, up, up' = up, NEW latch \in BOOLEAN, NEW to \in States, NEW near,
         NEW base \in GoalMaps, ChangeStateWith(latch, to, near, base)
  PROVE  Moving!Enter(Settled(to, near), Owners(base, threads'))
BY EnterMoves DEF ChangeStateWith

(* The end of autonomous work may move the mission on.                     *)
LEMMA Advances ==
  ASSUME MInv, up, up' = up, NEW e \in Pending, NEW to \in Moving!Onward[e],
         NEW left \in {Pending, Pending \ {e}}, Moving!Enter(to, left)
  PROVE  Moving!Next
<1>1. e \in Moving!Activities
  BY DEF Pending, AutoStates, ArmStates, Moving!Activities
<1>2. Moving!Advance(e)
  BY DEF Moving!Advance
<1> QED
  BY <1>1, <1>2 DEF Moving!Next
-----------------------------------------------------------------------------
(* What the captain does by itself.                                        *)
LEMMA BootMoves == ASSUME MInv, Boot PROVE Moving!Next
<1> DEFINE to == IF lastState = "None" THEN "Pad" ELSE lastState
           no == FALSE
<1>1. ~up /\ up' /\ threads' = threads
  BY DEF Boot
<1>2. to \in States /\ boosted \in BOOLEAN /\ goals \in GoalMaps
  BY Unpacked DEF MInv, MachineOK, States
<1>3. EnterState(to, no, boosted, goals)
  BY DEF Boot
<1>4. Owners(goals, threads') = {}
  BY <1>1 DEF MInv, IInv, DownIsBlank, DeadIsIdle, Owners, NoGoal, NoThread, AutoStates, ArmStates
<1>5. Settled(to, no) = IF to \in {"Unfolding", "AutoCamera"} THEN "Emergency" ELSE to
  BY DEF Settled, ArmStates
<1>6. Moving!Enter(Settled(to, no), {})
  <2> HIDE DEF to, no
  <2> QED
    BY <1>1, <1>2, <1>3, <1>4, EnterMoves
<1>7. Moving!Resume
  BY <1>1, <1>5, <1>6 DEF Moving!Resume
<1> QED
  BY <1>7 DEF Moving!Next

LEMMA SampleMoves ==
  ASSUME MInv, NEW over \in BOOLEAN, AccelSample(over) PROVE Moving!Next \/ Unseen
<1> DEFINE on == TRUE
           no == FALSE
<1>1. up /\ up' = up /\ threads' = threads /\ phase \in PadStates
  BY DEF AccelSample
<1>2. CASE boosted \/ over
  <2>1. ChangeStateWith(on, "Flight", no, goals)
    BY <1>2 DEF AccelSample
  <2>2. "Flight" \in States /\ on \in BOOLEAN /\ goals \in GoalMaps
    BY Unpacked DEF MInv, States
  <2>3. Settled("Flight", no) = "Flight"
    BY DEF Settled, ArmStates
  <2> HIDE DEF on, no
  <2>4. Moving!Enter("Flight", Pending)
    BY <1>1, <2>1, <2>2, <2>3, ChangeMoves, PendingIs
  <2>5. Moving!Boost
    BY <1>1, <2>4 DEF Moving!Boost, PadStates
  <2> QED
    BY <2>5 DEF Moving!Next
<1>3. CASE ~(boosted \/ over)
  BY <1>1, <1>3 DEF AccelSample, machine, entry, Unseen, Pending
<1> QED
  BY <1>2, <1>3

LEMMA LandingMoves == ASSUME MInv, FlightTimerFires PROVE Moving!Next
<1> DEFINE no == FALSE
<1>1. up /\ up' = up /\ threads' = threads /\ phase = "Flight"
  BY DEF FlightTimerFires, MInv, IInv, Safe, TimerInFlight
<1>2. ChangeStateWith(boosted, "Flipping", no, goals)
  BY <1>1 DEF FlightTimerFires, ChangeState
<1>3. "Flipping" \in States /\ boosted \in BOOLEAN /\ goals \in GoalMaps
  BY Unpacked DEF MInv, States
<1>4. Settled("Flipping", no) = "Flipping"
  BY DEF Settled, ArmStates
<1> HIDE DEF no
<1>5. Moving!Enter("Flipping", Pending)
  BY <1>1, <1>2, <1>3, <1>4, ChangeMoves, PendingIs
<1>6. Moving!Land
  BY <1>1, <1>5 DEF Moving!Land
<1> QED
  BY <1>6 DEF Moving!Next

LEMMA FlipMoves ==
  ASSUME MInv, NEW g \in GoalIds, NEW face, NEW near, FlipFinish(g, face, near)
  PROVE  Moving!Next \/ Unseen
<1> DEFINE no == FALSE
           after == Consumed(g)
<1>1. up /\ up' = up /\ threads' = threads /\ goals[g].owner = "Flipping"
  BY DEF FlipFinish
<1>2. "Flipping" \in Pending
  BY <1>1 DEF Pending, AutoStates
<1>3. after \in GoalMaps /\ boosted \in BOOLEAN /\ {"Unfolding", "Emergency"} \subseteq States
  BY ConsumedType, Unpacked DEF MInv, States
<1>4. Owners(after, threads) \in {Pending, Pending \ {"Flipping"}}
  BY <1>1, ConsumedOwners, PendingIs
<1>5. Moving!Onward["Flipping"] = {"Unfolding", "Emergency"}
  BY DEF Moving!Onward
<1>6. ASSUME NEW to \in {"Unfolding", "Emergency"}, NEW close,
             ChangeStateWith(boosted, to, close, after)
      PROVE  Moving!Next
  <2>1. Settled(to, close) \in {"Unfolding", "Emergency"}
    BY DEF Settled
  <2>2. Moving!Enter(Settled(to, close), Owners(after, threads))
    <3> HIDE DEF after
    <3> QED
      BY <1>1, <1>3, <1>6, ChangeMoves
  <2> HIDE DEF after
  <2>3. Settled(to, close) \in Moving!Onward["Flipping"]
    BY <1>5, <2>1
  <2> HIDE DEF Settled
  <2> QED
    BY <1>1, <1>2, <1>4, <2>2, <2>3, Advances
<1>7. CASE attempts >= FlipLimit
  <2>1. ChangeStateWith(boosted, "Emergency", no, after)
    BY <1>7 DEF FlipFinish, ChangeState
  <2> HIDE DEF after, no
  <2> QED
    BY <1>6, <2>1
<1>8. CASE ~(attempts >= FlipLimit) /\ NextServo(face) = "none"
  <2>1. ChangeStateWith(boosted, "Unfolding", near, after)
    BY <1>8 DEF FlipFinish, ChangeState
  <2> HIDE DEF after
  <2> QED
    BY <1>6, <2>1
<1>9. CASE ~(attempts >= FlipLimit) /\ NextServo(face) # "none"
  <2>1. StartFlip(NextServo(face), after)
    BY <1>9 DEF FlipFinish
  <2>2. phase' = phase /\ goals' \in Sent(after, "Flipping", NextServo(face))
    BY <2>1 DEF StartFlip, machine
  <2> HIDE DEF after
  <2>3. Pending' = Owners(after, threads) \cup ({"Flipping"} \cap AutoStates)
    BY <1>1, <1>3, <2>2, SentOwners, PendingIs
  <2>4. Pending' = Pending
    BY <1>2, <1>4, <2>3 DEF AutoStates
  <2> QED
    BY <1>1, <2>2, <2>4 DEF Unseen
<1> QED
  BY <1>7, <1>8, <1>9

LEMMA DecideMoves ==
  ASSUME MInv, NEW g \in GoalIds, NEW near, DecideNext(g, near)
  PROVE  Moving!Next \/ Unseen
<1> DEFINE e == goals[g].owner
           after == Consumed(g)
<1>1. up /\ up' = up /\ e \in ArmStates
  BY DEF DecideNext
<1>2. e \in Pending /\ e \in AutoStates
  BY <1>1 DEF Pending, AutoStates
<1>3. after \in GoalMaps /\ boosted \in BOOLEAN
  BY ConsumedType, Unpacked DEF MInv
<1>4. Owners(after, threads) \in {Pending, Pending \ {e}}
  BY <1>1, ConsumedOwners, PendingIs
<1>5. ASSUME NEW to \in {AfterPath(e), "Emergency"}, threads' = threads,
             ChangeStateWith(boosted, to, near, after)
      PROVE  Moving!Next
  <2>1. to \in States /\ Settled(to, near) \in Moving!Onward[e]
    BY <1>1 DEF Settled, AfterPath, Moving!Onward, States, ArmStates
  <2> HIDE DEF after, e
  <2>2. Moving!Enter(Settled(to, near), Owners(after, threads))
    BY <1>1, <1>3, <1>5, <2>1, ChangeMoves
  <2> QED
    BY <1>1, <1>2, <1>4, <2>1, <2>2, Advances
<1>6. CASE PathDone(e)
  <2>1. ChangeStateWith(boosted, AfterPath(e), near, after) /\ threads' = threads
    BY <1>6 DEF DecideNext, ChangeState
  <2> HIDE DEF after, e
  <2> QED
    BY <1>5, <2>1
<1>7. CASE ~PathDone(e) /\ sideAttempts[e] > SideLimit
  <2>1. ChangeStateWith(boosted, "Emergency", near, after) /\ threads' = threads
    BY <1>7 DEF DecideNext, ChangeState
  <2> HIDE DEF after, e
  <2> QED
    BY <1>5, <2>1
<1>8. CASE ~PathDone(e) /\ ~(sideAttempts[e] > SideLimit) /\ near
  <2>1. goals' = after /\ threads' \in Spawned(threads, e) /\ phase' = phase
    BY <1>8 DEF DecideNext, machine
  <2> HIDE DEF after, e
  <2>2. Pending' = Owners(after, threads) \cup ({e} \cap AutoStates)
    BY <2>1, SpawnedOwners, PendingIs
  <2>3. Pending' = Pending
    BY <1>2, <1>4, <2>2
  <2> QED
    BY <1>1, <2>1, <2>3 DEF Unseen
<1>9. CASE ~PathDone(e) /\ ~(sideAttempts[e] > SideLimit) /\ ~near
  <2>1. goals' \in Sent(after, e, "pose") /\ threads' = threads /\ phase' = phase
    BY <1>9 DEF DecideNext, SendTarget, machine
  <2> HIDE DEF after, e
  <2>2. Pending' = Owners(after, threads) \cup ({e} \cap AutoStates)
    BY <1>3, <2>1, SentOwners, PendingIs
  <2>3. Pending' = Pending
    BY <1>2, <1>4, <2>2
  <2> QED
    BY <1>1, <2>1, <2>3 DEF Unseen
<1> QED
  BY <1>6, <1>7, <1>8, <1>9

(* The manual experts' answers and threads are none of the mission's.      *)
LEMMA ManualMovesNothing ==
  ASSUME MInv, NEW g \in GoalIds, ManualCallback(g)
  PROVE  Moving!Next \/ Unseen
<1> DEFINE e == goals[g].owner
           after == Consumed(g)
<1>1. /\ up /\ up' = up /\ phase' = phase /\ lastState' = lastState
      /\ e \in ManualStates /\ goals' = after
      /\ threads' = threads \/ threads' \in Spawned(threads, e)
  BY DEF ManualCallback, ManualArmResult, ManualLogged, machine
<1>2. e \notin AutoStates
  BY <1>1 DEF ManualStates, AutoStates, ArmStates
<1>3. Owners(after, threads) \in {Pending, Pending \ {e}}
  BY ConsumedOwners, PendingIs
<1> HIDE DEF e, after
<1>4. Pending' = Owners(after, threads)
  BY <1>1, <1>2, SpawnedOwners, PendingIs
<1> QED
  BY <1>1, <1>3, <1>4, Fades

LEMMA ThreadMoves ==
  ASSUME MInv, NEW t \in ThreadIds, ThreadStep(t) PROVE Moving!Next \/ Unseen
<1> DEFINE e == threads[t].of
<1>1. up /\ threads[t] # NoThread /\ Fits(e, threads[t].pc)
  BY ActiveThread DEF MInv, ThreadStep, AutoThreadStep, ManualThreadStep, ThreadWakes,
       LoadIndex, StoreIndex, SendPose, LoadAttempts, StoreAttempts, ClearPhoto, ClearBack, SendReturn
<1>2. ASSUME UNCHANGED <<up, machine>>, goals' = goals,
             threads' = Ended(t) \/ \E pc, reg : threads' = ToPc(t, pc, reg)
      PROVE  Moving!Next \/ Unseen
  <2>1. up' = up /\ phase' = phase /\ lastState' = lastState
    BY <1>2 DEF machine
  <2>2. Pending' = Pending \/ Pending' = Pending \ {e}
    BY <1>1, <1>2, EndedOwners, ToPcOwners, PendingIs
  <2> HIDE DEF e
  <2> QED
    BY <2>1, <2>2, Fades
<1>3. CASE ThreadWakes(t)
  BY <1>2, <1>3 DEF ThreadWakes, entry
<1>4. CASE LoadIndex(t) \/ StoreIndex(t) \/ LoadAttempts(t) \/ StoreAttempts(t)
           \/ ClearPhoto(t) \/ ClearBack(t)
  BY <1>2, <1>4 DEF LoadIndex, StoreIndex, LoadAttempts, StoreAttempts, ClearPhoto, ClearBack, entry
<1>5. ASSUME NEW near, SendPose(t, near)
      PROVE  Moving!Next \/ Unseen
  <2>1. up' = up /\ e \in ArmStates
    BY <1>1, <1>5, PcKinds DEF SendPose, ArmPcs
  <2>2. e \in Pending /\ e \in AutoStates
    BY <2>1 DEF Pending, AutoStates
  <2>3. goals \in GoalMaps /\ boosted \in BOOLEAN
    BY Unpacked DEF MInv
  <2>4. CASE pathIndex[e] > PathLen[e]
    <3>1. ChangeStateWith(boosted, AfterPath(e), near, goals) /\ threads' = Ended(t)
      BY <1>5, <2>4 DEF SendPose, ChangeState
    <3>2. AfterPath(e) \in States /\ Settled(AfterPath(e), near) \in Moving!Onward[e]
      BY <2>1 DEF Settled, AfterPath, Moving!Onward, States, ArmStates
    <3>3. Owners(goals, threads') \in {Pending, Pending \ {e}}
      BY <3>1, EndedOwners, PendingIs
    <3> HIDE DEF e
    <3>4. Moving!Enter(Settled(AfterPath(e), near), Owners(goals, threads'))
      BY <1>1, <2>1, <2>3, <3>1, <3>2, ChangeMoves
    <3> QED
      BY <1>1, <2>1, <2>2, <3>2, <3>3, <3>4, Advances
  <2>5. CASE ~(pathIndex[e] > PathLen[e])
    <3>1. goals' \in Sent(goals, e, "pose") /\ threads' = ToPc(t, "load_attempts", 0)
          /\ phase' = phase
      BY <1>5, <2>5 DEF SendPose, SendTarget, machine
    <3>2. Owners(goals', threads') = Owners(goals', threads)
      BY <1>1, <3>1, ToPcOwners
    <3> HIDE DEF e
    <3>3. Pending' = Pending \cup ({e} \cap AutoStates)
      BY <2>3, <3>1, <3>2, SentOwners, PendingIs
    <3> QED
      BY <1>1, <2>1, <2>2, <3>1, <3>3 DEF Unseen
  <2> QED
    BY <2>4, <2>5
<1>6. CASE SendReturn(t)
  <2>1. /\ up' = up /\ phase' = phase /\ lastState' = lastState
        /\ goals' \in Sent(goals, e, "plain") /\ threads' = Ended(t)
    BY <1>6 DEF SendReturn, machine
  <2>2. e \notin AutoStates
    BY <1>1, <1>6, PcKinds DEF SendReturn, ManualPcs, ManualStates, AutoStates, ArmStates
  <2>3. goals \in GoalMaps
    BY Unpacked DEF MInv
  <2>4. Owners(goals, threads') = Pending \/ Owners(goals, threads') = Pending \ {e}
    BY <2>1, EndedOwners, PendingIs
  <2> HIDE DEF e
  <2>5. Pending' = Owners(goals, threads')
    BY <2>1, <2>2, <2>3, SentOwners, PendingIs
  <2> QED
    BY <2>1, <2>4, <2>5, Fades
<1> QED
  BY <1>3, <1>4, <1>5, <1>6 DEF ThreadStep, AutoThreadStep, ManualThreadStep

LEMMA AutonomousMoves == ASSUME MInv, Autonomous PROVE Moving!Next \/ Unseen
<1>1. CASE ArmStatus
  BY <1>1 DEF ArmStatus, machine, entry, Unseen, Pending
<1> QED
  BY <1>1, BootMoves, SampleMoves, LandingMoves, FlipMoves, DecideMoves, ManualMovesNothing,
     ThreadMoves
  DEF Autonomous, Samples, GoalCallback, AutoCallback
-----------------------------------------------------------------------------
(* The ground, failures and the bridge.                                    *)
LEMMA CommandMoves ==
  ASSUME MInv, NEW to \in States, NEW near, up, up' = up, threads' = threads,
         ChangeState(to, near, goals)
  PROVE  Moving!Next
<1>1. ChangeStateWith(boosted, to, near, goals) /\ goals \in GoalMaps /\ boosted \in BOOLEAN
  BY Unpacked DEF ChangeState, MInv
<1>2. Moving!Enter(Settled(to, near), Pending)
  BY <1>1, ChangeMoves, PendingIs
<1>3. Settled(to, near) = to \/ (to \in {"Unfolding", "AutoCamera"} /\ Settled(to, near) = "Emergency")
  BY DEF Settled, ArmStates
<1>4. Moving!Command(to)
  BY <1>2, <1>3 DEF Moving!Command
<1> QED
  BY <1>4 DEF Moving!Next, Moving!Phases, States

LEMMA GroundMoves == ASSUME MInv, Ground PROVE Moving!Next \/ Unseen
<1>1. ASSUME NEW c \in DOMAIN CommandState, NEW near, RadioCommand(c, near)
      PROVE  Moving!Next
  <2>1. CommandState[c] \in States
    BY DEF CommandState, States
  <2> QED
    BY <1>1, <2>1, CommandMoves DEF RadioCommand
<1>2. ASSUME NEW to \in States, NEW near, RequestStateChange(to, near)
      PROVE  Moving!Next
  BY <1>2, CommandMoves DEF RequestStateChange
<1>3. ASSUME up' = up, phase' = phase, up, threads' = threads, phase \in ManualStates,
             NEW target, goals' \in Sent(goals, phase, target)
      PROVE  Unseen
  <2>1. goals \in GoalMaps /\ phase \notin AutoStates
    BY <1>3, Unpacked DEF MInv, ManualStates, AutoStates, ArmStates
  <2>2. Pending' = Pending
    BY <1>3, <2>1, SentOwners, PendingIs
  <2> QED
    BY <1>3, <2>2 DEF Unseen
<1>4. ASSUME NEW move, ArmCommand(move) PROVE Unseen
  BY <1>3, <1>4 DEF ArmCommand, machine
<1>5. ASSUME NEW servo, MoveServo(servo) PROVE Unseen
  BY <1>3, <1>5 DEF MoveServo, machine
<1>6. ASSUME NEW on, Video(on) PROVE Unseen
  BY <1>6 DEF Video, entry, Unseen, Pending
<1> QED
  BY <1>1, <1>2, <1>4, <1>5, <1>6 DEF Ground

LEMMA FailureMoves == ASSUME MInv, Failure \/ RestartSystem PROVE Moving!Next
<1>1. up /\ Die
  BY DEF Failure, Crash, CrashInChange, RestartSystem
<1>2. Pending' = {} /\ ~up'
  BY <1>1 DEF Die, Pending, NoGoal, NoThread, AutoStates, ArmStates
<1>3. phase \in States /\ (lastState = phase \/ (lastState = "None" /\ phase = "Pad"))
  BY <1>1, Unpacked DEF MInv, IInv, Safe, SavedIsPhase, MachineOK
<1>4. ASSUME NEW to \in States, lastState' \in {lastState, "None", to}
      PROVE  Moving!Next
  <2>1. Moving!CrashInChange(to)
    BY <1>1, <1>2, <1>3, <1>4 DEF Moving!CrashInChange, Die, States
  <2> QED
    BY <2>1 DEF Moving!Next, Moving!Phases, States
<1>5. "Pad" \in States
  BY DEF States
<1> QED
  BY <1>4, <1>5 DEF Failure, Crash, CrashInChange, RestartSystem

LEMMA BridgeMoves == ASSUME MInv, Bridge PROVE Moving!Next \/ Unseen
<1>1. ASSUME NEW g \in GoalIds, NEW from \in {"sent", "running"}, NEW to, AnswerGoal(g, from, to)
      PROVE  Unseen
  <2>1. goals[g] \in Goals
    BY <1>1, Unpacked DEF MInv, AnswerGoal, GoalMaps, NoGoal
  <2>2. goals'[g] = [goals[g] EXCEPT !.stage = to] /\ \A h \in GoalIds \ {g} : goals'[h] = goals[h]
    BY <1>1, Unpacked DEF MInv, AnswerGoal, GoalMaps
  <2>3. \A h \in GoalIds : goals'[h].owner = goals[h].owner
    BY <2>1, <2>2 DEF Goals
  <2>4. UNCHANGED <<up, phase, lastState, threads>>
    BY <1>1 DEF AnswerGoal, machine
  <2> QED
    BY <2>3, <2>4 DEF Unseen, Pending
<1>2. ASSUME NEW g \in GoalIds, LoseGoal(g)
      PROVE  Moving!Next \/ Unseen
  <2>1. goals' = Consumed(g) /\ UNCHANGED <<up, phase, lastState, threads>>
    BY <1>2 DEF LoseGoal, machine
  <2>2. Pending' = Pending \/ Pending' = Pending \ {goals[g].owner}
    BY <2>1, ConsumedOwners, PendingIs
  <2> QED
    BY <2>1, <2>2, Fades
<1>3. CASE TakeHold
  BY <1>3 DEF TakeHold, entry, Unseen, Pending
<1> QED
  BY <1>1, <1>2, <1>3 DEF Bridge, AcceptGoal, RejectGoal, FinishGoal

(* A process comes down with no goals, and a dead one sends none.          *)
LEMMA StaysIdle == ASSUME MInv, [Next]_vars PROVE DeadIsIdle'
<1>1. CASE Failure \/ RestartSystem
  BY <1>1 DEF Failure, RestartSystem, Crash, CrashInChange, Die, DeadIsIdle
<1>2. CASE Autonomous
  <2>1. ASSUME NEW t \in ThreadIds, ThreadStep(t) PROVE up /\ up' = up
    <3>1. up
      BY <2>1, ActiveThread DEF MInv, ThreadStep, AutoThreadStep, ManualThreadStep, ThreadWakes,
         LoadIndex, StoreIndex, SendPose, LoadAttempts, StoreAttempts, ClearPhoto, ClearBack, SendReturn
    <3>2. up' = up
      BY <2>1 DEF ThreadStep, AutoThreadStep, ManualThreadStep, ThreadWakes,
         LoadIndex, StoreIndex, SendPose, LoadAttempts, StoreAttempts, ClearPhoto, ClearBack, SendReturn
    <3> QED
      BY <3>1, <3>2
  <2>2. ASSUME NEW over, AccelSample(over) PROVE up /\ up' = up
    BY <2>2 DEF AccelSample
  <2>3. ArmStatus \/ FlightTimerFires => up /\ up' = up
    BY DEF ArmStatus, FlightTimerFires
  <2>4. ASSUME NEW g \in GoalIds, GoalCallback(g) PROVE up /\ up' = up
    <3>1. ASSUME NEW face, NEW near, FlipFinish(g, face, near) PROVE up /\ up' = up
      BY <3>1 DEF FlipFinish
    <3>2. ASSUME NEW near, DecideNext(g, near) PROVE up /\ up' = up
      BY <3>2 DEF DecideNext
    <3>3. ManualArmResult(g) \/ ManualLogged(g) => up /\ up' = up
      BY DEF ManualArmResult, ManualLogged
    <3> QED
      BY <2>4, <3>1, <3>2, <3>3 DEF GoalCallback, AutoCallback, ManualCallback
  <2>5. Boot => up'
    BY DEF Boot
  <2>6. up'
    BY <1>2, <2>1, <2>2, <2>3, <2>4, <2>5 DEF Autonomous, Samples
  <2> QED
    BY <2>6 DEF DeadIsIdle
<1>3. CASE Ground
  BY <1>3 DEF Ground, RadioCommand, RequestStateChange, ArmCommand, MoveServo, Video, DeadIsIdle
<1>4. ASSUME NEW g \in GoalIds, NEW from \in {"sent", "running"}, NEW to, AnswerGoal(g, from, to)
      PROVE  DeadIsIdle'
  BY <1>4 DEF AnswerGoal, MInv, DeadIsIdle, NoGoal
<1>5. ASSUME NEW g \in GoalIds, LoseGoal(g)
      PROVE  DeadIsIdle'
  BY <1>5 DEF LoseGoal, MInv, DeadIsIdle, NoGoal
<1>6. CASE TakeHold \/ UNCHANGED vars
  BY <1>6 DEF TakeHold, vars, entry, MInv, DeadIsIdle
<1> QED
  BY <1>1, <1>2, <1>3, <1>4, <1>5, <1>6 DEF Next, Bridge, AcceptGoal, RejectGoal, FinishGoal

LEMMA MissionInit == Init => MInv /\ Moving!Init
<1>1. Init => Pending = {}
  BY DEF Init, Pending, NoGoal, NoThread, AutoStates, ArmStates
<1> QED
  BY <1>1, InitHolds DEF Init, MInv, DeadIsIdle, Moving!Init

LEMMA MInvKept == MInv /\ [Next]_vars => MInv'
BY NextKeeps, StaysIdle DEF MInv

LEMMA MissionStep == ASSUME MInv, [Next]_vars PROVE Moving!Next \/ Unseen
<1>1. CASE UNCHANGED vars
  BY <1>1 DEF vars, machine, entry, Unseen, Pending
<1> QED
  BY <1>1, AutonomousMoves, GroundMoves, FailureMoves, BridgeMoves DEF Next

(* The captain keeps the mission it promises the ground: its state changes *)
(* only by a command, a boost, the end of the flight, the end of work that *)
(* was under way, or a crash while changing; and a new process resumes it. *)
THEOREM MissionHolds == Spec => MissionSpec
<1>1. Init => MInv /\ Moving!Init
  BY MissionInit
<1>2. MInv /\ [Next]_vars => MInv'
  BY MInvKept
<1>3. MInv /\ [Next]_vars =>
        [Moving!Next]_<<up, IF up THEN phase ELSE IF lastState = "None" THEN "Pad" ELSE lastState,
                        Pending>>
  BY MissionStep, UnseenStutters
<1> QED
  BY <1>1, <1>2, <1>3, PTL DEF Spec, MissionSpec, Moving!Spec
-----------------------------------------------------------------------------
(* The captain left to itself: one goal or one camera wait at a time       *)
(* carries the work on.  A wait carries it until it has sent its pose.     *)
Carries(t) == threads[t].pc \in {"sleep", "load_index", "store_index", "send_pose"}

AtRest == (\A g \in GoalIds : goals[g] = NoGoal) /\ (\A t \in ThreadIds : ~Carries(t))

OneAtWork ==
  /\ OneGoalAtATime
  /\ \A t, u \in ThreadIds : Carries(t) /\ Carries(u) => t = u
  /\ \A t \in ThreadIds, g \in GoalIds : Carries(t) => goals[g] = NoGoal

(* A wait begins where a pose is left, and nobody moves the index before it*)
(* does.                                                                   *)
OnPath(t) ==
  LET e == threads[t].of IN
  /\ e \in ArmStates
  /\ threads[t].pc \in {"sleep", "load_index"} => ~PathDone(e)
  /\ threads[t].pc = "store_index" => threads[t].reg < PathLen[e] - 1
  /\ threads[t].pc = "send_pose" => pathIndex[e] < PathLen[e]

Chained ==
  /\ OneAtWork
  /\ \A t \in ThreadIds : Carries(t) => OnPath(t)
  /\ ~up \/ phase \in PadStates \cup {"Flight"} => AtRest
  /\ up \/ lastState = "None"

ChainInv == MInv /\ (pilot = "auto" => Chained)

LEMMA GoalAlone ==
  ASSUME Chained, NEW g \in GoalIds, goals[g] # NoGoal
  PROVE  /\ up /\ phase \notin PadStates \cup {"Flight"}
         /\ \A h \in GoalIds \ {g} : goals[h] = NoGoal
         /\ \A t \in ThreadIds : ~Carries(t)
BY DEF Chained, OneAtWork, OneGoalAtATime, AtRest

LEMMA WaitAlone ==
  ASSUME Chained, NEW t \in ThreadIds, Carries(t)
  PROVE  /\ up /\ phase \notin PadStates \cup {"Flight"}
         /\ \A g \in GoalIds : goals[g] = NoGoal
         /\ \A u \in ThreadIds \ {t} : ~Carries(u)
         /\ OnPath(t)
BY DEF Chained, OneAtWork, AtRest

(* What comes after nothing is at work: nothing, or one goal.              *)
LEMMA RestStays ==
  ASSUME AtRest', up' \/ lastState' = "None" PROVE Chained'
BY DEF AtRest, Chained, OneAtWork, OneGoalAtATime

LEMMA RestSends ==
  ASSUME NEW base \in GoalMaps, \A g \in GoalIds : base[g] = NoGoal,
         NEW owner, NEW target, goals' \in Sent(base, owner, target),
         \A t \in ThreadIds : ~Carries(t)', up', phase' \notin PadStates \cup {"Flight"}
  PROVE  Chained'
<1>1. PICK g \in GoalIds :
        goals' = [base EXCEPT ![g] = [owner |-> owner, target |-> target, stage |-> "sent"]]
  BY DEF Sent
<1>2. \A h \in GoalIds \ {g} : goals'[h] = NoGoal
  BY <1>1 DEF GoalMaps
<1> QED
  BY <1>2 DEF Chained, OneAtWork, OneGoalAtATime

LEMMA RestEnters ==
  ASSUME NEW to \in States, NEW near, NEW latch,
         NEW base \in GoalMaps, \A g \in GoalIds : base[g] = NoGoal,
         \A t \in ThreadIds : ~Carries(t)', up', EnterState(to, near, latch, base)
  PROVE  Chained'
<1> DEFINE here == Settled(to, near)
<1>1. phase' = here
  BY DEF EnterState
<1>2. CASE here = "Flipping"
  <2>1. goals' \in Sent(base, here, "servo2")
    BY <1>2 DEF EnterState
  <2>2. phase' \notin PadStates \cup {"Flight"}
    BY <1>1, <1>2 DEF PadStates
  <2> HIDE DEF here
  <2> QED
    BY <2>1, <2>2, RestSends
<1>3. CASE here \in ArmStates
  <2>1. goals' \in Sent(base, here, "pose")
    BY <1>3 DEF EnterState, ArmStates
  <2>2. phase' \notin PadStates \cup {"Flight"}
    BY <1>1, <1>3 DEF PadStates, ArmStates
  <2> HIDE DEF here
  <2> QED
    BY <2>1, <2>2, RestSends
<1>4. CASE here # "Flipping" /\ here \notin ArmStates
  <2>1. goals' = base
    BY <1>4 DEF EnterState
  <2> QED
    BY <2>1, RestStays DEF AtRest
<1> QED
  BY <1>2, <1>3, <1>4

(* Steps that leave alone what is at work.                                 *)
LEMMA WorkStays ==
  ASSUME Chained, UNCHANGED <<up, phase, lastState, pathIndex>>,
         \A g \in GoalIds : goals'[g] = NoGoal <=> goals[g] = NoGoal,
         \A t \in ThreadIds : threads'[t] = threads[t] \/ (~Carries(t) /\ ~Carries(t)')
  PROVE  Chained'
<1>1. \A t \in ThreadIds : Carries(t)' => Carries(t) /\ threads'[t] = threads[t]
  BY DEF Carries
<1>2. \A t \in ThreadIds : Carries(t)' => OnPath(t)'
  BY <1>1 DEF Chained, OnPath, PathDone
<1>3. OneAtWork'
  BY <1>1 DEF Chained, OneAtWork, OneGoalAtATime
<1>4. AtRest => AtRest'
  BY <1>1 DEF AtRest
<1> QED
  BY <1>2, <1>3, <1>4 DEF Chained

LEMMA FlipChains ==
  ASSUME MInv, Chained, NEW g \in GoalIds, NEW face, NEW near, FlipFinish(g, face, near)
  PROVE  Chained'
<1> DEFINE no == FALSE
           after == Consumed(g)
<1>1. up' = up /\ threads' = threads /\ goals[g] # NoGoal
  BY DEF FlipFinish, NoGoal
<1>2. /\ up /\ phase \notin PadStates \cup {"Flight"}
      /\ \A h \in GoalIds \ {g} : goals[h] = NoGoal
      /\ \A t \in ThreadIds : ~Carries(t)
  BY <1>1, GoalAlone
<1>3. \A t \in ThreadIds : ~Carries(t)'
  BY <1>1, <1>2 DEF Carries
<1>4. after \in GoalMaps /\ \A h \in GoalIds : after[h] = NoGoal
  BY <1>2, ConsumedType, Unpacked DEF MInv, Consumed, GoalMaps
<1>5. ASSUME NEW to \in {"Unfolding", "Emergency"}, NEW close,
             ChangeStateWith(boosted, to, close, after)
      PROVE  Chained'
  <2>1. to \in States /\ EnterState(to, close, boosted, after)
    BY <1>5 DEF States, ChangeStateWith
  <2> HIDE DEF after
  <2> QED
    BY <1>1, <1>2, <1>3, <1>4, <2>1, RestEnters
<1>6. CASE attempts >= FlipLimit
  <2>1. ChangeStateWith(boosted, "Emergency", no, after)
    BY <1>6 DEF FlipFinish, ChangeState
  <2> HIDE DEF after, no
  <2> QED
    BY <1>5, <2>1
<1>7. CASE ~(attempts >= FlipLimit) /\ NextServo(face) = "none"
  <2>1. ChangeStateWith(boosted, "Unfolding", near, after)
    BY <1>7 DEF FlipFinish, ChangeState
  <2> HIDE DEF after
  <2> QED
    BY <1>5, <2>1
<1>8. CASE ~(attempts >= FlipLimit) /\ NextServo(face) # "none"
  <2>1. phase' = phase /\ goals' \in Sent(after, "Flipping", NextServo(face))
    BY <1>8 DEF FlipFinish, StartFlip, machine
  <2> HIDE DEF after
  <2> QED
    BY <1>1, <1>2, <1>3, <1>4, <2>1, RestSends
<1> QED
  BY <1>6, <1>7, <1>8

LEMMA DecideChains ==
  ASSUME MInv, Chained, NEW g \in GoalIds, NEW near, DecideNext(g, near)
  PROVE  Chained'
<1> DEFINE e == goals[g].owner
           after == Consumed(g)
<1>1. up' = up /\ e \in ArmStates /\ goals[g] # NoGoal
  BY DEF DecideNext, NoGoal
<1>2. /\ up /\ phase \notin PadStates \cup {"Flight"}
      /\ \A h \in GoalIds \ {g} : goals[h] = NoGoal
      /\ \A t \in ThreadIds : ~Carries(t)
  BY <1>1, GoalAlone
<1>3. after \in GoalMaps /\ \A h \in GoalIds : after[h] = NoGoal
  BY <1>2, ConsumedType, Unpacked DEF MInv, Consumed, GoalMaps
<1>4. ASSUME threads' = threads PROVE \A t \in ThreadIds : ~Carries(t)'
  BY <1>2, <1>4 DEF Carries
<1>5. ASSUME NEW to \in {AfterPath(e), "Emergency"}, threads' = threads,
             ChangeStateWith(boosted, to, near, after)
      PROVE  Chained'
  <2>1. to \in States /\ EnterState(to, near, boosted, after)
    BY <1>5 DEF States, ChangeStateWith, AfterPath
  <2> HIDE DEF after, e
  <2> QED
    BY <1>1, <1>2, <1>3, <1>4, <1>5, <2>1, RestEnters
<1>6. CASE PathDone(e)
  <2>1. ChangeStateWith(boosted, AfterPath(e), near, after) /\ threads' = threads
    BY <1>6 DEF DecideNext, ChangeState
  <2> HIDE DEF after, e
  <2> QED
    BY <1>5, <2>1
<1>7. CASE ~PathDone(e) /\ sideAttempts[e] > SideLimit
  <2>1. ChangeStateWith(boosted, "Emergency", near, after) /\ threads' = threads
    BY <1>7 DEF DecideNext, ChangeState
  <2> HIDE DEF after, e
  <2> QED
    BY <1>5, <2>1
<1>8. CASE ~PathDone(e) /\ ~(sideAttempts[e] > SideLimit) /\ near
  <2>1. /\ goals' = after /\ threads' \in Spawned(threads, e)
        /\ UNCHANGED <<phase, pathIndex>>
    BY <1>8 DEF DecideNext, machine
  <2>2. PICK t \in ThreadIds :
          threads' = [threads EXCEPT ![t] = [of |-> e, pc |-> "sleep", reg |-> 0]]
    BY <2>1 DEF Spawned
  <2>3. /\ threads'[t].of = e /\ threads'[t].pc = "sleep"
        /\ \A u \in ThreadIds \ {t} : threads'[u] = threads[u]
    BY <2>2, Unpacked DEF MInv, RestOK, ThreadMaps
  <2>4. ~(pathIndex'[e] >= PathLen[e] - 1)
    BY <1>8, <2>1 DEF PathDone
  <2>5. \A u \in ThreadIds \ {t} : ~Carries(u)'
    BY <1>2, <2>3 DEF Carries
  <2> HIDE DEF after, e
  <2>6. OnPath(t)'
    BY <1>1, <2>3, <2>4 DEF OnPath, PathDone
  <2>7. OneAtWork'
    BY <1>3, <2>1, <2>5 DEF OneAtWork, OneGoalAtATime
  <2> QED
    BY <1>1, <1>2, <2>1, <2>5, <2>6, <2>7 DEF Chained
<1>9. CASE ~PathDone(e) /\ ~(sideAttempts[e] > SideLimit) /\ ~near
  <2>1. goals' \in Sent(after, e, "pose") /\ threads' = threads /\ phase' = phase
    BY <1>9 DEF DecideNext, SendTarget, machine
  <2> HIDE DEF after, e
  <2> QED
    BY <1>1, <1>2, <1>3, <1>4, <2>1, RestSends
<1> QED
  BY <1>6, <1>7, <1>8, <1>9

(* A wait that goes on to its next step.                                   *)
LEMMA WaitGoesOn ==
  ASSUME Chained, NEW t \in ThreadIds, Carries(t), OnPath(t)',
         UNCHANGED <<up, phase, lastState, goals>>,
         \A u \in ThreadIds \ {t} : threads'[u] = threads[u]
  PROVE  Chained'
<1>1. /\ up /\ phase \notin PadStates \cup {"Flight"}
      /\ \A g \in GoalIds : goals[g] = NoGoal
      /\ \A u \in ThreadIds \ {t} : ~Carries(u)
  BY WaitAlone
<1>2. \A u \in ThreadIds \ {t} : ~Carries(u)'
  BY <1>1 DEF Carries
<1> QED
  BY <1>1, <1>2 DEF Chained, OneAtWork, OneGoalAtATime

(* A wait that ends, or that has sent its pose.                            *)
LEMMA WaitOver ==
  ASSUME Chained, NEW t \in ThreadIds, Carries(t), ~Carries(t)',
         \A u \in ThreadIds \ {t} : threads'[u] = threads[u]
  PROVE  \A u \in ThreadIds : ~Carries(u)'
<1>1. \A u \in ThreadIds \ {t} : ~Carries(u)
  BY WaitAlone
<1> QED
  BY <1>1 DEF Carries

LEMMA Stepped ==
  ASSUME MInv, NEW t \in ThreadIds, threads[t] # NoThread, NEW pc, NEW reg
  PROVE  /\ ToPc(t, pc, reg)[t].of = threads[t].of
         /\ ToPc(t, pc, reg)[t].pc = pc
         /\ ToPc(t, pc, reg)[t].reg = reg
         /\ \A u \in ThreadIds \ {t} : ToPc(t, pc, reg)[u] = threads[u]
         /\ Ended(t)[t] = NoThread
         /\ \A u \in ThreadIds \ {t} : Ended(t)[u] = threads[u]
<1>1. threads[t] \in Threads
  BY Unpacked DEF MInv, RestOK, ThreadMaps
<1>2. ToPc(t, pc, reg)[t] = [threads[t] EXCEPT !.pc = pc, !.reg = reg]
  BY Unpacked DEF MInv, ToPc, RestOK, ThreadMaps
<1>3. /\ ToPc(t, pc, reg)[t].of = threads[t].of /\ ToPc(t, pc, reg)[t].pc = pc
      /\ ToPc(t, pc, reg)[t].reg = reg
  BY <1>1, <1>2 DEF Threads
<1> QED
  BY <1>3, Unpacked DEF MInv, ToPc, Ended, RestOK, ThreadMaps

LEMMA WaitChains ==
  ASSUME MInv, Chained, NEW t \in ThreadIds, AutoThreadStep(t)
  PROVE  Chained'
<1> DEFINE e == threads[t].of
<1>1. up /\ threads[t] # NoThread /\ threads[t].reg \in Nat /\ Fits(e, threads[t].pc)
  BY ActiveThread DEF MInv, AutoThreadStep, ThreadWakes, LoadIndex, StoreIndex, SendPose,
       LoadAttempts, StoreAttempts
<1>2. pathIndex \in [ArmStates -> Nat] /\ PathLen \in [ArmStates -> Nat \ {0}]
  BY Unpacked, CaptainAssumption DEF MInv, EntryOK
<1>3. CASE ThreadWakes(t)
  <2>1. Carries(t) /\ UNCHANGED <<up, phase, lastState, goals, pathIndex>>
    BY <1>3 DEF ThreadWakes, Carries, machine, entry
  <2>2. /\ \A g \in GoalIds : goals[g] = NoGoal
        /\ OnPath(t)
    BY <2>1, WaitAlone
  <2>3. CASE threads' = Ended(t)
    <3>1. ~Carries(t)' /\ \A u \in ThreadIds \ {t} : threads'[u] = threads[u]
      BY <1>1, <2>3, Stepped DEF Carries, NoThread
    <3>2. AtRest'
      BY <2>1, <2>2, <3>1, WaitOver DEF AtRest
    <3> QED
      BY <1>1, <2>1, <3>2, RestStays
  <2>4. CASE threads' = ToPc(t, "load_index", 0)
    <3>1. /\ threads'[t].of = e /\ threads'[t].pc = "load_index"
          /\ \A u \in ThreadIds \ {t} : threads'[u] = threads[u]
      BY <1>1, <2>4, Stepped
    <3>2. ~PathDone(e) /\ e \in ArmStates
      BY <1>3, <2>2 DEF OnPath, ThreadWakes
    <3>3. OnPath(t)'
      BY <2>1, <3>1, <3>2 DEF OnPath, PathDone
    <3> QED
      BY <2>1, <3>1, <3>3, WaitGoesOn
  <2> QED
    BY <1>3, <2>2, <2>3, <2>4 DEF ThreadWakes, OnPath
<1>4. CASE LoadIndex(t)
  <2>1. Carries(t) /\ UNCHANGED <<up, phase, lastState, goals, pathIndex>>
    BY <1>4 DEF LoadIndex, Carries, machine, entry
  <2>2. e \in ArmStates /\ pathIndex[e] < PathLen[e] - 1
    BY <1>2, <1>4, <2>1, WaitAlone DEF LoadIndex, OnPath, PathDone
  <2>3. /\ threads'[t].of = e /\ threads'[t].pc = "store_index" /\ threads'[t].reg = pathIndex[e]
        /\ \A u \in ThreadIds \ {t} : threads'[u] = threads[u]
    BY <1>1, <1>4, Stepped DEF LoadIndex
  <2>4. OnPath(t)'
    BY <2>2, <2>3 DEF OnPath
  <2> QED
    BY <2>1, <2>3, <2>4, WaitGoesOn
<1>5. CASE StoreIndex(t)
  <2>1. Carries(t) /\ UNCHANGED <<up, phase, lastState, goals>>
        /\ pathIndex' = [pathIndex EXCEPT ![e] = threads[t].reg + 1]
    BY <1>5 DEF StoreIndex, Carries, machine
  <2>2. e \in ArmStates /\ threads[t].reg < PathLen[e] - 1
    BY <1>5, <2>1, WaitAlone DEF StoreIndex, OnPath
  <2>3. /\ threads'[t].of = e /\ threads'[t].pc = "send_pose"
        /\ \A u \in ThreadIds \ {t} : threads'[u] = threads[u]
    BY <1>1, <1>5, Stepped DEF StoreIndex
  <2>4. pathIndex'[e] < PathLen[e]
    BY <1>1, <1>2, <2>1, <2>2
  <2>5. OnPath(t)'
    BY <2>2, <2>3, <2>4 DEF OnPath
  <2> QED
    BY <2>1, <2>3, <2>5, WaitGoesOn
<1>6. ASSUME NEW near, SendPose(t, near)
      PROVE  Chained'
  <2>1. Carries(t)
    BY <1>6 DEF SendPose, Carries
  <2>2. /\ phase \notin PadStates \cup {"Flight"} /\ e \in ArmStates
        /\ \A g \in GoalIds : goals[g] = NoGoal
        /\ ~(pathIndex[e] > PathLen[e])
    BY <1>2, <1>6, <2>1, WaitAlone DEF SendPose, OnPath
  <2>3. /\ goals' \in Sent(goals, e, "pose") /\ threads' = ToPc(t, "load_attempts", 0)
        /\ phase' = phase /\ up' = up
    BY <1>6, <2>2 DEF SendPose, SendTarget, machine
  <2>4. ~Carries(t)' /\ \A u \in ThreadIds \ {t} : threads'[u] = threads[u]
    BY <1>1, <2>3, Stepped DEF Carries
  <2>5. \A u \in ThreadIds : ~Carries(u)'
    BY <2>1, <2>4, WaitOver
  <2>6. goals \in GoalMaps
    BY Unpacked DEF MInv
  <2> HIDE DEF e
  <2> QED
    BY <1>1, <2>2, <2>3, <2>5, <2>6, RestSends
<1>7. CASE LoadAttempts(t) \/ StoreAttempts(t)
  <2>1. ~Carries(t) /\ UNCHANGED <<up, phase, lastState, goals, pathIndex>>
    BY <1>7 DEF LoadAttempts, StoreAttempts, Carries, machine, entry
  <2>2. ~Carries(t)' /\ \A u \in ThreadIds \ {t} : threads'[u] = threads[u]
    <3>1. CASE LoadAttempts(t)
      BY <1>1, <3>1, Stepped DEF LoadAttempts, Carries
    <3>2. CASE StoreAttempts(t)
      BY <1>1, <3>2, Stepped DEF StoreAttempts, Carries, NoThread
    <3> QED
      BY <1>7, <3>1, <3>2
  <2> QED
    BY <2>1, <2>2, WorkStays
<1> QED
  BY <1>3, <1>4, <1>5, <1>6, <1>7 DEF AutoThreadStep

(* The steps that begin from rest: boot, boost and landing.                *)
LEMMA RestChains ==
  ASSUME MInv, Chained, Boot \/ Samples \/ FlightTimerFires
  PROVE  Chained'
<1> DEFINE on == TRUE
           no == FALSE
<1>1. goals \in GoalMaps
  BY Unpacked DEF MInv
<1>2. ASSUME AtRest, threads' = threads, up', NEW to \in States, NEW latch,
             EnterState(to, no, latch, goals)
      PROVE  Chained'
  <2>1. \A t \in ThreadIds : ~Carries(t)'
    BY <1>2 DEF AtRest, Carries
  <2> HIDE DEF no
  <2> QED
    BY <1>1, <1>2, <2>1, RestEnters DEF AtRest
<1>3. CASE Boot
  <2>1. AtRest /\ threads' = threads /\ up' /\ lastState = "None"
    BY <1>3 DEF Boot, Chained
  <2>2. EnterState("Pad", no, boosted, goals) /\ "Pad" \in States
    BY <1>3, <2>1 DEF Boot, States
  <2> HIDE DEF no
  <2> QED
    BY <1>2, <2>1, <2>2
<1>4. ASSUME NEW over, AccelSample(over)
      PROVE  Chained'
  <2>1. AtRest /\ threads' = threads /\ up /\ up' = up
    BY <1>4 DEF AccelSample, Chained
  <2>2. CASE boosted \/ over
    <3>1. EnterState("Flight", no, on, goals) /\ "Flight" \in States
      BY <1>4, <2>2 DEF AccelSample, ChangeStateWith, States
    <3> HIDE DEF no, on
    <3> QED
      BY <1>2, <2>1, <3>1
  <2>3. CASE ~(boosted \/ over)
    <3>1. UNCHANGED <<up, phase, lastState, pathIndex, goals, threads>>
      BY <1>4, <2>1, <2>3 DEF AccelSample, machine, entry
    <3> QED
      BY <3>1, WorkStays
  <2> QED
    BY <2>2, <2>3
<1>5. CASE ArmStatus
  <2>1. UNCHANGED <<up, phase, lastState, pathIndex, goals, threads>>
    BY <1>5 DEF ArmStatus, machine, entry
  <2> QED
    BY <2>1, WorkStays
<1>6. CASE FlightTimerFires
  <2>1. phase = "Flight" /\ up /\ up' = up /\ threads' = threads
    BY <1>6 DEF FlightTimerFires, MInv, IInv, Safe, TimerInFlight
  <2>2. AtRest
    BY <2>1 DEF Chained
  <2>3. EnterState("Flipping", no, boosted, goals) /\ "Flipping" \in States
    BY <1>6, <2>1 DEF FlightTimerFires, ChangeState, ChangeStateWith, States
  <2> HIDE DEF no
  <2> QED
    BY <1>2, <2>1, <2>2, <2>3
<1> QED
  BY <1>3, <1>4, <1>5, <1>6 DEF Samples

LEMMA AnswersChain == ASSUME MInv, Chained, BridgeAnswers PROVE Chained'
<1>1. ASSUME NEW g \in GoalIds, NEW from \in {"sent", "running"},
             NEW to \in {"running", "rejected", "finished"}, AnswerGoal(g, from, to)
      PROVE  Chained'
  <2>1. goals[g] \in Goals /\ goals[g] # NoGoal
    BY <1>1, Unpacked DEF MInv, AnswerGoal, GoalMaps, NoGoal
  <2>2. goals'[g] = [goals[g] EXCEPT !.stage = to] /\ \A h \in GoalIds \ {g} : goals'[h] = goals[h]
    BY <1>1, Unpacked DEF MInv, AnswerGoal, GoalMaps
  <2>3. goals'[g].stage = to
    BY <2>1, <2>2 DEF Goals
  <2>4. goals'[g] # NoGoal
    BY <2>3 DEF NoGoal
  <2>5. UNCHANGED <<up, phase, lastState, pathIndex, threads>>
    BY <1>1 DEF AnswerGoal, machine
  <2> QED
    BY <2>1, <2>2, <2>4, <2>5, WorkStays
<1>2. CASE TakeHold
  <2>1. UNCHANGED <<up, phase, lastState, pathIndex, goals, threads>>
    BY <1>2 DEF TakeHold, entry
  <2> QED
    BY <2>1, WorkStays
<1> QED
  BY <1>1, <1>2 DEF BridgeAnswers, AcceptGoal, RejectGoal, FinishGoal

LEMMA AutoChains == ASSUME MInv, Chained, AutoNext PROVE Chained'
BY RestChains, FlipChains, DecideChains, WaitChains, AnswersChain DEF AutoNext, AutoCallback

LEMMA PilotsAreCaptains == MCNext => Next
<1>1. AutoNext => Next
  BY DEF AutoNext, Next, Autonomous, GoalCallback, ThreadStep, BridgeAnswers, Bridge
<1>2. HandNext => Next
  BY DEF HandNext, Next, Autonomous, BridgeAnswers, Bridge
<1>3. HandCommand => Ground
  BY DEF HandCommand, Ground, CommandState, States, Nearness
<1> QED
  BY <1>1, <1>2, <1>3 DEF MCNext, Next

LEMMA ChainInit == MCInit => ChainInv
<1>1. Init => AtRest /\ lastState = "None"
  BY DEF Init, AtRest, Carries, NoThread
<1>2. AtRest /\ lastState = "None" => Chained
  BY DEF AtRest, Chained, OneAtWork, OneGoalAtATime
<1> QED
  BY <1>1, <1>2, MissionInit DEF MCInit, ChainInv

LEMMA ChainStep == ChainInv /\ [MCNext]_<<vars, pilot, grounds>> => ChainInv'
<1> SUFFICES ASSUME ChainInv, [MCNext]_<<vars, pilot, grounds>> PROVE ChainInv'
  OBVIOUS
<1>1. MInv'
  BY MInvKept, PilotsAreCaptains DEF ChainInv
<1>2. ASSUME pilot' = "auto" PROVE Chained'
  <2>1. pilot = "auto" /\ Chained /\ (AutoNext \/ UNCHANGED vars)
    BY <1>2 DEF MCNext, ChainInv
  <2>2. CASE UNCHANGED vars
    <3>1. UNCHANGED <<up, phase, lastState, pathIndex, goals, threads>>
      BY <2>2 DEF vars, machine, entry
    <3> QED
      BY <2>1, <3>1, WorkStays
  <2> QED
    BY <2>1, <2>2, AutoChains DEF ChainInv
<1> QED
  BY <1>1, <1>2 DEF ChainInv

(* Left to itself the captain has one goal in flight at a time, and sends  *)
(* no pose that is not on the path, although the guard before it reads the *)
(* path lets one past the end through.                                     *)
THEOREM ChainKept == MCSpec => []ChainInOrder
<1>1. ChainInv => ChainInOrder
  <2>1. \A t \in ThreadIds : threads[t].pc = "send_pose" => Carries(t)
    BY DEF Carries
  <2> QED
    BY <2>1 DEF ChainInv, Chained, OneAtWork, OnPath, ChainInOrder, PoseOnPath
<1> QED
  BY <1>1, ChainInit, ChainStep, PTL DEF MCSpec
=============================================================================
