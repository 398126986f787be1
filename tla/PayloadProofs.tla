---------------------------- MODULE PayloadProofs ----------------------------
(***************************************************************************)
(* Theorems about the captain and the bridge together, for any number of   *)
(* goals and threads, and any mixture of ground commands and crashes.      *)
(*                                                                         *)
(* The captain's and the bridge's own invariants go on to hold; what the   *)
(* two know of each other is in the handles of the goals and in the last   *)
(* hold request under way.                                                 *)
(***************************************************************************)
EXTENDS CaptainProofs, MCPayload

BP == INSTANCE StmBridgeProofs WITH Clients <- GoalIds \cup {"orphan"}

BInv == B!BridgeTypeOK /\ B!MotionHasGoal /\ B!HoldIsKnown /\ B!ArmGoalKept

(* No goal is kept in both handles.                                        *)
OneHandle == handle.flip = handle.arm => handle.flip \notin GoalIds

(* The last hold request under way is the last one asked for; when none    *)
(* is, the doors are held only if that was a hold.                         *)
HoldTold ==
  IF holdReqs = <<>> THEN mode = "holding" => holdAsked
  ELSE holdReqs[Len(holdReqs)] = holdAsked

PInv == IInv /\ BInv /\ OneHandle /\ GoalsAgree /\ HoldTold
-----------------------------------------------------------------------------
(* BP and B are the same instance of StmBridge.                            *)
LEMMA SameInv == BP!BridgeInv <=> BInv
BY DEF BInv, BP!BridgeInv, BP!BridgeTypeOK, BP!MotionHasGoal, BP!HoldIsKnown, BP!ArmGoalKept,
   B!BridgeTypeOK, B!MotionHasGoal, B!HoldIsKnown, B!ArmGoalKept, BP!Working, B!Working,
   BP!Server, B!Server, BP!Motions, B!Motions, BP!StmStates, B!StmStates, BP!Doors, B!Doors

LEMMA SameNext == B!BridgeNext => BP!BridgeNext
BY DEF BP!BridgeNext, B!BridgeNext, BP!AcceptArm, B!AcceptArm, BP!AcceptFlip, B!AcceptFlip,
   BP!ServoIds, B!ServoIds, BP!Known, B!Known, BP!HoldShut, B!HoldShut, BP!JogMotor, B!JogMotor,
   BP!TickFinishes, B!TickFinishes, BP!TickCancels, B!TickCancels, BP!TimePasses, B!TimePasses,
   BP!MotionEnds, B!MotionEnds, BP!BridgeRestart, B!BridgeRestart, BP!Over, B!Over,
   BP!Overtime, B!Overtime, BP!Dropped, B!Dropped,
   BP!Working, B!Working, BP!Server, B!Server, BP!Motions, B!Motions,
   BP!StmStates, B!StmStates, BP!Doors, B!Doors, BP!bridge, B!bridge

LEMMA BInvStep == BInv /\ (B!BridgeNext \/ UNCHANGED bridgeVars) => BInv'
<1> SUFFICES ASSUME BInv, B!BridgeNext \/ UNCHANGED bridgeVars PROVE BInv'
  OBVIOUS
<1>1. BP!BridgeInv'
  <2>1. BP!BridgeInv /\ [BP!BridgeNext]_(BP!bridge)
    BY SameInv, SameNext DEF bridgeVars, BP!bridge
  <2> QED
    BY <2>1, BP!NextInv
<1> QED
  BY <1>1, SameInv, PTL
-----------------------------------------------------------------------------
(* What a step of the captain does to its goals: it consumes at most one   *)
(* that was answered, and sends at most one.                               *)
Bases ==
  {goals} \cup {Consumed(g) : g \in {h \in GoalIds : goals[h].stage \in {"rejected", "finished"}}}

GoalsStep(base) == goals' = base \/ (\E owner, target : goals' \in Sent(base, owner, target))

(* And to the hold requests: those of a change of state, if any.           *)
HoldStep == \/ UNCHANGED <<holdReqs, holdAsked>>
            \/ \E from, to : AskHold(HoldCalls(from, to))

LEMMA EnterShape ==
  ASSUME NEW to, NEW near, NEW latch, NEW base, EnterState(to, near, latch, base)
  PROVE  GoalsStep(base)
BY DEF EnterState, GoalsStep

LEMMA ChangeShape ==
  ASSUME NEW to, NEW near, NEW latch, NEW base, ChangeStateWith(latch, to, near, base)
  PROVE  GoalsStep(base) /\ HoldStep
BY EnterShape DEF ChangeStateWith, HoldStep

LEMMA StillShape == UNCHANGED machine => HoldStep
BY DEF machine, HoldStep

Shape == HoldStep /\ \E base \in Bases : GoalsStep(base)

LEMMA Answered ==
  ASSUME NEW g \in GoalIds, GoalCallback(g)
  PROVE  goals[g].stage \in {"rejected", "finished"}
BY DEF GoalCallback, AutoCallback, ManualCallback, FlipFinish, DecideNext,
       ManualArmResult, ManualLogged

LEMMA CallbackShape ==
  ASSUME NEW g \in GoalIds, GoalCallback(g)
  PROVE  Shape
<1>1. goals[g].stage \in {"rejected", "finished"}
  BY Answered
<1>2. Consumed(g) \in Bases
  BY <1>1 DEF Bases
<1>3. HoldStep /\ GoalsStep(Consumed(g))
  <2>1. ASSUME NEW face, NEW near, FlipFinish(g, face, near)
        PROVE  HoldStep /\ GoalsStep(Consumed(g))
    BY <2>1, ChangeShape, StillShape DEF FlipFinish, ChangeState, StartFlip, GoalsStep
  <2>2. ASSUME NEW near, DecideNext(g, near)
        PROVE  HoldStep /\ GoalsStep(Consumed(g))
    BY <2>2, ChangeShape, StillShape DEF DecideNext, ChangeState, SendTarget, GoalsStep
  <2>3. CASE ManualArmResult(g) \/ ManualLogged(g)
    BY <2>3, StillShape DEF ManualArmResult, ManualLogged, GoalsStep
  <2> QED
    BY <2>1, <2>2, <2>3 DEF GoalCallback, AutoCallback, ManualCallback
<1> QED
  BY <1>2, <1>3 DEF Shape

LEMMA ThreadShape ==
  ASSUME NEW t \in ThreadIds, ThreadStep(t)
  PROVE  Shape
<1>1. HoldStep /\ GoalsStep(goals)
  <2>1. ASSUME NEW near, SendPose(t, near)
        PROVE  HoldStep /\ GoalsStep(goals)
    BY <2>1, ChangeShape, StillShape DEF SendPose, ChangeState, SendTarget, GoalsStep
  <2>2. CASE SendReturn(t)
    BY <2>2, StillShape DEF SendReturn, GoalsStep
  <2>3. CASE \/ ThreadWakes(t) \/ LoadIndex(t) \/ StoreIndex(t) \/ LoadAttempts(t)
             \/ StoreAttempts(t) \/ ClearPhoto(t) \/ ClearBack(t)
    BY <2>3, StillShape
    DEF ThreadWakes, LoadIndex, StoreIndex, LoadAttempts, StoreAttempts, ClearPhoto, ClearBack,
        GoalsStep, entry
  <2> QED
    BY <2>1, <2>2, <2>3 DEF ThreadStep, AutoThreadStep, ManualThreadStep
<1> QED
  BY <1>1 DEF Shape, Bases

LEMMA BootShape == ASSUME Boot PROVE Shape
<1>1. GoalsStep(goals) /\ HoldStep
  BY EnterShape DEF Boot, HoldStep
<1> QED
  BY <1>1 DEF Shape, Bases

LEMMA SampleShape == ASSUME Samples \/ FlightTimerFires PROVE Shape
<1>1. GoalsStep(goals) /\ HoldStep
  BY ChangeShape, StillShape
  DEF Samples, AccelSample, ArmStatus, FlightTimerFires, ChangeState, GoalsStep, entry
<1> QED
  BY <1>1 DEF Shape, Bases

LEMMA GroundShape == ASSUME Ground PROVE Shape
<1>1. GoalsStep(goals) /\ HoldStep
  <2>1. ASSUME NEW c, NEW near, RadioCommand(c, near) \/ RequestStateChange(c, near)
        PROVE  GoalsStep(goals) /\ HoldStep
    BY <2>1, ChangeShape DEF RadioCommand, RequestStateChange, ChangeState
  <2>2. ASSUME NEW x, ArmCommand(x) \/ MoveServo(x)
        PROVE  GoalsStep(goals) /\ HoldStep
    BY <2>2, StillShape DEF ArmCommand, MoveServo, GoalsStep
  <2>3. ASSUME NEW on, Video(on)
        PROVE  GoalsStep(goals) /\ HoldStep
    BY <2>3 DEF Video, GoalsStep, HoldStep, entry
  <2> QED
    BY <2>1, <2>2, <2>3 DEF Ground
<1> QED
  BY <1>1 DEF Shape, Bases

LEMMA CaptainShape == ASSUME Autonomous \/ Ground PROVE Shape
BY CallbackShape, ThreadShape, BootShape, SampleShape, GroundShape DEF Autonomous

(* No step of the captain starts, ends or forgets a goal under way.        *)
LEMMA RunningKept ==
  ASSUME goals \in GoalMaps, Shape, NEW g \in GoalIds
  PROVE  goals'[g].stage = "running" <=> goals[g].stage = "running"
<1>1. PICK base \in Bases : GoalsStep(base)
  BY DEF Shape
<1>2. base \in GoalMaps /\ (base[g].stage = "running" <=> goals[g].stage = "running")
  <2>1. CASE base = goals
    BY <2>1
  <2>2. CASE base # goals
    <3>1. PICK h \in GoalIds : base = Consumed(h) /\ goals[h].stage \in {"rejected", "finished"}
      BY <2>2 DEF Bases
    <3> QED
      BY <3>1 DEF Consumed, GoalMaps, NoGoal
  <2> QED
    BY <2>1, <2>2
<1>3. CASE goals' = base
  BY <1>2, <1>3
<1>4. ASSUME NEW owner, NEW target, goals' \in Sent(base, owner, target)
      PROVE  goals'[g].stage = "running" <=> base[g].stage = "running"
  <2>1. PICK h \in GoalIds : /\ base[h] = NoGoal
           /\ goals' = [base EXCEPT ![h] = [owner |-> owner, target |-> target, stage |-> "sent"]]
    BY <1>4 DEF Sent
  <2> QED
    BY <1>2, <2>1 DEF GoalMaps, NoGoal
<1> QED
  BY <1>1, <1>2, <1>3, <1>4 DEF GoalsStep

(* The last of the requests of a change of state is the last one asked.    *)
LEMMA HoldToldKept ==
  ASSUME HoldStep, HoldTold, holdReqs \in Seq(BOOLEAN), mode' = mode
  PROVE  HoldTold'
<1>1. CASE UNCHANGED <<holdReqs, holdAsked>>
  BY <1>1 DEF HoldTold
<1>2. ASSUME NEW from, NEW to, AskHold(HoldCalls(from, to))
      PROVE  HoldTold'
  <2> DEFINE calls == HoldCalls(from, to)
  <2>1. calls \in Seq(BOOLEAN)
    BY HoldCallsType
  <2>2. /\ holdReqs' = holdReqs \o calls
        /\ holdAsked' = IF calls = <<>> THEN holdAsked ELSE calls[Len(calls)]
    BY <1>2 DEF AskHold
  <2> HIDE DEF calls
  <2>3. CASE calls = <<>>
    <3>1. holdReqs' = holdReqs /\ holdAsked' = holdAsked
      BY <2>2, <2>3
    <3> QED
      BY <3>1 DEF HoldTold
  <2>4. CASE calls # <<>>
    <3>1. /\ Len(calls) > 0 /\ Len(holdReqs') = Len(holdReqs) + Len(calls)
          /\ Len(calls) \in Nat /\ Len(holdReqs) \in Nat
      BY <2>1, <2>2, <2>4, EmptySeq, LenProperties, ConcatProperties
    <3>2. holdReqs'[Len(holdReqs')] = calls[Len(calls)]
      BY <2>1, <2>2, <3>1, ConcatProperties
    <3>3. holdReqs' # <<>>
      BY <3>1, EmptySeq
    <3> QED
      BY <2>2, <2>4, <3>2, <3>3 DEF HoldTold
  <2> QED
    BY <2>3, <2>4
<1> QED
  BY <1>1, <1>2 DEF HoldStep
-----------------------------------------------------------------------------
LEMMA Parts ==
  PInv => /\ IInv /\ BInv /\ OneHandle /\ GoalsAgree /\ HoldTold
          /\ goals \in GoalMaps /\ holdReqs \in Seq(BOOLEAN)
          /\ handle \in [flip : GoalIds \cup {"orphan", "none"}, arm : GoalIds \cup {"orphan", "none"}]
<1> SUFFICES ASSUME PInv PROVE goals \in GoalMaps /\ holdReqs \in Seq(BOOLEAN)
      /\ handle \in [flip : GoalIds \cup {"orphan", "none"}, arm : GoalIds \cup {"orphan", "none"}]
  BY DEF PInv
<1>1. goals \in GoalMaps /\ holdReqs \in Seq(BOOLEAN)
  BY Unpacked DEF PInv, MachineOK
<1>2. handle \in [flip : GoalIds \cup {"orphan"} \cup {"none"}, arm : GoalIds \cup {"orphan"} \cup {"none"}]
  BY DEF PInv, BInv, B!BridgeTypeOK
<1> QED
  BY <1>1, <1>2

(* The captain's own steps, and the ground's.                              *)
LEMMA CaptainPart ==
  ASSUME PInv, Autonomous \/ Ground, UNCHANGED bridgeVars
  PROVE  PInv'
<1>1. IInv'
  BY AutonomousKeeps, GroundKeeps, Parts
<1>2. BInv'
  BY BInvStep, Parts
<1>3. OneHandle'
  BY Parts DEF OneHandle, bridgeVars
<1>4. GoalsAgree'
  BY Parts, CaptainShape, RunningKept DEF GoalsAgree, bridgeVars
<1>5. HoldTold'
  BY Parts, CaptainShape, HoldToldKept DEF Shape, bridgeVars
<1> QED
  BY <1>1, <1>2, <1>3, <1>4, <1>5 DEF PInv

(* A flip goal takes the place of the one before it, which ends.           *)
LEMMA FlipPart ==
  ASSUME PInv, NEW g \in GoalIds, goals[g].stage = "sent", AcceptsFlip(g)
  PROVE  PInv'
<1>1. g \notin {handle.flip, handle.arm, "none"}
  BY Parts, PayloadAssumption DEF GoalsAgree
<1>2. /\ B!AcceptFlip(g, goals[g].target) /\ goals[g].target \in Servos
      /\ goals' = [h \in GoalIds |->
                     IF h = g THEN [goals[h] EXCEPT !.stage = "running"]
                     ELSE IF h = handle.flip THEN [goals[h] EXCEPT !.stage = "finished"]
                     ELSE goals[h]]
      /\ UNCHANGED <<up, machine, boosted, opened, pathIndex, sideAttempts,
                     armKnown, attempts, flags, threads>>
  BY DEF AcceptsFlip
<1>3. goals' \in GoalMaps
  <2>1. \A h \in GoalIds : goals[h].stage \in {"sent", "running"} => goals[h] \in Goals
    BY Parts DEF GoalMaps, NoGoal
  <2>2. handle.flip \in GoalIds => goals[handle.flip].stage = "running"
    BY Parts DEF GoalsAgree
  <2>3. ASSUME NEW h \in GoalIds, NEW to \in {"running", "finished"}, goals[h] \in Goals
        PROVE  [goals[h] EXCEPT !.stage = to] \in Goals
    BY <2>3 DEF Goals
  <2>4. \A h \in GoalIds : goals[h] \in Goals \cup {NoGoal}
    BY Parts DEF GoalMaps
  <2>5. \A h \in GoalIds : goals'[h] \in Goals \cup {NoGoal}
    BY <1>2, <2>1, <2>2, <2>3, <2>4
  <2> QED
    BY <1>2, <2>5 DEF GoalMaps
<1>4. IInv'
  BY <1>2, <1>3, Parts, GoalsOnly
<1>5. BInv'
  <2>1. goals[g].target \in B!ServoIds
    BY <1>2 DEF Servos, Doors, B!ServoIds, B!Doors
  <2>2. B!BridgeNext
    BY <1>1, <1>2, <2>1 DEF B!BridgeNext
  <2> QED
    BY <2>2, Parts, BInvStep
<1>6. handle' = [handle EXCEPT !.flip = g] /\ mode = "idle" /\ mode' # "holding"
  BY <1>2 DEF B!AcceptFlip, B!Doors
<1>7. handle.arm = "none"
  BY <1>6, Parts DEF BInv, B!ArmGoalKept
<1>8. handle'.flip = g /\ handle'.arm = "none"
  BY <1>6, <1>7, Parts
<1>9. OneHandle'
  BY <1>8, PayloadAssumption DEF OneHandle
<1>10. GoalsAgree'
  <2>1. ASSUME NEW h \in GoalIds
        PROVE  goals'[h].stage = "running" <=> h = g
    <3>1. h = handle.flip <=> goals[h].stage = "running"
      BY <1>7, Parts, PayloadAssumption DEF GoalsAgree
    <3>2. goals[h] \in Goals \cup {NoGoal}
      BY Parts DEF GoalMaps
    <3>3. goals[h].stage = "running" => goals[h] \in Goals
      BY <3>2 DEF NoGoal
    <3>4. CASE h = g
      <4>1. goals[h] \in Goals
        BY <3>2, <3>4 DEF NoGoal
      <4> QED
        BY <1>2, <3>4, <4>1 DEF Goals
    <3>5. CASE h # g /\ h = handle.flip
      <4>1. goals'[h] = [goals[h] EXCEPT !.stage = "finished"]
        BY <1>2, <3>5
      <4>2. goals'[h].stage = "finished"
        BY <3>1, <3>3, <3>5, <4>1 DEF Goals
      <4> QED
        BY <3>5, <4>2
    <3>6. CASE h # g /\ h # handle.flip
      BY <1>2, <3>1, <3>6
    <3> QED
      BY <3>4, <3>5, <3>6
  <2> QED
    BY <1>8, <2>1, PayloadAssumption DEF GoalsAgree
<1>11. HoldTold'
  BY <1>2, <1>6, Parts DEF HoldTold, machine
<1> QED
  BY <1>4, <1>5, <1>9, <1>10, <1>11 DEF PInv

LEMMA ArmPart ==
  ASSUME PInv, NEW g \in GoalIds, AcceptGoal(g), B!AcceptArm(g)
  PROVE  PInv'
<1>1. IInv'
  BY Parts, AnswerKeeps DEF AcceptGoal
<1>2. /\ goals[g].stage = "sent" /\ goals' = [goals EXCEPT ![g].stage = "running"]
      /\ UNCHANGED <<holdReqs, holdAsked>>
  BY DEF AcceptGoal, AnswerGoal, machine
<1>3. g \notin {handle.flip, handle.arm, "none"}
  BY <1>2, Parts, PayloadAssumption DEF GoalsAgree
<1>4. BInv'
  <2>1. B!BridgeNext
    BY <1>3 DEF B!BridgeNext
  <2> QED
    BY <2>1, Parts, BInvStep
<1>5. handle' = [handle EXCEPT !.arm = g] /\ mode = "idle" /\ mode' = "arm"
  BY DEF B!AcceptArm
<1>6. handle.arm = "none"
  BY <1>5, Parts DEF BInv, B!ArmGoalKept
<1>7. handle'.flip = handle.flip /\ handle'.arm = g
  BY <1>5, Parts
<1>8. OneHandle'
  BY <1>3, <1>7 DEF OneHandle
<1>9. GoalsAgree'
  <2>1. ASSUME NEW h \in GoalIds
        PROVE  goals'[h].stage = "running" <=> h = g \/ goals[h].stage = "running"
    BY <1>2, Parts DEF GoalMaps, Goals, NoGoal
  <2> QED
    BY <1>6, <1>7, <2>1, Parts, PayloadAssumption DEF GoalsAgree
<1>10. HoldTold'
  BY <1>2, <1>5, Parts DEF HoldTold
<1> QED
  BY <1>1, <1>4, <1>8, <1>9, <1>10 DEF PInv

LEMMA RejectPart ==
  ASSUME PInv, NEW g \in GoalIds, RejectGoal(g), B!Reject
  PROVE  PInv'
<1>1. IInv'
  BY Parts, AnswerKeeps DEF RejectGoal
<1>2. /\ goals[g].stage = "sent" /\ goals' = [goals EXCEPT ![g].stage = "rejected"]
      /\ UNCHANGED <<holdReqs, holdAsked>>
  BY DEF RejectGoal, AnswerGoal, machine
<1>3. UNCHANGED bridgeVars
  BY DEF B!Reject, B!bridge, bridgeVars
<1>4. BInv'
  BY <1>3, Parts, BInvStep
<1>5. \A h \in GoalIds : goals'[h].stage = "running" <=> goals[h].stage = "running"
  BY <1>2, Parts DEF GoalMaps, Goals, NoGoal
<1> QED
  BY <1>1, <1>2, <1>3, <1>4, <1>5, Parts DEF PInv, OneHandle, GoalsAgree, HoldTold, bridgeVars

(* Once served, the last request is what the doors do.                     *)
LEMMA HoldPart == ASSUME PInv, ServesHold PROVE PInv'
<1>1. IInv'
  BY Parts, TakeHoldKeeps DEF ServesHold
<1>2. /\ holdReqs # <<>> /\ holdReqs' = Tail(holdReqs) /\ holdAsked' = holdAsked
      /\ goals' = goals /\ B!HoldShut(Head(holdReqs))
  BY DEF ServesHold, TakeHold, entry
<1>3. Head(holdReqs) \in BOOLEAN
  BY <1>2, Parts, HeadTailProperties
<1>4. BInv'
  <2>1. B!BridgeNext
    BY <1>2, <1>3 DEF B!BridgeNext
  <2> QED
    BY <2>1, Parts, BInvStep
<1>5. handle' = handle
  BY <1>2 DEF B!HoldShut
<1>6. OneHandle' /\ GoalsAgree'
  BY <1>2, <1>5, Parts DEF OneHandle, GoalsAgree
<1>7. HoldTold'
  <2>1. /\ Len(holdReqs) \in Nat \ {0} /\ Len(Tail(holdReqs)) = Len(holdReqs) - 1
        /\ Tail(holdReqs) \in Seq(BOOLEAN)
        /\ Tail(holdReqs) # <<>> =>
             Tail(holdReqs)[Len(holdReqs) - 1] = holdReqs[Len(holdReqs)]
    BY <1>2, Parts, HeadTailProperties, LenProperties, EmptySeq
  <2>2. CASE Tail(holdReqs) # <<>>
    BY <1>2, <2>1, <2>2, Parts DEF HoldTold
  <2>3. CASE Tail(holdReqs) = <<>>
    <3>1. Len(holdReqs) = 1
      <4> DEFINE rest == Tail(holdReqs)
      <4>1. rest \in Seq(BOOLEAN) /\ Len(rest) = Len(holdReqs) - 1 /\ Len(holdReqs) \in Nat
        BY <2>1
      <4>2. rest = <<>>
        BY <2>3
      <4> HIDE DEF rest
      <4>3. Len(rest) = 0
        BY <4>2
      <4> QED
        BY <4>1, <4>3
    <3>2. Head(holdReqs) = holdAsked
      BY <1>2, <3>1, Parts DEF HoldTold
    <3>3. mode' = "holding" => Head(holdReqs)
      BY <1>2, <1>3 DEF B!HoldShut
    <3> QED
      BY <1>2, <2>3, <3>2, <3>3 DEF HoldTold
  <2> QED
    BY <2>2, <2>3
<1> QED
  BY <1>1, <1>4, <1>6, <1>7 DEF PInv

LEMMA SettlesPart == ASSUME PInv, NEW seen \in B!StmStates, SettlesGoal(seen) PROVE PInv'
<1> DEFINE g == handle[B!Server]
<1>1. B!TickFinishes(seen) /\ (IF g \in GoalIds THEN FinishGoal(g) ELSE UNCHANGED vars)
  BY DEF SettlesGoal
<1>2. IInv'
  BY <1>1, Parts, AnswerKeeps, StutterKeeps DEF FinishGoal
<1>3. BInv'
  <2>1. B!BridgeNext
    BY <1>1 DEF B!BridgeNext
  <2> QED
    BY <2>1, Parts, BInvStep
<1>4. /\ mode' = "idle" /\ handle' = [handle EXCEPT ![B!Server] = "none"]
      /\ B!Server = IF mode = "arm" THEN "arm" ELSE "flip"
  BY <1>1 DEF B!TickFinishes, B!Dropped, B!Server
<1>5. mode # "arm" => handle.arm = "none"
  BY Parts DEF BInv, B!ArmGoalKept
<1>6. OneHandle'
  BY <1>4, <1>5, Parts, PayloadAssumption DEF OneHandle
<1>7. GoalsAgree'
  <2>1. \A h \in GoalIds : h \in {handle'.flip, handle'.arm} <=>
                             h \in {handle.flip, handle.arm} /\ h # g
    BY <1>4, <1>5, Parts, PayloadAssumption DEF OneHandle
  <2>2. \A h \in GoalIds : goals'[h].stage = "running" <=> goals[h].stage = "running" /\ h # g
    <3>1. CASE g \in GoalIds
      <4>1. goals' = [goals EXCEPT ![g].stage = "finished"]
        BY <1>1, <3>1 DEF FinishGoal, AnswerGoal
      <4> HIDE DEF g
      <4> QED
        BY <3>1, <4>1, Parts DEF GoalMaps, Goals, NoGoal
    <3>2. CASE g \notin GoalIds
      BY <1>1, <3>2 DEF vars, entry
    <3> QED
      BY <3>1, <3>2
  <2> HIDE DEF g
  <2> QED
    BY <2>1, <2>2, Parts DEF GoalsAgree
<1>8. HoldTold'
  <2>1. UNCHANGED <<holdReqs, holdAsked>>
    BY <1>1 DEF FinishGoal, AnswerGoal, vars, machine
  <2> QED
    BY <1>4, <2>1, Parts DEF HoldTold
<1> QED
  BY <1>2, <1>3, <1>6, <1>7, <1>8 DEF PInv

(* Time, the board and its jogs are nothing to the captain.                *)
LEMMA BoardPart ==
  ASSUME PInv, UNCHANGED vars,
         B!TimePasses \/ B!MotionEnds \/ B!JogMotor \/ UNCHANGED bridgeVars
  PROVE  PInv'
<1>1. IInv'
  BY Parts, StutterKeeps
<1>2. BInv'
  BY Parts, BInvStep DEF B!BridgeNext
<1>3. mode' = mode /\ handle' = handle
  BY DEF B!TimePasses, B!MotionEnds, B!JogMotor, bridgeVars
<1>4. UNCHANGED <<goals, holdReqs, holdAsked>>
  BY DEF vars, entry, machine
<1> QED
  BY <1>1, <1>2, <1>3, <1>4, Parts DEF PInv, OneHandle, GoalsAgree, HoldTold

(* The bridge goes on for a captain that is gone.                          *)
LEMMA CaptainCrashPart == ASSUME PInv, CaptainCrash PROVE PInv'
<1>1. IInv'
  BY Parts, FailureKeeps DEF CaptainCrash
<1>2. /\ handle' = [s \in {"flip", "arm"} |-> Orphaned(handle[s])]
      /\ UNCHANGED <<mode, clock, stm>>
  BY DEF CaptainCrash
<1>3. Orphaned(handle.flip) \in {"orphan", "none"} /\ Orphaned(handle.arm) \in {"orphan", "none"}
      /\ (Orphaned(handle.flip) = "none" <=> handle.flip = "none")
      /\ (Orphaned(handle.arm) = "none" <=> handle.arm = "none")
  BY Parts, PayloadAssumption DEF Orphaned
<1>4. handle' \in [flip : {"orphan", "none"}, arm : {"orphan", "none"}]
      /\ handle'.flip = Orphaned(handle.flip) /\ handle'.arm = Orphaned(handle.arm)
  BY <1>2, <1>3
<1>5. BInv'
  <2>1. BInv
    BY Parts
  <2>2. B!BridgeTypeOK'
    BY <1>2, <1>4, <2>1 DEF BInv, B!BridgeTypeOK, B!Motions, B!StmStates, B!Doors
  <2>3. B!MotionHasGoal' /\ B!ArmGoalKept' /\ B!HoldIsKnown'
    BY <1>2, <1>3, <1>4, <2>1
    DEF BInv, B!MotionHasGoal, B!ArmGoalKept, B!HoldIsKnown, B!Working, B!Motions, B!Server
  <2> QED
    BY <2>2, <2>3 DEF BInv
<1>6. goals' = [g \in GoalIds |-> NoGoal]
  BY DEF CaptainCrash, Failure, Crash, CrashInChange, Die
<1>7. OneHandle' /\ GoalsAgree'
  BY <1>4, <1>6, PayloadAssumption DEF OneHandle, GoalsAgree, NoGoal
<1>8. HoldTold'
  <2>1. HoldStep
    <3>1. CASE Crash
      BY <3>1 DEF Crash, HoldStep
    <3>2. ASSUME NEW to, CrashInChange(to)
          PROVE  HoldStep
      <4>1. AskHold(HoldCalls(phase, "Pad"))
        BY <3>2 DEF CrashInChange, HoldCalls
      <4> QED
        BY <4>1 DEF HoldStep
    <3> QED
      BY <3>1, <3>2 DEF CaptainCrash, Failure
  <2> QED
    BY <1>2, <2>1, Parts, HoldToldKept
<1> QED
  BY <1>1, <1>5, <1>7, <1>8 DEF PInv

LEMMA BridgeCrashPart == ASSUME PInv, BridgeCrash PROVE PInv'
<1>1. /\ goals' = [g \in GoalIds |->
                     IF goals[g].stage \in {"sent", "running"} THEN NoGoal ELSE goals[g]]
      /\ holdReqs' = <<>> /\ B!BridgeRestart
      /\ UNCHANGED <<up, phase, lastState, flightTimer, heartbeat, runcam, takeoff,
                     holdAsked, boosted, opened, pathIndex, sideAttempts,
                     armKnown, attempts, flags, threads>>
  BY DEF BridgeCrash
<1>2. IInv'
  <2>1. goals' \in GoalMaps
    BY <1>1, Parts DEF GoalMaps
  <2>2. holdReqs' \in Seq(BOOLEAN)
    BY <1>1
  <2>3. MachineOK' /\ EntryOK' /\ RestOK'
    BY <1>1, <2>1, <2>2, Parts, Unpacked DEF MachineOK, EntryOK, RestOK, flags
  <2>4. Safe' /\ DownIsBlank'
    BY <1>1, Parts DEF IInv, Safe, TimerInFlight, SavedIsPhase, HoldFollowsFlight, PadRearmed,
                       DownIsBlank
  <2> QED
    BY <2>3, <2>4, TypePartsNext DEF IInv
<1>3. BInv'
  <2>1. B!BridgeNext
    BY <1>1 DEF B!BridgeNext
  <2> QED
    BY <2>1, Parts, BInvStep
<1>4. handle' = [flip |-> "none", arm |-> "none"] /\ mode' = "idle"
  BY <1>1 DEF B!BridgeRestart
<1>5. \A g \in GoalIds : goals'[g].stage # "running"
  BY <1>1, Parts DEF GoalMaps, NoGoal
<1> QED
  BY <1>1, <1>2, <1>3, <1>4, <1>5, PayloadAssumption DEF PInv, OneHandle, GoalsAgree, HoldTold

LEMMA StackPart == ASSUME PInv, StackRestart PROVE PInv'
<1>1. IInv'
  BY Parts, FailureKeeps DEF StackRestart
<1>2. BInv'
  <2>1. B!BridgeNext
    BY DEF StackRestart, B!BridgeNext
  <2> QED
    BY <2>1, Parts, BInvStep
<1>3. /\ handle' = [flip |-> "none", arm |-> "none"] /\ mode' = "idle"
      /\ goals' = [g \in GoalIds |-> NoGoal] /\ holdReqs' = <<>>
  BY DEF StackRestart, RestartSystem, Die, B!BridgeRestart
<1> QED
  BY <1>1, <1>2, <1>3, PayloadAssumption DEF PInv, OneHandle, GoalsAgree, HoldTold, NoGoal
-----------------------------------------------------------------------------
LEMMA AnswersPart == ASSUME PInv, NEW g \in GoalIds, AnswersGoal(g) PROVE PInv'
BY FlipPart, ArmPart, RejectPart DEF AnswersGoal, Refuses

LEMMA InitPart == PayloadInit => PInv
<1> SUFFICES ASSUME PayloadInit PROVE PInv
  OBVIOUS
<1>1. IInv
  BY InitHolds DEF PayloadInit
<1>2. BInv
  <2>1. BP!BridgeInit
    BY DEF PayloadInit, B!BridgeInit, BP!BridgeInit
  <2> QED
    BY <2>1, BP!InitInv, SameInv
<1>3. /\ handle = [flip |-> "none", arm |-> "none"] /\ mode = "idle"
      /\ goals = [g \in GoalIds |-> NoGoal] /\ holdReqs = <<>>
  BY DEF PayloadInit, Init, B!BridgeInit
<1> QED
  BY <1>1, <1>2, <1>3, PayloadAssumption DEF PInv, OneHandle, GoalsAgree, HoldTold, NoGoal

LEMMA NextPart == PInv /\ [PayloadNext]_pvars => PInv'
<1> SUFFICES ASSUME PInv, [PayloadNext]_pvars PROVE PInv'
  OBVIOUS
<1>1. CASE CaptainStep(Autonomous) \/ CaptainStep(Ground)
  BY <1>1, CaptainPart DEF CaptainStep
<1>2. CASE BridgeStep
  BY <1>2, AnswersPart, HoldPart, SettlesPart, BoardPart DEF BridgeStep, BridgeClock
<1>3. CASE Jogs \/ UNCHANGED pvars
  BY <1>3, BoardPart DEF Jogs, pvars
<1> QED
  BY <1>1, <1>2, <1>3, StackPart, CaptainCrashPart, BridgeCrashPart DEF PayloadNext, NominalNext

(* The captain and the bridge keep their own invariants together, and the  *)
(* ties between them: whatever is commanded and whatever crashes.          *)
THEOREM PayloadInvariant == PayloadSpec => []PInv
BY InitPart, NextPart, PTL DEF PayloadSpec

(* Only doors count as swung or missed, whatever servo id the ground asks  *)
(* for.                                                                    *)
OnlyDoors == swung \subseteq Doors /\ missed \subseteq Doors

LEMMA SwungPart == OnlyDoors /\ [PayloadNext]_pvars => OnlyDoors'
<1> SUFFICES ASSUME OnlyDoors, [PayloadNext]_pvars PROVE OnlyDoors'
  OBVIOUS
<1> USE DEF OnlyDoors
<1>1. ASSUME NEW servo PROVE B!Known(servo) \in Doors
  BY DEF B!Known, B!Doors, Doors
<1>2. CASE \E g \in GoalIds : AcceptsFlip(g)
  BY <1>1, <1>2 DEF AcceptsFlip
<1>3. CASE UNCHANGED tale
  BY <1>3 DEF tale
<1>4. CASE \E g \in GoalIds : Refuses(g)
  BY <1>4 DEF Refuses
<1>5. CASE swung' = {} /\ missed' = {}
  BY <1>5
<1> QED
  BY <1>2, <1>3, <1>4, <1>5
  DEF PayloadNext, NominalNext, CaptainStep, BridgeStep, AnswersGoal, ServesHold, SettlesGoal,
      BridgeClock, Jogs, StackRestart, CaptainCrash, BridgeCrash, pvars

(* Both components keep their types when they run together.                *)
THEOREM PayloadTypes == PayloadSpec => []PayloadTypeOK
<1>1. PayloadInit => OnlyDoors
  BY DEF PayloadInit, OnlyDoors
<1>2. PayloadSpec => []OnlyDoors
  BY <1>1, SwungPart, PTL DEF PayloadSpec
<1>3. PInv /\ OnlyDoors => PayloadTypeOK
  BY DEF OnlyDoors, PInv, IInv, BInv, PayloadTypeOK
<1> QED
  BY <1>2, <1>3, PayloadInvariant, PTL

(* The captain has a goal running exactly while the bridge keeps its       *)
(* handle: no result is ever awaited from a bridge that forgot the goal,   *)
(* and no goal of a living captain is worked at that it takes for settled. *)
THEOREM GoalsAgreeAlways == PayloadSpec => []GoalsAgree
<1>1. PInv => GoalsAgree
  BY DEF PInv
<1> QED
  BY <1>1, PayloadInvariant, PTL

(* Out of Flight the doors are free once the requests have arrived.        *)
THEOREM NeverStuck == PayloadSpec => []NeverStuckHeld
<1>1. PInv => NeverStuckHeld
  BY DEF PInv, IInv, Safe, HoldFollowsFlight, HoldTold, NeverStuckHeld
<1> QED
  BY <1>1, PayloadInvariant, PTL
-----------------------------------------------------------------------------
(* As long as nothing disturbs: the captain comes to Flight from the pad   *)
(* with nothing under way, to Flipping from Flight, and to neither again;  *)
(* and it has one flip at a time, refused only ahead of the release.       *)
Still == (\A g \in GoalIds : goals[g] = NoGoal) /\ (\A t \in ThreadIds : threads[t] = NoThread)

OnPad ==
  ~up \/ phase \in PadStates =>
    Still /\ mode = "idle" /\ holdReqs = <<>> /\ (up \/ lastState = "None")

InFlight ==
  up /\ phase = "Flight" =>
    /\ Still
    /\ \/ holdReqs = <<TRUE>> /\ mode = "idle"
       \/ holdReqs = <<>> /\ mode = "holding"

(* The doors counted as opened have been swung or missed, but for the one  *)
(* under way.                                                              *)
Swings(g) ==
  /\ \A h \in GoalIds \ {g} : goals[h] = NoGoal
  /\ goals[g].owner = "Flipping" /\ goals[g].target \in Doors
  /\ opened \subseteq swung \cup missed \cup {goals[g].target}
  /\ \/ goals[g].stage = "sent" /\ mode \in {"idle", "holding"}
     \/ goals[g].stage = "rejected" /\ goals[g].target \in missed /\ mode \in {"idle", "holding"}
     \/ goals[g].stage = "running" /\ goals[g].target \in swung /\ mode \in Doors
     \/ goals[g].stage = "finished" /\ goals[g].target \in swung /\ mode \in {"idle", "holding"}

InFlipping ==
  up /\ phase = "Flipping" =>
    (\A t \in ThreadIds : threads[t] = NoThread) /\ (\E g \in GoalIds : Swings(g))

Undisturbed == OnPad /\ InFlight /\ InFlipping

(* No answer and no thread leads back to the pad, to Flight or to Flipping.*)
LEMMA GoesOn ==
  ASSUME (\E g \in GoalIds : GoalCallback(g)) \/ (\E t \in ThreadIds : ThreadStep(t))
  PROVE  /\ up' = up
         /\ \/ UNCHANGED <<phase, holdReqs, lastState>>
            \/ phase' \in {"Unfolding", "AutoCamera", "Emergency"}
<1>1. ASSUME NEW to \in {"Unfolding", "AutoCamera", "Emergency"}, NEW near, NEW latch, NEW base,
             ChangeStateWith(latch, to, near, base)
      PROVE  phase' \in {"Unfolding", "AutoCamera", "Emergency"}
  BY <1>1 DEF ChangeStateWith, EnterState, Settled
<1>2. \A e : AfterPath(e) \in {"Unfolding", "AutoCamera", "Emergency"}
  BY DEF AfterPath
<1>3. ASSUME NEW g \in GoalIds, NEW face, NEW near, FlipFinish(g, face, near)
      PROVE  up' = up /\ (\/ UNCHANGED <<phase, holdReqs, lastState>>
                          \/ phase' \in {"Unfolding", "AutoCamera", "Emergency"})
  BY <1>1, <1>3 DEF FlipFinish, ChangeState, StartFlip, machine
<1>4. ASSUME NEW g \in GoalIds, NEW near, DecideNext(g, near)
      PROVE  up' = up /\ (\/ UNCHANGED <<phase, holdReqs, lastState>>
                          \/ phase' \in {"Unfolding", "AutoCamera", "Emergency"})
  BY <1>1, <1>2, <1>4 DEF DecideNext, ChangeState, SendTarget, machine
<1>5. ASSUME NEW g \in GoalIds, ManualArmResult(g) \/ ManualLogged(g)
      PROVE  up' = up /\ UNCHANGED <<phase, holdReqs, lastState>>
  BY <1>5 DEF ManualArmResult, ManualLogged, machine
<1>6. ASSUME NEW t \in ThreadIds, NEW near, SendPose(t, near)
      PROVE  up' = up /\ (\/ UNCHANGED <<phase, holdReqs, lastState>>
                          \/ phase' \in {"Unfolding", "AutoCamera", "Emergency"})
  BY <1>1, <1>2, <1>6 DEF SendPose, ChangeState, SendTarget, machine
<1>7. ASSUME NEW t \in ThreadIds,
             \/ ThreadWakes(t) \/ LoadIndex(t) \/ StoreIndex(t) \/ LoadAttempts(t)
             \/ StoreAttempts(t) \/ ClearPhoto(t) \/ ClearBack(t) \/ SendReturn(t)
      PROVE  up' = up /\ UNCHANGED <<phase, holdReqs, lastState>>
  BY <1>7 DEF ThreadWakes, LoadIndex, StoreIndex, LoadAttempts, StoreAttempts, ClearPhoto,
              ClearBack, SendReturn, machine
<1> QED
  BY <1>3, <1>4, <1>5, <1>6, <1>7
  DEF GoalCallback, AutoCallback, ManualCallback, ThreadStep, AutoThreadStep, ManualThreadStep

(* With no goal answered and no thread there is nothing to react to.       *)
LEMMA NothingAnswered ==
  ASSUME \A g \in GoalIds : goals[g] = NoGoal
  PROVE  ~\E g \in GoalIds : GoalCallback(g)
BY Answered DEF NoGoal

LEMMA NothingSleeps ==
  ASSUME \A t \in ThreadIds : threads[t] = NoThread
  PROVE  ~\E t \in ThreadIds : ThreadStep(t)
BY DEF ThreadStep, AutoThreadStep, ManualThreadStep, ThreadWakes, LoadIndex, StoreIndex, SendPose,
       LoadAttempts, StoreAttempts, ClearPhoto, ClearBack, SendReturn, NoThread

LEMMA FromPad ==
  ASSUME PInv, Undisturbed, ~up \/ phase \in PadStates, Autonomous, UNCHANGED bridgeVars
  PROVE  Undisturbed'
<1>1. Still /\ mode = "idle" /\ mode' = "idle" /\ holdReqs = <<>> /\ (up \/ lastState = "None")
  BY DEF Undisturbed, OnPad, bridgeVars
<1>2. <<>> \o <<>> = <<>> /\ <<>> \o <<TRUE>> = <<TRUE>>
  OBVIOUS
<1>3. CASE Boot
  <2>1. /\ up' /\ EnterState("Pad", FALSE, boosted, goals) /\ AskHold(HoldCalls("Pad", "Pad"))
        /\ threads' = threads
    BY <1>1, <1>3 DEF Boot
  <2>2. phase' = "Pad" /\ goals' = goals
    BY <2>1 DEF EnterState, Settled, ArmStates
  <2>3. holdReqs' = <<>>
    BY <1>1, <1>2, <2>1 DEF AskHold, HoldCalls
  <2> QED
    BY <1>1, <2>1, <2>2, <2>3 DEF Undisturbed, OnPad, InFlight, InFlipping, PadStates, Still
<1>4. ASSUME NEW over, AccelSample(over), boosted \/ over
      PROVE  Undisturbed'
  <2>1. /\ up /\ phase \in PadStates /\ up' = up /\ threads' = threads
        /\ EnterState("Flight", FALSE, TRUE, goals) /\ AskHold(HoldCalls(phase, "Flight"))
    BY <1>4 DEF AccelSample, ChangeStateWith
  <2>2. phase' = "Flight" /\ goals' = goals
    BY <2>1 DEF EnterState, Settled, ArmStates
  <2>3. holdReqs' = <<TRUE>>
    BY <1>1, <1>2, <2>1 DEF AskHold, HoldCalls, PadStates
  <2> QED
    BY <1>1, <2>1, <2>2, <2>3 DEF Undisturbed, OnPad, InFlight, InFlipping, PadStates, Still
<1>5. ASSUME NEW over, AccelSample(over), ~(boosted \/ over)
      PROVE  UNCHANGED <<up, phase, goals, threads, holdReqs, lastState>>
  BY <1>5 DEF AccelSample, machine, entry
<1>6. ASSUME ArmStatus
      PROVE  UNCHANGED <<up, phase, goals, threads, holdReqs, lastState>>
  BY <1>6 DEF ArmStatus, machine, entry
<1>7. ~FlightTimerFires
  BY Parts DEF FlightTimerFires, IInv, Safe, TimerInFlight, PadStates
<1>8. ~(\E g \in GoalIds : GoalCallback(g)) /\ ~(\E t \in ThreadIds : ThreadStep(t))
  BY <1>1, NothingAnswered, NothingSleeps DEF Still
<1>9. ASSUME UNCHANGED <<up, phase, goals, threads, holdReqs, lastState>>
      PROVE  Undisturbed'
  <2>1. OnPad'
    BY <1>1, <1>9 DEF OnPad, Still
  <2>2. ~up' \/ phase' \in PadStates
    BY <1>9
  <2> QED
    BY <2>1, <2>2 DEF Undisturbed, InFlight, InFlipping, PadStates
<1> QED
  BY <1>3, <1>4, <1>5, <1>6, <1>7, <1>8, <1>9 DEF Autonomous, Samples

LEMMA SentAlone ==
  ASSUME NEW base \in GoalMaps, \A g \in GoalIds : base[g] = NoGoal,
         NEW owner, NEW target, goals' \in Sent(base, owner, target)
  PROVE  \E g \in GoalIds : /\ \A h \in GoalIds \ {g} : goals'[h] = NoGoal
                            /\ goals'[g] = [owner |-> owner, target |-> target, stage |-> "sent"]
<1>1. PICK g \in GoalIds :
        goals' = [base EXCEPT ![g] = [owner |-> owner, target |-> target, stage |-> "sent"]]
  BY DEF Sent
<1> QED
  BY <1>1 DEF GoalMaps

LEMMA FromFlight ==
  ASSUME PInv, Undisturbed, up, phase = "Flight", CaptainStep(Autonomous)
  PROVE  Undisturbed'
<1>1. Still /\ (\/ holdReqs = <<TRUE>> /\ mode = "idle"
                \/ holdReqs = <<>> /\ mode = "holding") /\ mode' = mode
  BY DEF Undisturbed, InFlight, CaptainStep, bridgeVars
<1>2. ~(\E g \in GoalIds : GoalCallback(g)) /\ ~(\E t \in ThreadIds : ThreadStep(t))
  BY <1>1, NothingAnswered, NothingSleeps DEF Still
<1>3. ~Boot /\ ~\E over \in BOOLEAN : AccelSample(over)
  BY DEF Boot, AccelSample, PadStates
<1>4. CASE ArmStatus
  <2>1. UNCHANGED <<up, phase, goals, threads, holdReqs, lastState, opened>>
    BY <1>4 DEF ArmStatus, machine, entry
  <2> QED
    BY <1>1, <2>1 DEF Undisturbed, OnPad, InFlight, InFlipping, PadStates, Still
<1>5. CASE FlightTimerFires
  <2>1. EnterState("Flipping", FALSE, boosted, goals) /\ threads' = threads /\ up' = up
    BY <1>5 DEF FlightTimerFires, ChangeState, ChangeStateWith
  <2>2. /\ phase' = "Flipping" /\ opened' = {"servo2"}
        /\ goals' \in Sent(goals, "Flipping", "servo2")
    BY <2>1 DEF EnterState, Settled, ArmStates
  <2>3. PICK g \in GoalIds :
           /\ \A h \in GoalIds \ {g} : goals'[h] = NoGoal
           /\ goals'[g] = [owner |-> "Flipping", target |-> "servo2", stage |-> "sent"]
    BY <1>1, <2>2, Parts, SentAlone DEF Still
  <2>4. Swings(g)'
    <3>1. goals'[g].owner = "Flipping" /\ goals'[g].target = "servo2" /\ goals'[g].stage = "sent"
      BY <2>3
    <3>2. mode' \in {"idle", "holding"}
      BY <1>1
    <3>3. opened' \subseteq swung' \cup missed' \cup {goals'[g].target} /\ "servo2" \in Doors
      BY <2>2, <3>1 DEF Doors
    <3> QED
      BY <2>3, <3>1, <3>2, <3>3 DEF Swings
  <2> QED
    BY <1>1, <2>1, <2>2, <2>4 DEF Undisturbed, OnPad, InFlight, InFlipping, PadStates, Still
<1> QED
  BY <1>2, <1>3, <1>4, <1>5 DEF CaptainStep, Autonomous, Samples

(* A flip that is over: the next door, or on with all of them swung or     *)
(* missed.                                                                 *)
LEMMA FromFlipping ==
  ASSUME PInv, Undisturbed, up, phase = "Flipping", CaptainStep(Autonomous)
  PROVE  Undisturbed' /\ (phase' = "Unfolding" => Doors \subseteq swung \cup missed)
<1>1. /\ \A t \in ThreadIds : threads[t] = NoThread
      /\ mode' = mode
  BY DEF Undisturbed, InFlipping, CaptainStep, bridgeVars
<1>2. PICK g \in GoalIds : Swings(g)
  BY DEF Undisturbed, InFlipping
<1>3. ~(\E t \in ThreadIds : ThreadStep(t))
  BY <1>1, NothingSleeps
<1>4. ~Boot /\ (~\E over \in BOOLEAN : AccelSample(over)) /\ ~FlightTimerFires
  BY Parts DEF Boot, AccelSample, PadStates, FlightTimerFires, IInv, Safe, TimerInFlight
<1>5. (swung' = swung /\ missed' = missed) \/ phase' # "Flipping"
  BY DEF CaptainStep, EntersFlipping, tale
<1>6. CASE ArmStatus
  <2>1. UNCHANGED <<up, phase, goals, threads, holdReqs, lastState, opened>>
    BY <1>6 DEF ArmStatus, machine, entry
  <2>2. swung' = swung /\ missed' = missed
    BY <1>5, <2>1
  <2>3. /\ goals' = goals /\ opened' = opened /\ swung' = swung /\ missed' = missed
        /\ mode' = mode
    BY <1>1, <2>1, <2>2
  <2>4. Swings(g)'
    BY <1>2, <2>3 DEF Swings
  <2> QED
    BY <1>1, <2>1, <2>4 DEF Undisturbed, OnPad, InFlight, InFlipping, PadStates
<1>7. ASSUME NEW h \in GoalIds, GoalCallback(h)
      PROVE  Undisturbed' /\ (phase' = "Unfolding" => Doors \subseteq swung \cup missed)
  <2>1. h = g
    BY <1>2, <1>7, Answered DEF Swings, NoGoal
  <2>2. PICK face \in Faces, near \in Nearness : FlipFinish(g, face, near)
    BY <1>2, <1>7, <2>1 DEF Swings, GoalCallback, AutoCallback, ManualCallback, DecideNext,
                            ManualArmResult, ManualLogged, ArmStates, ManualStates
  <2>3. opened \subseteq swung \cup missed /\ mode \in {"idle", "holding"}
    BY <1>2, <2>2 DEF Swings, FlipFinish
  <2>4. up' = up /\ threads' = threads
    BY <2>2 DEF FlipFinish
  <2>5. CASE phase' \in {"Unfolding", "AutoCamera", "Emergency"}
    <3>1. Undisturbed'
      BY <2>4, <2>5 DEF Undisturbed, OnPad, InFlight, InFlipping, PadStates
    <3>2. phase' = "Unfolding" => NextServo(face) = "none"
      <4>1. SUFFICES ASSUME phase' = "Unfolding", NextServo(face) # "none"
                     PROVE  FALSE
        OBVIOUS
      <4>2. CASE attempts >= FlipLimit
        <5>1. EnterState("Emergency", FALSE, boosted, Consumed(g))
          BY <2>2, <4>2 DEF FlipFinish, ChangeState, ChangeStateWith
        <5> QED
          BY <4>1, <5>1 DEF EnterState, Settled, ArmStates
      <4>3. CASE ~(attempts >= FlipLimit)
        BY <2>2, <4>1, <4>3 DEF FlipFinish, StartFlip, machine
      <4> QED
        BY <4>2, <4>3
    <3>3. NextServo(face) = "none" => Doors \subseteq opened
      BY DEF NextServo, FirstUnopened, Doors
    <3> QED
      BY <3>1, <3>2, <3>3, <2>3
  <2>6. CASE UNCHANGED <<phase, holdReqs, lastState>>
    <3>1. StartFlip(NextServo(face), Consumed(g)) /\ NextServo(face) # "none"
      <4>1. ASSUME NEW to, to # "Flipping", NEW close, ChangeState(to, close, Consumed(g))
            PROVE  FALSE
        BY <2>6, <4>1 DEF ChangeState, ChangeStateWith, EnterState, Settled
      <4> QED
        BY <2>2, <4>1 DEF FlipFinish
    <3> DEFINE servo == NextServo(face)
               base == Consumed(g)
    <3>2. servo \in Doors
      BY <3>1, NextServoType
    <3>3. base \in GoalMaps /\ \A k \in GoalIds : base[k] = NoGoal
      BY <1>2, Parts DEF Consumed, Swings, GoalMaps
    <3>4. opened' = opened \cup {servo} /\ goals' \in Sent(base, "Flipping", servo)
      BY <3>1 DEF StartFlip
    <3> HIDE DEF servo, base
    <3>5. PICK k \in GoalIds :
             /\ \A i \in GoalIds \ {k} : goals'[i] = NoGoal
             /\ goals'[k] = [owner |-> "Flipping", target |-> servo, stage |-> "sent"]
      BY <3>3, <3>4, SentAlone
    <3>6. swung' = swung /\ missed' = missed
      BY <1>5, <2>6
    <3>7. Swings(k)'
      BY <1>1, <2>3, <3>2, <3>4, <3>5, <3>6 DEF Swings
    <3> QED
      BY <1>1, <2>4, <2>6, <3>7 DEF Undisturbed, OnPad, InFlight, InFlipping, PadStates
  <2> QED
    BY <1>7, <2>5, <2>6, GoesOn
<1> QED
  BY <1>3, <1>4, <1>6, <1>7 DEF CaptainStep, Autonomous, Samples

LEMMA FromElsewhere ==
  ASSUME PInv, up, phase \notin PadStates \cup {"Flight", "Flipping"}, CaptainStep(Autonomous)
  PROVE  Undisturbed'
<1>1. ~Boot /\ (~\E over \in BOOLEAN : AccelSample(over)) /\ ~FlightTimerFires
  BY Parts DEF Boot, AccelSample, FlightTimerFires, IInv, Safe, TimerInFlight
<1>2. up' = up /\ (phase' = phase \/ phase' \in {"Unfolding", "AutoCamera", "Emergency"})
  BY <1>1, GoesOn DEF CaptainStep, Autonomous, Samples, ArmStatus, machine
<1> QED
  BY <1>2 DEF Undisturbed, OnPad, InFlight, InFlipping, PadStates

LEMMA OneRequest == Head(<<TRUE>>) = TRUE /\ Tail(<<TRUE>>) = <<>>
<1> DEFINE s == <<TRUE>>
<1>1. s \in Seq(BOOLEAN) /\ s # <<>> /\ Len(s) = 1 /\ s[1] = TRUE
  OBVIOUS
<1>2. Head(s) = s[1]
  BY DEF Head
<1> HIDE DEF s
<1>3. Tail(s) \in Seq(BOOLEAN) /\ Len(Tail(s)) = 0
  BY <1>1, HeadTailProperties
<1>4. Tail(s) = <<>>
  BY <1>3, EmptySeq
<1> QED
  BY <1>1, <1>2, <1>4 DEF s

LEMMA BridgeGoesOn == BridgeStep => UNCHANGED <<up, phase, lastState, threads, opened>>
BY DEF BridgeStep, AnswersGoal, AcceptsFlip, Refuses, AcceptGoal, RejectGoal, AnswerGoal, ServesHold,
       TakeHold, SettlesGoal, FinishGoal, BridgeClock, vars, machine, entry

(* The flip the captain waits for is accepted: its door is under way.      *)
LEMMA FlipsOn ==
  ASSUME PInv, NEW g \in GoalIds, Swings(g), goals[g].stage = "sent", goals[g] \in Goals,
         goals[g].target \in Doors, AcceptsFlip(g), opened' = opened
  PROVE  Swings(g)'
<1>1. /\ goals' = [i \in GoalIds |->
                     IF i = g THEN [goals[i] EXCEPT !.stage = "running"]
                     ELSE IF i = handle.flip THEN [goals[i] EXCEPT !.stage = "finished"]
                     ELSE goals[i]]
      /\ B!AcceptFlip(g, goals[g].target)
      /\ swung' = swung \cup {B!Known(goals[g].target)} /\ missed' = missed
  BY DEF AcceptsFlip
<1>2. B!Known(goals[g].target) = goals[g].target /\ mode' = goals[g].target
  BY <1>1 DEF B!Known, B!AcceptFlip, Doors, B!Doors
<1>3. goals'[g] = [goals[g] EXCEPT !.stage = "running"]
  BY <1>1
<1>4. goals'[g].stage = "running" /\ goals'[g].target = goals[g].target
      /\ goals'[g].owner = goals[g].owner
  BY <1>3 DEF Goals
<1>5. ASSUME NEW i \in GoalIds \ {g}
      PROVE  goals'[i] = NoGoal
  <2>1. goals[i] = NoGoal
    BY DEF Swings
  <2>2. i # handle.flip
    BY <2>1, Parts DEF GoalsAgree, NoGoal
  <2> QED
    BY <1>1, <2>1, <2>2
<1>6. opened' \subseteq swung' \cup missed' \cup {goals'[g].target}
  BY <1>1, <1>2, <1>4 DEF Swings
<1> QED
  BY <1>1, <1>2, <1>4, <1>5, <1>6 DEF Swings

(* It is refused: the bridge still holds the doors and the release is under*)
(* way, so the door is one that was missed.                                *)
LEMMA RefusedOn ==
  ASSUME PInv, NEW g \in GoalIds, Swings(g), goals[g].stage = "sent", goals[g] \in Goals,
         goals[g].target \in Doors, mode \in {"idle", "holding"},
         mode = "holding" => holdReqs # <<>>, Refuses(g), opened' = opened
  PROVE  Swings(g)'
<1>1. /\ goals' = [goals EXCEPT ![g].stage = "rejected"]
      /\ mode # "idle" /\ mode' = mode /\ swung' = swung
  BY DEF Refuses, RejectGoal, AnswerGoal, B!Reject, B!bridge
<1>2. missed' = missed \cup {goals[g].target}
  BY <1>1 DEF Refuses, Overtakes
<1>3. goals'[g] = [goals[g] EXCEPT !.stage = "rejected"]
      /\ \A i \in GoalIds \ {g} : goals'[i] = goals[i]
  BY <1>1, Parts DEF GoalMaps
<1>4. goals'[g].stage = "rejected" /\ goals'[g].target = goals[g].target
      /\ goals'[g].owner = goals[g].owner
  BY <1>3 DEF Goals
<1> QED
  BY <1>1, <1>2, <1>3, <1>4 DEF Swings

(* The bridge's steps leave the mission alone, and the flip it works at is *)
(* the one the captain waits for.                                          *)
LEMMA BridgeUndisturbed ==
  ASSUME PInv, Undisturbed, BridgeStep
  PROVE  Undisturbed'
<1>1. UNCHANGED <<up, phase, lastState, threads, opened>>
  BY BridgeGoesOn
<1>2. mode = "holding" /\ holdReqs = <<>> /\ up => phase = "Flight"
  BY Parts DEF HoldTold, IInv, Safe, HoldFollowsFlight
<1>3. CASE ~up \/ phase \in PadStates
  <2>1. Still /\ mode = "idle" /\ holdReqs = <<>> /\ (up \/ lastState = "None")
    BY <1>3 DEF Undisturbed, OnPad
  <2>2. \A g \in GoalIds : ~AnswersGoal(g)
    BY <2>1 DEF AnswersGoal, Still, NoGoal
  <2>3. ~ServesHold /\ \A seen : ~SettlesGoal(seen)
    BY <2>1 DEF ServesHold, TakeHold, SettlesGoal, B!TickFinishes, B!Working, B!Motions, B!Doors
  <2>4. BridgeClock
    BY <2>2, <2>3 DEF BridgeStep
  <2>5. mode' = mode /\ goals' = goals /\ holdReqs' = holdReqs
    BY <2>4 DEF BridgeClock, B!TimePasses, B!MotionEnds, vars, entry, machine
  <2>6. OnPad'
    BY <1>1, <2>1, <2>5 DEF OnPad, Still
  <2> QED
    BY <1>1, <1>3, <2>6 DEF Undisturbed, InFlight, InFlipping, PadStates
<1>4. CASE up /\ phase = "Flight"
  <2>1. Still /\ (\/ holdReqs = <<TRUE>> /\ mode = "idle"
                  \/ holdReqs = <<>> /\ mode = "holding")
    BY <1>4 DEF Undisturbed, InFlight
  <2>2. \A g \in GoalIds : ~AnswersGoal(g)
    BY <2>1 DEF AnswersGoal, Still, NoGoal
  <2>3. \A seen : ~SettlesGoal(seen)
    BY <2>1 DEF SettlesGoal, B!TickFinishes, B!Working, B!Motions, B!Doors
  <2>4. CASE ServesHold
    <3>1. Head(<<TRUE>>) = TRUE /\ Tail(<<TRUE>>) = <<>>
      BY OneRequest
    <3>2. holdReqs = <<TRUE>> /\ mode = "idle" /\ holdReqs' = Tail(holdReqs) /\ goals' = goals
          /\ B!HoldShut(Head(holdReqs))
      BY <2>1, <2>4 DEF ServesHold, TakeHold, entry
    <3>3. mode' = "holding" /\ holdReqs' = <<>>
      BY <3>1, <3>2 DEF B!HoldShut
    <3>4. InFlight'
      BY <1>1, <2>1, <3>2, <3>3 DEF InFlight, Still
    <3> QED
      BY <1>1, <1>4, <3>4 DEF Undisturbed, OnPad, InFlipping, PadStates
  <2>5. CASE BridgeClock
    <3>1. mode' = mode /\ goals' = goals /\ holdReqs' = holdReqs
      BY <2>5 DEF BridgeClock, B!TimePasses, B!MotionEnds, vars, entry, machine
    <3>2. InFlight'
      BY <1>1, <2>1, <3>1 DEF InFlight, Still
    <3> QED
      BY <1>1, <1>4, <3>2 DEF Undisturbed, OnPad, InFlipping, PadStates
  <2> QED
    BY <2>2, <2>3, <2>4, <2>5 DEF BridgeStep
<1>5. CASE up /\ phase = "Flipping"
  <2>1. PICK g \in GoalIds : Swings(g)
    BY <1>5 DEF Undisturbed, InFlipping
  <2>2. \A t \in ThreadIds : threads[t] = NoThread
    BY <1>5 DEF Undisturbed, InFlipping
  <2>3. ASSUME Swings(g)'
        PROVE  Undisturbed'
    BY <1>1, <1>5, <2>2, <2>3 DEF Undisturbed, OnPad, InFlight, InFlipping, PadStates
  <2>4. ASSUME NEW h \in GoalIds, AnswersGoal(h)
        PROVE  Swings(g)'
    <3>1. goals[h].stage = "sent"
      BY <2>4 DEF AnswersGoal
    <3>2. h = g
      BY <2>1, <3>1 DEF Swings, NoGoal
    <3>3. mode \in {"idle", "holding"}
      BY <2>1, <3>1, <3>2 DEF Swings
    <3>4. goals[g].target \in Doors /\ goals[g].target \in Servos /\ goals[g].owner = "Flipping"
      BY <2>1 DEF Swings, Servos
    <3>5. goals[g] \in Goals
      BY <3>1, <3>2, Parts DEF GoalMaps, NoGoal
    <3>6. CASE AcceptsFlip(g)
      BY <1>1, <2>1, <3>1, <3>2, <3>4, <3>5, <3>6, FlipsOn
    <3>7. CASE Refuses(g)
      BY <1>1, <1>2, <1>5, <2>1, <3>1, <3>2, <3>3, <3>4, <3>5, <3>7, RefusedOn
    <3> QED
      BY <2>4, <3>2, <3>4, <3>6, <3>7 DEF AnswersGoal
  <2>5. ASSUME ServesHold
        PROVE  Swings(g)'
    <3>1. /\ goals' = goals /\ swung' = swung /\ missed' = missed
          /\ \E shut : B!HoldShut(shut)
      BY <2>5 DEF ServesHold, TakeHold, entry, tale
    <3>2. /\ mode \in {"idle", "holding"} => mode' \in {"idle", "holding"}
          /\ mode \in Doors => mode' = mode
      BY <3>1 DEF B!HoldShut, Doors
    <3> QED
      BY <1>1, <2>1, <3>1, <3>2 DEF Swings
  <2>6. ASSUME NEW seen, SettlesGoal(seen)
        PROVE  Swings(g)'
    <3>1. /\ mode \in B!Motions /\ mode' = "idle" /\ swung' = swung /\ missed' = missed
          /\ LET k == handle[B!Server] IN IF k \in GoalIds THEN FinishGoal(k) ELSE UNCHANGED vars
      BY <2>6 DEF SettlesGoal, B!TickFinishes, B!Working, tale
    <3>2. goals[g].stage = "running" /\ goals[g].target \in swung /\ mode \in Doors
      BY <2>1, <3>1 DEF Swings, B!Motions, B!Doors
    <3>3. B!Server = "flip" /\ handle.arm = "none"
      BY <3>2, Parts DEF B!Server, Doors, BInv, B!ArmGoalKept
    <3>4. handle[B!Server] = g
      BY <3>2, <3>3, Parts, PayloadAssumption DEF GoalsAgree
    <3>5. goals' = [goals EXCEPT ![g].stage = "finished"]
      BY <3>1, <3>4 DEF FinishGoal, AnswerGoal
    <3>6. goals[g] \in Goals
      BY <3>2, Parts DEF GoalMaps, NoGoal
    <3>7. goals'[g] = [goals[g] EXCEPT !.stage = "finished"]
          /\ \A i \in GoalIds \ {g} : goals'[i] = goals[i]
      BY <3>5, Parts DEF GoalMaps
    <3>8. goals'[g].stage = "finished" /\ goals'[g].target = goals[g].target
          /\ goals'[g].owner = goals[g].owner
      BY <3>6, <3>7 DEF Goals
    <3> QED
      BY <1>1, <2>1, <3>1, <3>2, <3>5, <3>7, <3>8 DEF Swings
  <2>7. ASSUME BridgeClock
        PROVE  Swings(g)'
    <3>1. mode' = mode /\ goals' = goals /\ swung' = swung /\ missed' = missed
      BY <2>7 DEF BridgeClock, B!TimePasses, B!MotionEnds, vars, entry, tale
    <3> QED
      BY <1>1, <2>1, <3>1 DEF Swings
  <2> QED
    BY <2>3, <2>4, <2>5, <2>6, <2>7 DEF BridgeStep
<1>6. CASE up /\ phase \notin PadStates \cup {"Flight", "Flipping"}
  BY <1>1, <1>6 DEF Undisturbed, OnPad, InFlight, InFlipping, PadStates
<1> QED
  BY <1>3, <1>4, <1>5, <1>6

LEMMA NominalUndisturbed ==
  ASSUME PInv, Undisturbed, NominalNext
  PROVE  Undisturbed'
<1>1. CASE CaptainStep(Autonomous)
  BY <1>1, FromPad, FromFlight, FromFlipping, FromElsewhere DEF CaptainStep
<1> QED
  BY <1>1, BridgeUndisturbed DEF NominalNext
-----------------------------------------------------------------------------
(* The behaviours that are checked: the payload with budgets.              *)
Budgets == grounds \in Nat /\ captains \in Nat /\ bridges \in Nat
MCInv == PInv /\ Budgets /\ (grounds + captains + bridges = 0 => Undisturbed)

LEMMA MCSteps ==
  ASSUME Budgets, MCNext \/ UNCHANGED <<pvars, budgets>>
  PROVE  /\ Budgets'
         /\ [PayloadNext]_pvars
         /\ grounds' + captains' + bridges' = 0 =>
              grounds + captains + bridges = 0 /\ (NominalNext \/ UNCHANGED pvars)
<1>1. CASE NominalNext /\ UNCHANGED budgets
  BY <1>1 DEF Budgets, budgets, PayloadNext
<1>2. CASE UNCHANGED <<pvars, budgets>>
  BY <1>2 DEF Budgets, budgets
<1>3. CASE \/ /\ grounds' = grounds + 1 /\ (CaptainStep(Ground) \/ Jogs \/ StackRestart)
              /\ UNCHANGED <<captains, bridges>>
           \/ /\ captains' = captains + 1 /\ CaptainCrash /\ UNCHANGED <<grounds, bridges>>
           \/ /\ bridges' = bridges + 1 /\ BridgeCrash /\ UNCHANGED <<grounds, captains>>
  BY <1>3 DEF Budgets, PayloadNext
<1> QED
  BY <1>1, <1>2, <1>3 DEF MCNext

LEMMA MCInitHolds == MCInit => MCInv
<1> SUFFICES ASSUME MCInit PROVE MCInv
  OBVIOUS
<1>1. PInv
  BY InitPart DEF MCInit
<1>2. OnPad /\ ~up
  BY DEF MCInit, PayloadInit, Init, B!BridgeInit, OnPad, Still
<1> QED
  BY <1>1, <1>2 DEF MCInv, MCInit, Budgets, Undisturbed, InFlight, InFlipping

LEMMA MCNextHolds == MCInv /\ [MCNext]_<<pvars, budgets>> => MCInv'
<1> SUFFICES ASSUME MCInv, [MCNext]_<<pvars, budgets>> PROVE MCInv'
  OBVIOUS
<1>1. PInv'
  BY MCSteps, NextPart DEF MCInv
<1>2. Budgets'
  BY MCSteps DEF MCInv
<1>3. ASSUME (grounds + captains + bridges = 0)' PROVE Undisturbed'
  <2>1. Undisturbed /\ (NominalNext \/ UNCHANGED pvars)
    BY <1>3, MCSteps DEF MCInv
  <2>2. CASE UNCHANGED pvars
    BY <2>1, <2>2
    DEF pvars, tale, vars, machine, entry, bridgeVars, Undisturbed, OnPad, InFlight, InFlipping, Still, Swings
  <2> QED
    BY <2>1, <2>2, NominalUndisturbed DEF MCInv
<1> QED
  BY <1>1, <1>2, <1>3 DEF MCInv

(* With budgets: and while no ground command came and nothing crashed, pad,*)
(* Flight and Flipping are as Undisturbed says.                            *)
THEOREM MCInvariant == MCSpec => []MCInv
BY MCInitHolds, MCNextHolds, PTL DEF MCSpec

(* The doors are free out of Flight whatever crashes, and held all of the  *)
(* flight as long as nothing disturbs.                                     *)
THEOREM HeldAsFlownAlways == MCSpec => []HeldAsFlown
<1>1. MCInv => HeldAsFlown
  <2> SUFFICES ASSUME MCInv PROVE HeldAsFlown
    OBVIOUS
  <2>1. NeverStuckHeld /\ (up => (holdAsked <=> phase = "Flight"))
    BY Parts DEF MCInv, IInv, Safe, HoldFollowsFlight, HoldTold, NeverStuckHeld
  <2>2. ASSUME Undisturbed PROVE HeldInFlight
    BY <2>1, <2>2 DEF Undisturbed, InFlight, HeldInFlight, NeverStuckHeld
  <2> QED
    BY <2>1, <2>2 DEF MCInv, HeldAsFlown
<1> QED
  BY <1>1, MCInvariant, PTL

(* As long as nothing disturbs, the captain goes from Flipping to          *)
(* Unfolding only when every door has been swung since it entered Flipping,*)
(* but for those whose flip overtook the release of the hold.              *)
THEOREM DoorsSwungAlways == MCSpec => DoorsSwungUndisturbed
<1>1. ASSUME MCInv, OnlyDoors, [MCNext]_<<pvars, budgets>>,
             grounds' + captains' + bridges' = 0, phase = "Flipping", phase' = "Unfolding"
      PROVE  swung \cup missed = Doors
  <2>1. Undisturbed /\ NominalNext
    BY <1>1, MCSteps DEF MCInv, pvars, vars, machine
  <2>2. up /\ CaptainStep(Autonomous)
    BY <1>1, <2>1, BridgeGoesOn, Parts DEF MCInv, NominalNext, IInv, DownIsBlank
  <2> QED
    BY <1>1, <2>1, <2>2, FromFlipping DEF MCInv, OnlyDoors
<1>2. MCSpec => []OnlyDoors
  <2>1. MCInit => OnlyDoors
    BY DEF MCInit, PayloadInit, OnlyDoors
  <2>2. OnlyDoors /\ [MCNext]_<<pvars, budgets>> => OnlyDoors'
    BY SwungPart DEF MCNext, PayloadNext
  <2> QED
    BY <2>1, <2>2, PTL DEF MCSpec
<1>3. MCInv /\ OnlyDoors /\ [MCNext]_<<pvars, budgets>> =>
        [/\ grounds' + captains' + bridges' = 0
         /\ phase = "Flipping" /\ phase' = "Unfolding"
         => swung \cup missed = Doors]_pvars
  BY <1>1
<1> QED
  BY <1>2, <1>3, MCInvariant, PTL DEF MCSpec, DoorsSwungUndisturbed
=============================================================================
