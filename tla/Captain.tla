------------------------------- MODULE Captain -------------------------------
(***************************************************************************)
(* The captain node: the flight state machine of the payload.              *)
(*                                                                         *)
(* One "expert" object per flight state reacts to sensor samples, to the   *)
(* flight timer, to the answers of the actuator board (the STM bridge,     *)
(* reached through two ROS actions and a service) and to radio commands.   *)
(* Callbacks run one at a time on the node's executor; the camera waits    *)
(* run on detached threads which share the experts' fields with it.        *)
(*                                                                         *)
(* The bridge is open here: it may accept, refuse, finish or lose any goal.*)
(***************************************************************************)
EXTENDS Integers, Sequences, FiniteSets

CONSTANTS
  GoalIds,      \* slots for action goals in flight (a bound of the model)
  ThreadIds,    \* slots for detached threads (a bound of the model)
  MaxHoldReqs,  \* hold_shut requests under way at once (a bound of the model)
  FlipLimit,    \* allowed_attempts_total of the flipping expert
  SideLimit,    \* allowed_per_side of the arm experts
  PathLen       \* number of poses of unfold_path and of panorama_path

States == {"Pad", "Preboost", "Flight", "Flipping", "Unfolding", "AutoCamera",
           "ManualControl", "Emergency"}
PadStates == {"Pad", "Preboost"}
ArmStates == {"Unfolding", "AutoCamera"}
ManualStates == {"ManualControl", "Emergency"}
AutoStates == ArmStates \cup {"Flipping"}

Doors == {"servo1", "servo2", "servo3"}
Servos == Doors \cup {"servo_unknown"}      \* a radio packet may name any id
Faces == {"double_wall", "single_wall", "top", "backplate", "other"}
ManualMoves == {"plain", "back", "photo"}   \* the three SendArmTarget commands
Targets == Servos \cup ManualMoves \cup {"pose"}

ASSUME CaptainAssumption ==
  /\ MaxHoldReqs \in Nat /\ FlipLimit \in Nat /\ SideLimit \in Nat
  /\ PathLen \in [ArmStates -> Nat \ {0}]

(* An action goal, from async_send_goal to the callback that consumes it.  *)
Goals == [owner : AutoStates \cup ManualStates, target : Targets,
          stage : {"sent", "rejected", "running", "finished"}]
NoGoal == [owner |-> "none", target |-> "none", stage |-> "free"]

(* A detached camera-wait thread and, while it increments a shared counter,*)
(* the value it has loaded.                                                *)
ArmPcs == {"sleep", "load_index", "store_index", "send_pose",
           "load_attempts", "store_attempts"}
ManualPcs == {"sleep", "clear_photo", "clear_back", "send_return"}
Threads == [of : ArmStates, pc : ArmPcs, reg : Nat]
             \cup [of : ManualStates, pc : ManualPcs, reg : Nat]
NoThread == [of |-> "none", pc |-> "free", reg |-> 0]

VARIABLES
  up,           \* the captain process is running
  phase,        \* status.current_state
  lastState,    \* the state in flight_dir/last_state; "None": absent or empty
  flightTimer,  \* flight_timer is running
  heartbeat,    \* primary_heartbeat_type
  runcam,       \* power of the run camera
  takeoff,      \* status.takeoff_time is set
  boosted,      \* PadExpert::has_boosted_
  armKnown,     \* an ArmStatus has been received since the process started
  opened,       \* the doors the flipping expert counts as opened
  attempts,     \* FlippingExpert::attempts, saturating above FlipLimit
  pathIndex,    \* ArmExpert::path_index
  sideAttempts, \* ArmExpert::attempts_for_this_side
  photo,        \* ManualExpert::take_photo_with_arm_movement
  comeBack,     \* ManualExpert::return_to_tx_point_after_arm_movement
  goals,        \* the action goals in flight
  threads,      \* the detached threads
  holdReqs,     \* hold_shut requests sent and not yet served
  holdAsked     \* the last hold_shut request since the stack started (history)

machine == <<phase, lastState, flightTimer, heartbeat, runcam, takeoff,
             holdReqs, holdAsked>>
entry   == <<boosted, opened, pathIndex, sideAttempts, goals>>
flags   == <<photo, comeBack>>
vars    == <<up, machine, entry, armKnown, attempts, flags, threads>>
-----------------------------------------------------------------------------
TypeOK ==
  /\ up \in BOOLEAN
  /\ phase \in States
  /\ lastState \in States \cup {"None"}
  /\ flightTimer \in BOOLEAN
  /\ heartbeat \in {"flight", "landed"}
  /\ runcam \in BOOLEAN
  /\ takeoff \in BOOLEAN
  /\ boosted \in BOOLEAN
  /\ armKnown \in BOOLEAN
  /\ opened \in SUBSET Doors
  /\ attempts \in 0..FlipLimit + 1
  /\ pathIndex \in [ArmStates -> Nat]
  /\ sideAttempts \in [ArmStates -> Nat]
  /\ photo \in [ManualStates -> BOOLEAN]
  /\ comeBack \in [ManualStates -> BOOLEAN]
  /\ goals \in [GoalIds -> Goals \cup {NoGoal}]
  /\ threads \in [ThreadIds -> Threads \cup {NoThread}]
  /\ holdReqs \in Seq(BOOLEAN)
  /\ holdAsked \in BOOLEAN

Init ==
  /\ up = FALSE /\ phase = "Pad" /\ lastState = "None"
  /\ flightTimer = FALSE /\ heartbeat = "flight" /\ runcam = FALSE
  /\ takeoff = FALSE /\ boosted = FALSE /\ armKnown = FALSE
  /\ opened = {} /\ attempts = 0
  /\ pathIndex = [e \in ArmStates |-> 0]
  /\ sideAttempts = [e \in ArmStates |-> 0]
  /\ photo = [e \in ManualStates |-> TRUE]
  /\ comeBack = [e \in ManualStates |-> TRUE]
  /\ goals = [g \in GoalIds |-> NoGoal]
  /\ threads = [t \in ThreadIds |-> NoThread]
  /\ holdReqs = <<>> /\ holdAsked = FALSE

(* The end of the process: its members are gone, its threads with it, and  *)
(* no answer to its goals will find it.                                    *)
Die ==
  /\ up' = FALSE /\ phase' = "Pad"
  /\ flightTimer' = FALSE /\ heartbeat' = "flight" /\ runcam' = FALSE
  /\ takeoff' = FALSE /\ boosted' = FALSE /\ armKnown' = FALSE
  /\ opened' = {} /\ attempts' = 0
  /\ pathIndex' = [e \in ArmStates |-> 0]
  /\ sideAttempts' = [e \in ArmStates |-> 0]
  /\ photo' = [e \in ManualStates |-> TRUE]
  /\ comeBack' = [e \in ManualStates |-> TRUE]
  /\ goals' = [g \in GoalIds |-> NoGoal]
  /\ threads' = [t \in ThreadIds |-> NoThread]
-----------------------------------------------------------------------------
(* async_send_goal: the goal takes any free slot of base.                  *)
Sent(base, owner, target) ==
  {[base EXCEPT ![g] = [owner |-> owner, target |-> target, stage |-> "sent"]] :
     g \in {h \in GoalIds : base[h] = NoGoal}}

Consumed(g) == [goals EXCEPT ![g] = NoGoal]

Spawned(base, e) ==
  {[base EXCEPT ![t] = [of |-> e, pc |-> "sleep", reg |-> 0]] :
     t \in {u \in ThreadIds : base[u] = NoThread}}

Ended(t) == [threads EXCEPT ![t] = NoThread]

(* enter_state of the state "to"; an arm expert that finds the arm far     *)
(* from its first pose goes on to Emergency before it touches its fields.  *)
Settled(to, near) == IF to \in ArmStates /\ ~near THEN "Emergency" ELSE to

LatchKept(latch, here) == latch    \* faulty: the pad does not clear it

LatchAfter(latch, here) == latch /\ here \notin PadStates

EnterState(to, near, latch, base) ==
  LET here == Settled(to, near) IN
  /\ phase' = here
  /\ heartbeat' = IF here \in PadStates THEN "flight"
                  ELSE IF here = "Flight" THEN heartbeat ELSE "landed"
  /\ runcam' = (here \notin {"Pad"} \cup ManualStates)
  /\ takeoff' = IF here \in PadStates THEN FALSE
                ELSE takeoff \/ here = "Flight"
  /\ boosted' = LatchAfter(latch, here)
  /\ opened' = IF here = "Flipping" THEN {"servo2"} ELSE opened
  /\ pathIndex' = IF here \in ArmStates THEN [pathIndex EXCEPT ![here] = 0]
                  ELSE pathIndex
  /\ sideAttempts' = IF here \in ArmStates
                     THEN [sideAttempts EXCEPT ![here] = 1] ELSE sideAttempts
  /\ goals' \in IF here = "Flipping" THEN Sent(base, here, "servo2")
               ELSE IF here \in ArmStates THEN Sent(base, here, "pose")
               ELSE {base}

(* Faulty variants of the next operator: the new expert entered before the *)
(* old one is left; no release when Flight is left.                        *)
HoldCallsEnterFirst(from, to) ==
  IF from = "Flight" /\ to = "Flight" THEN <<TRUE, FALSE>>
  ELSE IF from = "Flight" THEN <<FALSE>>
  ELSE IF to = "Flight" THEN <<TRUE>> ELSE <<>>

HoldCallsNoRelease(from, to) == IF to = "Flight" THEN <<TRUE>> ELSE <<>>

(* The hold_shut requests of a change: exit_state, then enter_state.       *)
HoldCalls(from, to) ==
  IF from = "Flight" /\ to = "Flight" THEN <<FALSE, TRUE>>
  ELSE IF from = "Flight" THEN <<FALSE>>
  ELSE IF to = "Flight" THEN <<TRUE>> ELSE <<>>

AskHold(calls) ==
  /\ Len(holdReqs \o calls) <= MaxHoldReqs
  /\ holdReqs' = holdReqs \o calls
  /\ holdAsked' = IF calls = <<>> THEN holdAsked ELSE calls[Len(calls)]

TimerNotStopped(from, to) == to = "Flight" \/ flightTimer     \* faulty

(* The flight timer after the old expert's exit_state and the new one's    *)
(* enter_state: only the flight expert touches it.                         *)
TimerAfter(from, to) == to = "Flight" \/ (flightTimer /\ from # "Flight")

(* Faulty: the state is saved after enter_state, over the nested change.   *)
ChangeStateSavedLate(latch, to, near, base) ==
  /\ EnterState(to, near, latch, base)
  /\ flightTimer' = TimerAfter(phase, to)
  /\ AskHold(HoldCalls(phase, to))
  /\ lastState' = to

(* change_internal_state, with the nested change an arm expert may make.   *)
ChangeStateWith(latch, to, near, base) ==
  /\ EnterState(to, near, latch, base)
  /\ flightTimer' = TimerAfter(phase, to)
  /\ AskHold(HoldCalls(phase, to))
  /\ lastState' = Settled(to, near)

ChangeState(to, near, base) == ChangeStateWith(boosted, to, near, base)

(* Whether the arm is close to a pose it is compared with: until a status  *)
(* arrives the stored angles are zero, far from every compared pose.       *)
Nearness == IF armKnown THEN BOOLEAN ELSE {FALSE}
-----------------------------------------------------------------------------
(* The constructor: resume the saved state, Pad when there is none. The    *)
(* state is not saved again unless an arm expert falls back to Emergency.  *)
Boot ==
  LET to == IF lastState = "None" THEN "Pad" ELSE lastState IN
  /\ ~up /\ up' = TRUE
  /\ EnterState(to, FALSE, boosted, goals)
  /\ flightTimer' = (to = "Flight")
  /\ AskHold(HoldCalls("Pad", to))
  /\ lastState' = IF to \in ArmStates THEN "Emergency" ELSE lastState
  /\ UNCHANGED <<armKnown, attempts, flags, threads>>

(* The process dies between two callbacks; the launch respawns it.         *)
Crash ==
  /\ up
  /\ Die
  /\ UNCHANGED <<lastState, holdReqs, holdAsked>>

(* The process dies inside change_internal_state: the old expert has been  *)
(* left, and last_state is untouched, truncated or written.                *)
CrashInChange(to) ==
  /\ up
  /\ Die
  /\ AskHold(IF phase = "Flight" THEN <<FALSE>> ELSE <<>>)
  /\ lastState' \in {lastState, "None", to}

(* restart_system, for Command_Restart and Command_NewFlightDanger: the    *)
(* whole flight stack restarts, the bridge with it, in the old flight      *)
(* directory or in a new one.                                              *)
RestartSystem ==
  /\ up
  /\ Die
  /\ holdReqs' = <<>> /\ holdAsked' = FALSE
  /\ lastState' \in {lastState, "None"}
-----------------------------------------------------------------------------
(* handle_imu in the pad states: over says whether the moving average of   *)
(* the acceleration exceeds the boost threshold with this sample.          *)
AccelSample(over) ==
  /\ up /\ phase \in PadStates
  /\ IF boosted \/ over
     THEN ChangeStateWith(TRUE, "Flight", FALSE, goals)
     ELSE UNCHANGED <<machine, entry>>
  /\ UNCHANGED <<up, armKnown, attempts, flags, threads>>

ArmStatus ==
  /\ up /\ ~armKnown
  /\ armKnown' = TRUE
  /\ UNCHANGED <<up, machine, entry, attempts, flags, threads>>

(* The timer asks the expert of the active state; only Flight reacts.      *)
FlightTimerFires ==
  /\ up /\ flightTimer
  /\ IF phase = "Flight" THEN ChangeState("Flipping", FALSE, goals)
     ELSE UNCHANGED <<machine, entry>>
  /\ UNCHANGED <<up, armKnown, attempts, flags, threads>>

(* Faulty: the third door is never checked.                                *)
FirstUnopenedOfTwo ==
  IF "servo2" \notin opened THEN "servo2"
  ELSE IF "servo1" \notin opened THEN "servo1" ELSE "none"

(* The servo the flipping expert moves next; "none" when the payload is    *)
(* upright and every door counts as opened.                                *)
FirstUnopened ==
  IF "servo2" \notin opened THEN "servo2"
  ELSE IF "servo1" \notin opened THEN "servo1"
  ELSE IF "servo3" \notin opened THEN "servo3" ELSE "none"

NextServo(face) ==
  IF face = "double_wall" THEN "servo3"
  ELSE IF face = "top" THEN "servo2"
  ELSE IF face = "backplate" THEN FirstUnopened
  ELSE "servo1"

StartFlip(servo, base) ==
  /\ opened' = opened \cup {servo}
  /\ goals' \in Sent(base, "Flipping", servo)
  /\ UNCHANGED <<machine, boosted, pathIndex, sideAttempts>>

AttemptsUncounted == attempts     \* faulty

AttemptsAfter == IF attempts > FlipLimit THEN attempts ELSE attempts + 1

(* flip_finish, on a refused or finished flip goal. The active state is    *)
(* not looked at.                                                          *)
FlipFinish(g, face, near) ==
  /\ up
  /\ goals[g].owner = "Flipping" /\ goals[g].stage \in {"rejected", "finished"}
  /\ attempts' = AttemptsAfter
  /\ IF attempts >= FlipLimit THEN ChangeState("Emergency", FALSE, Consumed(g))
     ELSE IF NextServo(face) = "none"
     THEN ChangeState("Unfolding", near, Consumed(g))
     ELSE StartFlip(NextServo(face), Consumed(g))
  /\ UNCHANGED <<up, armKnown, flags, threads>>

(* Faulty: the target is sent a second time before it is answered.         *)
SendTargetTwice(e, base) ==
  /\ goals' \in UNION {Sent(once, e, "pose") : once \in Sent(base, e, "pose")}
  /\ UNCHANGED <<machine, boosted, opened, pathIndex>>

SendTarget(e, base) ==
  /\ goals' \in Sent(base, e, "pose")
  /\ UNCHANGED <<machine, boosted, opened, pathIndex>>

(* Faulty: past the last state; and back to the start of the arm's work.   *)
AfterPathPastTheEnd(e) == IF e = "Unfolding" THEN "AutoCamera" ELSE "NumStates"
AfterPathAgain(e) == IF e = "Unfolding" THEN "AutoCamera" ELSE "Unfolding"

AfterPath(e) == IF e = "Unfolding" THEN "AutoCamera" ELSE "Emergency"

PathDone(e) == pathIndex[e] >= PathLen[e] - 1

(* decide_next, on a refused or finished arm goal of an arm expert. Again  *)
(* the active state is not looked at.                                      *)
DecideNext(g, near) ==
  LET e == goals[g].owner IN
  /\ up
  /\ e \in ArmStates /\ goals[g].stage \in {"rejected", "finished"}
  /\ IF PathDone(e)
     THEN ChangeState(AfterPath(e), near, Consumed(g)) /\ UNCHANGED threads
     ELSE IF sideAttempts[e] > SideLimit
     THEN ChangeState("Emergency", near, Consumed(g)) /\ UNCHANGED threads
     ELSE IF near
     THEN /\ threads' \in Spawned(threads, e)
          /\ goals' = Consumed(g)
          /\ UNCHANGED <<machine, boosted, opened, pathIndex, sideAttempts>>
     ELSE /\ SendTarget(e, Consumed(g))
          /\ sideAttempts' = [sideAttempts EXCEPT ![e] = @ + 1]
          /\ UNCHANGED threads
  /\ UNCHANGED <<up, armKnown, attempts, flags>>

(* arm_result_cb of a manual expert.                                       *)
ManualArmResult(g) ==
  LET e == goals[g].owner IN
  /\ up
  /\ e \in ManualStates
  /\ goals[g].target \in ManualMoves /\ goals[g].stage = "finished"
  /\ goals' = Consumed(g)
  /\ IF comeBack[e]
     THEN /\ threads' \in Spawned(threads, e)
          /\ UNCHANGED flags
     ELSE /\ comeBack' = [comeBack EXCEPT ![e] = TRUE]
          /\ photo' = [photo EXCEPT ![e] = TRUE]
          /\ UNCHANGED threads
  /\ UNCHANGED <<up, machine, boosted, opened, pathIndex, sideAttempts,
                 armKnown, attempts>>

(* A refused manual goal and the answers to a manual servo motion are only *)
(* logged.                                                                 *)
ManualLogged(g) ==
  /\ up
  /\ goals[g].owner \in ManualStates
  /\ \/ goals[g].stage = "rejected"
     \/ goals[g].target \in Servos /\ goals[g].stage = "finished"
  /\ goals' = Consumed(g)
  /\ UNCHANGED <<up, machine, boosted, opened, pathIndex, sideAttempts,
                 armKnown, attempts, flags, threads>>
-----------------------------------------------------------------------------
(* The camera-wait threads. Their increments are a load and a store, with  *)
(* callbacks and other threads in between.                                 *)
ToPc(t, pc, reg) == [threads EXCEPT ![t].pc = pc, ![t].reg = reg]

(* The two seconds are over: go on only if the state is still the same (a  *)
(* thread of either manual expert: only in ManualControl).                 *)
ThreadWakes(t) ==
  LET e == threads[t].of
      goesOn == phase = (IF e \in ArmStates THEN e ELSE "ManualControl")
  IN
  /\ threads[t].pc = "sleep"
  /\ threads' = IF ~goesOn THEN Ended(t)
                ELSE ToPc(t, IF e \in ArmStates THEN "load_index"
                             ELSE "clear_photo", 0)
  /\ UNCHANGED <<up, machine, entry, armKnown, attempts, flags>>

LoadIndex(t) ==
  /\ threads[t].pc = "load_index"
  /\ threads' = ToPc(t, "store_index", pathIndex[threads[t].of])
  /\ UNCHANGED <<up, machine, entry, armKnown, attempts, flags>>

StoreIndex(t) ==
  LET e == threads[t].of IN
  /\ threads[t].pc = "store_index"
  /\ pathIndex' = [pathIndex EXCEPT ![e] = threads[t].reg + 1]
  /\ sideAttempts' = [sideAttempts EXCEPT ![e] = 0]
  /\ threads' = ToPc(t, "send_pose", 0)
  /\ UNCHANGED <<up, machine, boosted, opened, goals, armKnown, attempts, flags>>

SendPose(t, near) ==
  LET e == threads[t].of IN
  /\ threads[t].pc = "send_pose"
  /\ IF pathIndex[e] > PathLen[e]
     THEN ChangeState(AfterPath(e), near, goals) /\ threads' = Ended(t)
     ELSE /\ SendTarget(e, goals)
          /\ threads' = ToPc(t, "load_attempts", 0)
          /\ UNCHANGED sideAttempts
  /\ UNCHANGED <<up, armKnown, attempts, flags>>

LoadAttempts(t) ==
  /\ threads[t].pc = "load_attempts"
  /\ threads' = ToPc(t, "store_attempts", sideAttempts[threads[t].of])
  /\ UNCHANGED <<up, machine, entry, armKnown, attempts, flags>>

StoreAttempts(t) ==
  /\ threads[t].pc = "store_attempts"
  /\ sideAttempts' = [sideAttempts EXCEPT ![threads[t].of] = threads[t].reg + 1]
  /\ threads' = Ended(t)
  /\ UNCHANGED <<up, machine, boosted, opened, pathIndex, goals, armKnown,
                 attempts, flags>>

(* send_arm_to_target(tx_pose) from a manual expert's thread: the two flags*)
(* are plain fields, which the executor may write in between.              *)
ClearPhoto(t) ==
  /\ threads[t].pc = "clear_photo"
  /\ photo' = [photo EXCEPT ![threads[t].of] = FALSE]
  /\ threads' = ToPc(t, "clear_back", 0)
  /\ UNCHANGED <<up, machine, entry, armKnown, attempts, comeBack>>

(* Faulty: the return move asks for a return of its own.                   *)
ClearBackForgotten(t) ==
  /\ threads[t].pc = "clear_back"
  /\ threads' = ToPc(t, "send_return", 0)
  /\ UNCHANGED <<up, machine, entry, armKnown, attempts, flags>>

ClearBack(t) ==
  /\ threads[t].pc = "clear_back"
  /\ comeBack' = [comeBack EXCEPT ![threads[t].of] = FALSE]
  /\ threads' = ToPc(t, "send_return", 0)
  /\ UNCHANGED <<up, machine, entry, armKnown, attempts, photo>>

SendReturn(t) ==
  /\ threads[t].pc = "send_return"
  /\ goals' \in Sent(goals, threads[t].of, "plain")
  /\ threads' = Ended(t)
  /\ UNCHANGED <<up, machine, boosted, opened, pathIndex, sideAttempts,
                 armKnown, attempts, flags>>
-----------------------------------------------------------------------------
(* What the ground asks for, by radio or through the ROS services.         *)
CommandState ==
  [ForceManual |-> "ManualControl", ForceFlight |-> "Flight",
   ExpectFlight |-> "Preboost", BackToPad |-> "Pad",
   StartAutoFlipping |-> "Flipping", UnfoldArm |-> "Unfolding",
   Panorama |-> "AutoCamera"]

RadioCommand(c, near) ==
  /\ up
  /\ ChangeState(CommandState[c], near, goals)
  /\ UNCHANGED <<up, armKnown, attempts, flags, threads>>

RequestStateChange(to, near) ==
  /\ up
  /\ ChangeState(to, near, goals)
  /\ UNCHANGED <<up, armKnown, attempts, flags, threads>>

(* The SendArmTarget commands: every expert but the manual ones ignores    *)
(* them. The flags are set before the bridge has accepted the move.        *)
ArmCommand(move) ==
  /\ up /\ phase \in ManualStates
  /\ photo' = [photo EXCEPT ![phase] = (move = "photo")]
  /\ comeBack' = [comeBack EXCEPT ![phase] = (move # "plain")]
  /\ goals' \in Sent(goals, phase, move)
  /\ UNCHANGED <<up, machine, boosted, opened, pathIndex, sideAttempts,
                 armKnown, attempts, threads>>

MoveServo(servo) ==
  /\ up /\ phase \in ManualStates
  /\ goals' \in Sent(goals, phase, servo)
  /\ UNCHANGED <<up, machine, boosted, opened, pathIndex, sideAttempts,
                 armKnown, attempts, flags, threads>>

Video(on) ==
  /\ up /\ runcam' = on
  /\ UNCHANGED <<up, phase, lastState, flightTimer, heartbeat, takeoff, holdReqs,
                 holdAsked, entry, armKnown, attempts, flags, threads>>
-----------------------------------------------------------------------------
(* The bridge, as the captain sees it.                                     *)
AnswerGoal(g, from, to) ==
  /\ goals[g].stage = from
  /\ goals' = [goals EXCEPT ![g].stage = to]
  /\ UNCHANGED <<up, machine, boosted, opened, pathIndex, sideAttempts,
                 armKnown, attempts, flags, threads>>

AcceptGoal(g) == AnswerGoal(g, "sent", "running")
RejectGoal(g) == AnswerGoal(g, "sent", "rejected")
FinishGoal(g) == AnswerGoal(g, "running", "finished")

(* A goal sent before the action server is discovered, or held by a bridge *)
(* that restarts, is never answered.                                       *)
LoseGoal(g) ==
  /\ goals[g].stage \in {"sent", "running"}
  /\ goals' = Consumed(g)
  /\ UNCHANGED <<up, machine, boosted, opened, pathIndex, sideAttempts,
                 armKnown, attempts, flags, threads>>

TakeHold ==
  /\ holdReqs # <<>>
  /\ holdReqs' = Tail(holdReqs)
  /\ UNCHANGED <<up, phase, lastState, flightTimer, heartbeat, runcam, takeoff,
                 holdAsked, entry, armKnown, attempts, flags, threads>>
-----------------------------------------------------------------------------
AutoCallback(g) ==
  \/ \E face \in Faces, near \in Nearness : FlipFinish(g, face, near)
  \/ \E near \in Nearness : DecideNext(g, near)

ManualCallback(g) == ManualArmResult(g) \/ ManualLogged(g)

GoalCallback(g) == AutoCallback(g) \/ ManualCallback(g)

AutoThreadStep(t) ==
  \/ ThreadWakes(t)
  \/ LoadIndex(t)
  \/ StoreIndex(t)
  \/ \E near \in Nearness : SendPose(t, near)
  \/ LoadAttempts(t)
  \/ StoreAttempts(t)

ManualThreadStep(t) == ClearPhoto(t) \/ ClearBack(t) \/ SendReturn(t)

ThreadStep(t) == AutoThreadStep(t) \/ ManualThreadStep(t)

Samples ==
  \/ \E over \in BOOLEAN : AccelSample(over)
  \/ ArmStatus

(* What the captain does by itself.                                        *)
Autonomous ==
  \/ Boot \/ Samples \/ FlightTimerFires
  \/ \E g \in GoalIds : GoalCallback(g)
  \/ \E t \in ThreadIds : ThreadStep(t)

Ground ==
  \/ \E c \in DOMAIN CommandState, near \in Nearness : RadioCommand(c, near)
  \/ \E to \in States, near \in Nearness : RequestStateChange(to, near)
  \/ \E move \in ManualMoves : ArmCommand(move)
  \/ \E servo \in Servos : MoveServo(servo)
  \/ \E on \in BOOLEAN : Video(on)

Failure ==
  \/ Crash
  \/ \E to \in States : CrashInChange(to)

Bridge ==
  \/ \E g \in GoalIds : AcceptGoal(g) \/ RejectGoal(g) \/ FinishGoal(g)
  \/ \E g \in GoalIds : LoseGoal(g)
  \/ TakeHold

Next == Autonomous \/ Ground \/ RestartSystem \/ Failure \/ Bridge

Spec == Init /\ [][Next]_vars

(* No ground, no failure: the answers still come, the executor spins, the  *)
(* threads are scheduled and the flight timer elapses.                     *)
BridgeAnswers ==
  \/ \E g \in GoalIds : AcceptGoal(g) \/ RejectGoal(g) \/ FinishGoal(g)
  \/ TakeHold

(* Without the ground the manual experts have nothing to do.               *)
AutoNext ==
  \/ Boot \/ Samples \/ FlightTimerFires
  \/ \E g \in GoalIds : AutoCallback(g)
  \/ \E t \in ThreadIds : AutoThreadStep(t)
  \/ BridgeAnswers

Fairness ==
  /\ WF_vars(Boot)
  /\ WF_vars(FlightTimerFires)
  /\ WF_vars(\E g \in GoalIds : GoalCallback(g))
  /\ WF_vars(\E t \in ThreadIds : ThreadStep(t))
  /\ WF_vars(\E g \in GoalIds : AcceptGoal(g) \/ RejectGoal(g))
  /\ WF_vars(\E g \in GoalIds : FinishGoal(g))
  /\ WF_vars(TakeHold)

-----------------------------------------------------------------------------
(* The flight timer runs exactly while the captain is in Flight: no way of *)
(* leaving Flight forgets to stop it, none of entering it to start it.     *)
TimerInFlight == up => (flightTimer <=> phase = "Flight")

(* A running captain finds itself again after a crash: last_state holds    *)
(* the active state, or nothing was ever saved and it waits on the pad.    *)
SavedIsPhase ==
  up => lastState = phase \/ (lastState = "None" /\ phase = "Pad")

(* The last hold_shut request, over all lives of the process since the     *)
(* stack started, is a hold if and only if the captain is in Flight: a     *)
(* crash at any point never leaves the doors held shut after landing nor   *)
(* free in flight.                                                         *)
HoldFollowsFlight == up => (holdAsked <=> phase = "Flight")

(* Back on the pad by any road, the payload is ready for a launch: the     *)
(* boost latch is clear, no takeoff time stands, the flight heartbeat is   *)
(* the primary one.                                                        *)
PadRearmed == phase \in PadStates => ~boosted /\ ~takeoff /\ heartbeat = "flight"

(* Autonomous work under way: goals and threads of each autonomous expert. *)
Pending ==
  {e \in AutoStates : \/ \E g \in GoalIds : goals[g].owner = e
                     \/ \E t \in ThreadIds : threads[t].of = e}

(* Left to itself the captain never has two goals in flight, so the bridge,*)
(* which serves one motion at a time, never refuses the captain's own goal *)
(* because of another one of the captain.                                  *)
OneGoalAtATime ==
  \A g, h \in GoalIds : goals[g] # NoGoal /\ goals[h] # NoGoal => g = h

(* The pose a camera-wait thread is about to send is on the path: the      *)
(* guard before the read lets path_index = path.size() through, so this    *)
(* rests on decide_next and on there being one chain of goals per expert.  *)
PoseOnPath ==
  \A t \in ThreadIds :
    threads[t].pc = "send_pose" => pathIndex[threads[t].of] < PathLen[threads[t].of]

(* Every flight ends in Emergency, the state that sends the pictures down, *)
(* whatever the bridge answers and however the payload lies.               *)
EndsInEmergency == (phase = "Flight") ~> (phase = "Emergency")

Moving == INSTANCE Mission WITH
  phase <- IF up THEN phase ELSE IF lastState = "None" THEN "Pad" ELSE lastState,
  pending <- Pending

(* The mission as the ground understands it: a state changes only by a     *)
(* command, a boost, the end of the flight, the end of autonomous work     *)
(* that was under way, or a crash while changing.                          *)
MissionSpec == Moving!Spec
=============================================================================
