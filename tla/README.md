# A formal model of the IREC-26 payload software

This directory holds TLA+ modules, TLC configurations and TLAPS proofs about
the flight software under `src/src/` (ROS 2 packages in C++; `src/` below is
the repository root). The payload is a cube that rides a rocket: it holds its
doors shut in flight, lands, rolls itself upright by swinging its three doors,
unfolds an arm, takes a panorama and sends the pictures down by radio.

## 1. The system

| Component | Package | State it keeps | Operations |
|---|---|---|---|
| Captain | `cubesat_captain` | current state, `last_state` file, one "expert" per state with its own fields, flight timer, two heartbeat timers, camera-wait threads, action goals | sensor callbacks, timer, goal response/result callbacks, radio commands, three services, restart |
| STM bridge | `cubesat_stm_bridge` | `active_mode`, a goal handle per action server, show-progress and timeout times, saved arm pose | flip and arm action servers, `hold_shut`, `jog_motor`, 50 Hz status poll, board reset |
| Radio | `cubesat_radio` | outbound queue, event flags, link profile (stable, under test, incoming), receive-window state | submit packet, radio loop, interrupt thread, link-test timer, watchdog |
| Camera watcher | `cubesat_watch` | next image id, image directory | one image request, then exits and is respawned |
| Radio chip driver | `cubesat_radio` | configured or not, profile, last modulation; the chip's own registers, buffer and interrupt line | open, configure, send, receive, listen |
| Codecs | `cubesat_captain/cubesat_comms` | none | pack and unpack of every packet, shared with the ground |
| Pi I/O | `cubesat_pi_io` | sensor handles and scale, GPS line buffer and fix, the buzzer's code, index and count | periodic reads, beep player |
| Bringup | `cubesat_bringup` | flight directory | launch, respawn, restart of the stack |

**How they interact.** The captain is the hub. It receives IMU, power, GPS and
arm samples as topics; it moves the doors and the arm through two ROS actions
of the bridge (goal, accepted or rejected, result), asks the bridge to hold the
doors through a service, asks the watcher for pictures through a topic, and
exchanges packets with the ground through topics of the radio node. Each node
is a process of its own which the launch file respawns. Inside a node the
callbacks run one at a time on a single-threaded executor; the exceptions are
the captain's detached camera-wait threads and the radio's two threads.

**What is hard.**

* The callbacks of an expert stay reachable after its state is over: an answer
  to an old goal, or a thread that wakes up, acts on a captain that has moved on.
* The camera-wait threads write plain fields of the experts while the executor
  reads and writes them.
* A state change touches five things in order (exit, current state, file, enter,
  and for the arm experts a nested state change) and may be cut by a crash.
* The hold of the doors lives in another process than the state it follows;
  each may crash and respawn alone, and the requests travel on a channel that
  is not ordered with the action goals.
* The radio thread sleeps on a word of flags which two other threads set, one of
  them after a push under a mutex that the word does not share.
* The watcher serves one request per process; files are written by it and read
  by the captain with no lock, and either may die between two of them.
* Attempts, path indices and timeouts are what makes the mission end at all.
* A transfer over SPI may fail anywhere in a callback, and mostly its result is
  dropped: the actuator board answers each transfer in the next one, and the
  radio chip goes on by itself between two commands.
* The chip, the actuator board, the accelerometer and the files outlive the
  processes that believe to know their state.
* Packets are laid out by hand, their lengths checked by hand, and what they say
  is put together from samples of different ages.
* GPS lines are cut from reads that end anywhere and are not checked.

**What makes each component correct.** Captain: the timer, the file, the hold
and the pad latch agree with the state on every path; the mission always ends
in `Emergency` (from where the pictures are sent); state changes have a cause.
Bridge: mode and handle agree, every motion ends, one motion at a time.
Radio: no packet, interrupt or link test is forgotten between its three
threads, and packets go on air once and in order. Watcher: metadata never
promises a block that is not whole, no picture overwrites another, and the
process comes back for the next request. Link to the board: a fault costs one
reply or one result and never shifts those that follow. Chip driver: a call that
meets no failure leaves the chip listening whatever failed before. Codecs and
telemetry: the other end reads what was meant. Pi I/O: samples have the scale of
the sensor, the gravest alarm is heard, the fix is the newest.
Together: both sides agree on which goal runs; doors are held exactly in
flight; the arm is unfolded only after the doors were swung (section 4 says when
they are not). The complete list of
hazards, each at its line, is under `hazards` in `PROJECT.json`.

## 2. Modules

| Module | Models | Composes |
|---|---|---|
| `Captain` | the captain: one action per callback, handler or step of a thread, with an open bridge that may answer anything | |
| `Mission` | abstract specification of the captain: the phase of the mission and the activities that may still move it on | refined by `Captain` |
| `Boost` | the detection of the boost: the ring buffer and running total behind one bit of `Captain` | |
| `StmBridge` | the bridge with arbitrary clients | |
| `StmLink` | the bridge over its SPI link to the actuator board: every transfer of every callback, failing transfers, resets and reboots, the saved arm pose | refines `StmBridge` |
| `Payload` | captain and bridge: the captain's goals meet the bridge's rules, with crashes of either | `Captain`, `StmBridge` |
| `Packets` | the packets, byte by byte: what is packed and what is unpacked | |
| `Comms` | what ground and payload tell each other: last samples, heartbeats, telemetry, the dispatch of commands | `Packets` |
| `Radio` | the radio node: executor, radio thread, interrupt thread, chip | |
| `Outbox` | abstract specification of the radio node: accepted packets go on air once and in order | refined by `Radio` |
| `Sx1262` | the driver's calls command by command, the chip, the antenna switch and DIO1 | |
| `Images` | the watcher and the captain's image downlink over the shared directory | |
| `GpsReader` | UART, line buffer, parser and fix | |
| `PiIo` | the Pi's node: accelerometer, buzzer, alarms, GPS, starts and deaths | `GpsReader` |
| `MCCaptain`, `MCPilots`, `MCPayload`, `MCRadio`, `MCComms`, `MCSx1262` | instances for TLC: budgets of commands, failures and packets; values | one each |
| `MCGround` | instance for TLC: the pictures, or the packets | `Images`, `Comms` |
| `MCDrivers` | instance for TLC: one driver at a time | `PiIo`, `Boost`, `Sx1262` |
| `CaptainProofs`, `StmBridgeProofs` | theorems for every value of the constants | one each |
| `LinkProofs` | theorems of the two links: to the actuator board, and by radio | `StmLink`, `Radio` |
| `GroundProofs` | theorems about what the ground gets: pictures, packets and what they say | `Images`, `Comms`, `Packets` |
| `DriverProofs` | theorems of the drivers on the Pi and of the boost detection | `PiIo`, `GpsReader`, `Sx1262`, `Boost` |
| `FoldLemmas` | facts about sums and folds, cited by the two above | |
| `MissionProofs` | theorems: the captain implements `Mission`; the chain of its work | `CaptainProofs`, `MCPilots` |
| `PayloadProofs` | theorems of captain and bridge together | `CaptainProofs`, `StmBridgeProofs`, `MCPayload` |

Operators whose comment says *faulty* are broken variants of a modelled
operator: a property is shown to matter by replacing the real one by the variant.

### Captain: state and actions

`phase` is `status.current_state`; `lastState` the content of
`flight_dir/last_state`. `ChangeState` is `change_internal_state` as a whole:
exit of the old expert, save, enter of the new one, including the nested change
to `Emergency` that an arm expert makes when the arm is far from its first
pose. `EnterState` collects what the eight `enter_state` methods assign.
`FlipFinish` and `DecideNext` are the callbacks of the goals, reached by a
refusal as well as by a result; they do not look at the active state, as in the
code. A thread is a record with a program counter; each `++` on a shared field
is a load and a store.

Data is reduced to what decides: an acceleration sample is "the average is over
the threshold or not", the orientation is the face that lies down, the arm pose
is "near or far from the pose compared with". Until an arm status arrives the
stored angles are zero, which is far from every pose. `attempts` saturates
above its limit since only the comparison is used; the code's counter is an
`int` that no life of a process brings near overflow.

A crash between callbacks is `Crash`; a crash inside a state change is
`CrashInChange`, which may leave the file as it was, empty or written.
`RestartSystem` restarts the stack in the old directory or a new one.

### Bridge: state and actions

`mode` is `active_mode`, `handle` the two kept goal handles, `clock` where the
time stands against the show-progress time (30 ms) and the timeout of the goal.
`stm` is what the board does: the firmware is not in this repository, and all
that is assumed of it is in the header of the module. Results of a poll are any
status, as a failed SPI transfer is dereferenced like a good one.

### The link to the board: state and actions

`StmLink` keeps `mode`, `handle` and `clock` of the bridge and adds the other end
of the wire: `told` is what the bridge last told the board to do, `board` what
the board does, the reply it has ready, its pose and target; `arm` is where the
arm really is and `disk` the file `last_arm`. A callback is one step, since the
executor runs one at a time and nothing else talks to the board; each action
takes the set of its own transfers that fail (`Fails`), and what a failed
transfer leaves undone is left undone (`Heard`, `Move`). A read is two transfers,
`AskListen`: when the second is lost, its reply is what the next poll decodes, as
the kind of a reply is never looked at. `Poll` is `onStatusTimer`: poll, IMU reads
every `ImuEvery` beats, the tick of the running motion, the save every
`SaveEvery`. `tale` is history for the properties: faults so far, replies and
results that were not true, whether a command was lost, and whether board and
file still know the pose.

### Packets and Comms: state and actions

A packet is a sequence of bytes; `CommandLayout`, `TelemetryLayout` and their
like name the bytes field by field in the order of the code. Widths and byte
orders are those of the code (`Le`, `Be`, `Byte`): a value that does not fit is cut. Floats
are integers of their width. `Comms` holds `status`, the `StatusAccumulator`, and
`primary`, the kind of the heartbeat; `uplink` carries with the bytes what the
ground meant, `downlink` what was so when the packet was sent, so that the
properties compare meaning with meaning. What was so is told by `past`, the history of
samples, states entered and camera commands since the start, and not by `status`,
so that a field mixed up on its way into `status` is seen too. `HandlePacket` is the dispatcher with
every command and its arguments; a packet may lose bytes at its end. Link changes
go on to the radio's profile.

### The chip driver: state and actions

A call of the radio thread is a list of commands, `todo`, taken one by one; each
is what it sets on the board. `Goes` is a command that succeeds, `Fails` one that
is lost, or that takes effect and is still reported (the busy line stays up), after which the
rest of the call is what the code does then. `call`, `result`, `heard` say what
the node learns. Between two commands the chip receives, finishes a transmission
or lets its timer run out. `lines` is whether the switch is wired to lines of the
Pi. `Radio` takes the driver's calls as steps; `Sx1262` shows what stands behind
them and when (`CleanCallHeals`).

### Pi I/O: state and actions

`lis` is the driver, `chip` the registers it wrote, which outlive the process.
`buzz` is the buzzer with its index that runs on. `captain` is the part of the
captain that asks for beeps. `GpsReader` cuts a sentence into six tokens, each of
which can be lost and after each of which a read can end. A parser that throws
takes the process with it, since nothing in `onGpsTimer` catches.

### Radio: state and actions

`flags` is the atomic word `radio_flag_signal`, `outbound` the queue under
`queue_and_profile_mutex`, `about` is `about_to_send` of the loop. The loop of
the radio thread is cut where another thread can come between: `Check` (is
rclcpp still up), `Take` (wait, then exchange the flags), `Drain` (under the
mutex), `Receive`, `Expire`, `Hear` and `Transmit`. `submitPacketToSend` is two
actions, since the flag word is read without its mutex. `chip` and `edge` stand
for the packet the chip holds and the rising edge of its interrupt line; that
`send()` and `configure()` clear both is part of `Transmits` and `Configures`.
The node goes down by a signal or the watchdog (`Shutdown`, `Destruct`, `Join`)
or at once (`Kill`), and the launch file starts it again; a chip that does not
answer makes it `deaf`: it accepts packets for ever and has no radio thread.
Two branches of the loop that nothing can reach (`setProfileNow` has no caller,
nobody sets `RX_CHANCE_EXPIRED_BIT`) are left out. Profiles are names; a packet
is its number.

### Images: state and actions

`folders`, `blocks` and `metas` are the images directory: the folders that
exist, each block file as absent, torn (opened and not yet written) or whole
with the picture it shows, and the metadata files. `pc` walks through
`handleImageRequest`: folder, camera, blocks one by one (`OpenBlock`,
`SavePacket`), metadata saved, metadata published, shutdown. A picture is named
by the request it was taken for, so that a stale frame would be seen. The frame
is a static of the process, as in `ImageTaker.cpp`; a camera that gives none
leaves it as it was. The captain's part is its executor and its detached
emergency threads (`jobs`): each sends a list of blocks, file by file. `told`
and `onAir` record what went down. Ids on air and in the packets' path are
`uint8_t` (`IdModulus`). A torn metadata file is the same as none: it fails to
load.

### Boost: state and actions

`underlying`, `oldestIndex` and `total` are the fields of `CCircularBuffer` and
`CRollingSum`; samples are integers. `phase` is the part of the mission in
which samples reach the expert.

## 3. Runs

| Run | Question | Distinct states |
|---|---|---|
| `captain_mission` | Does every step of the captain, with a ground command and a failure anywhere, keep timer, file, hold and pad latch in agreement, and does it implement `Mission`? | 218 347 |
| `captain_pilots` | Left alone with a bridge that answers: one chain of goals, no pose beyond the path, every flight ends in Emergency? Flown by hand: does the arm come to rest at the end of the last command, with two return threads racing? | 205 056 |
| `link` | Do faults of the link stay what they are: one reply, one result, one pose; does the board obey what reaches it; do motions keep their goals and end? | 421 461 |
| `payload` | Do captain and bridge agree on the running goals through a command, or a crash of each, anywhere; are the doors never held outside flight; undisturbed, are they held exactly in flight, and each swung before the arm unfolds unless its flip overtook the release of the hold? | 1 716 676 |
| `radio` | Is no wake-up, interrupt, packet or order lost, are accepted packets sent, do link tests and a shutdown end, through kills and a dead chip? Does the node implement `Outbox`? Outside link tests, is the chip on the profile that a revert would bring back? | 382 810 |
| `ground` | Pictures: is what the ground is told of one true, is one id one picture, is nothing overwritten, does the watcher come back? Packets: do commands do what the ground meant, and does the ground read what was so, but for what section 4 names? | 682 448 |
| `drivers` | Pi I/O: scale of samples, alarms, fix and boost, with failing transfers, lost bytes and deaths. Radio chip: does a clean call heal what failed before, is one fault safe to transmit with, are heard packets of the ground, and profiles whole? | 3 050 632 |
| `payload_doors` (violation) | Are all doors swung before the arm unfolds, when nothing fails and no command comes? | |
| `board_restart` (violation) | Is a board that stays silent reset? | |
| `radio_bare_test` (violation) | Outside link tests, is the chip always on the profile that the node calls stable? | |
| `chip_true` (violation) | Does `send()` return true only for packets that went out, when nothing fails? | |
| `comms_cut` (violation) | Does a command whose end is missing do nothing? | |

**Bounds.** `GoalIds` and `ThreadIds` bound goals and threads in flight: left
alone the captain has at most one of each (`ChainInOrder` is itself checked
with two slots), and one command adds at most one chain, so two goals and one
thread cover one command or failure; an action that finds no free slot waits.
`MaxHoldReqs` = 2 is what one state change can send (Flight to Flight).
`FlipLimit` and `SideLimit` are 20 and 10 in the code; the runs use 3 and 1, or
5 and 2, so that the limits are met. The paths have 4 and 12 poses in the code and 2 to 4 in the runs with
autonomous work: enough for a first, a middle and a last pose. `MaxGround`,
`MaxFailures`, `MaxCaptain`, `MaxBridge`, `MaxCrashes`
and `MaxCommands` are budgets: one command and one failure at any step reach
all the interleavings of the hazards; each budget is a variable of the MC
module; `StmLink`, `Comms` and `Sx1262` count their faults and packets themselves. `payload` gives ground commands only to histories
without a crash. `MCPilots` has one pilot per behaviour, with up to four hand
commands. `radio` chooses a budget at the start: two packets to send, one heard
and one end of the process; one, two and one; or three and one, with no end (one
packet waiting, one drained, one being pushed); `MaxAnnounced`, 63 in the code,
is 1, so that more packets wait than the header can say. `link` has one client,
two places of the arm, two faults anywhere, and `ImuEvery` = `SaveEvery` = 3,
the least that separates the two IMU reads and the save (50 and 10 in the
code); its theorems have no bounds. The pictures of `ground` have two requests, two
blocks each and one crash, which is enough for a picture, its successor, and an
id that a crash left half-filled; `IdModulus` is 256 in the code and 2 here, and
ids stay below it (see section 6); its packets have two samples or changes and one
packet up, which loses up to four bytes; its values are at the edges of their
fields (a width that needs more than 13 bits, a negative altitude, a
clock that was set ahead and back, 61 blocks asked for). The chip of `drivers` has three faults and one kill, the
deployed profile and a fast one, a heartbeat and a block; the Pi's node has the code's
thresholds in register units, short repeat counts, three sentences, one
loss of the UART and one death; none of the parts uses another, so a behaviour looks at one,
as a behaviour of `ground` looks at pictures or at packets. The window of the boost is 5 instead of
12; its samples are below, just above and far above the threshold. Goal and thread
slots are interchangeable, so `captain_mission` and the `payload` runs use
symmetry; runs with a liveness property do not.

`CHECK_DEADLOCK FALSE` is used where the payload may really stop: in Emergency
or on the pad with no command left there is nothing more to do, and a node whose
budget of packets or requests is used up waits.

**Fairness.** `Fairness` of `Captain`, used by `captain_pilots`, assumes weak
fairness of each kind of callback, of each
thread, of the answers of the bridge and of the flight timer while it runs: the
executor spins and takes ready callbacks, the kernel schedules threads, the
bridge's own run (`link`, `MotionsEnd`) shows that every accepted motion ends,
and a wall timer fires. Nothing is assumed of the ground, of samples (the
launch may never come) or of failures. `LinkSpec` assumes that time passes and
that the 50 Hz timer polls once a motion is overdue; it assumes nothing of the
board or of the link. `PolledSpec` adds that the timer polls for ever, which is
all that the counterexample of `board_restart` needs. `RadioFairness` assumes
that the three threads run, the link test timer comes due and a process that
shuts down is destroyed; nothing of the ground, the chip or the submitters.
`ImagesFairness` assumes that the watcher's thread runs, that its 5 s wait ends
and that the launch file restarts it; no frame is owed.

## 4. What the checks show

All invariants and the refinements hold within the bounds. Five statements of
the repository do not hold of the code:

1. `payload_doors`: a door counts as opened when its goal is sent, and a refused
   goal is answered by going on to the next door. Leaving Flight asks for the
   release on a service and entering Flipping sends the first goal on an action,
   with nothing between them that waits or orders the two. A goal that the bridge
   looks at first is refused, for it still holds the doors, and the arm is
   unfolded with doors that never moved, without any failure. The same becomes
   of a captain that respawns while the bridge still moves for its former life:
   its goals are refused until all the doors count as open.
2. `board_restart`: the counter of failed polls is a local variable, zero at the
   start of every poll, so the reset of a silent board is never reached.
3. `radio_bare_test`: a link test makes `profileUnderTest` stable, which is a
   default-constructed profile until the first link change. The deployed
   `radio.yaml` has 18 dBm and the default 22, so a link test with no link change
   before it leaves the node reverting, later, to a profile it never was on.
4. `chip_true`: `send()` computes whether the packet went out and returns
   whether the chip listens again. With the deployed profile a block of a picture,
   129 bytes, is on air for 7 s, a full packet for 14 s, and the chip's timer is
   3 s.
5. `comms_cut`: the decoder of a servo motion asks for the length of a motor jog
   (`packets_g2p.c:70`), so a motion without its last byte or two is carried out
   with bytes of an older packet, the servo among them.

Three more deviations were met, which no run is about and no property claims or
denies, so that a repair leaves every property true:

* A link change to SF_5 or SF_6, which `lora.h:11-12` defines, configures
  spreading factor 7: the conversion falls through and returns the enumerator
  `SF_12`, whose number is 7 (`radio_node.cpp:78`).
* The landed heartbeat is packed from an uninitialised reply in which nothing sets
  the two accelerations (`packet_writer.cpp:80-92`, `:120`; `packets_p2g.c:94-95`): the
  model has any bytes there, and the ground reads them.
* `next_image_id` of the landed heartbeat is the highest id announced
  (`packet_writer.cpp:82`) and not the next one, as `common.h:106` has it.

What the properties leave out, and why, is part of the result:

* `GoalsAgree` holds through crashes; `HeldAsFlown` asks for the hold only of
  histories without commands and crashes, because a bridge that restarts in
  flight forgets it and nobody asks again. That doors are not held outside of
  flight is asked of every history.
* `ChainInOrder` is about the captain left to itself: a second Panorama command
  during the first starts a second chain on the same index.
* The callbacks of `FlippingExpert` and `ArmExpert` do not look at the active
  state: a goal answered after ForceManual moves the mission on. `Mission` says
  so (`Advance` from any phase while an activity is alive).
* `ManualSettles` is about where the arm comes to rest. Whether a photo command
  ends with a picture depends on later commands: `take_photo_with_arm_movement`
  is one field, written when a command arrives and not when its move is accepted.
* `SentOrListening` excepts a payload that was told to listen on: nothing ends
  that state but the next packet or the watchdog.
* A link test given up early: its expiry is a flag that names no test, so one
  on its way when the next link change is handled ends the new test at once.
  `LinkTestEnds` holds; that each test has its full 30 s does not.
* The acknowledgements of link packets are sent whether or not the node is muted.
* `DoorsSwungUndisturbed` counts a door whose flip was refused ahead of the release
  as `missed` and asks that every door be swung or missed: it is what is left of
  `DoorsSwungBeforeUnfolding` when goals and requests arrive in any order. It still
  says that no flip is refused for another reason, and that no door is forgotten.
* `StableUnlessUntested` excepts one pair of profiles: the chip on that of the
  parameter file, the default one called stable. `radio` has parameters that
  differ from the default, as those deployed do.
* `BoardObeys`: a lost stop leaves the board holding or moving and the bridge
  idle; nothing repeats it (`tale.deaf`). `CleanCallHeals` is about calls without
  a failure of their own; a failed send leaves the chip deaf until the next one.
* `DoneAsMeant` claims nothing of a servo motion whose end is missing
  (`comms_cut`), nor of the spreading factor of a change to SF_5 or SF_6.
* `HeardIsSo` is about the heartbeats, metadata, blocks and acknowledgements. Of a
  heartbeat it leaves out the constants of the code (temperatures, next command)
  and the accelerations of the landed one; the image id may be the last or the
  next. The status bits are all compared: those that the code means to set as the
  last samples have them, the others clear.
  Of the other telemetry: `unpack_imus` writes the base sample three times
  (`packets_p2g.c:50-52`), and the actuators, GNSS and system statistics are packed from
  memory that nobody wrote (`packet_writer.cpp:93-95`), as the accelerations of the
  landed heartbeat are; the model has any bytes there.
* `FixIsNewest` speaks of sentences received whole. After a loss a line may be
  parsed that is made of two (`sentence.cpp:29` says of it "string is already
  checked to be valid"; nothing checks it), and the parser may throw, which ends
  the process; the model has both.
* `GravestAlarmLast` is about a buzzer node that lived as long as the captain: an
  alarm is sent on the edge, and a node that starts again is not told.

## 5. What is proved

For every value of the constants that satisfies the modules' assumptions:

| Theorem | Property |
|---|---|
| `CaptainProofs`: `TypeCorrect`, `TimerSafe`, `SavedSafe`, `HoldSafe`, `PadSafe` | `TypeOK`, `TimerInFlight`, `SavedIsPhase`, `HoldFollowsFlight`, `PadRearmed` |
| `MissionProofs`: `MissionHolds` | `MissionSpec`: `Captain` implements `Mission` |
| `MissionProofs`: `ChainKept` | `ChainInOrder` |
| `StmBridgeProofs`: `BridgeTypes`, `GoalOfMotion`, `HoldKnown`, `ArmGoalSettled` | the bridge's types; a motion mode has its goal; a hold is known; an accepted arm goal is settled |
| `LinkProofs`: `LinkRefinesBridge` | `StmLink` implements `StmBridge` |
| `LinkProofs`: `LinkTypes`, `LinkKeepsGoals`, `OnlyLossDisobeys`, `OneReplyPerFault`, `PoseSurvives` | types, `MotionsHaveGoals`, `BoardObeys`, `SpoiltByFaults`, `PoseIsKept` |
| `LinkProofs`: `LiesAreEarned`, `SuccessHolds` | the inductive invariant of false successes; `SuccessIsTrue` |
| `PayloadProofs`: `PayloadTypes`, `GoalsAgreeAlways`, `NeverStuck` | `PayloadTypeOK`, `GoalsAgree`, `NeverStuckHeld`, whatever is commanded and whatever crashes |
| `PayloadProofs`: `HeldAsFlownAlways`, `DoorsSwungAlways` | `HeldAsFlown`, `DoorsSwungUndisturbed`, with any budgets |
| `LinkProofs`: `RadioTypes`, `LinkTestTimed`, `AnnouncedHonest` | types; a link test has a timer or its expiry on the way; no header announces a packet the thread does not hold |
| `LinkProofs`: `NoLostWakeUp`, `NoLostInterrupt` | `NeverSleepsOnWork`, `RxNoticed` |
| `LinkProofs`: `StableInUse` | `StableUnlessUntested`, for any parameter file |
| `LinkProofs`: `ImplementsOutbox` | `OutboxSpec`, the refinement of `Outbox` |
| `GroundProofs`: `ToldTrue`, `OnePictureOnAir`, `KeptForever` (if `MaxAsked <= IdModulus`) | `MetadataIsTrue`, `DownlinkIsOnePicture`, `PicturesAreKept` |
| `GroundProofs`: `EveryCallIsMeant`, `EveryReadIsSo` | `DoneAsMeant`, `HeardIsSo`, with the exceptions of section 4, for any arguments and samples that the structs hold, and any number of them |
| `DriverProofs`: `AccelTrue` (if `Measurable`), `GravestLast`, `InFull` | `AccelIsTrue`, `GravestAlarmLast`, `PlayedInFull` |
| `DriverProofs`: `FixNewest`, `BoostIsExact` | `FixIsNewest`, for any number of sentences and fixes; `BoostExactly`, for any window and readings |
| `DriverProofs`: `CleanCallHealsAlways`, `WholeProfile`, `HearsTheGroundAlways`, `TransmitsSafely` | `CleanCallHeals`, `ProfileIsWhole`, `HearsTheGround`, `OneFaultTransmitsSafely` |

**Captain.** The four safety invariants are not inductive by themselves: a dead
process must be known to have left no timer, latch or takeoff time, or the next
`Boot` could resurrect it. `IInv` is `TypeOK`, the four invariants (`Safe`) and
`DownIsBlank`, which says exactly that. The proof goes through lemmas about the
operators (`Settled`, `EnterState`, the timer and the hold after a change),
one lemma for a state change as such, which every caller of
`change_internal_state` uses, and then one step per action of `Next`.

**Mission.** The refinement needs `IInv` and one fact more: a dead process waits
for no answer (`DeadIsIdle`). What may still move the mission on, `Pending`, is a
function of the goals and the threads (`Owners`), so that each operator on goals
or threads has a lemma that says what it adds or takes away, and each action of
`Captain` is then a step of `Mission`, work that ends unseen (`Fades`), or nothing
the mission sees (`Unseen`).

**Chain of work.** That the captain left to itself has one goal at a time and
sends no pose past the end of its path is not inductive: the guard of the camera
thread lets an index of `path.size()` through, and it is `decide_next` that keeps
it from getting there, before the wait. `Chained` says that either one
goal or one waiting thread carries the work, that nothing does on the pad and in
Flight, and at each step of the wait what is known of the index (`OnPath`): a
wait begins where a pose is left, and nobody else moves the index before it does.

**Captain and bridge.** `PInv` is `IInv`, the bridge's own invariant, `GoalsAgree`
and two ties: no goal is in both handles (`OneHandle`), and the last hold request
on its way is the last one asked for (`HoldTold`). What an action of the captain
may do to its goals and requests is one lemma (`CaptainShape`), so that each tie
is proved against that shape and not against every action. `GoalsAgree`
distinguishes goal ids from "none" and "orphan", which `PayloadAssumption` asks
for. The two properties of an undisturbed flight need to know what is under way
on the pad, in Flight and in Flipping while no command came and nothing crashed
(`Undisturbed`): every door counted as opened has been swung, or its flip was
refused ahead of the release, but for the one of the goal under way (`Swings`). A
goal under way in Flipping finds the bridge idle, or holding with the release
still to be served: nothing else can refuse it.

**Bridge.** The type invariant and the three properties are inductive together:
a motion is only entered from idle, where they say that no former goal is left.

**Link.** `StepRefines` maps every step of `StmLink` to a step of `StmBridge` with
`told` for `stm`: what the abstract bridge reads from the board may be anything,
and a spoilt reply is something. So the theorems of the bridge hold over the link
(`LinkKeepsGoals`). `BoardObeys`, `SpoiltByFaults` and `PoseIsKept` are inductive
together with the types and the bridge's invariant (`LinkInv`); the heart of
`SpoiltByFaults` is that it counts a reply still to be misread (`Owed`), so that
a lost transfer is paid for when it is lost and not when its reply is decoded,
which takes counting the failed transfers of a step (`WithoutOne`,
`EachFaultCounts`). The proofs are for any number of faults. `SuccessIsTrue`
counts as well, but a success turns out false only when it is reported, long
after the fault. `Earned` therefore sets a fault aside for a motion as soon as its
success would be false (`Unearned`: its parameters were lost, or the board is
doing something else), and shows that no fault is set aside for two motions.

**Radio.** `NeverSleepsOnWork` speaks of a sleeping thread only. The invariant
`RInv` says at every step who still owes the queue a look (`QueueFlagged`), that
the loop goes round again while there is something to send (`SentUnlessBusy`),
and that a dead process left nothing behind (`Dead`). `StableInUse` rests on a
second invariant: outside the handling of a link change the profile under test
is that of the chip, or still the default one while the chip is on its parameters
(`TestIsInUse`). The refinement needs the types only, and three facts about
sequences.

**Images.** What the ground was sent is never compared with itself: the invariant
says that it is on the disk (`OnAirIsOnDisk`, `ToldIsOnDisk`), where nothing whole
is written again, so one picture on air follows from one picture in a folder
(`FolderIsOnePicture`). That holds because every id is taken once: folders are
numbered without a gap (`FoldersAreCounted`), a waiting request has a number the
count has not reached (`RequestsAhead`), and at each step the watcher knows what
its own folder holds (`AtWork`), a torn block included. The theorems assume
`MaxAsked <= IdModulus`: with more requests the ids wrap and the properties fail
(section 6).

**Packets.** A layout is a list of bytes, each the pieces of fields it holds, so
packing is a sum over the pieces of a byte and unpacking a sum over the bytes. That
a layout `L` is `Carried` says that every field comes back from the bytes `L` makes
of it. It is shown once for a byte, for words, triples and quads in both orders, and for the
bytes that two fields share (the header, the link byte, width and quality), and
joined by one lemma for two layouts in a row (`CarriedJoins`); no packet is ever
computed as a whole. Where the code packs by one layout and reads by another
(`ReCrop`, `Imus`) nothing of the kind is claimed.

**Commands.** `DoneAsMeant` speaks of the call just made. `UplinkSent` says that
the packet on its way up is the beginning of one that the ground packed, with
what it meant; from there it is one case per command, each with its layout. A packet that
lost its end fails the length test of its decoder, for any loss: that is where
`MoveServo`, whose test is that of a jog, is an exception; the other is the
spreading factor below 7. `CommsAssumption` says
what the constants can be: fields of the width the structs give them, at least as many
blocks as a request counts, an altitude below 2^16 (the code casts it to
sixteen bits unchecked) and a clock that has left 0.

**What the ground reads.** `HeardIsSo` compares what is read with the whole history of
samples, and is not inductive: a packet read now was packed when other samples were the
last. `Keeping` says that the captain's status is what the history tells of it
(`Recalls`: the last of each kind, the last fix that was one, the highest image id,
the state entered last, whether the camera runs and the time of the last takeoff) and that each packet on its way down is `Good`,
which says that it will be read as what was so when it was packed and speaks of no
later state. So the samples only have to keep `Recalls` and the
emissions only have to make good packets; a change of state does both, in the
order of the code. Bytes that no line sets are any bytes.

**Pi I/O.** A driver that believes it is configured is right about the chip
(`DriverKnowsChip`), whatever failed or an earlier life left there. `AccelTrue`
assumes `Measurable`, that the forces met are ones a 12-bit reading shows without
rounding in every range, because `AccelIsTrue` compares values exactly; those of
the run are such. The gravest alarm is last because the last request in the
queue, or the code playing when there is none, is that of the gravest alarm
raised (`LastWord`). `PlayedInFull` is inductive with `Counted`, which weighs the
beeps played against the passes done and the position in this one.

**GPS.** `FixIsNewest` holds because reader and writer never disagree: the line
buffer holds a beginning of the sentence on the wire (`InStep`), and the fix is that
of the last whole sentence, where the one being read is still due (`Due`).
`GpsAssumption` says that a whole sentence fits a line; the code drops a line that
is longer, and the property is not claimed for such.

**Boost.** The running sum of the ring buffer is the sum of the window: the
invariant (`RingHoldsWindow`) relates the ring, read from the write index on, to the
last samples heard, and one lemma says what overwriting one slot does to a sum.

**Sums and folds.** The community modules define a fold by a function that is
chosen on the subsets of its domain, so nothing follows from it by evaluation.
`FoldLemmas` derives from the well-foundedness of strict
subsets, in the form of sets and not of an operator parameter, that the function
exists, and from that how a sum changes when a term is added, removed or
replaced, and what a fold over a sequence is when an element is appended.

**Radio chip.** The properties speak of the end of a call, or of one moment in it;
the invariants speak of `todo`, the steps that are left. `Heals` and `Whole` say
what those steps will have set when they are through (`Will`: the last one that
sets it decides, or the board as it is). A call promises that when it begins
(`HealingCalls`), a step that takes effect keeps it, a failure spoils the call or
is reported. `GroundInv` says that a call which writes a packet to the shared
buffer clears the flags behind it (`FlaggedLater`), so that `RX_DONE` at rest
means a packet of the ground. For `OneFaultTransmitsSafely` the order of the
steps matters (`TxGuarded`): the switch is turned before the chip transmits, and
turned away only after another step has ended that. Before the first failure a
chip that transmits is also waited for, and no old flag can end the wait
(`AwaitedOnAir`); the first failure may break that and leaves the order. The
programs of the calls are the ones of the code, computed from their parts
(`SendsTable` and the like), for any profiles and packets and any number of failures and
deaths.

Model-checked only: all liveness (temporal proofs under fairness are out of the
prover's reach). Every safety invariant and action property of a passing run is the
property of a theorem. Type
invariants other than `TypeOK` are proved or were checked with the module and are
not properties of a run.

## 6. Not modelled

Sensor arithmetic and the rounding of the boost average; the wording of logs; the
lengths of heartbeat periods and their change by parameter; system statistics;
the scaling of IMU vectors; pixels and the coding of SSDV; LR-FHSS and the other
parts of the vendored drivers that nothing calls; the ground station beyond its
use of the shared codecs; the firmware of the actuator board, of which `StmLink`
states what the bridge relies on. Reasons are with the components in
`PROJECT.json`.

Image ids beyond 255: `compressAndSave` narrows the id to eight bits, so image
256 writes its blocks over those of image 0 in the same flight directory.
`PicturesAreKept` and `MetadataIsTrue` are about the first 256 images.

## 7. Plan

In this order:

1. Ground and radio composed: link changes with an explicit ground and a lossy
   channel, and whether both ends meet on one profile again; `Radio` over
   `Sx1262`, with the driver's calls in place of its steps.
2. The bridge over its link in place of the bridge in `Payload`.
