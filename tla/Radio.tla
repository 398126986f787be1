-------------------------------- MODULE Radio --------------------------------
(***************************************************************************)
(* The radio node: a transmit queue filled by the executor's callbacks, a  *)
(* radio thread that drains it and reacts to what the chip receives, and an*)
(* interrupt thread that turns the chip's interrupt line into a flag. The  *)
(* radio thread sleeps on the atomic word of flags.                        *)
(*                                                                         *)
(* setProfileNow has no caller and no code sets RX_CHANCE_EXPIRED_BIT, so  *)
(* neither of the two branches of the loop is here. Results of SPI         *)
(* transfers are only logged by the loop; they succeed here.               *)
(***************************************************************************)
EXTENDS Naturals, Sequences

CONSTANTS
  Profiles,         \* link profiles
  ParamProfile,     \* the profile of the parameter file
  DefaultProfile,   \* a default-constructed RadioProfile
  Muted,            \* the parameter "muted"
  MaxAnnounced,     \* MAX_PACKETS_BEFORE_RESPONSE
  MaxPackets        \* packets ever submitted (a bound of the model)

ASSUME RadioAssumption ==
  /\ ParamProfile \in Profiles /\ DefaultProfile \in Profiles
  /\ Muted \in BOOLEAN /\ MaxAnnounced \in Nat /\ MaxPackets \in Nat

(* What the ground sends: its kind, the profile a link change names, and   *)
(* whether the header announces more packets to come.                      *)
Hearable == [kind : {"control"}, profile : Profiles, more : BOOLEAN]
           \cup [kind : {"test", "other"}, more : BOOLEAN]
Nothing == [kind |-> "nothing"]

Flags == {"stop", "interrupt", "packet", "expired"}
(* "none": there is no radio thread.                                       *)
Pcs == {"none", "check", "wait", "drain", "receive", "expire", "hear",
        "transmit", "exited"}

VARIABLES
  node,       \* "down", "up", "deaf" (the constructor gave up), "stopping"
              \* (rclcpp::ok() is false), "joining" (in the destructor)
  flags,      \* radio_flag_signal
  outbound,   \* outbound_queue
  submitting, \* a submitter holds queue_and_profile_mutex, its push done
  pc,         \* where the radio thread is in its loop
  status,     \* the flags taken in this iteration
  busy,       \* stillHaveWork
  about,      \* about_to_send
  rx,         \* the packet received in this iteration
  state,      \* "Idle" or "RxEnforced"
  isLinkTesting,
  profileUnderTest,
  stableProfile,
  linkTimer,  \* wait_for_link_test_timer is running
  linkDue,    \* its callback has been taken by the executor
  hw,         \* the profile the chip was last configured with
  chip,       \* the packet the chip has received and nobody has read
  edge,       \* a rising edge of DIO1 that waits for the interrupt thread
  accepted,   \* number of packets accepted (history)
  air         \* the last transmission, and the last packet sent (history)

queueVars  == <<outbound, submitting, accepted>>
loopVars   == <<pc, status, busy, about, rx>>
linkVars   == <<state, isLinkTesting, profileUnderTest, stableProfile>>
timerVars  == <<linkTimer, linkDue>>
chipVars   == <<hw, chip, edge>>
radioVars  == <<node, flags, queueVars, loopVars, linkVars, timerVars, chipVars, air>>

Packets == 1..MaxPackets

RadioTypeOK ==
  /\ node \in {"down", "up", "deaf", "stopping", "joining"}
  /\ flags \subseteq Flags /\ status \subseteq Flags
  /\ outbound \in Seq(Packets) /\ about \in Seq(Packets)
  /\ submitting \in BOOLEAN /\ busy \in BOOLEAN
  /\ pc \in Pcs
  /\ rx \in Hearable \cup {Nothing} /\ chip \in Hearable \cup {Nothing}
  /\ state \in {"Idle", "RxEnforced"}
  /\ isLinkTesting \in BOOLEAN
  /\ {profileUnderTest, stableProfile, hw} \subseteq Profiles
  /\ linkTimer \in BOOLEAN /\ linkDue \in BOOLEAN /\ edge \in BOOLEAN
  /\ accepted \in 0..MaxPackets
  /\ air \in [queue : 0..MaxAnnounced, packet : 0..MaxPackets]

RadioInit ==
  /\ node = "down"
  /\ flags = {} /\ outbound = <<>> /\ submitting = FALSE
  /\ pc = "none" /\ status = {} /\ busy = FALSE /\ about = <<>> /\ rx = Nothing
  /\ state = "Idle" /\ isLinkTesting = FALSE
  /\ profileUnderTest = DefaultProfile /\ stableProfile = ParamProfile
  /\ linkTimer = FALSE /\ linkDue = FALSE
  /\ hw = ParamProfile /\ chip = Nothing /\ edge = FALSE
  /\ accepted = 0 /\ air = [queue |-> 0, packet |-> 0]

(* The process is gone, and what it held with it.                          *)
Gone ==
  /\ node' = "down"
  /\ flags' = {} /\ outbound' = <<>> /\ submitting' = FALSE
  /\ pc' = "none" /\ status' = {} /\ busy' = FALSE /\ about' = <<>> /\ rx' = Nothing
  /\ state' = "Idle" /\ isLinkTesting' = FALSE
  /\ profileUnderTest' = DefaultProfile /\ stableProfile' = ParamProfile
  /\ linkTimer' = FALSE /\ linkDue' = FALSE
  /\ hw' = ParamProfile /\ chip' = Nothing /\ edge' = FALSE
  /\ air' = [air EXCEPT !.queue = 0]
  /\ UNCHANGED accepted
-----------------------------------------------------------------------------
(* open(): the chip answers to every step of its set-up, or not.           *)
Opens == node' \in {"up", "deaf"}

(* configure(): the profile, and every interrupt of the chip is cleared, a *)
(* packet that was not read with it.                                       *)
Configures(profile) == hw' = profile /\ chip' = Nothing

(* The constructor. When the chip does not answer it returns early: no     *)
(* thread and no timer is started, but the node takes packets.             *)
Start ==
  /\ node = "down"
  /\ Opens
  /\ pc' = IF node' = "up" THEN "check" ELSE "none"
  /\ UNCHANGED <<flags, queueVars, status, busy, about, rx, linkVars, timerVars,
                 chipVars, air>>

(* The watchdog timer, after five minutes without a packet, or a signal:   *)
(* rclcpp::ok() is false from now on and the executor returns.             *)
Shutdown ==
  /\ node \in {"up", "deaf"} /\ ~submitting
  /\ node' = "stopping"
  /\ linkDue' = FALSE
  /\ UNCHANGED <<flags, queueVars, loopVars, linkVars, linkTimer, chipVars, air>>

DestructSilent ==                                              \* faulty
  /\ node = "stopping" /\ node' = "joining"
  /\ UNCHANGED <<flags, queueVars, loopVars, linkVars, timerVars, chipVars, air>>

(* The destructor wakes the radio thread ...                               *)
Destruct ==
  /\ node = "stopping" /\ node' = "joining"
  /\ flags' = flags \cup {"stop"}
  /\ UNCHANGED <<queueVars, loopVars, linkVars, timerVars, chipVars, air>>

(* ... and joins it; a node without threads has nothing to join.           *)
Join ==
  /\ node = "joining" /\ pc \in {"exited", "none"}
  /\ Gone

Kill == node # "down" /\ Gone
-----------------------------------------------------------------------------
(* submitPacketToSend of a packet that is neither empty nor too long: push *)
(* and flag under the mutex, the flag word being read without it.          *)
SubmitPush ==
  /\ node \in {"up", "deaf"} /\ ~Muted
  /\ ~submitting /\ accepted < MaxPackets
  /\ submitting' = TRUE
  /\ accepted' = accepted + 1
  /\ outbound' = Append(outbound, accepted + 1)
  /\ UNCHANGED <<node, flags, loopVars, linkVars, timerVars, chipVars, air>>

SubmitUnflagged ==                                             \* faulty
  /\ submitting
  /\ submitting' = FALSE
  /\ UNCHANGED <<node, flags, outbound, accepted, loopVars, linkVars, timerVars,
                 chipVars, air>>

SubmitFlag ==
  /\ submitting
  /\ submitting' = FALSE
  /\ flags' = flags \cup {"packet"}
  /\ UNCHANGED <<node, outbound, accepted, loopVars, linkVars, timerVars,
                 chipVars, air>>

(* The 30 s timer of a link test comes due, and its callback runs; a       *)
(* cancel in between comes too late.                                       *)
LinkTimerFires ==
  /\ node = "up" /\ linkTimer
  /\ linkDue' = TRUE
  /\ UNCHANGED <<node, flags, queueVars, loopVars, state, isLinkTesting,
                 profileUnderTest, stableProfile, linkTimer, chipVars, air>>

LinkTestChanceExpired ==
  /\ linkDue
  /\ linkDue' = FALSE
  /\ flags' = flags \cup {"expired"}
  /\ UNCHANGED <<node, queueVars, loopVars, linkVars, linkTimer, chipVars, air>>

SignalInterrupt ==
  /\ pc # "none" /\ edge
  /\ edge' = FALSE
  /\ flags' = flags \cup {"interrupt"}
  /\ UNCHANGED <<node, queueVars, loopVars, linkVars, timerVars, hw, chip, air>>

(* The chip receives a packet, over one that was not read. Its interrupt   *)
(* line rises only if it was low.                                          *)
ChipReceives(p) ==
  /\ pc # "none"
  /\ chip' = p
  /\ edge' = (edge \/ chip = Nothing)
  /\ UNCHANGED <<node, flags, queueVars, loopVars, linkVars, timerVars, hw, air>>
-----------------------------------------------------------------------------
(* The radio thread. rclcpp::ok() at the head of the loop ...              *)
Check ==
  /\ pc = "check"
  /\ pc' = IF node = "up" THEN "wait" ELSE "exited"
  /\ UNCHANGED <<node, flags, queueVars, status, busy, about, rx, linkVars,
                 timerVars, chipVars, air>>

(* ... sleep until a flag is set, unless work is left; take the flags.     *)
Take ==
  /\ pc = "wait"
  /\ busy \/ flags # {}
  /\ status' = flags /\ flags' = {}
  /\ pc' = IF "stop" \in flags THEN "exited" ELSE "drain"
  /\ UNCHANGED <<node, queueVars, busy, about, rx, linkVars, timerVars, chipVars,
                 air>>

DrainedReversed == outbound \o about                           \* faulty
Drained == about \o outbound

Drain ==
  /\ pc = "drain"
  /\ IF "packet" \in status
     THEN ~submitting /\ about' = Drained /\ outbound' = <<>>
     ELSE UNCHANGED <<about, outbound>>
  /\ pc' = "receive"
  /\ UNCHANGED <<node, flags, submitting, accepted, status, busy, rx, linkVars,
                 timerVars, chipVars, air>>

(* receive() reads and clears the chip; a link change is remembered.       *)
Receive ==
  /\ pc = "receive"
  /\ IF "interrupt" \in status
     THEN rx' = chip /\ chip' = Nothing
     ELSE rx' = Nothing /\ UNCHANGED chip
  /\ profileUnderTest' = IF rx'.kind = "control" THEN rx'.profile
                         ELSE profileUnderTest
  /\ pc' = "expire"
  /\ UNCHANGED <<node, flags, queueVars, status, busy, about, state,
                 isLinkTesting, stableProfile, timerVars, hw, edge, air>>

(* LinkTestTimeExpired: back to the stable profile.                        *)
Expire ==
  /\ pc = "expire" /\ pc' = "hear"
  /\ IF "expired" \in status
     THEN /\ profileUnderTest' = stableProfile
          /\ Configures(stableProfile)
          /\ isLinkTesting' = FALSE /\ linkTimer' = FALSE
     ELSE UNCHANGED <<profileUnderTest, hw, isLinkTesting, linkTimer, chip>>
  /\ UNCHANGED <<node, flags, queueVars, status, busy, about, rx, state,
                 stableProfile, linkDue, edge, air>>

Announced(n) == IF n > MaxAnnounced THEN MaxAnnounced ELSE n

(* send(): it clears the chip's interrupts before and while it transmits,  *)
(* and the end of the transmission raises the line.                        *)
Transmits(packet, queue) ==
  /\ air' = [queue |-> Announced(queue),
             packet |-> IF packet = 0 THEN air.packet ELSE packet]
  /\ chip' = Nothing /\ edge' = TRUE

HearConfigUntimed ==                                           \* faulty
  /\ rx.kind = "control"
  /\ Transmits(0, 0)
  /\ Configures(profileUnderTest)
  /\ isLinkTesting' = TRUE /\ linkTimer' = FALSE
  /\ UNCHANGED stableProfile

(* LinkConfigHeard: acknowledge, switch, and wait for a link test.         *)
HearConfig ==
  /\ rx.kind = "control"
  /\ Transmits(0, 0)
  /\ Configures(profileUnderTest)
  /\ isLinkTesting' = TRUE /\ linkTimer' = TRUE
  /\ UNCHANGED stableProfile

HearTestUnsettled ==                                           \* faulty
  /\ rx.kind = "test"
  /\ Transmits(0, Len(about))
  /\ isLinkTesting' = FALSE /\ linkTimer' = FALSE
  /\ UNCHANGED <<hw, stableProfile>>

(* LinkTestHeard: acknowledge, and keep the profile under test.            *)
HearTest ==
  /\ rx.kind = "test"
  /\ Transmits(0, Len(about))
  /\ stableProfile' = profileUnderTest
  /\ isLinkTesting' = FALSE /\ linkTimer' = FALSE
  /\ UNCHANGED <<hw>>

(* The events of a received packet, RxAndContinue or RxSingle last.        *)
Hear ==
  /\ pc = "hear" /\ pc' = "transmit"
  /\ \/ HearConfig
     \/ HearTest
     \/ /\ rx.kind \in {"other", "nothing"}
        /\ UNCHANGED <<air, chipVars, isLinkTesting, linkTimer, stableProfile>>
  /\ state' = IF rx = Nothing THEN state
              ELSE IF rx.more THEN "RxEnforced" ELSE "Idle"
  /\ rx' = Nothing
  /\ UNCHANGED <<node, flags, queueVars, status, busy, about, profileUnderTest,
                 linkDue>>

(* Neither in a link test nor told to listen on.                           *)
MaySend == ~isLinkTesting /\ state = "Idle"

(* The packets left when the first one is out: what its header announces.  *)
Following == Len(about) - 1

SendFront ==
  IF MaySend /\ about # <<>>
  THEN Transmits(Head(about), Following) /\ about' = Tail(about)
  ELSE UNCHANGED <<air, chip, edge, about>>

NoWorkLeft == FALSE                                            \* faulty
WorkLeft == IF isLinkTesting THEN busy ELSE MaySend /\ about' # <<>>

TransmitClearsFlags ==                                         \* faulty
  /\ pc = "transmit" /\ pc' = "check"
  /\ status' = {} /\ flags' = {}
  /\ SendFront /\ busy' = WorkLeft
  /\ UNCHANGED <<node, queueVars, rx, linkVars, timerVars, hw>>

(* One packet per iteration.                                               *)
Transmit ==
  /\ pc = "transmit" /\ pc' = "check"
  /\ status' = {}
  /\ SendFront /\ busy' = WorkLeft
  /\ UNCHANGED <<node, flags, queueVars, rx, linkVars, timerVars, hw>>

RadioLoop == Check \/ Take \/ Drain \/ Receive \/ Expire \/ Hear \/ Transmit
-----------------------------------------------------------------------------
RadioNext ==
  \/ Start \/ Shutdown \/ Destruct \/ Join \/ Kill
  \/ SubmitPush \/ SubmitFlag
  \/ LinkTimerFires \/ LinkTestChanceExpired
  \/ SignalInterrupt
  \/ \E p \in Hearable : ChipReceives(p)
  \/ RadioLoop

(* The kernel runs the three threads, a running timer comes due, a process *)
(* that shuts down is destroyed.                                           *)
RadioFairness ==
  /\ WF_radioVars(RadioLoop)
  /\ WF_radioVars(SubmitFlag)
  /\ WF_radioVars(SignalInterrupt)
  /\ WF_radioVars(LinkTimerFires) /\ WF_radioVars(LinkTestChanceExpired)
  /\ WF_radioVars(Destruct) /\ WF_radioVars(Join)

RadioSpec == RadioInit /\ [][RadioNext]_radioVars
-----------------------------------------------------------------------------
(* The radio thread never sleeps on a packet that it could send, however   *)
(* the push, the flag word and the drain interleave.                       *)
Asleep == node = "up" /\ pc = "wait" /\ flags = {} /\ ~busy /\ ~submitting

NeverSleepsOnWork == Asleep => outbound = <<>> /\ (MaySend => about = <<>>)

(* A packet in the chip is noticed: an edge, a flag or an iteration that   *)
(* is about to read stands for it.                                         *)
RxNoticed ==
  node = "up" /\ chip # Nothing =>
    edge \/ "interrupt" \in flags
         \/ ("interrupt" \in status /\ pc \in {"drain", "receive"})

(* A link test always has a way to end: its timer runs, or has come due    *)
(* and the revert is on its way to the radio thread.                       *)
LinkTestEndsByItself ==
  node = "up" /\ isLinkTesting =>
    linkTimer \/ linkDue \/ "expired" \in flags \cup status

(* "Link test heard, sticking with it": outside a link test the chip is on *)
(* the profile that the node sticks with and would revert to, so a failed  *)
(* link change brings the ground back where it was.                        *)
StableIsInUse == ~isLinkTesting => hw = stableProfile

(* The same for whatever link changes, tests and timeouts came, but for a  *)
(* payload still on its parameter profile that heard a link test without a *)
(* link change: what it sticks with then is a default-constructed profile. *)
StableUnlessUntested ==
  ~isLinkTesting =>
    hw = stableProfile \/ (hw = ParamProfile /\ stableProfile = DefaultProfile)

(* The ground waits for as many packets as a header announces: the radio   *)
(* has them.                                                               *)
AnnouncedIsThere == air.queue <= Len(about)

(* Every accepted packet goes on air, unless the ground has told the       *)
(* payload to keep listening, the node dies or it never had a radio.       *)
Waiting == {outbound[i] : i \in DOMAIN outbound} \cup {about[i] : i \in DOMAIN about}

SentOrListening ==
  \A p \in Packets :
    p \in Waiting ~> (p \notin Waiting \/ state = "RxEnforced" \/ node # "up")

(* A link test ends.                                                       *)
LinkTestEnds == isLinkTesting ~> ~isLinkTesting

(* A node that shuts down ends, for the launch to start it again: the      *)
(* radio thread does not sleep through the stop.                           *)
ShutdownEnds == node \in {"stopping", "joining"} ~> node = "down"

Box == INSTANCE Outbox WITH queue <- about \o outbound, onAir <- air.packet

(* Accepted packets go on air once and in order, or are lost by a restart. *)
OutboxSpec == Box!Spec
=============================================================================
