------------------------------- MODULE Sx1262 -------------------------------
(***************************************************************************)
(* The driver of the radio chip and the chip: the calls that the radio     *)
(* thread makes (Radio takes their transfers to succeed) broken up into    *)
(* the commands they send over SPI. A command is what it sets on the       *)
(* board; it may get lost, or take effect and still be reported as failed, *)
(* the chip being busy for too long. Between two commands the chip goes on *)
(* by itself. Reads whose result is only logged are left out.              *)
(*                                                                         *)
(* The chip is external. The driver relies on this: it receives without    *)
(* end once told so; it leaves a transmission for FS, when the packet is   *)
(* out or the timer of set_tx has run out, whatever comes first; a flag    *)
(* raises DIO1, which stays up as long as one is set. Transmitted and      *)
(* received packets share its buffer, both at base 0. A packet whose CRC   *)
(* is wrong raises RX_DONE with CRC_ERROR, and receive() looks at RX_DONE. *)
(***************************************************************************)
EXTENDS Integers, Sequences, FiniteSetsExt

CONSTANTS
  Profiles,      \* link profiles, with the fields of RadioProfile
  ParamProfile,  \* the profile of the parameter file
  Outgoing,      \* packets the node sends, [from |-> "us", len |-> 1..255]
  Incoming,      \* packets the chip may hear, [from |-> "ground", len |-> 0..255]
  MaxFaults,     \* bound on failed transfers and line changes
  MaxKills       \* bound on deaths of the process

ASSUME ChipAssumption ==
  /\ ParamProfile \in Profiles
  /\ \A p \in Outgoing : p.from = "us" /\ p.len \in 1..255
  /\ \A p \in Incoming : p.from = "ground" /\ p.len \in 0..255
  /\ MaxFaults \in Nat /\ MaxKills \in Nat

VARIABLES
  node,    \* "down", "starting", "up", "deaf" (the constructor gave up)
  lines,   \* the lines tx_enable and rx_enable are wired; if not, DIO2 turns the switch
  board,   \* the chip's mode, flags and settings, and the antenna switch
  edge,    \* a rising edge of DIO1 that waits for the interrupt thread
  call,    \* the call in progress, or the last one
  todo,    \* what is left of it
  got,     \* the flags it has read and not yet cleared
  result,  \* what it returns
  asked,   \* the profile last asked for
  heard,   \* packets the last receive() returned, at most one
  went,    \* history: packets that went out whole during the call
  spoilt,  \* history: a transfer failed in this "call", in this "run" of the process
  faults, kills

driver == <<call, todo, got, result, asked, heard>>
chipVars == <<node, lines, board, edge, driver, went, spoilt, faults, kills>>
-----------------------------------------------------------------------------
(* The modulation that a profile asks for.                                 *)
Steps == {<<500000, 500000>>, <<250000, 250000>>, <<125000, 125000>>, <<62500, 62500>>,
          <<41700, 41667>>, <<31250, 31250>>, <<20800, 20833>>, <<15600, 15625>>, <<0, 10417>>}

ToBandwidth(hz) ==
  LET least == Max({s[1] : s \in {t \in Steps : t[1] <= hz}})
  IN  (CHOOSE s \in Steps : s[1] = least)[2]

ToCodingRate(cr) == IF cr \in 5..8 THEN cr - 4 ELSE 1

ComputeLdro(sf, hz) == (sf >= 11 /\ hz <= 125000) \/ (sf = 10 /\ hz <= 62500)

Modulation(p) ==
  [sf |-> p.sf, bw |-> ToBandwidth(p.bw), cr |-> ToCodingRate(p.cr), ldro |-> ComputeLdro(p.sf, p.bw)]

(* How long a packet is on air, as sx126x_get_lora_time_on_air_in_ms says. *)
Preamble == 8

CeilDiv(a, b) == (a + b - 1) \div b

OnAirMs(len, m) ==
  LET bits == 8 * len + 16 + 20 - 4 * m.sf + IF m.sf <= 6 THEN 0 ELSE 8
      perBlock == 4 * (m.sf - IF m.ldro /\ m.sf > 6 THEN 2 ELSE 0)
      blocks == CeilDiv(IF bits < 0 THEN 0 ELSE bits, perBlock)
      symbols == blocks * (m.cr + 4) + Preamble + 12 + IF m.sf <= 6 THEN 2 ELSE 0
  IN  CeilDiv(1000 * (4 * symbols + 1) * 2 ^ (m.sf - 2), m.bw)

TxTimeoutMs == 3000
-----------------------------------------------------------------------------
(* A command is what it sets on the board; Setup stands for those that set *)
(* what nothing here depends on.                                           *)
Setup == <<>>
Standby == [mode |-> "standby"]
SetTx == [mode |-> "tx"]
SetRx == [mode |-> "rx"]
Clear == [irq |-> {}]
Rf(side) == [rf |-> side]
PktParams(len) == [len |-> len]
WriteBuffer(p) == [buf |-> p]
Power(p) == [power |-> p.dbm]
Freq(p) == [freq |-> p.freq]
ModParams(p) == [mods |-> Modulation(p)]

\* The board when a command has set on it what it sets.
After(c, b) == [f \in DOMAIN b |-> IF f \in DOMAIN c THEN c[f] ELSE b[f]]

Unset == [sf |-> 0, bw |-> 0, cr |-> 0, ldro |-> FALSE]
Empty == [from |-> "nobody", len |-> 0]
Reset == [mode |-> "standby", irq |-> {}, power |-> 0, freq |-> 0, mods |-> Unset, len |-> 0,
          buf |-> Empty, rxLen |-> 0]

BoardFields == DOMAIN Reset \cup {"rf"}   \* of the board: the switch is not on the chip

(* A step of a call: the rest of the call follows whatever comes of it, or *)
(* a failure is the end of the call but for what it cleans up.             *)
Anyway(c) == [does |-> "set", set |-> c, must |-> FALSE, cleanup |-> <<>>]
Must(c, cleanup) == [does |-> "set", set |-> c, must |-> TRUE, cleanup |-> cleanup]
Musts(cs, cleanup) == [i \in DOMAIN cs |-> Must(cs[i], cleanup)]
Reads(what) == [does |-> what, set |-> Setup, must |-> TRUE, cleanup |-> <<>>]
Waits == [does |-> "wait", set |-> Setup, must |-> FALSE, cleanup |-> <<>>]

Listen == Musts(<<Rf("rx"), SetRx>>, <<>>)

(* configure(); Radio's calls of it are followed by setReceiveMode(),      *)
(* "after" a failure too.                                                  *)
ConfigureUnchecked(p, after) ==                                \* faulty
  Musts(<<Standby, Setup, Power(p)>>, after) \o <<Anyway(Freq(p))>>
    \o Musts(<<ModParams(p), PktParams(255), Clear>>, after)
Configure(p, after) ==
  Musts(<<Standby, Setup, Power(p), Freq(p), ModParams(p), PktParams(255), Clear>>, after)

Reconfigures(p) == Configure(p, Listen) \o Listen

(* open(), configure() and setReceiveMode() in the constructor, which      *)
(* gives up at the first failure.                                          *)
Opens == Musts(<<Rf("idle"), Reset, Standby, Setup>>, <<>>)
Starts == Opens \o Configure(ParamProfile, <<>>) \o Listen

SendsDeaf(p) ==                                                \* faulty
  <<Must(Rf("tx"), <<>>)>>
    \o Musts(<<PktParams(p.len), WriteBuffer(p), Clear, SetTx>>, <<Anyway(Rf("tx"))>>)
    \o <<Waits, Anyway(Standby), Must(SetRx, <<>>)>>

SendsHot(p) ==                                                 \* faulty
  <<Must(Rf("tx"), <<>>)>>
    \o Musts(<<PktParams(p.len), WriteBuffer(p), Clear, SetTx>>, <<Anyway(Rf("rx"))>>)
    \o <<Waits, Anyway(Standby), Anyway(Rf("rx")), Must(SetRx, <<>>)>>

(* send(): a failure before the chip transmits leaves the switch at tx,    *)
(* and once it does nothing but the way back to reception is reported.     *)
Sends(p) ==
  <<Must(Rf("tx"), <<>>)>>
    \o Musts(<<PktParams(p.len), WriteBuffer(p), Clear, SetTx>>, <<Anyway(Rf("tx"))>>)
    \o <<Waits, Anyway(Standby), Anyway(Rf("rx")), Must(SetRx, <<>>)>>

ReceivesUnasked ==                                             \* faulty
  <<Reads("length"), Reads("data"), Anyway(Clear), Anyway(SetRx)>>

Receives == <<Reads("take"), Reads("length"), Reads("data"), Anyway(Clear), Anyway(SetRx)>>
-----------------------------------------------------------------------------
ChipInit ==
  /\ node = "down" /\ lines \in BOOLEAN
  /\ board = [f \in BoardFields |-> IF f = "rf" THEN "idle" ELSE Reset[f]] /\ edge = FALSE
  /\ call = "none" /\ todo = <<>> /\ got = {} /\ result = FALSE
  /\ asked = ParamProfile /\ heard = {}
  /\ went = {} /\ spoilt = {} /\ faults = 0 /\ kills = 0

Calls(name, steps, profile) ==
  /\ call' = name /\ todo' = steps /\ got' = {} /\ result' = TRUE
  /\ asked' = profile /\ heard' = {} /\ went' = {}
  /\ UNCHANGED <<lines, board, faults, kills>>

Start ==
  /\ node = "down" /\ node' = "starting"
  /\ Calls("start", Starts, ParamProfile)
  /\ edge' = FALSE /\ spoilt' = {}

Started ==
  /\ node = "starting" /\ todo = <<>>
  /\ node' = IF result THEN "up" ELSE "deaf"
  /\ UNCHANGED <<lines, board, edge, driver, went, spoilt, faults, kills>>

(* The process dies, the board stays as it is.                             *)
Kill ==
  /\ node # "down" /\ kills < MaxKills
  /\ node' = "down" /\ kills' = kills + 1
  /\ call' = "none" /\ todo' = <<>> /\ got' = {} /\ result' = FALSE /\ heard' = {}
  /\ edge' = FALSE
  /\ UNCHANGED <<lines, board, asked, went, spoilt, faults>>

AtRest == node = "up" /\ todo = <<>>

Send(p) ==
  /\ AtRest /\ Calls("send", Sends(p), asked)
  /\ spoilt' = spoilt \ {"call"}
  /\ UNCHANGED <<node, edge>>

Reconfigure(p) ==
  /\ AtRest /\ Calls("reconfigure", Reconfigures(p), p)
  /\ spoilt' = spoilt \ {"call"}
  /\ UNCHANGED <<node, edge>>

(* An edge of DIO1 wakes the interrupt thread, and that the radio thread.  *)
Receive ==
  /\ AtRest /\ edge /\ edge' = FALSE
  /\ Calls("receive", Receives, asked)
  /\ spoilt' = spoilt \ {"call"}
  /\ UNCHANGED <<node>>
-----------------------------------------------------------------------------
(* What a transfer comes to.                                               *)
Goes == UNCHANGED <<spoilt, faults, result>>

Fails ==
  /\ faults < MaxFaults
  /\ faults' = faults + 1 /\ spoilt' = {"call", "run"}
  /\ result' = (result /\ ~Head(todo).must)

Rest == Tail(todo)
Instead == IF Head(todo).must THEN Head(todo).cleanup ELSE Rest

Wired(c) == DOMAIN c = {"rf"} => lines

(* The switch is two lines: the second one may fail, with both off.        *)
Partly(c) == IF DOMAIN c = {"rf"} THEN Rf("idle") ELSE c

Doing(what) == todo # <<>> /\ Head(todo).does = what

Set ==
  /\ Doing("set")
  /\ LET c == Head(todo).set IN
     \/ Goes /\ todo' = Rest /\ board' = IF Wired(c) THEN After(c, board) ELSE board
     \/ Fails /\ Wired(c) /\ todo' = Instead /\ board' \in {board, After(Partly(c), board)}
  /\ UNCHANGED <<node, lines, edge, call, got, asked, heard, went, kills>>

(* sx126x_get_and_clear_irq_status(): what was read is what is cleared.    *)
ReadFlags ==
  /\ Doing("wait") \/ Doing("take")
  /\ got = {}
  /\ \/ /\ Goes /\ Doing("wait") /\ board.irq # {}
        /\ got' = board.irq /\ UNCHANGED todo
     \/ /\ Goes /\ Doing("take")
        /\ got' = board.irq /\ todo' = IF board.irq = {} THEN <<>> ELSE todo
     \/ Fails /\ todo' = Instead /\ UNCHANGED got
  /\ UNCHANGED <<node, lines, board, edge, call, asked, heard, went, kills>>

Cleared == board.irq \ got

(* wait_for_irq() polls until the transmission has ended; its deadline is  *)
(* later than the chip's own. receive() wants RX_DONE.                     *)
ClearFlags ==
  /\ Doing("wait") \/ Doing("take")
  /\ got # {} /\ got' = {}
  /\ \/ /\ Goes /\ board' = [board EXCEPT !.irq = Cleared]
        /\ \/ Doing("wait") /\ todo' = IF got \cap {"tx_done", "timeout"} # {} THEN Rest ELSE todo
           \/ Doing("take") /\ todo' = IF "rx_done" \in got THEN Rest ELSE <<>>
     \/ /\ Fails /\ todo' = Instead
        /\ board' \in {board, [board EXCEPT !.irq = Cleared]}
  /\ UNCHANGED <<node, lines, edge, call, asked, heard, went, kills>>

ReadLength ==
  /\ Doing("length")
  /\ \/ Goes /\ todo' = IF board.rxLen = 0 THEN <<>> ELSE Rest
     \/ Fails /\ todo' = Instead
  /\ UNCHANGED <<node, lines, board, edge, call, got, asked, heard, went, kills>>

ReadBuffer ==
  /\ Doing("data")
  /\ \/ Goes /\ todo' = Rest /\ heard' = {board.buf}
     \/ Fails /\ todo' = Instead /\ UNCHANGED heard
  /\ UNCHANGED <<node, lines, board, edge, call, got, asked, went, kills>>
-----------------------------------------------------------------------------
(* The chip.                                                               *)
AntennaAt(side) == lines => board.rf = side

Flags(flag, rest) ==
  /\ board' = [rest EXCEPT !.irq = @ \cup {flag}]
  /\ edge' = (node # "down" /\ (edge \/ board.irq = {}))
  /\ UNCHANGED <<node, lines, driver, spoilt, faults, kills>>

InTime == OnAirMs(board.len, board.mods) <= TxTimeoutMs

TransmissionEnds ==
  /\ board.mode = "tx"
  /\ Flags(IF InTime THEN "tx_done" ELSE "timeout", [board EXCEPT !.mode = "fs"])
  /\ went' = IF InTime THEN went \cup {board.buf} ELSE went

PacketArrives(p) ==
  /\ board.mode = "rx" /\ AntennaAt("rx")
  /\ Flags("rx_done", [board EXCEPT !.buf = p, !.rxLen = p.len])
  /\ UNCHANGED went

ChipNext ==
  \/ Start \/ Started \/ Kill
  \/ \E p \in Outgoing : Send(p)
  \/ \E p \in Profiles : Reconfigure(p)
  \/ Receive
  \/ Set \/ ReadFlags \/ ClearFlags \/ ReadLength \/ ReadBuffer
  \/ TransmissionEnds
  \/ \E p \in Incoming : PacketArrives(p)

ChipSpec == ChipInit /\ [][ChipNext]_chipVars
-----------------------------------------------------------------------------
(* The chip receives, the switch lets it, and what it has flagged will be  *)
(* looked at: the line is up only with its edge still to be served.        *)
Listening ==
  board.mode = "rx" /\ AntennaAt("rx") /\ (board.irq # {} => edge)

(* Whatever failed before, in this process or in one that was killed: a    *)
(* start, a send or a change of profile that meets no failure itself       *)
(* leaves the chip listening. The driver needs no other recovery.          *)
CleanCallHeals ==
  AtRest /\ "call" \notin spoilt /\ call # "receive" => Listening

(* One failure, wherever it falls, never makes the chip transmit into a    *)
(* switch that is turned away, as long as the process lives.               *)
OneFaultTransmitsSafely ==
  faults <= 1 /\ kills = 0 /\ board.mode = "tx" => AntennaAt("tx")

(* The buffer is shared, and still what the node takes for a packet of the *)
(* ground is one unless a transfer has failed.                             *)
HearsTheGround ==
  "run" \notin spoilt => \A p \in heard : p.from = "ground"

(* When a change of profile or a start reports success the whole profile   *)
(* is in the chip, not parts of two.                                       *)
ProfileIsWhole ==
  AtRest /\ call \in {"start", "reconfigure"} /\ result =>
    board.power = asked.dbm /\ board.freq = asked.freq /\ board.mods = Modulation(asked)

(* send() says true of packets that went out, as its caller's warnings     *)
(* ("Failed to send link test acknowledge") take it.                       *)
TrueMeansSent == AtRest /\ call = "send" /\ result => went # {}
=============================================================================
