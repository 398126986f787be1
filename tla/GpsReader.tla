----------------------------- MODULE GpsReader -----------------------------
(***************************************************************************)
(* The GPS of the Pi: a receiver that sends NMEA sentences over a UART,    *)
(* the reader that cuts what arrives into lines and parses them, and the   *)
(* fix it keeps.  A sentence is six tokens: '$', the tag with its comma,   *)
(* the fields up to the kind of fix, the other fields, '*' with the        *)
(* checksum, and the line feed.  The reader never looks at the checksum    *)
(* (nmea::sentence::validate is not called), so a line is parsed whatever  *)
(* was lost of it.                                                         *)
(***************************************************************************)
EXTENDS Integers, Sequences, SequencesExt

CONSTANT MaxLine   \* kMaxLineLen, in tokens (a line of the code: 512 bytes)

VARIABLES
  receiver,  \* the tokens of its sentence still to send, and the number of the sentence
  losing,    \* the line is losing what is sent
  port,      \* fd >= 0
  wire,      \* received by the kernel and not read
  buffer, fix,
  given      \* what the open port was given so far (history)

gpsVars == <<receiver, losing, port, wire, buffer, fix, given>>

Parts == <<"start", "tag", "near", "far", "sum", "end">>

(* A whole sentence is not too long for a line.                            *)
ASSUME GpsAssumption == MaxLine \in Nat /\ MaxLine >= Len(Parts) - 1

Sentence(n, gga, cold) ==
  [i \in 1..Len(Parts) |-> [part |-> Parts[i], n |-> n, gga |-> gga, cold |-> cold]]

(* A fix is known by the sentence its position comes from (0: no such      *)
(* field) and the one its satellites and altitude come from.               *)
Fix(near, far) == [result |-> "fix", near |-> near, far |-> far]
NoFix == [Fix(0, 0) EXCEPT !.result = "none"]
Ignored == [Fix(0, 0) EXCEPT !.result = "ignored"]
Thrown == [Fix(0, 0) EXCEPT !.result = "thrown"]
Garbled == Fix(-1, -1)

(* Since the port was opened: the whole sentences since the last loss (2   *)
(* stands for more), whether the current one was whole so far, whether     *)
(* nothing was lost, and the sentence the fix is due to show (0: none).    *)
Silence == [intact |-> 0, whole |-> FALSE, clean |-> TRUE, due |-> 0]

GpsInit ==
  /\ receiver = [left |-> <<>>, n |-> 0] /\ losing = FALSE
  /\ port = FALSE /\ wire = <<>> /\ buffer = <<>> /\ fix = NoFix
  /\ given = Silence
-----------------------------------------------------------------------------
(* The receiver and the UART.                                              *)
Speaks(gga, cold) ==
  /\ receiver.left = <<>>
  /\ receiver' = [left |-> Sentence(receiver.n + 1, gga, cold), n |-> receiver.n + 1]
  /\ UNCHANGED <<losing, port, wire, buffer, fix, given>>

GivenWhole(t) ==
  IF t.part = "start" THEN [given EXCEPT !.whole = TRUE]
  ELSE IF t.part # "end" \/ ~given.whole THEN given
  ELSE [given EXCEPT !.whole = FALSE, !.intact = IF @ = 2 THEN 2 ELSE @ + 1,
          !.due = IF t.gga /\ (given.clean \/ given.intact > 0) THEN t.n ELSE @]

TokenArrives ==
  /\ receiver.left # <<>>
  /\ receiver' = [receiver EXCEPT !.left = Tail(@)]
  /\ IF port /\ ~losing
     THEN wire' = Append(wire, Head(receiver.left)) /\ given' = GivenWhole(Head(receiver.left))
     ELSE wire' = wire /\ given' = [Silence EXCEPT !.clean = FALSE]
  /\ UNCHANGED <<losing, port, buffer, fix>>

LineFails ==
  /\ losing' = ~losing
  /\ UNCHANGED <<receiver, port, wire, buffer, fix, given>>
-----------------------------------------------------------------------------
(* open: a successful one throws away what the kernel had received.        *)
OpenGps(ok) ==
  /\ port' = ok
  /\ wire' = <<>> /\ buffer' = <<>> /\ fix' = NoFix /\ given' = Silence
  /\ UNCHANGED <<receiver, losing>>

CloseGps ==
  /\ port' = FALSE
  /\ wire' = <<>> /\ buffer' = <<>> /\ fix' = NoFix /\ given' = Silence
  /\ UNCHANGED <<receiver, losing>>

(* drainAndParse: a line runs from the first '$' to the next line feed.    *)
Framed(acc, t) ==
  IF acc.line = <<>> /\ t.part # "start" THEN acc
  ELSE IF t.part # "end" THEN [acc EXCEPT !.line = Append(@, t)]
  ELSE [line |-> <<>>,
        lines |-> IF Len(acc.line) <= MaxLine THEN Append(acc.lines, acc.line) ELSE acc.lines]

(* The fields of a GGA sentence: missing ones stay 0, and the numbers of a *)
(* line with other fields in their places are garbage or do not parse.     *)
Fields(rest) ==
  LET parts == [i \in DOMAIN rest |-> rest[i].part]
      Is(shape) == parts \in {shape, Append(shape, "sum")}
  IN IF Is(<<"near", "far">>) THEN {Fix(rest[1].n, rest[2].n)}
     ELSE IF Is(<<"near">>) THEN {Fix(rest[1].n, 0)}
     ELSE IF Is(<<>>) THEN {Fix(0, 0)}
     ELSE {Garbled, Thrown}

(* handleLine: the type is the three characters before the first comma; a  *)
(* line without a comma, and one that starts with one, throw.              *)
HandleLine(line) ==
  LET commas == {i \in DOMAIN line : line[i].part \in {"tag", "near", "far"}}
      first == CHOOSE i \in commas : \A j \in commas : i <= j
      at == line[first]
  IN IF commas = {} THEN {Thrown}
     ELSE IF at.part = "near" /\ at.cold /\ line[first - 1].part = "start" THEN {Thrown}
     ELSE IF at.part # "tag" \/ ~at.gga THEN {Ignored}
     ELSE Fields(SubSeq(line, first + 1, Len(line)))

(* An exception leaves the rest unread: it ends the process.               *)
Handled(fixes, line) ==
  UNION {IF f.result = "thrown" THEN {f}
         ELSE {IF o.result = "ignored" THEN f ELSE o : o \in HandleLine(line)} : f \in fixes}

Drained == FoldLeft(Framed, [line |-> buffer, lines |-> <<>>], wire)
Parsed == FoldLeft(Handled, {fix}, Drained.lines)

GuardedNever(line) == <<>>                                      \* faulty

(* The guard against a buffer that grows without a line feed.              *)
Guarded(line) == IF Len(line) > 4 * MaxLine THEN <<>> ELSE line

ReadFix(f) ==
  /\ port
  /\ f \in Parsed /\ f.result # "thrown"
  /\ fix' = f /\ buffer' = Guarded(Drained.line) /\ wire' = <<>>
  /\ UNCHANGED <<receiver, losing, port, given>>

ReadThrows ==
  /\ port /\ Thrown \in Parsed
  /\ CloseGps
-----------------------------------------------------------------------------
(* The fix is the newest sentence: however the bytes fall into reads, once *)
(* the UART is drained the fix shows the last whole GGA sentence, both     *)
(* halves of it, from the first sentence after the port is opened, and     *)
(* from the second whole one after a loss of any part of the stream; and   *)
(* where nothing was lost no line throws, so the process lives.            *)
FixIsNewest ==
  /\ port /\ wire = <<>> /\ given.due # 0 => fix = Fix(given.due, given.due)
  /\ port /\ given.clean => Thrown \notin Parsed
=============================================================================
