------------------------------ MODULE TtyLog ------------------------------
(***************************************************************************)
(* The two formats of terminal recordings in core/ttylog and what the      *)
(* tools of cmd/logs.go make of a file: asciicast, which the honeypot      *)
(* writes, and the user-mode-linux format of Kippo, which `logs asciicast` *)
(* converts.                                                               *)
(* A file is a sequence of chunks, one for each piece of output that is    *)
(* written or fails as one: the header and the lines of asciicast, the     *)
(* fixed fields ("head") and the data of an entry of the other format, and *)
(* a piece, which is what is left of one when the disk stops in the middle *)
(* of it.  Data is a sequence of numbers standing for bytes; Binary are    *)
(* those that are not UTF-8, and come out of JSON as something else, here  *)
(* their negative.                                                         *)
(***************************************************************************)
EXTENDS Integers, Sequences, SequencesExt

CONSTANTS
    Binary, \* bytes that are not UTF-8
    Inexact \* microseconds that lose one on the way through a number of seconds

ASSUME DataAssumption == Binary \subseteq Nat /\ Inexact \subseteq Int

Formats == {"cast", "uml"}

Fds == {"stdin", "stdout", "stderr"}

Parts == {"header", "line", "head", "data", "piece"}

Io(time, fd, data) == [event |-> "io", time |-> time, fd |-> fd, data |-> data]

Close(time, fd) == [event |-> "close", time |-> time, fd |-> fd, data |-> << >>]

NoEntry == Close(0, "stdin")

Chunk(part, entry) == [part |-> part, entry |-> entry]

Piece == Chunk("piece", NoEntry)

\* Both formats know two directions.
Collapsed(fd) == IF fd = "stdin" THEN "stdin" ELSE "stdout"

(***************************************************************************)
(* Asciicast                                                               *)
(***************************************************************************)

\* json.Marshal of a Go string.
Utf8(data) == [i \in DOMAIN data |-> IF data[i] \in Binary THEN -data[i] ELSE data[i]]

\* secondsToMicroseconds of microsecondsToSeconds: the quotient and the
\* product are rounded, and the conversion to int64 cuts towards zero.
Microseconds(delta) ==
    IF delta \notin Inexact THEN delta
    ELSE CASE delta > 0 -> delta - 1 [] delta < 0 -> delta + 1 [] OTHER -> delta

\* Mutant: the time is that of the event, not the time since the first one.
CastLineAbsolute(first, entry) ==
    Chunk("line", Io(entry.time, Collapsed(entry.fd), Utf8(entry.data)))

\* A line of the sink: the time since the first event, i or o, and the text.
CastLine(first, entry) ==
    Chunk("line", Io(entry.time - first, Collapsed(entry.fd), Utf8(entry.data)))

\* AsciicastLogSource: the first line is the header, whatever it holds; every
\* other one is an entry.  A piece has no end of line: what comes after it is on
\* the same line, which is then no JSON and ends the replay with an error, and
\* at the end of the file it is no line at all.
ReadCast(file) ==
    LET ended  == {i \in DOMAIN file : file[i].part # "piece"}
        header == IF ended = {} THEN Len(file) ELSE Min(ended)
        last   == Max({n \in header .. Len(file) : \A i \in header + 1 .. n : file[i].part = "line"})
        lines  == SubSeq(file, header + 1, last)
    IN  [i \in DOMAIN lines |-> [lines[i].entry EXCEPT !.time = Microseconds(@)]]

(***************************************************************************)
(* User-mode-linux                                                         *)
(***************************************************************************)

UmlHead(entry) == Chunk("head", [entry EXCEPT !.fd = Collapsed(@), !.data = << >>])

UmlData(entry) == Chunk("data", [entry EXCEPT !.fd = Collapsed(@)])

IsHead(chunk) == chunk.part = "head" /\ chunk.entry.event = "io"

IsClose(chunk) == chunk.part = "head" /\ chunk.entry.event = "close"

\* The fields of each entry are followed by its data.
Aligned(chunks) ==
    \A i \in DOMAIN chunks :
        /\ IsClose(chunks[i]) \/ IsHead(chunks[i]) \/ chunks[i].part = "data"
        /\ chunks[i].part = "data" => i > 1 /\ IsHead(chunks[i - 1])
        /\ IsHead(chunks[i]) /\ i < Len(chunks) => chunks[i + 1].part = "data"

Complete(chunk) == IsClose(chunk) \/ chunk.part = "data"

\* The entries that are complete among the first n chunks of a file, for every n.
UmlEntries(file) ==
    LET read[n \in 0 .. Len(file)] ==
            IF n = 0 THEN << >>
            ELSE IF Complete(file[n]) THEN Append(read[n - 1], file[n].entry) ELSE read[n - 1]
    IN  read

\* UMLLogSource: the fields, then as many bytes as they say.  An entry that
\* ends early ends the file; behind a piece nothing is aligned any more, and
\* what the source makes of that is not modelled.
ReadUml(file) ==
    UmlEntries(file)[Max({n \in 0 .. Len(file) : Aligned(SubSeq(file, 1, n))})]

(***************************************************************************)
(* The tools                                                               *)
(***************************************************************************)

\* What createLogSource and Replay deliver, up to the end or the first error.
Replay(format, file) == IF format = "cast" THEN ReadCast(file) ELSE ReadUml(file)

IsOutput(entry) == entry.event = "io" /\ entry.fd # "stdin"

\* NewClientOutput: `logs cat`.
Screen(entries) ==
    LET shown[n \in 0 .. Len(entries)] ==
            IF n = 0 THEN << >>
            ELSE IF IsOutput(entries[n]) THEN Append(shown[n - 1], entries[n].data) ELSE shown[n - 1]
    IN  shown[Len(entries)]

IsIo(entry) == entry.event = "io"

\* `logs asciicast` on entries: the header, then a line for each that is not a Close.
ToCast(entries) ==
    LET lines[n \in 0 .. Len(entries)] ==
            IF n = 0 THEN << Chunk("header", NoEntry) >>
            ELSE IF IsIo(entries[n]) THEN Append(lines[n - 1], CastLine(entries[1].time, entries[n]))
                 ELSE lines[n - 1]
    IN  IF entries = << >> THEN << >> ELSE lines[Len(entries)]

\* Mutant: what is typed is passed over without its pause.
PausesForOutput(limit, entries) ==
    [i \in DOMAIN entries |->
        LET delta == IF i = 1 THEN 0 ELSE entries[i].time - entries[i - 1].time
        IN  IF limit <= 0 \/ delta < 0 \/ ~IsOutput(entries[i]) THEN 0
            ELSE IF delta > limit THEN limit ELSE delta]

\* NewRealTimePlayback of `logs play`: the pause before each entry, with
\* --idle-time-limit; time.Sleep of something negative returns at once.
Pauses(limit, entries) ==
    [i \in DOMAIN entries |->
        LET delta == IF i = 1 THEN 0 ELSE entries[i].time - entries[i - 1].time
        IN  IF limit <= 0 \/ delta < 0 THEN 0 ELSE IF delta > limit THEN limit ELSE delta]

\* When each entry is shown, counted from the first.
ShownAt(limit, entries) ==
    LET pauses == Pauses(limit, entries)
        shown[n \in 0 .. Len(entries)] == IF n = 0 THEN 0 ELSE shown[n - 1] + pauses[n]
    IN  shown
=============================================================================
