----------------------------- MODULE Recorder -----------------------------
(***************************************************************************)
(* The recorder of core/ttylog/common.go, which stands between a session's *)
(* streams and the programs that use them: the terminal goroutine of the   *)
(* shell reads, the shell, its commands and the echo of what is typed      *)
(* write, all at the same time.  recordIO reads the clock, does the I/O,   *)
(* takes the lock and writes the entry to the file, in one of the two      *)
(* formats of TtyLog.  An operation whose I/O fails is not recorded; a     *)
(* write to the disk that fails is only logged, and may leave a piece      *)
(* behind.  The process may be killed at any moment: what the properties   *)
(* say of the file they say of it at every step.                           *)
(* Operations are numbered as they begin; the bytes an operation moves are *)
(* its number.                                                             *)
(***************************************************************************)
EXTENDS TtyLog

CONSTANTS
    Threads,    \* goroutines that use the streams
    BufferSize, \* bytes of a reader's buffer
    MaxOps,     \* bound: operations on the streams
    MaxTime,    \* bound: microseconds that pass
    MaxFaults   \* bound: writes to the disk that fail

ASSUME RecorderAssumption ==
    /\ "none" \notin Threads
    /\ BufferSize \in Nat \ {0}
    /\ MaxOps \in Nat /\ MaxTime \in Nat /\ MaxFaults \in Nat

VARIABLES
    format,  \* the sink of the recorder
    file,    \* the recording
    started, \* the asciicast sink's once was used
    first,   \* firstLogTimeMicros
    lock,    \* the goroutine that holds Recorder.mutex
    pc,      \* where each goroutine is in recordIO
    op,      \* the operation it is at: its number, stream, eventTime and data
    buffer,  \* what each goroutine's read buffer holds
    now,     \* the clock
    count,   \* operations that have begun
    faults,  \* writes to the disk that have failed
    good,    \* operations whose I/O succeeded
    over,    \* operations that have returned
    before   \* for each operation, those that had returned when it began

sinkVars  == << format, started, first >>
diskVars  == << file, faults >>
clockVars == << now, count >>
ghostVars == << good, over, before >>
vars == << sinkVars, diskVars, clockVars, ghostVars, lock, pc, op, buffer >>

None == "none"

Ops == 1 .. MaxOps

Labels == {"idle", "io", "lock", "header", "line", "head", "data"}

Bytes == -MaxOps .. MaxOps

Goto(t, label) == pc' = [pc EXCEPT ![t] = label]

Tick ==
    /\ now < MaxTime
    /\ now' = now + 1
    /\ UNCHANGED << sinkVars, diskVars, ghostVars, count, lock, pc, op, buffer >>

\* A goroutine calls Read or Write: recordIO takes the time first.
Begin(t, fd) ==
    /\ pc[t] = "idle"
    /\ count < MaxOps
    /\ count' = count + 1
    /\ op' = [op EXCEPT ![t] = [n |-> count + 1, fd |-> fd, time |-> now, data |-> << count + 1 >>]]
    /\ before' = [before EXCEPT ![count + 1] = over]
    /\ Goto(t, "io")
    /\ UNCHANGED << sinkVars, diskVars, good, over, now, lock, buffer >>

\* Mutant: the buffer is cut to what was read.
FilledShort(t, k) == [i \in 1 .. k |-> op[t].n]

\* A buffer after a read of its first k bytes.
Filled(t, k) == [i \in 1 .. BufferSize |-> IF i <= k THEN op[t].n ELSE buffer[t][i]]

\* The read succeeds with k bytes: the whole buffer is what will be recorded.
ReadDone(t, k) ==
    /\ pc[t] = "io"
    /\ op[t].fd = "stdin"
    /\ buffer' = [buffer EXCEPT ![t] = Filled(t, k)]
    /\ op' = [op EXCEPT ![t].data = Filled(t, k)]
    /\ good' = good \cup {op[t].n}
    /\ Goto(t, "lock")
    /\ UNCHANGED << sinkVars, diskVars, clockVars, over, before, lock >>

WriteDone(t) ==
    /\ pc[t] = "io"
    /\ op[t].fd # "stdin"
    /\ good' = good \cup {op[t].n}
    /\ Goto(t, "lock")
    /\ UNCHANGED << sinkVars, diskVars, clockVars, over, before, lock, op, buffer >>

Return(t) ==
    /\ over' = over \cup {op[t].n}
    /\ Goto(t, "idle")

\* The I/O fails, for a read perhaps after k bytes: nothing is recorded.
IoFails(t, k) ==
    /\ pc[t] = "io"
    /\ buffer' = [buffer EXCEPT ![t] = IF op[t].fd = "stdin" THEN Filled(t, k) ELSE @]
    /\ Return(t)
    /\ UNCHANGED << sinkVars, diskVars, clockVars, good, before, lock, op >>

\* What the sink writes first.
FirstPart == IF format = "uml" THEN "head" ELSE IF started THEN "line" ELSE "header"

\* The sink is entered: that of asciicast notes the time of its first event.
UseSink(t) ==
    /\ Goto(t, FirstPart)
    /\ IF format = "cast" /\ ~started
       THEN started' = TRUE /\ first' = op[t].time
       ELSE UNCHANGED << started, first >>
    /\ UNCHANGED << format, diskVars, clockVars, good, before, op, buffer >>

\* Mutants: the lock is not waited for; the caller goes on while the entry is written.
LockTaken(t) ==
    /\ pc[t] = "lock"
    /\ lock' = t
    /\ UseSink(t)
    /\ UNCHANGED over

LockInBackground(t) ==
    /\ pc[t] = "lock"
    /\ lock = None
    /\ lock' = t
    /\ UseSink(t)
    /\ over' = over \cup good

Lock(t) ==
    /\ pc[t] = "lock"
    /\ lock = None
    /\ lock' = t
    /\ UseSink(t)
    /\ UNCHANGED over

EntryOf(t) == Io(op[t].time, op[t].fd, op[t].data)

\* What a goroutine inside the sink writes next.
Next1(t) ==
    CASE pc[t] = "header" -> Chunk("header", NoEntry)
      [] pc[t] = "line"   -> CastLine(first, EntryOf(t))
      [] pc[t] = "head"   -> UmlHead(EntryOf(t))
      [] pc[t] = "data"   -> UmlData(EntryOf(t))
      [] OTHER            -> Piece

Unlock(t) ==
    /\ lock' = None
    /\ Return(t)

\* Header and fields are followed by the rest of the entry; then the lock is free again.
Write(t) ==
    /\ pc[t] \in {"header", "line", "head", "data"}
    /\ file' = Append(file, Next1(t))
    /\ CASE pc[t] = "header" -> Goto(t, "line") /\ UNCHANGED << lock, over >>
         [] pc[t] = "head"   -> Goto(t, "data") /\ UNCHANGED << lock, over >>
         [] OTHER            -> Unlock(t)
    /\ UNCHANGED << sinkVars, faults, clockVars, good, before, op, buffer >>

\* Mutant: the sink starts the file again.
WriteFailsOver(t, piece) ==
    /\ pc[t] \in {"header", "line", "head", "data"}
    /\ faults < MaxFaults
    /\ faults' = faults + 1
    /\ file' = << >>
    /\ Unlock(t)
    /\ UNCHANGED << sinkVars, clockVars, good, before, op, buffer >>

\* The disk takes nothing or a piece: the sink gives the entry up, and the error is only logged.
WriteFails(t, piece) ==
    /\ pc[t] \in {"header", "line", "head", "data"}
    /\ faults < MaxFaults
    /\ faults' = faults + 1
    /\ file' = IF piece THEN Append(file, Piece) ELSE file
    /\ Unlock(t)
    /\ UNCHANGED << sinkVars, clockVars, good, before, op, buffer >>

NoOp == [n |-> 0, fd |-> "stdout", time |-> 0, data |-> << 0 >>]

Init ==
    /\ format \in Formats
    /\ file = << >>
    /\ started = FALSE /\ first = 0
    /\ lock = None
    /\ pc = [t \in Threads |-> "idle"]
    /\ op = [t \in Threads |-> NoOp]
    /\ buffer = [t \in Threads |-> [i \in 1 .. BufferSize |-> 0]]
    /\ now = 0 /\ count = 0 /\ faults = 0
    /\ good = {} /\ over = {}
    /\ before = [n \in Ops |-> {}]

Step(t) ==
    \/ \E fd \in Fds : Begin(t, fd)
    \/ \E k \in 1 .. BufferSize : ReadDone(t, k)
    \/ WriteDone(t)
    \/ \E k \in 0 .. BufferSize : IoFails(t, k)
    \/ Lock(t)
    \/ Write(t)
    \/ \E piece \in BOOLEAN : WriteFails(t, piece)

Next == Tick \/ \E t \in Threads : Step(t)

Spec == Init /\ [][Next]_vars

(***************************************************************************)
(* Properties                                                              *)
(***************************************************************************)

Entries == [event : {"io", "close"}, time : Int, fd : Fds, data : Seq(Bytes)]

TypeOK ==
    /\ format \in Formats
    /\ file \in Seq([part : Parts, entry : Entries])
    /\ started \in BOOLEAN /\ first \in 0 .. MaxTime
    /\ lock \in Threads \cup {None}
    /\ pc \in [Threads -> Labels]
    /\ op \in [Threads -> [n : 0 .. MaxOps, fd : Fds, time : 0 .. MaxTime, data : Seq(0 .. MaxOps)]]
    /\ buffer \in [Threads -> [1 .. BufferSize -> 0 .. MaxOps]]
    /\ now \in 0 .. MaxTime /\ count \in 0 .. MaxOps /\ faults \in 0 .. MaxFaults
    /\ good \subseteq Ops /\ over \subseteq Ops
    /\ before \in [Ops -> SUBSET Ops]

\* The operation whose bytes data begins with.
Number(data) == IF data[1] < 0 THEN -data[1] ELSE data[1]

HasData(chunk) == chunk.part \in {"line", "data"}

\* An operation that had returned when another began stands before it in the
\* recording, and with no later time.  Operations that overlap may stand in
\* either order, and their times may go backwards: the time is taken before
\* the I/O and the lock after it (recordIO, common.go:105-125).
RecordedInOrder ==
    \A i, j \in DOMAIN file :
        HasData(file[i]) /\ HasData(file[j]) =>
            LET m == Number(file[i].entry.data)
                n == Number(file[j].entry.data)
            IN  m \in before[n] => i < j /\ file[i].entry.time <= file[j].entry.time

Recording == Replay(format, file)

\* What a replay shows did happen, and once.  While the disk took everything
\* it shows every operation that succeeded and returned, whatever goroutines
\* were writing at the same time (Recorder.mutex; several writes make one entry).
NothingInvented ==
    LET entries == Recording
        Op(i)   == Number(entries[i].data)
    IN  /\ \A i \in DOMAIN entries : Op(i) \in over \cap good
        /\ \A i, j \in DOMAIN entries : Op(i) = Op(j) => i = j
        /\ faults = 0 => \A n \in over \cap good : \E i \in DOMAIN entries : Op(i) = n

\* Whoever replays a recording while it is written, or after the process was
\* killed, sees a beginning of what a later replay shows: no step, a disk that
\* fails in the middle of an entry included, takes back what was readable.
ReplayGrows == [][IsPrefix(Replay(format, file), Replay(format, file'))]_file

\* `logs asciicast` keeps the screen of a recording, and where it can be told
\* in seconds the time of each of its events (ToCast over ReadUml, read back).
ConversionKeeps ==
    format = "uml" =>
        LET entries == Recording
            back    == ReadCast(ToCast(entries))
            screen  == Screen(entries)
        IN  /\ Screen(back) = [i \in DOMAIN screen |-> Utf8(screen[i])]
            /\ \A i \in DOMAIN back :
                  LET since == entries[i].time - entries[1].time
                  IN  since \notin Inexact => back[i].time = since

\* `logs play` with an idle limit that no pause reaches shows nothing too early,
\* also when the times of the recording go backwards.
PlaybackNeverEarly ==
    LET entries == Recording
        shown   == ShownAt(MaxTime + 1, entries)
    IN  \A i, j \in DOMAIN entries :
            i < j => shown[j] - shown[i] >= entries[j].time - entries[i].time
=============================================================================
