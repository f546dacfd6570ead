----------------------------- MODULE RecorderProofs -----------------------------
(***************************************************************************)
(* Theorems about Recorder: its types; that the recording keeps the order  *)
(* of operations that do not overlap; that what a reader makes of it only  *)
(* grows; that this tells of operations that succeeded, of each once, and  *)
(* of all of them while the disk took everything; and that playback and    *)
(* conversion keep what the recording tells.                               *)
(***************************************************************************)
EXTENDS Recorder, WellFoundedInduction, TLAPS

(***************************************************************************)
(* Induction and recursion on numbers                                      *)
(***************************************************************************)

\* Induction up to m; the library's induction theorems take an operator as a
\* parameter, which this does with a set.
LEMMA Induction ==
    ASSUME NEW m \in Nat, NEW S, 0 \in S, \A n \in 0 .. m - 1 : n \in S => n + 1 \in S
    PROVE  0 .. m \subseteq S
<1> DEFINE T == {n \in 0 .. m : n \notin S}
<1> SUFFICES ASSUME T # {} PROVE FALSE
  OBVIOUS
<1>1. PICK n \in T : \A k \in T : ~ (<< k, n >> \in OpToRel(<, Nat))
  <2>1. T \subseteq Nat
    OBVIOUS
  <2> HIDE DEF T
  <2> QED BY <2>1, WFMin, NatLessThanWellFounded, Zenon
<1>2. n # 0 /\ n \in Nat /\ n - 1 \in 0 .. m - 1
  <2>1. n \in 0 .. m /\ n \notin S
    BY <1>1
  <2>2. n # 0
    BY <2>1
  <2> QED BY <2>1, <2>2
<1>3. n - 1 \notin S
  <2>1. n \notin S
    BY <1>1
  <2>2. n - 1 + 1 = n
    BY <1>2
  <2> QED BY <1>2, <2>1, <2>2
<1>4. << n - 1, n >> \in OpToRel(<, Nat)
  BY <1>2 DEF OpToRel
<1>5. n - 1 \in T
  BY <1>2, <1>3
<1> QED BY <1>1, <1>4, <1>5

\* A set of numbers up to m has a largest one.
LEMMA Largest ==
    ASSUME NEW m \in Nat, NEW S, S \subseteq 0 .. m, S # {}
    PROVE  \E j \in S : \A i \in S : i <= j
<1> DEFINE U == {n \in 0 .. m : (\E k \in S : k >= m - n) => \E j \in S : \A i \in S : i <= j}
<1>1. 0 \in U
  OBVIOUS
<1>2. \A n \in 0 .. m - 1 : n \in U => n + 1 \in U
  <2> SUFFICES ASSUME NEW n \in 0 .. m - 1, n \in U, NEW k \in S, k >= m - (n + 1)
               PROVE  \E j \in S : \A i \in S : i <= j
    OBVIOUS
  <2>1. CASE \E i \in S : i >= m - n
    BY <2>1
  <2>2. CASE ~\E i \in S : i >= m - n
    BY <2>2
  <2> QED BY <2>1, <2>2
<1> HIDE DEF U
<1>3. 0 .. m \subseteq U
  BY <1>1, <1>2, Induction
<1>4. m \in U
  BY <1>3
<1>5. \E k \in S : k >= m - m
  <2>1. \A k \in S : k \in 0 .. m
    OBVIOUS
  <2>2. \A k \in S : k >= m - m
    BY <2>1
  <2> QED BY <2>2
<1> QED BY <1>4, <1>5 DEF U

\* A function that is defined by recursion up to m exists.
Recurs(g, m, V, base, step) ==
    /\ g \in [0 .. m -> V]
    /\ g[0] = base
    /\ \A n \in 1 .. m : g[n] = step[<< g[n - 1], n >>]

LEMMA Recursion ==
    ASSUME NEW m \in Nat, NEW V, NEW base \in V, NEW step \in [V \X (1 .. m) -> V]
    PROVE  \E g : Recurs(g, m, V, base, step)
<1> DEFINE Runs(k, g) == g[0] = base /\ \A n \in 1 .. k : g[n] = step[<< g[n - 1], n >>]
           S == {k \in 0 .. m : \E g \in [0 .. m -> V] : Runs(k, g)}
<1>1. 0 \in S
  <2> DEFINE g == [n \in 0 .. m |-> base]
  <2>1. g \in [0 .. m -> V] /\ g[0] = base
    OBVIOUS
  <2>2. Runs(0, g)
    BY <2>1
  <2> HIDE DEF g, Runs
  <2> QED BY <2>1, <2>2
<1>2. ASSUME NEW k \in 0 .. m - 1, k \in S PROVE k + 1 \in S
  <2>1. PICK g \in [0 .. m -> V] : Runs(k, g)
    BY <1>2
  <2>2. k \in 0 .. m /\ k + 1 \in 1 .. m /\ k + 1 \in 0 .. m /\ k + 1 - 1 = k
    OBVIOUS
  <2>3. g[k] \in V /\ << g[k], k + 1 >> \in V \X (1 .. m)
    BY <2>2
  <2> DEFINE v == step[<< g[k], k + 1 >>]
             h == [g EXCEPT ![k + 1] = v]
  <2>4. v \in V
    BY <2>3
  <2> HIDE DEF v
  <2>5. /\ h \in [0 .. m -> V] /\ h[k + 1] = v
        /\ \A n \in 0 .. m : n # k + 1 => h[n] = g[n]
    BY <2>2, <2>4
  <2> HIDE DEF h
  <2>6. h[0] = base
    BY <2>1, <2>5
  <2>7. ASSUME NEW n \in 1 .. k + 1 PROVE h[n] = step[<< h[n - 1], n >>]
    <3>1. n - 1 \in 0 .. m /\ n - 1 # k + 1
      BY <2>2
    <3>2. h[n - 1] = g[n - 1]
      BY <2>5, <3>1
    <3>3. CASE n = k + 1
      BY <2>2, <2>5, <3>2, <3>3 DEF v
    <3>4. CASE n # k + 1
      <4>1. n \in 1 .. k /\ n \in 0 .. m
        BY <2>2, <3>4
      <4>2. h[n] = g[n] /\ g[n] = step[<< g[n - 1], n >>]
        BY <2>1, <2>5, <3>4, <4>1
      <4> QED BY <3>2, <4>2
    <3> QED BY <3>3, <3>4
  <2>8. Runs(k + 1, h)
    BY <2>6, <2>7
  <2> HIDE DEF Runs
  <2> QED BY <2>2, <2>5, <2>8
<1>3. m \in S
  <2> HIDE DEF S
  <2>1. 0 .. m \subseteq S
    BY <1>1, <1>2, Induction
  <2> QED BY <2>1
<1> QED BY <1>3 DEF Recurs


Datas == Seq(0 .. MaxOps)

Operations == [n : 0 .. MaxOps, fd : Fds, time : 0 .. MaxTime, data : Datas]

Chunks == [part : Parts, entry : Entries]

LEMMA FilledType ==
    ASSUME TypeOK, NEW t \in Threads, NEW k \in Nat
    PROVE  /\ Filled(t, k) \in [1 .. BufferSize -> 0 .. MaxOps]
           /\ Filled(t, k) \in Datas
<1>1. \A i \in 1 .. BufferSize : buffer[t][i] \in 0 .. MaxOps
  BY DEF TypeOK
<1>2. op[t].n \in 0 .. MaxOps
  BY DEF TypeOK
<1> QED BY <1>1, <1>2, RecorderAssumption DEF Filled, Datas

LEMMA Utf8Type == ASSUME NEW data \in Datas PROVE Utf8(data) \in Seq(Bytes)
<1> DEFINE S == 0 .. MaxOps
<1>0. data \in Seq(S)
  BY DEF Datas
<1> HIDE DEF S
<1>1. /\ DOMAIN data = 1 .. Len(data) /\ Len(data) \in Nat
      /\ \A i \in DOMAIN data : data[i] \in S
  BY <1>0
<1> USE DEF S
<1>2. \A i \in DOMAIN data : Utf8(data)[i] \in Bytes
  BY <1>1, RecorderAssumption DEF Utf8, Bytes
<1> QED BY <1>1, <1>2 DEF Utf8

\* What a goroutine writes next is a chunk.
LEMMA Next1Type == ASSUME TypeOK, NEW t \in Threads PROVE Next1(t) \in Chunks
<1>1. op[t].fd \in Fds /\ op[t].time \in Int /\ op[t].data \in Datas
  BY DEF TypeOK, Datas
<1>2. op[t].data \in Seq(Bytes)
  BY <1>1, RecorderAssumption DEF Datas, Bytes
<1>3. first \in Int
  BY DEF TypeOK
<1>4. Collapsed(op[t].fd) \in Fds
  BY <1>1 DEF Collapsed, Fds
<1>5. Utf8(op[t].data) \in Seq(Bytes)
  BY <1>1, Utf8Type
<1>6. NoEntry \in Entries
  BY DEF NoEntry, Close, Entries, Fds
<1>7. CastLine(first, EntryOf(t)) \in Chunks
  BY <1>1, <1>3, <1>4, <1>5 DEF CastLine, EntryOf, Io, Chunk, Chunks, Parts, Entries
<1>8. UmlHead(EntryOf(t)) \in Chunks
  BY <1>1, <1>4, << >> \in Seq(Bytes) DEF UmlHead, EntryOf, Io, Chunk, Chunks, Parts, Entries
<1>9. UmlData(EntryOf(t)) \in Chunks
  BY <1>1, <1>2, <1>4 DEF UmlData, EntryOf, Io, Chunk, Chunks, Parts, Entries
<1>10. Chunk("header", NoEntry) \in Chunks /\ Piece \in Chunks
  BY <1>6 DEF Piece, Chunk, Chunks, Parts
<1> QED BY <1>7, <1>8, <1>9, <1>10 DEF Next1

LEMMA InitType == Init => TypeOK
<1> SUFFICES ASSUME Init PROVE TypeOK
  OBVIOUS
<1> USE RecorderAssumption DEF Init
<1>1. NoOp \in Operations
  BY DEF NoOp, Operations, Datas, Fds
<1>2. op \in [Threads -> Operations]
  BY <1>1
<1>3. file \in Seq(Chunks) /\ before \in [Ops -> SUBSET Ops]
  OBVIOUS
<1>4. buffer \in [Threads -> [1 .. BufferSize -> 0 .. MaxOps]]
  OBVIOUS
<1>5. pc \in [Threads -> Labels]
  BY DEF Labels
<1>6. /\ first \in 0 .. MaxTime /\ now \in 0 .. MaxTime
      /\ count \in 0 .. MaxOps /\ faults \in 0 .. MaxFaults
  OBVIOUS
<1>7. /\ format \in Formats /\ good \subseteq Ops /\ over \subseteq Ops
      /\ started \in BOOLEAN /\ lock \in Threads \cup {None}
  OBVIOUS
<1> QED BY <1>2, <1>3, <1>4, <1>5, <1>6, <1>7 DEF TypeOK, Operations, Datas, Chunks

LEMMA BeginType ==
    ASSUME TypeOK, NEW t \in Threads, NEW fd \in Fds, Begin(t, fd) PROVE TypeOK'
<1> USE RecorderAssumption
<1> DEFINE new == [n |-> count + 1, fd |-> fd, time |-> now, data |-> << count + 1 >>]
<1>0. count \in 0 .. MaxOps /\ count < MaxOps
  BY DEF TypeOK, Begin
<1>1. count + 1 \in Ops /\ count + 1 \in 0 .. MaxOps
  BY <1>0 DEF Ops
<1>2. new \in Operations
  BY <1>1 DEF TypeOK, Operations, Datas
<1>3. op' \in [Threads -> Operations]
  BY <1>2 DEF TypeOK, Begin, Operations, Datas
<1>4. before' \in [Ops -> SUBSET Ops]
  BY <1>1 DEF TypeOK, Begin
<1>5. pc' \in [Threads -> Labels]
  BY DEF TypeOK, Begin, Goto, Labels
<1>6. UNCHANGED << format, file, started, first, lock, buffer, now, faults, good, over >>
  BY DEF Begin, sinkVars, diskVars
<1> QED BY <1>1, <1>3, <1>4, <1>5, <1>6 DEF TypeOK, Begin, Operations, Datas

(***************************************************************************)
(* The operations that are under way                                       *)
(***************************************************************************)

Running(t) == pc[t] # "idle"

\* They have begun and not returned, and each is one goroutine's.
Numbered ==
    /\ \A t \in Threads : Running(t) => op[t].n \in 1 .. count /\ op[t].n \notin over
    /\ \A t, u \in Threads : Running(t) /\ Running(u) /\ op[t].n = op[u].n => t = u

\* What an operation will have recorded begins with its number.
Carries ==
    \A t \in Threads : Running(t) => op[t].data # << >> /\ op[t].data[1] = op[t].n

\* Only operations that have begun return.
OverBegun ==
    /\ over \subseteq 1 .. count
    /\ \A n \in Ops : before[n] \subseteq over

OpInv == TypeOK /\ Numbered /\ Carries /\ OverBegun

LEMMA InitOps == Init => OpInv
<1> SUFFICES ASSUME Init PROVE OpInv
  OBVIOUS
<1>1. \A t \in Threads : ~Running(t)
  BY DEF Init, Running
<1> QED BY <1>1, InitType DEF Init, OpInv, Numbered, Carries, OverBegun

LEMMA BeginOps ==
    ASSUME OpInv, NEW t \in Threads, NEW fd \in Fds, Begin(t, fd) PROVE OpInv'
<1>1. TypeOK'
  BY BeginType DEF OpInv
<1>2. /\ count \in Nat /\ count' = count + 1 /\ over' = over
      /\ count + 1 \in Ops
  BY RecorderAssumption DEF OpInv, TypeOK, Begin, Ops
<1>3. \A u \in Threads :
          /\ u # t => op'[u] = op[u] /\ pc'[u] = pc[u]
          /\ u = t => op'[u].n = count + 1 /\ op'[u].data = << count + 1 >>
  BY DEF OpInv, TypeOK, Begin, Goto
<1>4. Numbered'
  BY <1>2, <1>3 DEF OpInv, Numbered, OverBegun, Running
<1>5. Carries'
  BY <1>3 DEF OpInv, Carries, Running
<1>6. OverBegun'
  BY <1>2 DEF OpInv, TypeOK, OverBegun, Begin
<1> QED BY <1>1, <1>4, <1>5, <1>6 DEF OpInv

\* A step inside an operation keeps its number and how its data begins.
LEMMA StillRuns ==
    ASSUME OpInv, TypeOK', NEW t \in Threads, Running(t),
           \A u \in Threads \ {t} : pc'[u] = pc[u] /\ op'[u] = op[u],
           op'[t].n = op[t].n, op'[t].data # << >>, op'[t].data[1] = op[t].n,
           count' = count, over' = over, before' = before
    PROVE  OpInv'
<1>1. Numbered'
  BY DEF OpInv, Numbered, Running
<1>2. Carries'
  BY DEF OpInv, Carries, Running
<1>3. OverBegun'
  BY DEF OpInv, OverBegun
<1> QED BY <1>1, <1>2, <1>3 DEF OpInv

\* An operation returns.
LEMMA Returned ==
    ASSUME OpInv, TypeOK', NEW t \in Threads, Running(t), Return(t),
           UNCHANGED << op, count, before >>
    PROVE  OpInv'
<1>1. \A u \in Threads : pc'[u] = IF u = t THEN "idle" ELSE pc[u]
  BY DEF OpInv, TypeOK, Return, Goto
<1>2. over' = over \cup {op[t].n}
  BY DEF Return
<1>3. Numbered'
  BY <1>1, <1>2 DEF OpInv, Numbered, Running
<1>4. Carries'
  BY <1>1 DEF OpInv, Carries, Running
<1>5. OverBegun'
  BY <1>2 DEF OpInv, OverBegun, Numbered
<1> QED BY <1>3, <1>4, <1>5 DEF OpInv

LEMMA ReturnType ==
    ASSUME OpInv, NEW t \in Threads, Running(t), Return(t)
    PROVE  over' \subseteq Ops /\ pc' \in [Threads -> Labels]
<1>1. op[t].n \in 1 .. count /\ count \in 0 .. MaxOps
  BY DEF OpInv, Numbered, TypeOK
<1>2. op[t].n \in Ops
  BY <1>1, RecorderAssumption DEF Ops
<1>3. over' \subseteq Ops
  BY <1>2 DEF OpInv, TypeOK, Return
<1>4. pc' \in [Threads -> Labels]
  BY DEF OpInv, TypeOK, Return, Goto, Labels
<1> QED BY <1>3, <1>4

LEMMA DoneOps ==
    ASSUME OpInv, NEW t \in Threads,
           WriteDone(t) \/ \E k \in 1 .. BufferSize : ReadDone(t, k)
    PROVE  OpInv'
<1>1. op[t].n \in Ops /\ Running(t)
  <2>1. pc[t] = "io"
    BY DEF WriteDone, ReadDone
  <2> QED BY <2>1, RecorderAssumption DEF OpInv, Numbered, TypeOK, Running, Ops
<1>2. good' \subseteq Ops
  BY <1>1 DEF OpInv, TypeOK, WriteDone, ReadDone
<1>3. pc' \in [Threads -> Labels] /\ \A u \in Threads \ {t} : pc'[u] = pc[u]
  BY DEF OpInv, TypeOK, WriteDone, ReadDone, Goto, Labels
<1>4. CASE WriteDone(t)
  <2>1. TypeOK'
    BY <1>2, <1>3, <1>4 DEF OpInv, TypeOK, WriteDone, sinkVars, diskVars, clockVars
  <2> QED BY <1>1, <1>3, <1>4, <2>1, StillRuns DEF OpInv, Carries, WriteDone, clockVars
<1>5. ASSUME NEW k \in 1 .. BufferSize, ReadDone(t, k) PROVE OpInv'
  <2> DEFINE new == Filled(t, k)
  <2>1. new \in [1 .. BufferSize -> 0 .. MaxOps] /\ new \in Datas
    BY FilledType, k \in Nat DEF OpInv
  <2>2. new # << >> /\ new[1] = op[t].n
    BY RecorderAssumption DEF Filled
  <2> HIDE DEF new
  <2>3. /\ buffer' = [buffer EXCEPT ![t] = new]
        /\ op' = [op EXCEPT ![t].data = new]
    BY <1>5 DEF ReadDone, new
  <2>4. op \in [Threads -> Operations]
    BY DEF OpInv, TypeOK, Operations, Datas
  <2>5. /\ op' \in [Threads -> Operations]
        /\ op'[t].n = op[t].n /\ op'[t].data = new
        /\ \A u \in Threads \ {t} : op'[u] = op[u]
    BY <2>1, <2>3, <2>4 DEF Operations
  <2>6. TypeOK'
    BY <1>2, <1>3, <1>5, <2>1, <2>3, <2>5
       DEF OpInv, TypeOK, ReadDone, sinkVars, diskVars, clockVars, Operations, Datas
  <2>7. UNCHANGED << count, over, before >>
    BY <1>5 DEF ReadDone, clockVars
  <2> QED BY <1>1, <1>3, <2>2, <2>5, <2>6, <2>7, StillRuns
<1> QED BY <1>4, <1>5

LEMMA IoFailsOps ==
    ASSUME OpInv, NEW t \in Threads, NEW k \in 0 .. BufferSize, IoFails(t, k)
    PROVE  OpInv'
<1>1. Running(t) /\ Return(t)
  BY DEF IoFails, Running
<1>2. over' \subseteq Ops /\ pc' \in [Threads -> Labels]
  BY <1>1, ReturnType
<1>3. Filled(t, k) \in [1 .. BufferSize -> 0 .. MaxOps]
  BY FilledType, k \in Nat, RecorderAssumption DEF OpInv
<1>4. buffer' \in [Threads -> [1 .. BufferSize -> 0 .. MaxOps]]
  BY <1>3 DEF OpInv, TypeOK, IoFails
<1>5. TypeOK'
  BY <1>2, <1>4 DEF OpInv, TypeOK, IoFails, sinkVars, diskVars, clockVars
<1> QED BY <1>1, <1>5, Returned DEF IoFails, clockVars

LEMMA LockOps == ASSUME OpInv, NEW t \in Threads, Lock(t) PROVE OpInv'
<1>1. /\ Running(t) /\ lock' = t /\ pc' = [pc EXCEPT ![t] = FirstPart]
      /\ UNCHANGED << format, file, faults, now, count, good, over, before, op, buffer >>
  BY DEF Lock, UseSink, Running, Goto, diskVars, clockVars
<1>2. FirstPart \in Labels
  BY DEF FirstPart, Labels
<1>3. started' \in BOOLEAN
  BY DEF OpInv, TypeOK, Lock, UseSink
<1>4. first' \in 0 .. MaxTime
  BY DEF OpInv, TypeOK, Lock, UseSink
<1>5. TypeOK'
  BY <1>1, <1>2, <1>3, <1>4 DEF OpInv, TypeOK
<1>6. \A u \in Threads \ {t} : pc'[u] = pc[u]
  BY <1>1 DEF OpInv, TypeOK
<1> QED BY <1>1, <1>5, <1>6, StillRuns DEF OpInv, Carries

\* A step in the sink that writes chunk, or nothing, and goes on to label or returns.
LEMMA SinkOps ==
    ASSUME OpInv, NEW t \in Threads, Running(t), NEW label \in Labels \ {"idle"},
           file' \in Seq(Chunks), faults' \in 0 .. MaxFaults,
           \/ pc' = [pc EXCEPT ![t] = label] /\ UNCHANGED << lock, over >>
           \/ Unlock(t),
           UNCHANGED << sinkVars, clockVars, good, before, op, buffer >>
    PROVE  OpInv'
<1> USE DEF sinkVars, clockVars
<1>1. CASE Unlock(t)
  <2>1. Return(t) /\ lock' = None
    BY <1>1 DEF Unlock
  <2>2. TypeOK'
    BY <2>1, ReturnType DEF OpInv, TypeOK, Chunks
  <2> QED BY <2>1, <2>2, Returned
<1>2. CASE pc' = [pc EXCEPT ![t] = label] /\ UNCHANGED << lock, over >>
  <2>1. TypeOK'
    BY <1>2 DEF OpInv, TypeOK, Chunks
  <2>2. \A u \in Threads \ {t} : pc'[u] = pc[u]
    BY <1>2 DEF OpInv, TypeOK
  <2> QED BY <1>2, <2>1, <2>2, StillRuns DEF OpInv, Carries
<1> QED BY <1>1, <1>2

LEMMA WriteOps == ASSUME OpInv, NEW t \in Threads, Write(t) PROVE OpInv'
<1>1. Next1(t) \in Chunks /\ file \in Seq(Chunks)
  BY Next1Type DEF OpInv, TypeOK, Chunks
<1>2. file' \in Seq(Chunks) /\ faults' = faults /\ Running(t)
  BY <1>1 DEF Write, Running
<1>3. \/ pc' = [pc EXCEPT ![t] = "line"] /\ UNCHANGED << lock, over >>
      \/ pc' = [pc EXCEPT ![t] = "data"] /\ UNCHANGED << lock, over >>
      \/ Unlock(t)
  BY DEF Write, Goto
<1>4. "line" \in Labels \ {"idle"} /\ "data" \in Labels \ {"idle"}
  BY DEF Labels
<1>5. UNCHANGED << sinkVars, clockVars, good, before, op, buffer >>
  BY DEF Write
<1>6. faults \in 0 .. MaxFaults
  BY DEF OpInv, TypeOK
<1> QED BY <1>2, <1>3, <1>4, <1>5, <1>6, SinkOps

LEMMA WriteFailsOps ==
    ASSUME OpInv, NEW t \in Threads, NEW piece \in BOOLEAN, WriteFails(t, piece)
    PROVE  OpInv'
<1>1. Piece \in Chunks /\ file \in Seq(Chunks)
  BY DEF OpInv, TypeOK, Chunks, Piece, Chunk, NoEntry, Close, Entries, Parts, Fds
<1>2. file' = Append(file, Piece) \/ file' = file
  BY DEF WriteFails
<1>3. file' \in Seq(Chunks) /\ Running(t) /\ Unlock(t) /\ "line" \in Labels \ {"idle"}
  BY <1>1, <1>2 DEF WriteFails, Running, Labels
<1>4. UNCHANGED << sinkVars, clockVars, good, before, op, buffer >>
  BY DEF WriteFails
<1>5. faults' \in 0 .. MaxFaults
  BY RecorderAssumption DEF OpInv, TypeOK, WriteFails
<1> QED BY <1>3, <1>4, <1>5, SinkOps

LEMMA OtherOps == ASSUME OpInv, Tick \/ UNCHANGED vars PROVE OpInv'
<1>1. /\ UNCHANGED << format, file, started, first, lock, pc, op, buffer, count, faults >>
      /\ UNCHANGED << good, over, before >>
  BY DEF Tick, vars, sinkVars, diskVars, clockVars, ghostVars
<1>2. now' \in 0 .. MaxTime
  BY RecorderAssumption DEF OpInv, TypeOK, Tick, vars, clockVars
<1>3. TypeOK'
  BY <1>1, <1>2 DEF OpInv, TypeOK
<1> QED BY <1>1, <1>3 DEF OpInv, Numbered, Carries, OverBegun, Running

LEMMA NextOps == OpInv /\ [Next]_vars => OpInv'
<1> SUFFICES ASSUME OpInv, [Next]_vars PROVE OpInv'
  OBVIOUS
<1>1. CASE Tick \/ UNCHANGED vars
  BY <1>1, OtherOps
<1>2. ASSUME NEW t \in Threads, Step(t) PROVE OpInv'
  BY <1>2, BeginOps, DoneOps, IoFailsOps, LockOps, WriteOps, WriteFailsOps DEF Step
<1> QED BY <1>1, <1>2 DEF Next

\* Every variable of the recorder keeps its type (TypeOK): what is recorded are
\* chunks of the two formats, and only operations that have begun return.
THEOREM TypeCorrect == Spec => []TypeOK
<1>1. OpInv => TypeOK
  BY DEF OpInv
<1> QED BY <1>1, InitOps, NextOps, PTL DEF Spec

(***************************************************************************)
(* The order of what is recorded                                           *)
(***************************************************************************)

\* What the times in the recording are counted from.
Origin == IF format = "cast" THEN first ELSE 0

TimeOf(chunk) == chunk.entry.time + Origin

NumberOf(chunk) == Number(chunk.entry.data)

\* Each format is written by its own sink, asciicast once it has started.
InSink ==
    \A t \in Threads :
        /\ pc[t] \in {"header", "line"} => format = "cast" /\ started
        /\ pc[t] \in {"head", "data"} => format = "uml"

Unstarted == format = "cast" /\ ~started => \A i \in DOMAIN file : ~HasData(file[i])

\* The recording shows operations that have returned,
Recorded == \A i \in DOMAIN file : HasData(file[i]) => NumberOf(file[i]) \in over

\* all of the past,
Past ==
    /\ \A i \in DOMAIN file : HasData(file[i]) => TimeOf(file[i]) <= now
    /\ \A t \in Threads : Running(t) => op[t].time <= now

\* and none is later than an operation that began after it had returned.
NotLater ==
    \A i \in DOMAIN file : \A t \in Threads :
        HasData(file[i]) /\ Running(t) /\ NumberOf(file[i]) \in before[op[t].n] =>
            TimeOf(file[i]) <= op[t].time

OrderInv ==
    /\ OpInv
    /\ InSink /\ Unstarted
    /\ Recorded /\ Past /\ NotLater
    /\ RecordedInOrder

LEMMA TimesAreInts ==
    ASSUME OpInv
    PROVE  \A i \in DOMAIN file : file[i].entry.time \in Int /\ TimeOf(file[i]) \in Int
<1>1. file \in Seq(Chunks) /\ Origin \in Int
  BY DEF OpInv, TypeOK, Chunks, Origin
<1>2. \A i \in DOMAIN file : file[i] \in Chunks
  BY <1>1
<1> QED BY <1>1, <1>2 DEF Chunks, Entries, TimeOf

LEMMA InitOrder == Init => OrderInv
<1> SUFFICES ASSUME Init PROVE OrderInv
  OBVIOUS
<1>1. DOMAIN file = {}
  BY DEF Init
<1>2. \A t \in Threads : pc[t] = "idle"
  BY DEF Init
<1>3. Recorded /\ Past /\ NotLater /\ RecordedInOrder /\ Unstarted
  BY <1>1, <1>2 DEF Recorded, Past, NotLater, RecordedInOrder, Unstarted, Running
<1>4. InSink
  BY <1>2 DEF InSink
<1> QED BY <1>3, <1>4, InitOps DEF OrderInv

\* A step that adds no data to the recording.
AddsNoData ==
    \A i \in DOMAIN file' : HasData(file'[i]) => i \in DOMAIN file /\ file'[i] = file[i]

LEMMA AppendsNoData ==
    ASSUME OpInv, NEW chunk \in Chunks, ~HasData(chunk),
           file' = file \/ file' = Append(file, chunk)
    PROVE  AddsNoData
<1>1. file \in Seq(Chunks)
  BY DEF OpInv, TypeOK, Chunks
<1>2. CASE file' = file
  BY <1>2 DEF AddsNoData
<1>3. CASE file' = Append(file, chunk)
  BY <1>1, <1>3 DEF AddsNoData
<1> QED BY <1>2, <1>3

\* It keeps the order as long as no operation begins and no time changes.
LEMMA QuietOrder ==
    ASSUME OrderInv, OpInv', InSink', AddsNoData,
           over \subseteq over', before' = before, now <= now', now' \in Nat,
           \A t \in Threads :
               Running(t)' => Running(t) /\ op'[t].n = op[t].n /\ op'[t].time = op[t].time,
           \/ UNCHANGED << format, started, first >>
           \/ Unstarted /\ format' = format /\ (format = "cast" => ~started)
    PROVE  OrderInv'
<1> USE DEF OrderInv
<1>1. \A i \in DOMAIN file' :
          HasData(file'[i]) =>
              i \in DOMAIN file /\ file'[i] = file[i] /\ TimeOf(file[i])' = TimeOf(file[i])
  BY DEF AddsNoData, Unstarted, TimeOf, Origin
<1>2. Unstarted'
  BY <1>1 DEF Unstarted
<1>3. Recorded'
  BY <1>1 DEF Recorded, NumberOf
<1>4. /\ \A i \in DOMAIN file : TimeOf(file[i]) \in Int
      /\ \A t \in Threads : op[t].time \in Int
      /\ now \in Int /\ now' \in Int
  <2>1. OpInv
    OBVIOUS
  <2>2. \A i \in DOMAIN file : TimeOf(file[i]) \in Int
    BY <2>1, TimesAreInts
  <2>3. now \in Int /\ \A t \in Threads : op[t].time \in Int
    BY <2>1 DEF OpInv, TypeOK
  <2> QED BY <2>2, <2>3
<1>5. Past'
  BY <1>1, <1>4 DEF Past
<1>6. NotLater'
  BY <1>1 DEF NotLater, NumberOf
<1>7. RecordedInOrder'
  BY <1>1 DEF RecordedInOrder
<1> QED BY <1>2, <1>3, <1>5, <1>6, <1>7

LEMMA BeginOrder ==
    ASSUME OrderInv, NEW t \in Threads, NEW fd \in Fds, Begin(t, fd) PROVE OrderInv'
<1>1. OpInv /\ OpInv'
  BY BeginOps DEF OrderInv
<1>2. UNCHANGED << format, started, first, file, now, over >>
  BY DEF Begin, sinkVars, diskVars
<1>3. /\ count \in Nat /\ count + 1 \in Ops
      /\ before' = [before EXCEPT ![count + 1] = over]
      /\ before \in [Ops -> SUBSET Ops]
  BY <1>1, RecorderAssumption DEF OpInv, TypeOK, Begin, Ops
<1>4. /\ op'[t].n = count + 1 /\ op'[t].time = now /\ pc'[t] = "io"
      /\ \A u \in Threads \ {t} : op'[u] = op[u] /\ pc'[u] = pc[u]
  BY <1>1 DEF OpInv, TypeOK, Begin, Goto
<1>5. /\ before'[count + 1] = over
      /\ \A n \in 1 .. count : before'[n] = before[n]
  BY <1>1, <1>3 DEF OpInv, TypeOK, Ops
<1>6. over \subseteq 1 .. count
  BY <1>1 DEF OpInv, OverBegun
<1>7. \A i : TimeOf(file[i])' = TimeOf(file[i])
  BY <1>2 DEF TimeOf, Origin
<1>8. InSink' /\ Unstarted' /\ Recorded'
  BY <1>2, <1>4 DEF OrderInv, InSink, Unstarted, Recorded, NumberOf
<1>9. Past'
  <2>1. now \in Int
    BY <1>1 DEF OpInv, TypeOK
  <2> QED BY <1>2, <1>4, <1>7, <2>1 DEF OrderInv, Past, Running
<1>10. NotLater'
  <2>1. \A u \in Threads \ {t} : Running(u) => before'[op[u].n] = before[op[u].n]
    BY <1>1, <1>5 DEF OpInv, Numbered
  <2> SUFFICES ASSUME NEW i \in DOMAIN file, NEW u \in Threads,
                      HasData(file[i]), Running(u)', NumberOf(file[i]) \in before'[op'[u].n]
               PROVE  TimeOf(file[i]) <= op'[u].time
    BY <1>2, <1>7 DEF NotLater, NumberOf
  <2>2. CASE u = t
    BY <1>4, <2>2 DEF OrderInv, Past
  <2>3. CASE u # t
    BY <1>4, <2>1, <2>3 DEF OrderInv, NotLater, Running
  <2> QED BY <2>2, <2>3
<1>11. RecordedInOrder'
  <2>1. \A j \in DOMAIN file :
            HasData(file[j]) => before'[NumberOf(file[j])] = before[NumberOf(file[j])]
    BY <1>5, <1>6 DEF OrderInv, Recorded
  <2> QED BY <1>2, <2>1 DEF OrderInv, RecordedInOrder, NumberOf
<1> QED BY <1>1, <1>8, <1>9, <1>10, <1>11 DEF OrderInv

\* The streams' own steps record nothing, and neither does waiting for the lock.
LEMMA IoOrder ==
    ASSUME OrderInv, NEW t \in Threads,
           \/ WriteDone(t)
           \/ \E k \in 1 .. BufferSize : ReadDone(t, k)
           \/ \E k \in 0 .. BufferSize : IoFails(t, k)
    PROVE  OrderInv'
<1>1. OpInv /\ OpInv'
  BY DoneOps, IoFailsOps DEF OrderInv
<1>2. UNCHANGED << format, started, first, file, before, now >> /\ Running(t)
  BY DEF WriteDone, ReadDone, IoFails, sinkVars, diskVars, clockVars, Running
<1>3. over \subseteq over'
  BY DEF WriteDone, ReadDone, IoFails, Return
<1>4. pc'[t] \in {"lock", "idle"} /\ \A u \in Threads \ {t} : pc'[u] = pc[u]
  BY <1>1 DEF OpInv, TypeOK, WriteDone, ReadDone, IoFails, Return, Goto
<1>10. \A u \in Threads : op'[u].n = op[u].n /\ op'[u].time = op[u].time
  <2>1. op \in [Threads -> Operations]
    BY <1>1 DEF OpInv, TypeOK, Operations, Datas
  <2>2. op' = op \/ \E k \in Nat : op' = [op EXCEPT ![t].data = Filled(t, k)]
    BY DEF WriteDone, ReadDone, IoFails
  <2> QED BY <2>1, <2>2 DEF Operations
<1>5. InSink'
  BY <1>2, <1>4 DEF OrderInv, InSink
<1>6. AddsNoData
  BY <1>2 DEF AddsNoData
<1>7. now \in Nat /\ now <= now'
  BY <1>1, <1>2 DEF OpInv, TypeOK
<1>8. \A u \in Threads :
          Running(u)' => Running(u) /\ op'[u].n = op[u].n /\ op'[u].time = op[u].time
  BY <1>2, <1>4, <1>10 DEF Running
<1> QED BY <1>1, <1>2, <1>3, <1>5, <1>6, <1>7, <1>8, QuietOrder

LEMMA LockOrder == ASSUME OrderInv, NEW t \in Threads, Lock(t) PROVE OrderInv'
<1>1. OpInv /\ OpInv'
  BY LockOps DEF OrderInv
<1>2. /\ pc[t] = "lock" /\ pc' = [pc EXCEPT ![t] = FirstPart]
      /\ UNCHANGED << format, file, op, before, now, over >>
  BY DEF Lock, UseSink, Goto, diskVars, clockVars
<1>3. /\ pc'[t] = FirstPart
      /\ \A u \in Threads \ {t} : pc'[u] = pc[u]
  BY <1>1, <1>2 DEF OpInv, TypeOK
<1>4. \/ UNCHANGED << format, started, first >> /\ (format = "cast" => started)
      \/ format = "cast" /\ ~started /\ started' /\ format' = format
  BY <1>2 DEF Lock, UseSink
<1>5. \/ FirstPart \in {"header", "line"} /\ format = "cast"
      \/ FirstPart = "head" /\ format = "uml"
  <2>1. format = "cast" \/ format = "uml"
    BY <1>1 DEF OpInv, TypeOK, Formats
  <2> QED BY <2>1 DEF FirstPart
<1>6. InSink'
  BY <1>2, <1>3, <1>4, <1>5 DEF OrderInv, InSink
<1>7. AddsNoData
  BY <1>2 DEF AddsNoData
<1>8. now \in Nat /\ now <= now'
  BY <1>1, <1>2 DEF OpInv, TypeOK
<1>9. \A u \in Threads :
          Running(u)' => Running(u) /\ op'[u].n = op[u].n /\ op'[u].time = op[u].time
  BY <1>2, <1>3 DEF Running
<1> QED BY <1>1, <1>2, <1>4, <1>6, <1>7, <1>8, <1>9, QuietOrder DEF OrderInv

\* A chunk with data is that of the operation of who writes it.
LEMMA DataWritten ==
    ASSUME OrderInv, NEW t \in Threads, pc[t] \in {"line", "data"}
    PROVE  /\ NumberOf(Next1(t)) = op[t].n
           /\ TimeOf(Next1(t)) = op[t].time
<1>1. op[t].n \in Nat \ {0} /\ op[t].time \in Int /\ first \in Int
  <2>1. Running(t)
    BY DEF Running
  <2>2. count \in 0 .. MaxOps /\ op[t].n \in 1 .. count
    BY <2>1 DEF OrderInv, OpInv, Numbered, TypeOK
  <2>3. op[t].time \in 0 .. MaxTime /\ first \in 0 .. MaxTime
    BY DEF OrderInv, OpInv, TypeOK
  <2> QED BY <2>2, <2>3
<1>2. op[t].data \in Datas /\ op[t].data # << >> /\ op[t].data[1] = op[t].n
  BY DEF OrderInv, OpInv, Carries, TypeOK, Running, Datas
<1>3. CASE pc[t] = "line"
  <2>1. format = "cast"
    BY <1>3 DEF OrderInv, InSink
  <2>2. /\ Next1(t).entry.time = op[t].time - first
        /\ Next1(t).entry.data = Utf8(op[t].data)
    BY <1>3 DEF Next1, CastLine, Chunk, Io, EntryOf
  <2>3. 1 \in DOMAIN op[t].data
    <3> DEFINE S == 0 .. MaxOps
    <3>1. op[t].data \in Seq(S)
      BY <1>2 DEF Datas
    <3> HIDE DEF S
    <3> QED BY <1>2, <3>1
  <2>4. Utf8(op[t].data)[1] = op[t].n \/ Utf8(op[t].data)[1] = -op[t].n
    BY <1>2, <2>3 DEF Utf8
  <2> QED BY <1>1, <2>1, <2>2, <2>4 DEF NumberOf, Number, TimeOf, Origin
<1>4. CASE pc[t] = "data"
  <2>1. format = "uml"
    BY <1>4 DEF OrderInv, InSink
  <2>2. Next1(t).entry.time = op[t].time /\ Next1(t).entry.data = op[t].data
    BY <1>4 DEF Next1, UmlData, Chunk, Io, EntryOf
  <2> QED BY <1>1, <1>2, <2>1, <2>2 DEF NumberOf, Number, TimeOf, Origin
<1> QED BY <1>3, <1>4

\* The last write of an entry: the operation is on record and returns.  No
\* operation that is already there has begun after it, for it had not returned.
LEMMA EntryOrder ==
    ASSUME OrderInv, NEW t \in Threads, pc[t] \in {"line", "data"}, Write(t)
    PROVE  OrderInv'
<1> DEFINE n == op[t].n
           chunk == Next1(t)
           last == Len(file) + 1
<1>1. OpInv /\ OpInv'
  BY WriteOps DEF OrderInv
<1>2. /\ UNCHANGED << format, started, first, op, before, now, count >>
      /\ over' = over \cup {n} /\ pc' = [pc EXCEPT ![t] = "idle"]
      /\ file' = Append(file, chunk)
  BY DEF Write, Unlock, Return, Goto, sinkVars, clockVars
<1>3. NumberOf(chunk) = n /\ TimeOf(chunk) = op[t].time
  BY DataWritten
<1>4. n \in Ops /\ n \notin over /\ Running(t)
  <2>1. Running(t)
    BY DEF Running
  <2>2. count \in 0 .. MaxOps /\ n \in 1 .. count /\ n \notin over
    BY <1>1, <2>1 DEF OpInv, Numbered, TypeOK
  <2> QED BY <2>1, <2>2, RecorderAssumption DEF Ops
<1>5. /\ DOMAIN file' = DOMAIN file \cup {last} /\ last \notin DOMAIN file
      /\ file'[last] = chunk /\ \A i \in DOMAIN file : file'[i] = file[i] /\ i < last
  <2>1. file \in Seq(Chunks)
    BY <1>1 DEF OpInv, TypeOK, Chunks
  <2>2. chunk \in Chunks
    BY <1>1, Next1Type DEF OpInv
  <2> HIDE DEF chunk
  <2> QED BY <1>2, <2>1, <2>2
<1>6. \A k \in Ops : n \notin before[k]
  BY <1>1, <1>4 DEF OpInv, OverBegun
<1>7. \A c : TimeOf(c)' = TimeOf(c)
  BY <1>2 DEF TimeOf, Origin
<1>8. \A u \in Threads : Running(u)' => u # t /\ Running(u)
  BY <1>1, <1>2 DEF OpInv, TypeOK, Running
<1>9. \A i \in DOMAIN file : HasData(file[i]) => NumberOf(file[i]) \in Ops
  BY <1>1 DEF OrderInv, Recorded, OpInv, TypeOK
<1> HIDE DEF n, chunk, last
<1>10. InSink'
  BY <1>1, <1>2 DEF OrderInv, InSink, OpInv, TypeOK
<1>11. Unstarted'
  <2>1. format = "cast" => started
    <3>1. pc[t] = "line" \/ format = "uml"
      BY DEF OrderInv, InSink
    <3> QED BY <3>1 DEF OrderInv, InSink
  <2> QED BY <1>2, <2>1 DEF Unstarted
<1>12. Recorded'
  BY <1>2, <1>3, <1>5 DEF OrderInv, Recorded, NumberOf
<1>13. Past'
  <2>1. op[t].time <= now
    BY <1>4 DEF OrderInv, Past
  <2> QED BY <1>2, <1>3, <1>5, <1>7, <1>8, <2>1 DEF OrderInv, Past
<1>14. NotLater'
  <2> SUFFICES ASSUME NEW i \in DOMAIN file', NEW u \in Threads, HasData(file'[i]),
                      Running(u), NumberOf(file'[i]) \in before[op[u].n]
               PROVE  TimeOf(file'[i]) <= op[u].time
    BY <1>2, <1>7, <1>8 DEF NotLater, NumberOf
  <2>1. op[u].n \in Ops
    BY <1>1, RecorderAssumption DEF OpInv, Numbered, TypeOK, Ops
  <2>2. i # last
    BY <1>3, <1>5, <1>6, <2>1
  <2> QED BY <1>5, <2>2 DEF OrderInv, NotLater
<1>15. RecordedInOrder'
  <2> SUFFICES ASSUME NEW i \in DOMAIN file', NEW j \in DOMAIN file',
                      HasData(file'[i]), HasData(file'[j]),
                      NumberOf(file'[i]) \in before[NumberOf(file'[j])]
               PROVE  i < j /\ file'[i].entry.time <= file'[j].entry.time
    BY <1>2 DEF RecordedInOrder, NumberOf
  <2>1. NumberOf(file'[j]) \in Ops
    BY <1>3, <1>4, <1>5, <1>9
  <2>2. i # last /\ i \in DOMAIN file /\ file'[i] = file[i]
    BY <1>3, <1>5, <1>6, <2>1
  <2>3. CASE j = last
    <3>1. TimeOf(file[i]) <= op[t].time
      BY <1>3, <1>4, <1>5, <2>2, <2>3 DEF OrderInv, NotLater, n
    <3>2. file[i].entry.time \in Int
      BY <1>1, <2>2, TimesAreInts
    <3>3. chunk.entry.time \in Int
      BY <1>1, Next1Type DEF OpInv, Chunks, Entries, chunk
    <3>4. Origin \in Int
      BY <1>1 DEF OpInv, TypeOK, Origin
    <3> QED BY <3>3, <3>4, <1>3, <1>5, <2>2, <2>3, <3>1, <3>2 DEF TimeOf
  <2>4. CASE j # last
    BY <1>5, <2>2, <2>4 DEF OrderInv, RecordedInOrder, NumberOf
  <2> QED BY <2>3, <2>4
<1> QED BY <1>1, <1>10, <1>11, <1>12, <1>13, <1>14, <1>15 DEF OrderInv

\* A step in the sink that leaves a chunk without data, or none.
LEMMA PartOrder ==
    ASSUME OrderInv, OpInv', NEW t \in Threads, Running(t), NEW chunk \in Chunks,
           ~HasData(chunk), file' = file \/ file' = Append(file, chunk),
           NEW label \in Labels, pc' = [pc EXCEPT ![t] = label],
           label \in {"line", "data", "idle"},
           label = "line" => pc[t] = "header", label = "data" => pc[t] = "head",
           over \subseteq over',
           UNCHANGED << sinkVars, clockVars, op, before >>
    PROVE  OrderInv'
<1>1. OpInv
  BY DEF OrderInv
<1>2. UNCHANGED << format, started, first, now, count >>
  BY DEF sinkVars, clockVars
<1>3. pc'[t] = label /\ \A u \in Threads \ {t} : pc'[u] = pc[u]
  BY <1>1 DEF OpInv, TypeOK
<1>4. InSink'
  BY <1>2, <1>3 DEF OrderInv, InSink
<1>5. AddsNoData
  BY <1>1, AppendsNoData
<1>6. now \in Nat /\ now <= now'
  BY <1>1, <1>2 DEF OpInv, TypeOK
<1>7. \A u \in Threads :
          Running(u)' => Running(u) /\ op'[u].n = op[u].n /\ op'[u].time = op[u].time
  BY <1>3 DEF Running
<1> QED BY <1>2, <1>4, <1>5, <1>6, <1>7, QuietOrder

LEMMA WriteOrder == ASSUME OrderInv, NEW t \in Threads, Write(t) PROVE OrderInv'
<1>1. OpInv /\ OpInv' /\ Running(t) /\ Next1(t) \in Chunks
  BY WriteOps, Next1Type DEF OrderInv, OpInv, Write, Running
<1>2. CASE pc[t] \in {"line", "data"}
  BY <1>2, EntryOrder
<1>3. CASE pc[t] \in {"header", "head"}
  <2> DEFINE label == IF pc[t] = "header" THEN "line" ELSE "data"
  <2>1. /\ pc' = [pc EXCEPT ![t] = label] /\ over' = over
        /\ file' = Append(file, Next1(t))
        /\ UNCHANGED << sinkVars, clockVars, op, before >>
    BY <1>3 DEF Write, Goto
  <2>2. ~HasData(Next1(t))
    BY <1>3 DEF Next1, HasData, Chunk, UmlHead
  <2>3. /\ label \in Labels /\ label \in {"line", "data", "idle"}
        /\ label = "line" => pc[t] = "header"
        /\ label = "data" => pc[t] = "head"
    BY <1>3 DEF Labels
  <2> HIDE DEF label
  <2> QED BY <1>1, <2>1, <2>2, <2>3, PartOrder
<1> QED BY <1>2, <1>3 DEF Write

LEMMA WriteFailsOrder ==
    ASSUME OrderInv, NEW t \in Threads, NEW piece \in BOOLEAN, WriteFails(t, piece)
    PROVE  OrderInv'
<1>1. OpInv'
  BY WriteFailsOps DEF OrderInv
<1>2. Piece \in Chunks /\ ~HasData(Piece)
  BY DEF Piece, Chunk, Chunks, Entries, Parts, NoEntry, Close, Fds, HasData
<1>3. /\ pc' = [pc EXCEPT ![t] = "idle"] /\ over \subseteq over' /\ Running(t)
      /\ file' = file \/ file' = Append(file, Piece)
      /\ UNCHANGED << sinkVars, clockVars, op, before >>
  BY DEF WriteFails, Unlock, Return, Goto, Running
<1>4. "idle" \in Labels
  BY DEF Labels
<1> QED BY <1>1, <1>2, <1>3, <1>4, PartOrder

LEMMA OtherOrder == ASSUME OrderInv, Tick \/ UNCHANGED vars PROVE OrderInv'
<1>1. OpInv /\ OpInv'
  BY OtherOps DEF OrderInv
<1>2. UNCHANGED << format, started, first, file, over, before, op, pc >>
  BY DEF Tick, vars, sinkVars, diskVars, clockVars, ghostVars
<1>3. now <= now' /\ now' \in Nat
  BY <1>1 DEF OpInv, TypeOK, Tick, vars, clockVars
<1>4. InSink' /\ AddsNoData
  BY <1>2 DEF OrderInv, InSink, AddsNoData
<1> QED BY <1>1, <1>2, <1>3, <1>4, QuietOrder DEF Running

LEMMA NextOrder == OrderInv /\ [Next]_vars => OrderInv'
<1> SUFFICES ASSUME OrderInv, [Next]_vars PROVE OrderInv'
  OBVIOUS
<1>1. CASE Tick \/ UNCHANGED vars
  BY <1>1, OtherOrder
<1>2. ASSUME NEW t \in Threads, Step(t) PROVE OrderInv'
  BY <1>2, BeginOrder, IoOrder, LockOrder, WriteOrder, WriteFailsOrder DEF Step
<1> QED BY <1>1, <1>2 DEF Next

\* For any number of goroutines and operations, in both formats, an operation
\* that returned before another began stands before it in the recording and with
\* no later time (recordIO, common.go:105-125): RecordedInOrder.
THEOREM RecordingKeepsOrder == Spec => []RecordedInOrder
<1>1. OrderInv => RecordedInOrder
  BY DEF OrderInv
<1> QED BY <1>1, InitOrder, NextOrder, PTL DEF Spec

(***************************************************************************)
(* The largest and the least of a set of numbers                           *)
(***************************************************************************)

LEMMA MaxIs ==
    ASSUME NEW m \in Nat, NEW S, S \subseteq 0 .. m, S # {}
    PROVE  Max(S) \in S /\ \A n \in S : n <= Max(S)
BY Largest DEF Max

LEMMA MinIs ==
    ASSUME NEW m \in Nat, NEW S, S \subseteq 0 .. m, S # {}
    PROVE  Min(S) \in S /\ \A n \in S : Min(S) <= n
<1> DEFINE T == {m - n : n \in S}
<1>1. T \subseteq 0 .. m /\ T # {}
  <2>1. \A n \in S : n \in 0 .. m /\ m - n \in 0 .. m
    OBVIOUS
  <2> QED BY <2>1
<1>2. Max(T) \in T /\ \A n \in T : n <= Max(T)
  BY <1>1, MaxIs
<1>3. PICK j \in S : Max(T) = m - j
  BY <1>2
<1>4. \A i \in S : j <= i
  <2> TAKE i \in S
  <2>1. m - i \in T
    OBVIOUS
  <2>2. m - i <= m - j
    BY <2>1, <1>2, <1>3
  <2> QED BY <2>2
<1> QED BY <1>4 DEF Min

\* UmlEntries reads chunk after chunk.
Extended(q, chunk) == IF Complete(chunk) THEN Append(q, chunk.entry) ELSE q

LEMMA UmlEntriesIs ==
    ASSUME NEW T, NEW f \in Seq(T)
    PROVE  /\ UmlEntries(f)[0] = << >>
           /\ \A n \in 1 .. Len(f) : UmlEntries(f)[n] = Extended(UmlEntries(f)[n - 1], f[n])
<1> DEFINE Turn(g, n) == IF n = 0 THEN << >>
                         ELSE IF Complete(f[n]) THEN Append(g[n - 1], f[n].entry) ELSE g[n - 1]
           S == {m \in 0 .. Len(f) : \E g : g = [n \in 0 .. m |-> Turn(g, n)]}
<1>0. Len(f) \in Nat
  OBVIOUS
<1>1. 0 \in S
  <2> DEFINE g == [n \in 0 .. 0 |-> << >>]
  <2>1. g = [n \in 0 .. 0 |-> Turn(g, n)]
    OBVIOUS
  <2>2. 0 \in 0 .. Len(f)
    BY <1>0
  <2> HIDE DEF g, Turn
  <2> QED BY <2>1, <2>2
<1>2. ASSUME NEW m \in 0 .. Len(f) - 1, m \in S PROVE m + 1 \in S
  <2>1. PICK g : g = [n \in 0 .. m |-> Turn(g, n)]
    BY <1>2
  <2> DEFINE h == [n \in 0 .. m + 1 |-> IF n <= m THEN g[n] ELSE Turn(g, n)]
  <2>2. \A n \in 0 .. m + 1 : h[n] = Turn(h, n)
    <3> TAKE n \in 0 .. m + 1
    <3>1. CASE n <= m
      <4>0. g[n] = Turn(g, n)
        <5> HIDE DEF Turn, h
        <5>1. n \in 0 .. m
          BY <3>1
        <5> QED BY <2>1, <5>1
      <4>1. h[n] = Turn(g, n)
        <5> HIDE DEF Turn
        <5> QED BY <4>0, <3>1
      <4>2. n # 0 => h[n - 1] = g[n - 1]
        BY <3>1
      <4> HIDE DEF h
      <4> QED BY <4>1, <4>2
    <3>2. CASE n = m + 1
      <4>1. h[n] = Turn(g, n) /\ n # 0 /\ h[n - 1] = g[n - 1]
        BY <3>2
      <4> HIDE DEF h
      <4> QED BY <4>1
    <3> QED BY <3>1, <3>2
  <2>3. h = [n \in 0 .. m + 1 |-> h[n]]
    OBVIOUS
  <2>4. h = [n \in 0 .. m + 1 |-> Turn(h, n)]
    <3> HIDE DEF h
    <3> QED BY <2>2, <2>3
  <2>5. m + 1 \in 0 .. Len(f)
    BY <1>0
  <2> HIDE DEF h, Turn
  <2> QED BY <2>4, <2>5
<1>3. Len(f) \in S
  <2> HIDE DEF S
  <2>1. 0 .. Len(f) \subseteq S
    BY <1>0, <1>1, <1>2, Induction
  <2> QED BY <1>0, <2>1
<1>4. UmlEntries(f) = [n \in 0 .. Len(f) |-> Turn(UmlEntries(f), n)]
  <2>1. PICK g : g = [n \in 0 .. Len(f) |-> Turn(g, n)]
    BY <1>3
  <2> QED BY <2>1 DEF UmlEntries
<1> DEFINE u == UmlEntries(f)
<1>5. \A n \in 0 .. Len(f) : u[n] = Turn(u, n)
  <2> HIDE DEF Turn
  <2> QED BY <1>4
<1> HIDE DEF u
<1>6. u[0] = << >>
  BY <1>0, <1>5
<1>7. \A n \in 1 .. Len(f) : u[n] = Extended(u[n - 1], f[n])
  BY <1>0, <1>5 DEF Extended
<1> QED BY <1>6, <1>7 DEF u

\* The beginning of a sequence, component by component.
Begins(p, q) == Len(p) <= Len(q) /\ \A i \in 1 .. Len(p) : p[i] = q[i]

LEMMA BeginsIsPrefix ==
    ASSUME NEW T, NEW p \in Seq(T), NEW q \in Seq(T), Begins(p, q)
    PROVE  IsPrefix(p, q)
<1>1. Len(p) \in Nat /\ Len(q) \in Nat /\ Len(p) <= Len(q)
  BY DEF Begins
<1>2. /\ SubSeq(p, 1, Len(p)) = p
      /\ SubSeq(q, 1, Len(p)) \in Seq(T) /\ Len(SubSeq(q, 1, Len(p))) = Len(p)
      /\ \A i \in 1 .. Len(p) : SubSeq(q, 1, Len(p))[i] = q[i]
  BY <1>1
<1>3. SubSeq(q, 1, Len(p)) = p
  <2> DEFINE r == SubSeq(q, 1, Len(p))
  <2>1. r \in Seq(T) /\ Len(r) = Len(p) /\ \A i \in 1 .. Len(r) : r[i] = p[i]
    BY <1>1, <1>2 DEF Begins
  <2> HIDE DEF r
  <2>2. r = p
    BY <2>1
  <2> QED BY <2>2 DEF r
<1> QED BY <1>1, <1>2, <1>3 DEF IsPrefix

LEMMA ChunkAdded ==
    ASSUME NEW f \in Seq(Chunks), NEW x \in Chunks
    PROVE  /\ Append(f, x) \in Seq(Chunks)
           /\ Len(Append(f, x)) = Len(f) + 1 /\ Len(f) \in Nat
           /\ Append(f, x)[Len(f) + 1] = x
           /\ \A i \in 1 .. Len(f) : Append(f, x)[i] = f[i] /\ f[i] \in Chunks
           /\ DOMAIN f = 1 .. Len(f) /\ DOMAIN Append(f, x) = 1 .. Len(f) + 1
OBVIOUS

LEMMA SameFront ==
    ASSUME NEW p \in Seq(Chunks), NEW q \in Seq(Chunks), NEW m \in Nat,
           m <= Len(p), m <= Len(q), \A i \in 1 .. m : p[i] = q[i]
    PROVE  SubSeq(p, 1, m) = SubSeq(q, 1, m)
<1> DEFINE r == SubSeq(p, 1, m)
           s == SubSeq(q, 1, m)
<1>1. r \in Seq(Chunks) /\ Len(r) = m /\ \A i \in 1 .. m : r[i] = p[i]
  OBVIOUS
<1>2. s \in Seq(Chunks) /\ Len(s) = m /\ \A i \in 1 .. m : s[i] = q[i]
  OBVIOUS
<1> HIDE DEF r, s
<1>3. r = s
  BY <1>1, <1>2
<1> QED BY <1>3 DEF r, s

\* What UmlEntries finds are entries, more with every chunk.
LEMMA UmlEntriesType ==
    ASSUME NEW f \in Seq(Chunks), NEW n \in 0 .. Len(f)
    PROVE  /\ UmlEntries(f)[n] \in Seq(Entries)
           /\ \A m \in 0 .. n : Begins(UmlEntries(f)[m], UmlEntries(f)[n])
<1> DEFINE u == UmlEntries(f)
           S == {k \in 0 .. Len(f) : u[k] \in Seq(Entries) /\ \A m \in 0 .. k : Begins(u[m], u[k])}
<1>0. Len(f) \in Nat
  OBVIOUS
<1>1. u[0] = << >> /\ \A k \in 1 .. Len(f) : u[k] = Extended(u[k - 1], f[k])
  BY UmlEntriesIs
<1> HIDE DEF u
<1>2. 0 \in S
  <2>1. << >> \in Seq(Entries) /\ Begins(<< >>, << >>)
    BY DEF Begins
  <2>2. 0 \in 0 .. Len(f) /\ \A m \in 0 .. 0 : m = 0
    BY <1>0
  <2> HIDE DEF Begins
  <2>3. \A m \in 0 .. 0 : Begins(u[m], u[0])
    BY <1>1, <2>1, <2>2
  <2> QED BY <1>1, <2>1, <2>2, <2>3
<1>3. ASSUME NEW k \in 0 .. Len(f) - 1, k \in S PROVE k + 1 \in S
  <2>1. u[k + 1] = Extended(u[k], f[k + 1]) /\ k + 1 \in 1 .. Len(f)
    <3>1. k + 1 \in 1 .. Len(f) /\ k + 1 - 1 = k
      BY <1>0
    <3> QED BY <1>1, <3>1
  <2>2. f[k + 1].entry \in Entries
    <3>1. f[k + 1] \in Chunks
      BY <2>1
    <3> QED BY <3>1 DEF Chunks
  <2> DEFINE q == u[k]
             e == f[k + 1].entry
  <2>3. q \in Seq(Entries) /\ \A m \in 0 .. k : Begins(u[m], q)
    BY <1>3
  <2>4. u[k + 1] = q \/ u[k + 1] = Append(q, e)
    BY <2>1 DEF Extended
  <2> HIDE DEF q, e
  <2>5. u[k + 1] \in Seq(Entries) /\ Begins(q, u[k + 1])
    <3>1. e \in Entries
      BY <2>2 DEF e
    <3>2. Len(q) \in Nat /\ Begins(q, q)
      BY <2>3 DEF Begins
    <3>3. Append(q, e) \in Seq(Entries) /\ Begins(q, Append(q, e))
      BY <2>3, <3>1 DEF Begins
    <3> QED BY <2>3, <2>4, <3>2, <3>3
  <2>6. \A m \in 0 .. k : Begins(u[m], u[k + 1])
    <3> TAKE m \in 0 .. k
    <3>1. Begins(u[m], q) /\ Begins(q, u[k + 1])
      BY <2>3, <2>5
    <3>2. Len(q) \in Nat /\ Len(u[k + 1]) \in Nat
      BY <2>3, <2>5
    <3>3. \A i \in 1 .. Len(u[m]) : i \in 1 .. Len(q)
      BY <3>1, <3>2 DEF Begins
    <3> QED BY <3>1, <3>2, <3>3 DEF Begins
  <2>7. Begins(u[k + 1], u[k + 1])
    <3>1. Len(u[k + 1]) \in Nat
      BY <2>5
    <3> QED BY <3>1 DEF Begins
  <2>8. \A m \in 0 .. k + 1 : Begins(u[m], u[k + 1])
    <3>1. \A m \in 0 .. k + 1 : m \in 0 .. k \/ m = k + 1
      OBVIOUS
    <3> QED BY <2>6, <2>7, <3>1
  <2>9. k + 1 \in 0 .. Len(f)
    BY <1>0
  <2> QED BY <2>5, <2>8, <2>9
<1>4. n \in S
  <2> HIDE DEF S
  <2>1. 0 .. Len(f) \subseteq S
    BY <1>0, <1>2, <1>3, Induction
  <2> QED BY <2>1
<1> QED BY <1>4 DEF u

\* A chunk that is added changes nothing of what was found before it.
LEMMA UmlEntriesStay ==
    ASSUME NEW f \in Seq(Chunks), NEW x \in Chunks, NEW n \in 0 .. Len(f)
    PROVE  UmlEntries(Append(f, x))[n] = UmlEntries(f)[n]
<1> DEFINE g == Append(f, x)
           u == UmlEntries(f)
           v == UmlEntries(g)
           S == {k \in 0 .. Len(f) : v[k] = u[k]}
<1>0. /\ g \in Seq(Chunks) /\ Len(g) = Len(f) + 1 /\ Len(f) \in Nat
      /\ \A i \in 1 .. Len(f) : g[i] = f[i]
  BY ChunkAdded
<1> HIDE DEF g
<1>1. u[0] = << >> /\ \A k \in 1 .. Len(f) : u[k] = Extended(u[k - 1], f[k])
  BY UmlEntriesIs
<1>2. v[0] = << >> /\ \A k \in 1 .. Len(g) : v[k] = Extended(v[k - 1], g[k])
  BY <1>0, UmlEntriesIs
<1> HIDE DEF u, v
<1>3. 0 \in S
  BY <1>0, <1>1, <1>2
<1>4. ASSUME NEW k \in 0 .. Len(f) - 1, k \in S PROVE k + 1 \in S
  <2>1. k + 1 \in 1 .. Len(f) /\ k + 1 \in 1 .. Len(g) /\ k + 1 - 1 = k
    BY <1>0
  <2>2. u[k + 1] = Extended(u[k], f[k + 1]) /\ v[k + 1] = Extended(v[k], g[k + 1])
    BY <1>1, <1>2, <2>1
  <2>3. g[k + 1] = f[k + 1] /\ u[k] = v[k] /\ k + 1 \in 0 .. Len(f)
    BY <1>0, <1>4, <2>1
  <2> QED BY <2>2, <2>3
<1>5. n \in S
  <2> HIDE DEF S
  <2>1. 0 .. Len(f) \subseteq S
    BY <1>0, <1>3, <1>4, Induction
  <2> QED BY <2>1
<1> QED BY <1>5 DEF u, v, g

AlignedTo(f) == Max({n \in 0 .. Len(f) : Aligned(SubSeq(f, 1, n))})

LEMMA AlignedToIs ==
    ASSUME NEW f \in Seq(Chunks)
    PROVE  /\ AlignedTo(f) \in 0 .. Len(f) /\ ReadUml(f) = UmlEntries(f)[AlignedTo(f)]
           /\ Aligned(SubSeq(f, 1, AlignedTo(f)))
           /\ \A n \in 0 .. Len(f) : Aligned(SubSeq(f, 1, n)) => n <= AlignedTo(f)
<1> DEFINE S == {n \in 0 .. Len(f) : Aligned(SubSeq(f, 1, n))}
<1>1. Len(f) \in Nat /\ SubSeq(f, 1, 0) = << >>
  <2>1. SubSeq(f, 1, 0) \in Seq(Chunks) /\ Len(SubSeq(f, 1, 0)) = 0
    BY 0 \in Int
  <2> DEFINE q == SubSeq(f, 1, 0)
  <2>2. q \in Seq(Chunks) /\ Len(q) = 0
    BY <2>1
  <2> HIDE DEF q
  <2>3. q = << >>
    BY <2>2
  <2> QED BY <2>3 DEF q
<1>2. Aligned(<< >>)
  BY DEF Aligned
<1>3. 0 \in S /\ S \subseteq 0 .. Len(f)
  <2>1. Aligned(SubSeq(f, 1, 0))
    BY <1>1, <1>2, Zenon
  <2>2. 0 \in 0 .. Len(f)
    BY <1>1
  <2> QED BY <2>1, <2>2
<1>4. Max(S) \in S /\ \A n \in S : n <= Max(S)
  <2> HIDE DEF S
  <2> QED BY <1>1, <1>3, MaxIs
<1>5. AlignedTo(f) = Max(S) /\ ReadUml(f) = UmlEntries(f)[Max(S)]
  BY DEF AlignedTo, ReadUml
<1> QED BY <1>4, <1>5

LEMMA UmlGrows ==
    ASSUME NEW f \in Seq(Chunks), NEW x \in Chunks
    PROVE  IsPrefix(ReadUml(f), ReadUml(Append(f, x)))
<1> DEFINE g == Append(f, x)
           m == AlignedTo(f)
           n == AlignedTo(g)
<1>0. /\ g \in Seq(Chunks) /\ Len(g) = Len(f) + 1 /\ Len(f) \in Nat
      /\ \A i \in 1 .. Len(f) : g[i] = f[i]
  BY ChunkAdded
<1>1. m \in 0 .. Len(f) /\ Aligned(SubSeq(f, 1, m)) /\ ReadUml(f) = UmlEntries(f)[m]
  BY AlignedToIs
<1> HIDE DEF g
<1>2. /\ n \in 0 .. Len(g) /\ ReadUml(g) = UmlEntries(g)[n]
      /\ \A k \in 0 .. Len(g) : Aligned(SubSeq(g, 1, k)) => k <= n
  BY <1>0, AlignedToIs
<1> HIDE DEF m, n
<1>3. SubSeq(g, 1, m) = SubSeq(f, 1, m)
  <2>1. m \in Nat /\ m <= Len(f) /\ m <= Len(g)
    BY <1>0, <1>1
  <2>2. f \in Seq(Chunks) /\ \A i \in 1 .. m : g[i] = f[i]
    BY <1>0, <2>1
  <2> QED BY <1>0, <2>1, <2>2, SameFront
<1>4. m \in 0 .. n
  <2>1. m \in 0 .. Len(g)
    BY <1>0, <1>1
  <2>2. m <= n
    BY <1>1, <1>2, <1>3, <2>1
  <2> QED BY <1>0, <1>1, <1>2, <2>2
<1>5. UmlEntries(g)[m] = UmlEntries(f)[m]
  BY <1>1, UmlEntriesStay DEF g
<1>6. /\ UmlEntries(g)[n] \in Seq(Entries) /\ UmlEntries(f)[m] \in Seq(Entries)
      /\ Begins(UmlEntries(g)[m], UmlEntries(g)[n])
  BY <1>0, <1>1, <1>2, <1>4, UmlEntriesType
<1>7. IsPrefix(UmlEntries(f)[m], UmlEntries(g)[n])
  BY <1>5, <1>6, BeginsIsPrefix
<1> QED BY <1>1, <1>2, <1>7 DEF g

(***************************************************************************)
(* What a reader makes of the lines of an asciicast                        *)
(***************************************************************************)

Ended(f) == {i \in DOMAIN f : f[i].part # "piece"}

HeaderOf(f) == IF Ended(f) = {} THEN Len(f) ELSE Min(Ended(f))

LinesFrom(f, h) == {n \in h .. Len(f) : \A i \in h + 1 .. n : f[i].part = "line"}

LastLine(f) == Max(LinesFrom(f, HeaderOf(f)))

\* What a line is read as.
Timed(chunk) == [chunk.entry EXCEPT !.time = Microseconds(@)]

TimedEntries == {Timed(c) : c \in Chunks}

LEMMA CastIs ==
    ASSUME NEW f \in Seq(Chunks), NEW h, h = HeaderOf(f), NEW l, l = LastLine(f)
    PROVE  /\ h \in 0 .. Len(f) /\ l \in h .. Len(f)
           /\ \A n \in LinesFrom(f, h) : n <= l
           /\ \A i \in h + 1 .. l : f[i].part = "line"
           /\ Ended(f) # {} => h \in Ended(f) /\ \A i \in Ended(f) : h <= i
           /\ ReadCast(f) \in Seq(TimedEntries) /\ Len(ReadCast(f)) = l - h
           /\ \A i \in 1 .. l - h : ReadCast(f)[i] = Timed(f[h + i])
<1>0. Len(f) \in Nat /\ DOMAIN f = 1 .. Len(f)
  OBVIOUS
<1>1. Ended(f) \subseteq 0 .. Len(f)
  BY <1>0 DEF Ended
<1>2. Ended(f) # {} => h \in Ended(f) /\ \A i \in Ended(f) : h <= i
  BY <1>0, <1>1, MinIs DEF HeaderOf
<1>3. h \in 0 .. Len(f)
  <2>1. CASE Ended(f) = {}
    BY <1>0, <2>1 DEF HeaderOf
  <2>2. CASE Ended(f) # {}
    BY <1>1, <1>2, <2>2
  <2> QED BY <2>1, <2>2
<1> DEFINE S == LinesFrom(f, h)
<1>4. h \in S /\ S \subseteq 0 .. Len(f)
  BY <1>0, <1>3 DEF LinesFrom
<1>5. l \in S /\ \A n \in S : n <= l
  <2>1. l = Max(S)
    BY DEF LastLine
  <2> HIDE DEF S
  <2> QED BY <1>0, <1>4, <2>1, MaxIs
<1>6. l \in h .. Len(f) /\ \A i \in h + 1 .. l : f[i].part = "line"
  BY <1>5 DEF LinesFrom
<1> DEFINE q == SubSeq(f, h + 1, l)
<1>7. q \in Seq(Chunks) /\ Len(q) = l - h /\ \A i \in 1 .. l - h : q[i] = f[h + i]
  BY <1>0, <1>3, <1>6
<1>8. ReadCast(f) = [i \in DOMAIN q |-> Timed(q[i])]
  <2>1. h = IF {i \in DOMAIN f : f[i].part # "piece"} = {} THEN Len(f)
            ELSE Min({i \in DOMAIN f : f[i].part # "piece"})
    BY DEF HeaderOf, Ended
  <2>2. l = Max({n \in h .. Len(f) : \A i \in h + 1 .. n : f[i].part = "line"})
    BY DEF LastLine, LinesFrom
  <2> QED BY <2>1, <2>2, Zenon DEF ReadCast, Timed
<1> HIDE DEF q
<1>9. /\ DOMAIN q = 1 .. l - h /\ l - h \in Nat
      /\ \A i \in 1 .. l - h : q[i] \in Chunks
  BY <1>3, <1>6, <1>7
<1>10. ReadCast(f) \in Seq(TimedEntries) /\ Len(ReadCast(f)) = l - h
  <2>1. \A i \in 1 .. l - h : Timed(q[i]) \in TimedEntries
    BY <1>9 DEF TimedEntries
  <2> QED BY <1>8, <1>9, <2>1
<1> QED BY <1>2, <1>3, <1>5, <1>6, <1>7, <1>8, <1>9, <1>10

LEMMA CastGrows ==
    ASSUME NEW f \in Seq(Chunks), NEW x \in Chunks
    PROVE  IsPrefix(ReadCast(f), ReadCast(Append(f, x)))
<1> DEFINE g == Append(f, x)
           h == HeaderOf(f)
           l == LastLine(f)
           k == HeaderOf(g)
           m == LastLine(g)
<1>0. /\ g \in Seq(Chunks) /\ Len(g) = Len(f) + 1 /\ Len(f) \in Nat
      /\ \A i \in 1 .. Len(f) : g[i] = f[i]
      /\ DOMAIN f = 1 .. Len(f) /\ DOMAIN g = 1 .. Len(f) + 1
  BY ChunkAdded
<1> HIDE DEF g
<1>1. /\ h \in 0 .. Len(f) /\ l \in h .. Len(f)
      /\ \A i \in h + 1 .. l : f[i].part = "line"
      /\ Ended(f) # {} => h \in Ended(f) /\ \A i \in Ended(f) : h <= i
      /\ ReadCast(f) \in Seq(TimedEntries) /\ Len(ReadCast(f)) = l - h
      /\ \A i \in 1 .. l - h : ReadCast(f)[i] = Timed(f[h + i])
  BY CastIs
<1>2. /\ k \in 0 .. Len(g) /\ m \in k .. Len(g)
      /\ \A n \in LinesFrom(g, k) : n <= m
      /\ Ended(g) # {} => k \in Ended(g) /\ \A i \in Ended(g) : k <= i
      /\ ReadCast(g) \in Seq(TimedEntries) /\ Len(ReadCast(g)) = m - k
      /\ \A i \in 1 .. m - k : ReadCast(g)[i] = Timed(g[k + i])
  <2>1. g \in Seq(Chunks) /\ k = HeaderOf(g) /\ m = LastLine(g)
    BY <1>0
  <2> HIDE DEF k, m
  <2> QED BY <2>1, CastIs
<1>3. Ended(f) = {} => h = Len(f)
  BY DEF HeaderOf
<1> HIDE DEF h, l, k, m
<1>4. CASE Ended(f) = {}
  <2>1. Len(ReadCast(f)) = 0
    BY <1>0, <1>1, <1>3, <1>4
  <2>2. Begins(ReadCast(f), ReadCast(g))
    BY <1>0, <1>2, <2>1 DEF Begins
  <2> QED BY <1>1, <1>2, <2>2, BeginsIsPrefix DEF g
<1>5. CASE Ended(f) # {}
  <2>1. Ended(f) \subseteq Ended(g) /\ \A i \in Ended(g) : i \in Ended(f) \/ i = Len(f) + 1
    BY <1>0 DEF Ended
  <2>2. k = h
    <3>1. k \in Ended(g) /\ k <= h
      BY <1>1, <1>2, <1>5, <2>1
    <3>2. k \in Ended(f)
      BY <1>0, <1>1, <2>1, <3>1
    <3>3. h <= k
      BY <1>1, <1>5, <3>2
    <3> QED BY <1>0, <1>1, <1>2, <3>1, <3>3
  <2>3. l \in LinesFrom(g, k)
    <3>1. \A i \in h + 1 .. l : i \in 1 .. Len(f)
      BY <1>0, <1>1
    <3> QED BY <1>0, <1>1, <2>2, <3>1 DEF LinesFrom
  <2>4. l <= m
    BY <1>2, <2>3
  <2>5. \A i \in 1 .. l - h : i \in 1 .. m - k /\ h + i \in 1 .. Len(f)
    BY <1>0, <1>1, <1>2, <2>2, <2>4
  <2>6. \A i \in 1 .. l - h : ReadCast(f)[i] = ReadCast(g)[i]
    BY <1>0, <1>1, <1>2, <2>2, <2>5
  <2>7. Begins(ReadCast(f), ReadCast(g))
    BY <1>0, <1>1, <1>2, <2>2, <2>4, <2>6 DEF Begins
  <2> QED BY <1>1, <1>2, <2>7, BeginsIsPrefix DEF g
<1> QED BY <1>4, <1>5

\* Whoever replays a recording while it is written (LogSource.Next) sees a
\* beginning of what a later replay shows, whatever failed in between.
THEOREM ReplaysGrow == Spec => ReplayGrows
<1>1. ASSUME OpInv, OpInv', [Next]_vars
      PROVE  [IsPrefix(Replay(format, file), Replay(format, file'))]_file
  <2>1. file \in Seq(Chunks) /\ file' \in Seq(Chunks)
    BY <1>1 DEF OpInv, TypeOK, Chunks
  <2>2. file' = file \/ \E x \in Chunks : file' = Append(file, x)
    <3>1. CASE UNCHANGED file
      BY <3>1
    <3>2. ASSUME NEW t \in Threads, Write(t) \/ \E piece \in BOOLEAN : WriteFails(t, piece)
          PROVE  file' = file \/ \E x \in Chunks : file' = Append(file, x)
      <4>1. Piece \in Chunks
        BY DEF Piece, Chunk, Chunks, Entries, Parts, NoEntry, Close, Fds
      <4>2. Next1(t) \in Chunks
        BY <1>1, Next1Type DEF OpInv
      <4> QED BY <3>2, <4>1, <4>2 DEF Write, WriteFails
    <3> QED BY <1>1, <3>1, <3>2
         DEF Next, Step, vars, Tick, Begin, ReadDone, WriteDone, IoFails, Lock, UseSink, diskVars
  <2>3. ASSUME NEW x \in Chunks, file' = Append(file, x)
        PROVE  IsPrefix(Replay(format, file), Replay(format, file'))
    BY <2>1, <2>3, CastGrows, UmlGrows DEF Replay
  <2> QED BY <2>2, <2>3
<1> QED BY <1>1, InitOps, NextOps, PTL DEF Spec, ReplayGrows

(***************************************************************************)
(* What a replay tells                                                     *)
(***************************************************************************)

Sinking == {"header", "line", "head", "data"}

\* The lock admits one goroutine to the sink,
Mutex == \A t \in Threads : pc[t] \in Sinking => lock = t

\* which has done its I/O;
Succeeded ==
    /\ good \subseteq 1 .. count
    /\ \A t \in Threads : /\ pc[t] = "io" => op[t].n \notin good
                          /\ pc[t] \in Sinking \cup {"lock"} => op[t].n \in good

\* it writes an entry once,
Once ==
    /\ \A i \in DOMAIN file : HasData(file[i]) => NumberOf(file[i]) \in good
    /\ \A i, j \in DOMAIN file :
          HasData(file[i]) /\ HasData(file[j]) /\ NumberOf(file[i]) = NumberOf(file[j]) => i = j

Fields == \A i \in DOMAIN file : file[i].part = "head" => file[i].entry.event = "io"

EndsInHead == file # << >> /\ file[Len(file)].part = "head"

\* and, while the disk takes everything, header and fields before the rest.
CastWhole ==
    format = "cast" /\ faults = 0 =>
        /\ \A i \in DOMAIN file : file[i].part = IF i = 1 THEN "header" ELSE "line"
        /\ ~started => file = << >>
        /\ started /\ lock = None => file # << >>
        /\ \A t \in Threads : /\ pc[t] = "header" => file = << >>
                              /\ pc[t] = "line" => file # << >>

UmlWhole ==
    format = "uml" /\ faults = 0 =>
        /\ Aligned(file)
        /\ lock = None => ~EndsInHead
        /\ \A t \in Threads : /\ pc[t] = "head" => ~EndsInHead
                              /\ pc[t] = "data" => EndsInHead

AllRecorded ==
    faults = 0 =>
        \A n \in over \cap good : \E i \in DOMAIN file : HasData(file[i]) /\ NumberOf(file[i]) = n

TellsInv ==
    /\ OrderInv
    /\ Mutex /\ Succeeded /\ Once /\ Fields
    /\ CastWhole /\ UmlWhole /\ AllRecorded

LEMMA InitTells == Init => TellsInv
<1> SUFFICES ASSUME Init PROVE TellsInv
  OBVIOUS
<1>1. /\ file = << >> /\ DOMAIN file = {} /\ good = {} /\ started = FALSE
      /\ \A t \in Threads : pc[t] = "idle"
  BY DEF Init
<1>2. Mutex /\ Succeeded /\ Once /\ Fields
  BY <1>1 DEF Mutex, Succeeded, Once, Fields, Sinking
<1>3. CastWhole /\ AllRecorded
  BY <1>1 DEF CastWhole, AllRecorded
<1>4. UmlWhole
  BY <1>1 DEF UmlWhole, Aligned, EndsInHead
<1> QED BY <1>2, <1>3, <1>4, InitOrder DEF TellsInv

\* A step outside the sink: an operation that was counted as read or written
\* and has returned was so before.
LEMMA QuietTells ==
    ASSUME TellsInv, OrderInv', UNCHANGED << file, faults, format, started, lock >>,
           good \subseteq good', Succeeded', over' \cap good' \subseteq over \cap good,
           \A t \in Threads : pc'[t] \in Sinking => pc'[t] = pc[t]
    PROVE  TellsInv'
<1>1. Mutex'
  BY DEF TellsInv, Mutex
<1>2. Once' /\ Fields'
  BY DEF TellsInv, Once, Fields
<1>3. CastWhole'
  BY DEF TellsInv, CastWhole, Sinking
<1>4. UmlWhole'
  BY DEF TellsInv, UmlWhole, EndsInHead, Sinking
<1>5. AllRecorded'
  BY DEF TellsInv, AllRecorded
<1> QED BY <1>1, <1>2, <1>3, <1>4, <1>5 DEF TellsInv

LEMMA BeginTells ==
    ASSUME TellsInv, NEW t \in Threads, NEW fd \in Fds, Begin(t, fd) PROVE TellsInv'
<1>1. OrderInv /\ OrderInv' /\ OpInv
  BY BeginOrder DEF TellsInv, OrderInv
<1>2. /\ UNCHANGED << file, faults, format, started, lock, good, over >>
      /\ count' = count + 1
  BY DEF Begin, sinkVars, diskVars
<1>3. /\ op'[t].n = count + 1 /\ pc'[t] = "io"
      /\ \A u \in Threads \ {t} : op'[u] = op[u] /\ pc'[u] = pc[u]
  BY <1>1 DEF OpInv, TypeOK, Begin, Goto
<1>4. count \in Nat
  BY <1>1 DEF OpInv, TypeOK
<1>5. Succeeded'
  <2>1. count + 1 \notin 1 .. count /\ 1 .. count \subseteq 1 .. count + 1
    BY <1>4
  <2> QED BY <1>2, <1>3, <2>1 DEF TellsInv, Succeeded, Sinking
<1>6. \A u \in Threads : pc'[u] \in Sinking => pc'[u] = pc[u]
  BY <1>3 DEF Sinking
<1> QED BY <1>1, <1>2, <1>5, <1>6, QuietTells

\* The operation of a goroutine that is at its I/O.
LEMMA AtIo ==
    ASSUME TellsInv, NEW t \in Threads, Running(t)
    PROVE  /\ op[t].n \in 1 .. count /\ op[t].n \notin over
           /\ \A u \in Threads \ {t} : Running(u) => op[u].n # op[t].n
BY DEF TellsInv, OrderInv, OpInv, Numbered

LEMMA DoneTells ==
    ASSUME TellsInv, NEW t \in Threads,
           WriteDone(t) \/ \E k \in 1 .. BufferSize : ReadDone(t, k)
    PROVE  TellsInv'
<1>1. OpInv /\ OrderInv'
  BY IoOrder DEF TellsInv, OrderInv
<1>2. /\ UNCHANGED << file, faults, format, started, lock, over, count >>
      /\ good' = good \cup {op[t].n} /\ pc[t] = "io" /\ pc' = [pc EXCEPT ![t] = "lock"]
  BY DEF WriteDone, ReadDone, sinkVars, diskVars, clockVars, Goto
<1>3. \A u \in Threads : op'[u].n = op[u].n
  <2>1. op \in [Threads -> Operations]
    BY <1>1 DEF OpInv, TypeOK, Operations, Datas
  <2>2. op' = op \/ \E k \in Nat : op' = [op EXCEPT ![t].data = Filled(t, k)]
    BY DEF WriteDone, ReadDone
  <2> QED BY <2>1, <2>2 DEF Operations
<1>4. /\ pc'[t] = "lock" /\ \A u \in Threads \ {t} : pc'[u] = pc[u]
  BY <1>1, <1>2 DEF OpInv, TypeOK
<1>5. /\ op[t].n \in 1 .. count /\ op[t].n \notin over
      /\ \A u \in Threads \ {t} : pc[u] = "io" => op[u].n # op[t].n
  BY <1>2, AtIo DEF Running
<1>6. Succeeded'
  BY <1>2, <1>3, <1>4, <1>5 DEF TellsInv, Succeeded
<1>7. \A u \in Threads : pc'[u] \in Sinking => pc'[u] = pc[u]
  BY <1>4 DEF Sinking
<1> QED BY <1>1, <1>2, <1>5, <1>6, <1>7, QuietTells

LEMMA IoFailsTells ==
    ASSUME TellsInv, NEW t \in Threads, NEW k \in 0 .. BufferSize, IoFails(t, k)
    PROVE  TellsInv'
<1>1. OpInv /\ OrderInv'
  BY IoOrder DEF TellsInv, OrderInv
<1>2. /\ UNCHANGED << file, faults, format, started, lock, op, good, count >>
      /\ over' = over \cup {op[t].n} /\ pc[t] = "io" /\ pc' = [pc EXCEPT ![t] = "idle"]
  BY DEF IoFails, Return, sinkVars, diskVars, clockVars, Goto
<1>3. /\ pc'[t] = "idle" /\ \A u \in Threads \ {t} : pc'[u] = pc[u]
  BY <1>1, <1>2 DEF OpInv, TypeOK
<1>4. op[t].n \notin good
  BY <1>2 DEF TellsInv, Succeeded
<1>5. Succeeded'
  BY <1>2, <1>3 DEF TellsInv, Succeeded, Sinking
<1>6. \A u \in Threads : pc'[u] \in Sinking => pc'[u] = pc[u]
  BY <1>3 DEF Sinking
<1> QED BY <1>1, <1>2, <1>4, <1>5, <1>6, QuietTells

LEMMA OtherTells == ASSUME TellsInv, Tick \/ UNCHANGED vars PROVE TellsInv'
<1>1. OrderInv'
  BY OtherOrder DEF TellsInv
<1>2. UNCHANGED << file, faults, format, started, lock, op, pc, good, over, count >>
  BY DEF Tick, vars, sinkVars, diskVars, clockVars, ghostVars
<1>3. Succeeded'
  BY <1>2 DEF TellsInv, Succeeded
<1> QED BY <1>1, <1>2, <1>3, QuietTells

\* Nobody is in the sink when the lock is free.
LEMMA LockTells == ASSUME TellsInv, NEW t \in Threads, Lock(t) PROVE TellsInv'
<1>1. OpInv /\ OrderInv'
  BY LockOrder DEF TellsInv, OrderInv
<1>2. /\ pc[t] = "lock" /\ lock = None /\ lock' = t /\ pc' = [pc EXCEPT ![t] = FirstPart]
      /\ UNCHANGED << format, file, faults, op, good, over, count >>
  BY DEF Lock, UseSink, Goto, diskVars, clockVars
<1>3. /\ pc'[t] = FirstPart
      /\ \A u \in Threads \ {t} : pc'[u] = pc[u] /\ pc'[u] \notin Sinking
  <2>1. \A u \in Threads \ {t} : pc'[u] = pc[u]
    BY <1>1, <1>2 DEF OpInv, TypeOK
  <2>2. \A u \in Threads : pc[u] \notin Sinking
    BY <1>2, RecorderAssumption DEF TellsInv, Mutex, None
  <2>3. pc'[t] = FirstPart
    BY <1>1, <1>2 DEF OpInv, TypeOK
  <2> QED BY <2>1, <2>2, <2>3
<1>4. \/ format = "cast" /\ started' /\ FirstPart = IF started THEN "line" ELSE "header"
      \/ format = "uml" /\ started' = started /\ FirstPart = "head"
  <2>1. format \in {"cast", "uml"} /\ started \in BOOLEAN
    BY <1>1 DEF OpInv, TypeOK, Formats
  <2> QED BY <2>1 DEF Lock, UseSink, FirstPart
<1>5. Mutex'
  BY <1>2, <1>3 DEF Mutex
<1>6. Succeeded'
  BY <1>2, <1>3, <1>4 DEF TellsInv, Succeeded, Sinking
<1>7. Once' /\ Fields' /\ AllRecorded'
  BY <1>2 DEF TellsInv, Once, Fields, AllRecorded
<1>8. lock' # None
  BY <1>2, RecorderAssumption DEF None
<1>9. CastWhole'
  BY <1>2, <1>3, <1>4, <1>8 DEF TellsInv, CastWhole, Sinking
<1>10. UmlWhole'
  BY <1>2, <1>3, <1>4, <1>8 DEF TellsInv, UmlWhole, EndsInHead, Sinking
<1> QED BY <1>1, <1>5, <1>6, <1>7, <1>9, <1>10 DEF TellsInv

LEMMA AlignedHead ==
    ASSUME NEW f \in Seq(Chunks), Aligned(f), ~(f # << >> /\ f[Len(f)].part = "head"),
           NEW x \in Chunks, IsHead(x)
    PROVE  Aligned(Append(f, x))
<1> DEFINE g == Append(f, x)
<1>1. /\ Len(g) = Len(f) + 1 /\ Len(f) \in Nat /\ g[Len(f) + 1] = x
      /\ DOMAIN g = 1 .. Len(f) + 1 /\ DOMAIN f = 1 .. Len(f)
      /\ \A i \in 1 .. Len(f) : g[i] = f[i]
  BY ChunkAdded
<1> HIDE DEF g
<1>2. Len(f) # 0 => f[Len(f)].part # "head"
  OBVIOUS
<1>3. ASSUME NEW i \in DOMAIN g
      PROVE  /\ IsClose(g[i]) \/ IsHead(g[i]) \/ g[i].part = "data"
             /\ g[i].part = "data" => i > 1 /\ IsHead(g[i - 1])
             /\ IsHead(g[i]) /\ i < Len(g) => g[i + 1].part = "data"
  <2>1. CASE i = Len(f) + 1
    BY <1>1, <2>1 DEF IsHead
  <2>2. CASE i # Len(f) + 1
    <3>1. i \in 1 .. Len(f) /\ g[i] = f[i]
      BY <1>1, <2>2
    <3>2. /\ IsClose(f[i]) \/ IsHead(f[i]) \/ f[i].part = "data"
          /\ f[i].part = "data" => i > 1 /\ IsHead(f[i - 1])
          /\ IsHead(f[i]) /\ i < Len(f) => f[i + 1].part = "data"
      BY <1>1, <3>1 DEF Aligned
    <3>3. i > 1 => i - 1 \in 1 .. Len(f) /\ g[i - 1] = f[i - 1]
      BY <1>1, <3>1
    <3>4. i < Len(f) => g[i + 1] = f[i + 1]
      BY <1>1, <3>1
    <3>5. IsHead(f[i]) => i < Len(f)
      BY <1>1, <1>2, <3>1 DEF IsHead
    <3> QED BY <1>1, <3>1, <3>2, <3>3, <3>4, <3>5
  <2> QED BY <2>1, <2>2
<1>4. Aligned(g)
  BY <1>3 DEF Aligned
<1> QED BY <1>4 DEF g

LEMMA AlignedData ==
    ASSUME NEW f \in Seq(Chunks), Aligned(f), f # << >>, IsHead(f[Len(f)]),
           NEW x \in Chunks, x.part = "data"
    PROVE  Aligned(Append(f, x))
<1> DEFINE g == Append(f, x)
<1>1. /\ Len(g) = Len(f) + 1 /\ Len(f) \in Nat /\ g[Len(f) + 1] = x
      /\ DOMAIN g = 1 .. Len(f) + 1 /\ DOMAIN f = 1 .. Len(f)
      /\ \A i \in 1 .. Len(f) : g[i] = f[i]
  BY ChunkAdded
<1> HIDE DEF g
<1>2. Len(f) # 0
  OBVIOUS
<1>3. ASSUME NEW i \in DOMAIN g
      PROVE  /\ IsClose(g[i]) \/ IsHead(g[i]) \/ g[i].part = "data"
             /\ g[i].part = "data" => i > 1 /\ IsHead(g[i - 1])
             /\ IsHead(g[i]) /\ i < Len(g) => g[i + 1].part = "data"
  <2>1. CASE i = Len(f) + 1
    <3>1. i > 1 /\ i - 1 = Len(f) /\ g[i - 1] = f[Len(f)] /\ g[i] = x
      BY <1>1, <1>2, <2>1
    <3>2. ~(i < Len(g))
      BY <1>1, <2>1
    <3> QED BY <3>1, <3>2
  <2>2. CASE i # Len(f) + 1
    <3>1. i \in 1 .. Len(f) /\ g[i] = f[i]
      BY <1>1, <2>2
    <3>2. /\ IsClose(f[i]) \/ IsHead(f[i]) \/ f[i].part = "data"
          /\ f[i].part = "data" => i > 1 /\ IsHead(f[i - 1])
          /\ IsHead(f[i]) /\ i < Len(f) => f[i + 1].part = "data"
      BY <1>1, <3>1 DEF Aligned
    <3>3. i > 1 => i - 1 \in 1 .. Len(f) /\ g[i - 1] = f[i - 1]
      BY <1>1, <3>1
    <3>4. /\ i < Len(f) => g[i + 1] = f[i + 1]
          /\ i = Len(f) => g[i + 1] = x
          /\ i < Len(f) \/ i = Len(f)
      BY <1>1, <3>1
    <3> QED BY <1>1, <3>1, <3>2, <3>3, <3>4
  <2> QED BY <2>1, <2>2
<1>4. Aligned(g)
  BY <1>3 DEF Aligned
<1> QED BY <1>4 DEF g

LEMMA FileType == ASSUME TellsInv PROVE file \in Seq(Chunks) /\ faults \in Nat
BY DEF TellsInv, OrderInv, OpInv, TypeOK, Chunks

\* A chunk without data tells nothing of an operation.
LEMMA OnceStays ==
    ASSUME TellsInv, NEW x \in Chunks, ~HasData(x), x.part = "head" => x.entry.event = "io",
           file' = file \/ file' = Append(file, x), good' = good
    PROVE  Once' /\ Fields'
<1>1. file \in Seq(Chunks)
  BY FileType
<1>2. CASE file' = file
  BY <1>2 DEF TellsInv, Once, Fields
<1>3. CASE file' = Append(file, x)
  <2>1. /\ DOMAIN file' = DOMAIN file \cup {Len(file) + 1} /\ file'[Len(file) + 1] = x
        /\ \A i \in DOMAIN file : file'[i] = file[i]
    BY <1>1, <1>3
  <2> QED BY <2>1 DEF TellsInv, Once, Fields
<1> QED BY <1>2, <1>3

\* After a fault a replay need not be complete.
LEMMA WriteFailsTells ==
    ASSUME TellsInv, NEW t \in Threads, NEW piece \in BOOLEAN, WriteFails(t, piece)
    PROVE  TellsInv'
<1>1. OpInv /\ OrderInv'
  BY WriteFailsOrder DEF TellsInv, OrderInv
<1>2. /\ UNCHANGED << format, started, op, good, count >>
      /\ lock' = None /\ pc[t] \in Sinking /\ pc' = [pc EXCEPT ![t] = "idle"]
      /\ faults' = faults + 1 /\ (file' = file \/ file' = Append(file, Piece))
  BY DEF WriteFails, Unlock, Return, Goto, sinkVars, clockVars, Sinking
<1>3. /\ pc'[t] = "idle" /\ \A u \in Threads \ {t} : pc'[u] = pc[u]
  BY <1>1, <1>2 DEF OpInv, TypeOK
<1>4. Mutex'
  BY <1>2, <1>3 DEF TellsInv, Mutex, Sinking
<1>5. Succeeded'
  BY <1>2, <1>3 DEF TellsInv, Succeeded, Sinking
<1>6. Piece \in Chunks /\ ~HasData(Piece) /\ Piece.part # "head"
  BY DEF Piece, Chunk, Chunks, Entries, Parts, NoEntry, Close, Fds, HasData
<1>7. Once' /\ Fields'
  BY <1>2, <1>6, OnceStays
<1>8. faults' # 0
  BY <1>2, FileType
<1>9. CastWhole' /\ UmlWhole' /\ AllRecorded'
  BY <1>8 DEF CastWhole, UmlWhole, AllRecorded
<1> QED BY <1>1, <1>4, <1>5, <1>7, <1>9 DEF TellsInv

\* The header, and the fields of an entry.
LEMMA PartTells ==
    ASSUME TellsInv, NEW t \in Threads, pc[t] \in {"header", "head"}, Write(t)
    PROVE  TellsInv'
<1> DEFINE x == Next1(t)
           label == IF pc[t] = "header" THEN "line" ELSE "data"
<1>1. OpInv /\ OrderInv' /\ InSink
  BY WriteOrder DEF TellsInv, OrderInv
<1>2. /\ UNCHANGED << format, started, faults, op, good, over, count, lock >>
      /\ pc' = [pc EXCEPT ![t] = label] /\ file' = Append(file, x)
  BY DEF Write, Goto, sinkVars, clockVars
<1>3. x \in Chunks
  BY <1>1, Next1Type DEF OpInv
<1>4. /\ pc[t] = "header" => x.part = "header"
      /\ pc[t] = "head" => x.part = "head" /\ x.entry.event = "io"
  BY DEF Next1, Chunk, UmlHead, EntryOf, Io
<1>5. /\ DOMAIN file' = DOMAIN file \cup {Len(file) + 1} /\ file'[Len(file) + 1] = x
      /\ \A i \in DOMAIN file : file'[i] = file[i]
      /\ Len(file') = Len(file) + 1 /\ Len(file) \in Nat
      /\ file = << >> => Len(file) = 0
      /\ file' # << >>
  <2> HIDE DEF x
  <2> QED BY <1>2, <1>3, FileType
<1> HIDE DEF x
<1>6. /\ pc'[t] = label /\ lock = t /\ lock # None
      /\ \A u \in Threads \ {t} : pc'[u] = pc[u] /\ pc[u] \notin Sinking
  <2>1. \A u \in Threads : pc[u] \in Sinking => lock = u
    BY DEF TellsInv, Mutex
  <2>2. lock = t
    BY <2>1 DEF Sinking
  <2> QED BY <1>1, <1>2, <2>1, <2>2, RecorderAssumption DEF OpInv, TypeOK, None
<1>7. Mutex'
  BY <1>2, <1>6 DEF Mutex
<1>8. Succeeded'
  BY <1>2, <1>6 DEF TellsInv, Succeeded, Sinking
<1>9. Once' /\ Fields'
  BY <1>2, <1>3, <1>4, OnceStays DEF HasData
<1>10. AllRecorded'
  BY <1>2, <1>5 DEF TellsInv, AllRecorded
<1>11. CastWhole'
  <2> SUFFICES ASSUME format = "cast", faults = 0 PROVE CastWhole'
    BY <1>2 DEF CastWhole
  <2>1. pc[t] = "header" /\ label = "line" /\ started
    BY <1>1 DEF InSink
  <2>2. file = << >>
    BY <2>1 DEF TellsInv, CastWhole
  <2>3. \A i \in DOMAIN file' : i = 1 /\ file'[i].part = "header"
    BY <1>4, <1>5, <2>1, <2>2
  <2> QED BY <1>2, <1>5, <1>6, <2>1, <2>3 DEF CastWhole, Sinking
<1>12. UmlWhole'
  <2> SUFFICES ASSUME format = "uml", faults = 0 PROVE UmlWhole'
    BY <1>2 DEF UmlWhole
  <2>1. pc[t] = "head" /\ label = "data"
    BY <1>1 DEF InSink
  <2>2. Aligned(file) /\ ~EndsInHead
    BY <2>1 DEF TellsInv, UmlWhole
  <2>3. Aligned(file')
    BY <1>2, <1>3, <1>4, <2>1, <2>2, FileType, AlignedHead DEF IsHead, EndsInHead
  <2>4. EndsInHead'
    BY <1>4, <1>5, <2>1 DEF EndsInHead
  <2> QED BY <1>2, <1>6, <2>1, <2>3, <2>4 DEF UmlWhole, Sinking
<1> QED BY <1>1, <1>7, <1>8, <1>9, <1>10, <1>11, <1>12 DEF TellsInv

\* The last write of an entry, of which there was none before.
LEMMA EntryTells ==
    ASSUME TellsInv, NEW t \in Threads, pc[t] \in {"line", "data"}, Write(t)
    PROVE  TellsInv'
<1> DEFINE x == Next1(t)
           n == op[t].n
<1>1. OpInv /\ OrderInv /\ OrderInv' /\ InSink
  BY WriteOrder DEF TellsInv, OrderInv
<1>2. /\ UNCHANGED << format, started, faults, op, good, count >> /\ lock' = None
      /\ over' = over \cup {n} /\ pc' = [pc EXCEPT ![t] = "idle"] /\ file' = Append(file, x)
  BY DEF Write, Unlock, Return, Goto, sinkVars, clockVars
<1>3. x \in Chunks
  BY <1>1, Next1Type DEF OpInv
<1>4. /\ pc[t] = "line" => x.part = "line"
      /\ pc[t] = "data" => x.part = "data"
  BY DEF Next1, Chunk, CastLine, UmlData
<1>5. NumberOf(x) = n /\ HasData(x)
  BY <1>1, <1>4, DataWritten DEF HasData
<1>6. /\ DOMAIN file' = DOMAIN file \cup {Len(file) + 1} /\ file'[Len(file) + 1] = x
      /\ \A i \in DOMAIN file : file'[i] = file[i]
      /\ Len(file') = Len(file) + 1 /\ Len(file) \in Nat
      /\ file # << >> => Len(file) # 0
      /\ file' # << >>
  <2> HIDE DEF x
  <2> QED BY <1>2, <1>3, FileType
<1> HIDE DEF x
<1>7. /\ pc'[t] = "idle" /\ \A u \in Threads \ {t} : pc'[u] = pc[u] /\ pc[u] \notin Sinking
  <2>1. \A u \in Threads : pc[u] \in Sinking => lock = u
    BY DEF TellsInv, Mutex
  <2>2. lock = t
    BY <2>1 DEF Sinking
  <2> QED BY <1>1, <1>2, <2>1, <2>2 DEF OpInv, TypeOK
<1>8. n \notin over /\ n \in good
  BY AtIo DEF Running, TellsInv, Succeeded, Sinking
<1>9. Mutex'
  BY <1>7 DEF Mutex, Sinking
<1>10. Succeeded'
  BY <1>2, <1>7 DEF TellsInv, Succeeded, Sinking
<1>11. Once'
  <2>1. \A i \in DOMAIN file : HasData(file[i]) => NumberOf(file[i]) # n
    BY <1>1, <1>8 DEF OrderInv, Recorded
  <2> HIDE DEF n
  <2> QED BY <1>2, <1>5, <1>6, <1>8, <2>1 DEF TellsInv, Once
<1>12. Fields'
  BY <1>4, <1>6 DEF TellsInv, Fields
<1>13. AllRecorded'
  <2> HIDE DEF n
  <2> QED BY <1>2, <1>5, <1>6 DEF TellsInv, AllRecorded
<1>14. CastWhole'
  <2> SUFFICES ASSUME format = "cast", faults = 0 PROVE CastWhole'
    BY <1>2 DEF CastWhole
  <2>1. pc[t] = "line" /\ started
    BY <1>1 DEF InSink
  <2>2. file # << >> /\ \A i \in DOMAIN file : file[i].part = IF i = 1 THEN "header" ELSE "line"
    BY <2>1 DEF TellsInv, CastWhole
  <2>3. \A i \in DOMAIN file' : file'[i].part = IF i = 1 THEN "header" ELSE "line"
    BY <1>4, <1>6, <2>1, <2>2
  <2>4. \A u \in Threads : pc'[u] \notin Sinking
    BY <1>7 DEF Sinking
  <2> QED BY <1>2, <1>6, <2>1, <2>3, <2>4 DEF CastWhole, Sinking
<1>15. UmlWhole'
  <2> SUFFICES ASSUME format = "uml", faults = 0 PROVE UmlWhole'
    BY <1>2 DEF UmlWhole
  <2>1. pc[t] = "data"
    BY <1>1 DEF InSink
  <2>2. Aligned(file) /\ EndsInHead
    BY <2>1 DEF TellsInv, UmlWhole
  <2>3. file # << >> /\ IsHead(file[Len(file)])
    <3>1. Len(file) \in DOMAIN file
      BY <2>2, FileType DEF EndsInHead
    <3> QED BY <2>2, <3>1 DEF EndsInHead, TellsInv, Fields, IsHead
  <2>4. Aligned(file')
    BY <1>2, <1>3, <1>4, <2>1, <2>2, <2>3, FileType, AlignedData
  <2>5. ~EndsInHead'
    BY <1>4, <1>6, <2>1 DEF EndsInHead
  <2>6. \A u \in Threads : pc'[u] \notin Sinking
    BY <1>7 DEF Sinking
  <2> QED BY <1>2, <2>4, <2>5, <2>6 DEF UmlWhole, Sinking
<1> QED BY <1>1, <1>9, <1>10, <1>11, <1>12, <1>13, <1>14, <1>15 DEF TellsInv

LEMMA NextTells == TellsInv /\ [Next]_vars => TellsInv'
<1> SUFFICES ASSUME TellsInv, [Next]_vars PROVE TellsInv'
  OBVIOUS
<1>1. CASE Tick \/ UNCHANGED vars
  BY <1>1, OtherTells
<1>2. ASSUME NEW t \in Threads, Step(t) PROVE TellsInv'
  <2>1. CASE Write(t)
    BY <2>1, PartTells, EntryTells DEF Write
  <2> QED BY <1>2, <2>1, BeginTells, DoneTells, IoFailsTells, LockTells, WriteFailsTells DEF Step
<1> QED BY <1>1, <1>2 DEF Next

\* Among the first n chunks UmlEntries finds the data of each entry, and finds it once.
Found(n) ==
    LET q == UmlEntries(file)[n]
    IN  /\ \A i \in 1 .. Len(q) : \E j \in 1 .. n : file[j].part = "data" /\ q[i] = file[j].entry
        /\ \A i, j \in 1 .. Len(q) : Number(q[i].data) = Number(q[j].data) => i = j
        /\ \A j \in 1 .. n : file[j].part = "data" => \E i \in 1 .. Len(q) : q[i] = file[j].entry

LEMMA UmlFinds == ASSUME TellsInv, NEW n \in 0 .. Len(file) PROVE Found(n)
<1> DEFINE S == {k \in 0 .. Len(file) : Found(k)}
<1>0. file \in Seq(Chunks) /\ Len(file) \in Nat /\ DOMAIN file = 1 .. Len(file)
  BY FileType
<1>1. /\ UmlEntries(file)[0] = << >>
      /\ \A k \in 1 .. Len(file) :
            UmlEntries(file)[k] = Extended(UmlEntries(file)[k - 1], file[k])
  BY <1>0, UmlEntriesIs
<1>2. Found(0)
  BY <1>1 DEF Found
<1>3. ASSUME NEW k \in 0 .. Len(file) - 1, Found(k) PROVE Found(k + 1)
  <2> DEFINE q == UmlEntries(file)[k]
             r == UmlEntries(file)[k + 1]
             c == file[k + 1]
  <2>1. k + 1 \in 1 .. Len(file) /\ k + 1 - 1 = k /\ k \in 0 .. Len(file) /\ k \in Nat
    BY <1>0
  <2>2. r = Extended(q, c) /\ c \in Chunks
    BY <1>0, <1>1, <2>1
  <2>3. q \in Seq(Entries)
    BY <1>0, <2>1, UmlEntriesType
  <2>4. Complete(c) <=> c.part = "data"
    BY <1>0, <2>1 DEF Complete, IsClose, TellsInv, Fields
  <2>5. c.entry \in Entries
    BY <2>2 DEF Chunks
  <2>6. /\ \A i \in 1 .. Len(q) : \E j \in 1 .. k : file[j].part = "data" /\ q[i] = file[j].entry
        /\ \A i, j \in 1 .. Len(q) : Number(q[i].data) = Number(q[j].data) => i = j
        /\ \A j \in 1 .. k : file[j].part = "data" => \E i \in 1 .. Len(q) : q[i] = file[j].entry
    BY <1>3 DEF Found
  <2>7. \A j \in 1 .. k : j \in 1 .. Len(file) /\ j \in 1 .. k + 1 /\ j # k + 1
    BY <1>0, <2>1
  <2>8. \A j \in 1 .. k + 1 : j \in 1 .. k \/ j = k + 1
    BY <2>1
  <2>9. ASSUME c.part = "data", NEW j \in 1 .. k, file[j].part = "data"
        PROVE  Number(file[j].entry.data) # Number(c.entry.data)
    BY <1>0, <2>1, <2>7, <2>9 DEF TellsInv, Once, HasData, NumberOf
  <2> HIDE DEF q, r, c
  <2>10. CASE c.part # "data"
    <3>1. r = q
      BY <2>2, <2>4, <2>10 DEF Extended
    <3>2. \A j \in 1 .. k + 1 : file[j].part = "data" => j \in 1 .. k
      BY <2>8, <2>10 DEF c
    <3> QED BY <2>6, <2>7, <3>1, <3>2 DEF Found, r
  <2>11. CASE c.part = "data"
    <3>1. r = Append(q, c.entry)
      BY <2>2, <2>4, <2>11 DEF Extended
    <3>2. /\ Len(r) = Len(q) + 1 /\ Len(q) \in Nat /\ r[Len(q) + 1] = c.entry
          /\ \A i \in 1 .. Len(q) : r[i] = q[i]
      BY <2>3, <2>5, <3>1
    <3>3. \A i \in 1 .. Len(r) : i \in 1 .. Len(q) \/ (i = Len(q) + 1 /\ r[i] = c.entry)
      BY <3>2
    <3>4. \A i \in 1 .. Len(q) : i \in 1 .. Len(r)
      BY <3>2
    <3>5. Len(q) + 1 \in 1 .. Len(r) /\ k + 1 \in 1 .. k + 1
      BY <2>1, <3>2
    <3>6. \A i \in 1 .. Len(q) : Number(r[i].data) # Number(c.entry.data)
      BY SMTT(30), <2>6, <2>9, <2>11, <3>2
    <3>7. \A i \in 1 .. Len(r) : \E j \in 1 .. k + 1 : file[j].part = "data" /\ r[i] = file[j].entry
      <4> TAKE i \in 1 .. Len(r)
      <4>1. CASE i \in 1 .. Len(q)
        <5>1. PICK j \in 1 .. k : file[j].part = "data" /\ q[i] = file[j].entry
          BY <2>6, <4>1
        <5>2. j \in 1 .. k + 1 /\ r[i] = q[i]
          BY <2>7, <3>2, <4>1
        <5> QED BY <5>1, <5>2
      <4>2. CASE i = Len(q) + 1
        BY <2>11, <3>2, <3>5, <4>2 DEF c
      <4> QED BY <3>3, <4>1, <4>2
    <3>8. \A i, j \in 1 .. Len(r) : Number(r[i].data) = Number(r[j].data) => i = j
      <4> SUFFICES ASSUME NEW i \in 1 .. Len(r), NEW j \in 1 .. Len(r),
                          Number(r[i].data) = Number(r[j].data)
                   PROVE  i = j
        OBVIOUS
      <4>1. CASE i \in 1 .. Len(q) /\ j \in 1 .. Len(q)
        BY <2>6, <3>2, <4>1
      <4>2. CASE ~(i \in 1 .. Len(q) /\ j \in 1 .. Len(q))
        BY <3>3, <3>6, <4>2
      <4> QED BY <4>1, <4>2
    <3>9. \A j \in 1 .. k + 1 : file[j].part = "data" => \E i \in 1 .. Len(r) : r[i] = file[j].entry
      <4> SUFFICES ASSUME NEW j \in 1 .. k + 1, file[j].part = "data"
                   PROVE  \E i \in 1 .. Len(r) : r[i] = file[j].entry
        OBVIOUS
      <4>1. CASE j \in 1 .. k
        <5>1. PICK i \in 1 .. Len(q) : q[i] = file[j].entry
          BY <2>6, <4>1
        <5>2. i \in 1 .. Len(r) /\ r[i] = q[i]
          BY <3>2, <3>4
        <5> QED BY <5>1, <5>2
      <4>2. CASE j = k + 1
        BY <3>2, <3>5, <4>2 DEF c
      <4> QED BY <2>8, <4>1, <4>2
    <3> QED BY <3>7, <3>8, <3>9 DEF Found, r
  <2> QED BY <2>10, <2>11
<1>4. n \in S
  <2>1. 0 \in S
    BY <1>0, <1>2
  <2>2. \A k \in 0 .. Len(file) - 1 : k \in S => k + 1 \in S
    <3> TAKE k \in 0 .. Len(file) - 1
    <3>1. k + 1 \in 0 .. Len(file)
      BY <1>0
    <3> QED BY <1>3, <3>1
  <2> HIDE DEF S
  <2>3. 0 .. Len(file) \subseteq S
    BY <1>0, <2>1, <2>2, Induction
  <2> QED BY <2>3
<1> QED BY <1>4

LEMMA AtMost == ASSUME NEW a \in Nat, NEW b \in 0 .. a, a <= b PROVE b = a
  OBVIOUS

LEMMA UmlTells == ASSUME TellsInv, format = "uml" PROVE NothingInvented
<1> DEFINE m == AlignedTo(file)
           q == UmlEntries(file)[m]
<1>0. file \in Seq(Chunks) /\ Len(file) \in Nat /\ DOMAIN file = 1 .. Len(file)
  BY FileType
<1>1. /\ m \in 0 .. Len(file) /\ ReadUml(file) = q
      /\ \A n \in 0 .. Len(file) : Aligned(SubSeq(file, 1, n)) => n <= m
  BY <1>0, AlignedToIs
<1>2. /\ \A i \in 1 .. Len(q) : \E j \in 1 .. m : file[j].part = "data" /\ q[i] = file[j].entry
      /\ \A i, j \in 1 .. Len(q) : Number(q[i].data) = Number(q[j].data) => i = j
      /\ \A j \in 1 .. m : file[j].part = "data" => \E i \in 1 .. Len(q) : q[i] = file[j].entry
  BY <1>1, UmlFinds DEF Found
<1>3. q \in Seq(Entries)
  BY <1>0, <1>1, UmlEntriesType
<1> HIDE DEF m, q
<1>4. DOMAIN q = 1 .. Len(q) /\ Recording = q
  BY <1>1, <1>3 DEF Recording, Replay
<1>5. \A i \in DOMAIN q : Number(q[i].data) \in over \cap good
  <2> TAKE i \in DOMAIN q
  <2>1. PICK j \in 1 .. m : file[j].part = "data" /\ q[i] = file[j].entry
    BY <1>2, <1>4
  <2>2. j \in DOMAIN file /\ HasData(file[j])
    BY <1>0, <1>1, <2>1 DEF HasData
  <2> QED BY <2>1, <2>2 DEF TellsInv, OrderInv, Recorded, Once, NumberOf
<1>6. ASSUME faults = 0, NEW n \in over \cap good
      PROVE  \E i \in DOMAIN q : Number(q[i].data) = n
  <2>1. PICK j \in DOMAIN file : HasData(file[j]) /\ NumberOf(file[j]) = n
    BY <1>6 DEF TellsInv, AllRecorded
  <2>2. Aligned(file)
    BY <1>6 DEF TellsInv, UmlWhole
  <2>3. SubSeq(file, 1, Len(file)) = file
    BY <1>0
  <2>4. m = Len(file)
    <3>1. Aligned(SubSeq(file, 1, Len(file)))
      BY <2>2, <2>3, Zenon
    <3>2. Len(file) \in 0 .. Len(file)
      BY <1>0
    <3>3. Len(file) <= m
      BY <1>1, <3>1, <3>2
    <3>4. m \in 0 .. Len(file)
      BY <1>1
    <3> QED BY <1>0, <3>3, <3>4, AtMost
  <2>5. file[j].part = "data"
    BY <2>1, <2>2 DEF Aligned, HasData, IsHead, IsClose
  <2>6. PICK i \in 1 .. Len(q) : q[i] = file[j].entry
    BY <1>0, <1>2, <2>4, <2>5
  <2> QED BY <1>4, <2>1, <2>6 DEF NumberOf
<1> QED BY <1>2, <1>4, <1>5, <1>6 DEF NothingInvented

LEMMA CastTells == ASSUME TellsInv, format = "cast" PROVE NothingInvented
<1> DEFINE h == HeaderOf(file)
           l == LastLine(file)
           q == ReadCast(file)
<1>0. file \in Seq(Chunks) /\ Len(file) \in Nat /\ DOMAIN file = 1 .. Len(file)
  BY FileType
<1>1. /\ h \in 0 .. Len(file) /\ l \in h .. Len(file)
      /\ \A n \in LinesFrom(file, h) : n <= l
      /\ \A i \in h + 1 .. l : file[i].part = "line"
      /\ Ended(file) # {} => h \in Ended(file) /\ \A i \in Ended(file) : h <= i
      /\ q \in Seq(TimedEntries) /\ Len(q) = l - h
      /\ \A i \in 1 .. l - h : q[i] = Timed(file[h + i])
  BY <1>0, CastIs
<1> HIDE DEF h, l, q
<1>2. DOMAIN q = 1 .. l - h /\ Recording = q
  BY <1>1 DEF Recording, Replay, q
<1>3. \A i \in DOMAIN q : /\ h + i \in DOMAIN file /\ HasData(file[h + i])
                         /\ q[i].data = file[h + i].entry.data
  <2> TAKE i \in DOMAIN q
  <2>1. h + i \in h + 1 .. l /\ h + i \in DOMAIN file
    BY <1>0, <1>1, <1>2
  <2>2. file[h + i].part = "line"
    BY <1>1, <2>1
  <2>3. file[h + i].entry \in Entries
    <3>1. file[h + i] \in Chunks
      BY <1>0, <2>1
    <3> QED BY <3>1 DEF Chunks
  <2>4. q[i] = Timed(file[h + i])
    BY <1>1, <1>2
  <2> QED BY <2>1, <2>2, <2>3, <2>4 DEF Timed, HasData, Entries
<1>4. \A i \in DOMAIN q : Number(q[i].data) \in over \cap good
  BY <1>3 DEF TellsInv, OrderInv, Recorded, Once, NumberOf
<1>5. \A i, j \in DOMAIN q : Number(q[i].data) = Number(q[j].data) => i = j
  <2> SUFFICES ASSUME NEW i \in DOMAIN q, NEW j \in DOMAIN q,
                      Number(q[i].data) = Number(q[j].data)
               PROVE  i = j
    OBVIOUS
  <2>1. h + i = h + j
    BY <1>3 DEF TellsInv, Once, NumberOf
  <2> QED BY <1>0, <1>1, <1>2, <2>1
<1>6. ASSUME faults = 0, NEW n \in over \cap good
      PROVE  \E i \in DOMAIN q : Number(q[i].data) = n
  <2>1. PICK j \in DOMAIN file : HasData(file[j]) /\ NumberOf(file[j]) = n
    BY <1>6 DEF TellsInv, AllRecorded
  <2>2. \A i \in DOMAIN file : file[i].part = IF i = 1 THEN "header" ELSE "line"
    BY <1>6 DEF TellsInv, CastWhole
  <2>3. h = 1
    <3>1. 1 \in Ended(file)
      BY <1>0, <2>1, <2>2 DEF Ended
    <3>2. h \in Ended(file) /\ h <= 1
      BY <1>1, <3>1
    <3> QED BY <1>0, <1>1, <3>2 DEF Ended
  <2>4. l = Len(file)
    <3>1. Len(file) \in LinesFrom(file, h)
      <4>1. \A i \in h + 1 .. Len(file) : i \in DOMAIN file /\ i # 1
        BY <1>0, <2>3
      <4>2. Len(file) \in h .. Len(file)
        BY <1>0, <1>1
      <4> QED BY <2>2, <4>1, <4>2 DEF LinesFrom
    <3> QED BY <1>0, <1>1, <3>1
  <2>5. j # 1
    BY <2>1, <2>2 DEF HasData
  <2>6. j - 1 \in DOMAIN q /\ h + (j - 1) = j
    BY <1>0, <1>2, <2>3, <2>4, <2>5
  <2>7. q[j - 1].data = file[j].entry.data
    BY <1>3, <2>6
  <2> QED BY <2>1, <2>6, <2>7 DEF NumberOf
<1> QED BY <1>2, <1>4, <1>5, <1>6 DEF NothingInvented

\* For any number of goroutines and operations, in both formats and on a disk
\* that may fail anywhere, a replay shows only operations that succeeded, each
\* once, and all of them while the disk took everything, although an entry is
\* several writes (Recorder.mutex, common.go:116): NothingInvented.
THEOREM ReplayTellsTheTruth == Spec => []NothingInvented
<1>1. TellsInv => NothingInvented
  <2> SUFFICES ASSUME TellsInv PROVE NothingInvented
    OBVIOUS
  <2>1. format = "cast" \/ format = "uml"
    BY DEF TellsInv, OrderInv, OpInv, TypeOK, Formats
  <2> QED BY <2>1, CastTells, UmlTells
<1> QED BY <1>1, InitTells, NextTells, PTL DEF Spec

(***************************************************************************)
(* What the tools make of a recording                                      *)
(***************************************************************************)

\* ShownAt adds one pause after the other.
Adds(s, p, m) ==
    /\ \A n \in 0 .. m : s[n] \in Int
    /\ \A n \in 1 .. m : s[n] = s[n - 1] + p[n]

Numbers(p, m) == \A n \in 1 .. m : p[n] \in Int

LEMMA ShownAtIs ==
    ASSUME NEW T, NEW q \in Seq(T), NEW limit, NEW p, p = Pauses(limit, q),
           Numbers(p, Len(q)), NEW s, s = ShownAt(limit, q)
    PROVE  Adds(s, p, Len(q))
<1> DEFINE m == Len(q)
           Turn(g, n) == IF n = 0 THEN 0 ELSE g[n - 1] + p[n]
           step == [x \in Int \X (1 .. m) |-> x[1] + p[x[2]]]
<1>0. m \in Nat
  OBVIOUS
<1> HIDE DEF m
<1>1. step \in [Int \X (1 .. m) -> Int]
  BY DEF m, Numbers
<1>2. PICK g \in [0 .. m -> Int] : g[0] = 0 /\ \A n \in 1 .. m : g[n] = step[<< g[n - 1], n >>]
  <2>1. PICK V, zero, f : V = Int /\ zero = 0 /\ f = step
    OBVIOUS
  <2>2. zero \in V /\ f \in [V \X (1 .. m) -> V]
    BY <1>1, <2>1
  <2> HIDE DEF step
  <2>3. \E g : Recurs(g, m, V, zero, f)
    BY <1>0, <2>2, Recursion
  <2> QED BY <2>1, <2>3 DEF Recurs
<1>3. \A n \in 0 .. m : g[n] = Turn(g, n)
  <2> TAKE n \in 0 .. m
  <2>1. CASE n = 0
    BY <1>2, <2>1
  <2>2. CASE n # 0
    <3>1. n \in 1 .. m /\ n - 1 \in 0 .. m
      BY <1>0, <2>2
    <3>2. << g[n - 1], n >> \in Int \X (1 .. m)
      BY <3>1
    <3> QED BY <1>2, <2>2, <3>1, <3>2
  <2> QED BY <2>1, <2>2
<1>4. g = [n \in 0 .. m |-> Turn(g, n)]
  <2> HIDE DEF Turn
  <2> QED BY <1>3
<1>5. s = [n \in 0 .. m |-> Turn(s, n)]
  <2>1. s = CHOOSE f : f = [n \in 0 .. m |-> Turn(f, n)]
    BY DEF ShownAt, m
  <2> HIDE DEF Turn
  <2> QED BY <1>4, <2>1
<1>6. \A n \in 0 .. m : s[n] = Turn(s, n)
  <2> HIDE DEF Turn
  <2> QED BY <1>5
<1>7. s[0] = 0 /\ \A n \in 1 .. m : s[n] = s[n - 1] + p[n]
  BY <1>0, <1>6
<1> DEFINE S == {n \in 0 .. m : s[n] \in Int}
<1>8. 0 .. m \subseteq S
  <2>1. 0 \in S
    BY <1>0, <1>7
  <2>2. \A n \in 0 .. m - 1 : n \in S => n + 1 \in S
    <3> SUFFICES ASSUME NEW n \in 0 .. m - 1, s[n] \in Int PROVE n + 1 \in S
      OBVIOUS
    <3>1. n + 1 \in 1 .. m /\ n + 1 \in 0 .. m /\ n + 1 - 1 = n
      BY <1>0
    <3>2. p[n + 1] \in Int
      BY <3>1 DEF m, Numbers
    <3> QED BY <1>7, <3>1, <3>2
  <2> HIDE DEF S
  <2> QED BY <1>0, <2>1, <2>2, Induction
<1> QED BY <1>7, <1>8 DEF m, Adds

\* What has been recorded is of the time of the recorder.
Told ==
    \A i \in DOMAIN file :
        HasData(file[i]) => file[i].entry.event = "io" /\ TimeOf(file[i]) \in 0 .. MaxTime

ToldInv == TellsInv /\ Told

LEMMA NextTold == ToldInv /\ [Next]_vars => ToldInv'
<1> SUFFICES ASSUME ToldInv, [Next]_vars PROVE ToldInv'
  OBVIOUS
<1>1. TellsInv /\ TellsInv' /\ OrderInv /\ OpInv
  BY NextTells DEF ToldInv, TellsInv, OrderInv
<1>2. CASE file' = file /\ (UNCHANGED << format, first >> \/ (Unstarted /\ format = "cast" /\ ~started))
  <2>1. CASE UNCHANGED << format, first >>
    BY <1>1, <1>2, <2>1 DEF ToldInv, Told, TimeOf, Origin
  <2>2. CASE Unstarted /\ format = "cast" /\ ~started
    <3>1. \A i \in DOMAIN file' : ~HasData(file'[i])
      BY <1>2, <2>2 DEF Unstarted
    <3> QED BY <1>1, <3>1 DEF ToldInv, Told
  <2> QED BY <1>2, <2>1, <2>2
<1>3. CASE UNCHANGED << format, first >>
           /\ \E x \in Chunks :
                 /\ file' = Append(file, x)
                 /\ HasData(x) => x.entry.event = "io" /\ TimeOf(x) \in 0 .. MaxTime
  <2>1. PICK x \in Chunks :
                 /\ file' = Append(file, x)
                 /\ HasData(x) => x.entry.event = "io" /\ TimeOf(x) \in 0 .. MaxTime
    BY <1>3
  <2>2. /\ DOMAIN file' = DOMAIN file \cup {Len(file) + 1} /\ file'[Len(file) + 1] = x
        /\ \A i \in DOMAIN file : file'[i] = file[i]
    BY <1>1, <2>1, FileType
  <2>3. Origin' = Origin
    BY <1>3 DEF Origin
  <2> QED BY <1>1, <2>1, <2>2, <2>3 DEF ToldInv, Told, TimeOf
<1>4. ASSUME NEW t \in Threads, Step(t) PROVE ToldInv'
  <2>1. CASE \/ \E fd \in Fds : Begin(t, fd)
             \/ \E k \in 1 .. BufferSize : ReadDone(t, k)
             \/ WriteDone(t)
             \/ \E k \in 0 .. BufferSize : IoFails(t, k)
    <3>1. file' = file /\ UNCHANGED << format, first >>
      BY <2>1 DEF Begin, ReadDone, WriteDone, IoFails, sinkVars, diskVars
    <3> QED BY <1>2, <3>1
  <2>2. CASE Lock(t)
    <3>1. /\ file' = file
          /\ UNCHANGED << format, first >> \/ (format = "cast" /\ ~started)
      BY <2>2 DEF Lock, UseSink, diskVars
    <3> QED BY <1>1, <1>2, <3>1 DEF OrderInv
  <2>3. CASE Write(t)
    <3>1. Next1(t) \in Chunks /\ file' = Append(file, Next1(t)) /\ UNCHANGED << format, first >>
      BY <1>1, <2>3, Next1Type DEF OpInv, Write, sinkVars
    <3>2. ASSUME HasData(Next1(t))
          PROVE  Next1(t).entry.event = "io" /\ TimeOf(Next1(t)) \in 0 .. MaxTime
      <4>1. pc[t] \in {"line", "data"}
        BY <2>3, <3>2 DEF Write, HasData, Next1, Chunk, UmlHead
      <4>2. Next1(t).entry.event = "io"
        BY <4>1 DEF Next1, CastLine, UmlData, Chunk, EntryOf, Io
      <4>3. TimeOf(Next1(t)) = op[t].time /\ op[t].time \in 0 .. MaxTime
        BY <1>1, <4>1, DataWritten DEF OpInv, TypeOK
      <4> QED BY <4>2, <4>3
    <3> QED BY <1>3, <3>1, <3>2
  <2>4. CASE \E piece \in BOOLEAN : WriteFails(t, piece)
    <3>1. Piece \in Chunks /\ ~HasData(Piece)
      BY DEF Piece, Chunk, Chunks, Entries, Parts, NoEntry, Close, Fds, HasData
    <3>2. (file' = file \/ file' = Append(file, Piece)) /\ UNCHANGED << format, first >>
      BY <2>4 DEF WriteFails, sinkVars
    <3> QED BY <1>2, <1>3, <3>1, <3>2
  <2> QED BY <1>4, <2>1, <2>2, <2>3, <2>4 DEF Step
<1>5. CASE Tick \/ UNCHANGED vars
  <2>1. file' = file /\ UNCHANGED << format, first >>
    BY <1>5 DEF Tick, vars, sinkVars, diskVars
  <2> QED BY <1>2, <2>1
<1> QED BY <1>4, <1>5 DEF Next

LEMMA InitTold == Init => ToldInv
<1> SUFFICES ASSUME Init PROVE ToldInv
  OBVIOUS
<1>1. DOMAIN file = {}
  BY DEF Init
<1> QED BY <1>1, InitTells DEF ToldInv, Told

\* What a replay delivers are the entries of chunks that tell of operations.
LEMMA ReplayedUml ==
    ASSUME ToldInv, format = "uml", NEW q, q = Recording
    PROVE  /\ q \in Seq(Entries)
           /\ \A i \in 1 .. Len(q) : q[i].event = "io" /\ q[i].time \in 0 .. MaxTime
<1>0. file \in Seq(Chunks) /\ DOMAIN file = 1 .. Len(file) /\ Len(file) \in Nat
  BY FileType DEF ToldInv
<1>1. AlignedTo(file) \in 0 .. Len(file) /\ q = UmlEntries(file)[AlignedTo(file)]
  BY <1>0, AlignedToIs DEF Recording, Replay
<1>2. q \in Seq(Entries)
  BY <1>0, <1>1, UmlEntriesType
<1>3. \A i \in 1 .. Len(q) :
          \E j \in 1 .. AlignedTo(file) : file[j].part = "data" /\ q[i] = file[j].entry
  <2>1. Found(AlignedTo(file))
    BY <1>1, UmlFinds DEF ToldInv
  <2> QED BY <1>1, <2>1 DEF Found
<1>4. ASSUME NEW i \in 1 .. Len(q) PROVE q[i].event = "io" /\ q[i].time \in 0 .. MaxTime
  <2>1. PICK j \in 1 .. AlignedTo(file) : file[j].part = "data" /\ q[i] = file[j].entry
    BY <1>3
  <2>2. j \in DOMAIN file /\ HasData(file[j])
    BY <1>0, <1>1, <2>1 DEF HasData
  <2>3. file[j].entry.event = "io" /\ TimeOf(file[j]) \in 0 .. MaxTime
    BY <2>2 DEF ToldInv, Told
  <2>4. file[j].entry.time \in Int
    BY <2>2, TimesAreInts DEF ToldInv, TellsInv, OrderInv
  <2> QED BY <2>1, <2>3, <2>4 DEF TimeOf, Origin
<1> QED BY <1>2, <1>4

\* A line's time is moved towards that of the first by at most one.
LEMMA ReplayedCast ==
    ASSUME ToldInv, format = "cast", NEW q, q = Recording
    PROVE  /\ q \in Seq(TimedEntries)
           /\ \A i \in 1 .. Len(q) :
                 \E time \in Int : time + first \in 0 .. MaxTime /\ q[i].time = Microseconds(time)
<1> DEFINE h == HeaderOf(file)
           l == LastLine(file)
<1>0. file \in Seq(Chunks) /\ Len(file) \in Nat /\ DOMAIN file = 1 .. Len(file)
  BY FileType DEF ToldInv
<1>1. /\ h \in 0 .. Len(file) /\ l \in h .. Len(file)
      /\ \A i \in h + 1 .. l : file[i].part = "line"
      /\ q \in Seq(TimedEntries) /\ Len(q) = l - h
      /\ \A i \in 1 .. l - h : q[i] = Timed(file[h + i])
  BY <1>0, CastIs DEF Recording, Replay
<1> HIDE DEF h, l
<1>2. ASSUME NEW i \in 1 .. Len(q)
      PROVE  \E time \in Int : time + first \in 0 .. MaxTime /\ q[i].time = Microseconds(time)
  <2>1. h + i \in h + 1 .. l /\ h + i \in DOMAIN file /\ i \in 1 .. l - h
    BY <1>0, <1>1
  <2>2. HasData(file[h + i])
    BY <1>1, <2>1 DEF HasData
  <2>3. file[h + i].entry \in Entries
    <3>1. file[h + i] \in Chunks
      BY <1>0, <2>1
    <3> QED BY <3>1 DEF Chunks
  <2>4. q[i].time = Microseconds(file[h + i].entry.time)
    BY <1>1, <2>1, <2>3 DEF Timed, Entries
  <2>5. file[h + i].entry.time \in Int /\ TimeOf(file[h + i]) \in 0 .. MaxTime
    BY <2>1, <2>2, TimesAreInts DEF ToldInv, Told, TellsInv, OrderInv
  <2> QED BY <2>4, <2>5 DEF TimeOf, Origin
<1> QED BY <1>1, <1>2

LEMMA MicrosecondsIs ==
    ASSUME NEW a \in Int, NEW b \in Int
    PROVE  /\ Microseconds(a) \in Int
           /\ Microseconds(b) - Microseconds(a) <= IF b <= a THEN 0 ELSE b - a + 1
BY DEF Microseconds

LEMMA Later ==
    ASSUME NEW a \in Int, NEW b \in Int, NEW c \in Int, NEW u \in Int,
           NEW x \in Int, NEW y \in Int, NEW z \in Int,
           b - a >= y - x, c = b + u, u >= z - y
    PROVE  c - a >= z - x
OBVIOUS

\* Nothing is shown too early where the limit reaches no pause.
LEMMA NeverEarly ==
    ASSUME NEW T, NEW q \in Seq(T), NEW limit \in Nat \ {0},
           \A i \in 1 .. Len(q) : q[i].time \in Int,
           \A i, j \in 1 .. Len(q) : q[j].time - q[i].time <= limit,
           NEW s, s = ShownAt(limit, q),
           NEW i \in 1 .. Len(q), NEW j \in 1 .. Len(q), i < j
    PROVE  s[j] - s[i] >= q[j].time - q[i].time
<1> DEFINE m == Len(q)
           p == Pauses(limit, q)
<1>0. m \in Nat /\ DOMAIN q = 1 .. m
  OBVIOUS
<1>1. ASSUME NEW n \in 1 .. m
      PROVE  p[n] \in Int /\ (n # 1 => p[n] >= q[n].time - q[n - 1].time)
  <2> DEFINE delta == IF n = 1 THEN 0 ELSE q[n].time - q[n - 1].time
  <2>1. p[n] = IF limit <= 0 \/ delta < 0 THEN 0 ELSE IF delta > limit THEN limit ELSE delta
    BY <1>0 DEF Pauses
  <2>2. delta \in Int /\ delta <= limit
    <3>1. n # 1 => n - 1 \in 1 .. m
      BY <1>0
    <3> QED BY <3>1
  <2>3. n # 1 => delta = q[n].time - q[n - 1].time
    OBVIOUS
  <2> HIDE DEF p, delta
  <2>4. p[n] \in Int /\ p[n] >= delta
    BY <2>1, <2>2
  <2> QED BY <2>3, <2>4
<1>2. /\ \A n \in 0 .. m : s[n] \in Int
      /\ \A n \in 1 .. m : s[n] = s[n - 1] + p[n]
  <2>1. PICK pauses : pauses = p
    OBVIOUS
  <2>2. Numbers(pauses, Len(q))
    BY <1>1, <2>1 DEF Numbers
  <2>3. pauses = Pauses(limit, q)
    BY <2>1
  <2>4. Adds(s, pauses, Len(q))
    <3> HIDE DEF p
    <3> QED BY <2>2, <2>3, ShownAtIs
  <2> QED BY <2>1, <2>4 DEF Adds
<1> HIDE DEF m, p
<1> DEFINE S == {n \in 0 .. m : n >= i => s[n] - s[i] >= q[n].time - q[i].time}
<1>3. i \in 1 .. m /\ j \in 1 .. m /\ \A n \in 1 .. m : q[n].time \in Int
  BY DEF m
<1>4. 0 \in S
  BY <1>0, <1>3
<1>5. \A n \in 0 .. m - 1 : n \in S => n + 1 \in S
  <2> SUFFICES ASSUME NEW n \in 0 .. m - 1, n \in S PROVE n + 1 \in S
    OBVIOUS
  <2>1. PICK k \in 1 .. m : k = n + 1 /\ k - 1 = n
    BY <1>0
  <2>2. k \in 0 .. m /\ n \in 0 .. m /\ i \in 0 .. m
    BY <1>0, <1>3, <2>1
  <2>3. ASSUME k >= i PROVE s[k] - s[i] >= q[k].time - q[i].time
    <3>1. CASE k = i
      <4>1. s[i] \in Int /\ q[i].time \in Int
        BY <1>2, <1>3, <2>2
      <4> QED BY <3>1, <4>1
    <3>2. CASE k # i
      <4>1. n >= i /\ n \in 1 .. m /\ k # 1
        BY <1>0, <1>3, <2>1, <2>3, <3>2
      <4>2. s[n] - s[i] >= q[n].time - q[i].time
        BY <4>1
      <4>3. s[k] = s[n] + p[k] /\ p[k] \in Int /\ p[k] >= q[k].time - q[n].time
        <5>1. s[k] = s[k - 1] + p[k] /\ p[k] \in Int /\ p[k] >= q[k].time - q[k - 1].time
          BY <1>1, <1>2, <4>1
        <5> QED BY <2>1, <5>1
      <4>4. s[n] \in Int /\ s[i] \in Int
        BY <1>2, <2>2
      <4>5. q[n].time \in Int /\ q[k].time \in Int /\ q[i].time \in Int
        BY <1>3, <4>1
      <4>6. s[k] \in Int
        BY <1>2, <2>2
      <4> QED BY <4>2, <4>3, <4>4, <4>5, <4>6, Later, Zenon
    <3> QED BY <3>1, <3>2
  <2> QED BY <2>1, <2>2, <2>3
<1>6. j \in S
  <2> HIDE DEF S
  <2>1. 0 .. m \subseteq S
    BY <1>0, <1>4, <1>5, Induction
  <2> QED BY <1>0, <1>3, <2>1
<1> QED BY <1>0, <1>3, <1>6

LEMMA PlaybackTimes ==
    ASSUME ToldInv, NEW q, q = Recording
    PROVE  /\ \E T : q \in Seq(T)
           /\ \A i \in 1 .. Len(q) : q[i].time \in Int
           /\ \A i, j \in 1 .. Len(q) : q[j].time - q[i].time <= MaxTime + 1
<1>0. MaxTime \in Nat
  BY RecorderAssumption
<1>1. CASE format = "uml"
  <2>1. /\ q \in Seq(Entries)
        /\ \A i \in 1 .. Len(q) : q[i].time \in 0 .. MaxTime
    BY <1>1, ReplayedUml
  <2>2. \A a, b \in 0 .. MaxTime : b - a <= MaxTime + 1
    BY <1>0
  <2> QED BY <2>1, <2>2
<1>2. CASE format = "cast"
  <2>1. /\ q \in Seq(TimedEntries)
        /\ \A i \in 1 .. Len(q) :
              \E time \in Int : time + first \in 0 .. MaxTime /\ q[i].time = Microseconds(time)
    BY <1>2, ReplayedCast
  <2>2. first \in Int
    BY DEF ToldInv, TellsInv, OrderInv, OpInv, TypeOK
  <2>3. \A i \in 1 .. Len(q) : q[i].time \in Int
    <3> TAKE i \in 1 .. Len(q)
    <3>1. PICK time \in Int : q[i].time = Microseconds(time)
      BY <2>1
    <3> QED BY <3>1, MicrosecondsIs
  <2>4. ASSUME NEW i \in 1 .. Len(q), NEW j \in 1 .. Len(q)
        PROVE  q[j].time - q[i].time <= MaxTime + 1
    <3>1. PICK a \in Int : a + first \in 0 .. MaxTime /\ q[i].time = Microseconds(a)
      BY <2>1
    <3>2. PICK b \in Int : b + first \in 0 .. MaxTime /\ q[j].time = Microseconds(b)
      BY <2>1
    <3>3. /\ Microseconds(a) \in Int /\ Microseconds(b) \in Int
          /\ Microseconds(b) - Microseconds(a) <= IF b <= a THEN 0 ELSE b - a + 1
      BY MicrosecondsIs
    <3>4. b - a <= MaxTime
      BY <1>0, <2>2, <3>1, <3>2
    <3>5. Microseconds(b) - Microseconds(a) <= MaxTime + 1
      BY <1>0, <3>3, <3>4
    <3> QED BY <3>1, <3>2, <3>5
  <2> QED BY <2>1, <2>3, <2>4
<1> QED BY <1>1, <1>2 DEF ToldInv, TellsInv, OrderInv, OpInv, TypeOK, Formats

\* For any number of goroutines and operations, in both formats and with times
\* that go backwards, `logs play` shows no entry before as much time has passed
\* as lies between it and an earlier one (NewRealTimePlayback, common.go:27-61):
\* PlaybackNeverEarly.
THEOREM PlaybackKeepsTime == Spec => []PlaybackNeverEarly
<1>1. ToldInv => PlaybackNeverEarly
  <2> SUFFICES ASSUME ToldInv, NEW i \in DOMAIN Recording, NEW j \in DOMAIN Recording, i < j
               PROVE  LET shown == ShownAt(MaxTime + 1, Recording)
                      IN  shown[j] - shown[i] >= Recording[j].time - Recording[i].time
    BY DEF PlaybackNeverEarly
  <2>1. PICK q, limit, shown : /\ q = Recording /\ limit = MaxTime + 1
                               /\ shown = ShownAt(limit, q)
    OBVIOUS
  <2>2. PICK T : q \in Seq(T)
    BY <2>1, PlaybackTimes
  <2>3. /\ \A k \in 1 .. Len(q) : q[k].time \in Int
        /\ \A k, l \in 1 .. Len(q) : q[l].time - q[k].time <= limit
    BY <2>1, PlaybackTimes
  <2>4. limit \in Nat \ {0} /\ i \in 1 .. Len(q) /\ j \in 1 .. Len(q)
    BY <2>1, <2>2, RecorderAssumption
  <2>5. shown[j] - shown[i] >= q[j].time - q[i].time
    BY <2>1, <2>2, <2>3, <2>4, NeverEarly
  <2> QED BY <2>1, <2>5
<1> QED BY <1>1, InitTold, NextTold, PTL DEF Spec

Texts == Seq(Seq(Bytes))

\* Screen reads entry after entry.
Shown(entries) ==
    LET shown[n \in 0 .. Len(entries)] ==
            IF n = 0 THEN << >>
            ELSE IF IsOutput(entries[n]) THEN Append(shown[n - 1], entries[n].data) ELSE shown[n - 1]
    IN  shown

Showing(s, q) ==
    /\ s[0] = << >>
    /\ \A n \in 0 .. Len(q) : s[n] \in Texts
    /\ \A n \in 1 .. Len(q) :
          s[n] = IF IsOutput(q[n]) THEN Append(s[n - 1], q[n].data) ELSE s[n - 1]

LEMMA AddText == ASSUME NEW x \in Texts, NEW data \in Seq(Bytes) PROVE Append(x, data) \in Texts
<1> DEFINE T == Seq(Bytes)
<1>1. data \in T /\ x \in Seq(T)
  BY DEF Texts
<1> HIDE DEF T
<1>2. Append(x, data) \in Seq(T)
  BY <1>1
<1> QED BY <1>2 DEF Texts, T

LEMMA ShownIs ==
    ASSUME NEW T, NEW q \in Seq(T), \A n \in 1 .. Len(q) : q[n].data \in Seq(Bytes)
    PROVE  Showing(Shown(q), q) /\ Screen(q) = Shown(q)[Len(q)]
<1> DEFINE m == Len(q)
           Turn(g, n) == IF n = 0 THEN << >>
                         ELSE IF IsOutput(q[n]) THEN Append(g[n - 1], q[n].data) ELSE g[n - 1]
           step == [x \in Texts \X (1 .. m) |->
                       IF IsOutput(q[x[2]]) THEN Append(x[1], q[x[2]].data) ELSE x[1]]
           s == Shown(q)
<1>0. m \in Nat /\ \A n \in 1 .. m : q[n].data \in Seq(Bytes)
  OBVIOUS
<1>1. Screen(q) = s[m]
  BY Zenon DEF Screen, Shown
<1>2. s = CHOOSE f : f = [n \in 0 .. m |-> Turn(f, n)]
  BY DEF Shown
<1> HIDE DEF m, s
<1>3. PICK base : base = << >>
  OBVIOUS
<1>4. base \in Texts
  BY <1>3 DEF Texts
<1>5. step \in [Texts \X (1 .. m) -> Texts]
  <2>1. ASSUME NEW x \in Texts \X (1 .. m)
        PROVE  (IF IsOutput(q[x[2]]) THEN Append(x[1], q[x[2]].data) ELSE x[1]) \in Texts
    <3>1. x[1] \in Texts /\ x[2] \in 1 .. m
      BY <2>1
    <3>2. q[x[2]].data \in Seq(Bytes)
      BY <1>0, <3>1
    <3>3. Append(x[1], q[x[2]].data) \in Texts
      BY <3>1, <3>2, AddText
    <3> QED BY <3>1, <3>3
  <2> QED BY <2>1
<1>6. PICK g : Recurs(g, m, Texts, base, step)
  <2>1. PICK f : f = step
    OBVIOUS
  <2> HIDE DEF step
  <2>2. \E g : Recurs(g, m, Texts, base, f)
    BY <1>0, <1>4, <1>5, <2>1, Recursion
  <2> QED BY <2>1, <2>2
<1>7. g = [n \in 0 .. m |-> Turn(g, n)]
  <2>1. ASSUME NEW n \in 0 .. m PROVE g[n] = Turn(g, n)
    <3>1. CASE n = 0
      BY <1>3, <1>6, <3>1 DEF Recurs
    <3>2. CASE n # 0
      <4>1. n \in 1 .. m /\ n - 1 \in 0 .. m
        BY <1>0, <3>2
      <4>2. g[n - 1] \in Texts /\ g[n] = step[<< g[n - 1], n >>]
        <5> HIDE DEF step
        <5> QED BY <1>6, <4>1 DEF Recurs
      <4>3. << g[n - 1], n >> \in Texts \X (1 .. m)
        BY <4>1, <4>2
      <4> QED BY <3>2, <4>2, <4>3
    <3> QED BY <3>1, <3>2
  <2>2. g \in [0 .. m -> Texts]
    <3> HIDE DEF step
    <3> QED BY <1>6 DEF Recurs
  <2> HIDE DEF Turn
  <2> QED BY <2>1, <2>2
<1>8. \A n \in 0 .. m : s[n] = Turn(s, n)
  <2>1. s = [n \in 0 .. m |-> Turn(s, n)]
    <3> HIDE DEF Turn
    <3> QED BY <1>2, <1>7
  <2> HIDE DEF Turn
  <2> QED BY <2>1
<1>9. /\ s[0] = << >>
      /\ \A n \in 1 .. m : s[n] = IF IsOutput(q[n]) THEN Append(s[n - 1], q[n].data) ELSE s[n - 1]
  BY <1>0, <1>8
<1> DEFINE S == {n \in 0 .. m : s[n] \in Texts}
<1>10. 0 .. m \subseteq S
  <2>1. 0 \in S
    BY <1>0, <1>3, <1>4, <1>9
  <2>2. \A n \in 0 .. m - 1 : n \in S => n + 1 \in S
    <3> SUFFICES ASSUME NEW n \in 0 .. m - 1, s[n] \in Texts PROVE n + 1 \in S
      OBVIOUS
    <3>1. PICK k \in 1 .. m : k = n + 1 /\ k - 1 = n
      BY <1>0
    <3>2. Append(s[k - 1], q[k].data) \in Texts /\ s[k - 1] \in Texts
      <4>1. s[k - 1] \in Texts /\ q[k].data \in Seq(Bytes)
        BY <1>0, <3>1
      <4> QED BY <4>1, AddText
    <3>3. s[k] \in Texts
      BY <1>9, <3>2
    <3> QED BY <1>0, <3>1, <3>3
  <2> HIDE DEF S
  <2> QED BY <1>0, <2>1, <2>2, Induction
<1> QED BY <1>1, <1>9, <1>10 DEF Showing, m, s

\* What JSON makes of a screen.
Converted(screen) == [i \in DOMAIN screen |-> Utf8(screen[i])]

LEMMA ConvertedAppend ==
    ASSUME NEW x \in Texts, NEW data \in Seq(Bytes)
    PROVE  Converted(Append(x, data)) = Append(Converted(x), Utf8(data))
<1> DEFINE T == Seq(Bytes)
           y == Append(x, data)
           c == Converted(x)
<1>1. data \in T /\ x \in Seq(T)
  BY DEF Texts
<1> HIDE DEF T
<1>2. /\ Len(x) \in Nat /\ DOMAIN x = 1 .. Len(x) /\ DOMAIN y = 1 .. Len(x) + 1
      /\ y[Len(x) + 1] = data /\ \A i \in 1 .. Len(x) : y[i] = x[i]
  BY <1>1
<1> HIDE DEF y
<1>3. PICK U : \A i \in 1 .. Len(x) : Utf8(x[i]) \in U
  <2>1. \A i \in 1 .. Len(x) : Utf8(x[i]) \in {Utf8(x[j]) : j \in 1 .. Len(x)}
    OBVIOUS
  <2> QED BY <2>1
<1> DEFINE W == U \cup {Utf8(data)}
<1>4. c \in Seq(W) /\ Len(c) = Len(x) /\ \A i \in 1 .. Len(x) : c[i] = Utf8(x[i])
  BY <1>2, <1>3 DEF Converted
<1> HIDE DEF c
<1>5. PICK last \in W : last = Utf8(data)
  OBVIOUS
<1> HIDE DEF W
<1> DEFINE d == Append(c, last)
<1>6. /\ d \in Seq(W) /\ DOMAIN d = 1 .. Len(x) + 1 /\ d[Len(x) + 1] = last
      /\ \A i \in 1 .. Len(x) : d[i] = c[i]
  BY <1>2, <1>4
<1> HIDE DEF d
<1>7. d = [i \in 1 .. Len(x) + 1 |-> d[i]]
  BY <1>6
<1>8. \A i \in 1 .. Len(x) + 1 : d[i] = Utf8(y[i])
  BY <1>2, <1>4, <1>5, <1>6
<1>9. Converted(y) = [i \in 1 .. Len(x) + 1 |-> Utf8(y[i])]
  BY <1>2 DEF Converted
<1> QED BY <1>5, <1>7, <1>8, <1>9 DEF y, c, d

\* The file of the first n entries, all of them events of the recorder.
CastOf(q, n) ==
    [i \in 1 .. n + 1 |-> IF i = 1 THEN Chunk("header", NoEntry) ELSE CastLine(q[1].time, q[i - 1])]

IsRecording(q) == q \in Seq(Entries) /\ \A i \in 1 .. Len(q) : q[i].event = "io"

LEMMA Utf8Bytes == ASSUME NEW data \in Seq(Bytes) PROVE Utf8(data) \in Seq(Bytes)
<1> DEFINE S == Bytes
<1>1. /\ DOMAIN data = 1 .. Len(data) /\ Len(data) \in Nat
      /\ \A i \in DOMAIN data : data[i] \in S
  <2> HIDE DEF S
  <2> QED BY DEF S
<1>2. \A i \in DOMAIN data : Utf8(data)[i] \in S
  BY <1>1, RecorderAssumption DEF Utf8, Bytes
<1> HIDE DEF S
<1>3. Utf8(data) \in Seq(S)
  BY <1>1, <1>2 DEF Utf8
<1> QED BY <1>3 DEF S

\* A line of a recording.
LEMMA CastLineIs ==
    ASSUME NEW start \in Int, NEW e \in Entries, e.event = "io", NEW c, c = CastLine(start, e)
    PROVE  /\ c \in Chunks /\ c.part = "line"
           /\ Timed(c).time = Microseconds(e.time - start)
           /\ Timed(c).data = Utf8(e.data)
           /\ IsOutput(Timed(c)) <=> IsOutput(e)
<1>1. /\ e.time - start \in Int /\ Collapsed(e.fd) \in Fds /\ Utf8(e.data) \in Seq(Bytes)
      /\ Collapsed(e.fd) = "stdin" <=> e.fd = "stdin"
  <2>1. e.time \in Int /\ e.fd \in Fds /\ e.data \in Seq(Bytes)
    BY DEF Entries
  <2> QED BY <2>1, Utf8Bytes DEF Collapsed, Fds
<1> DEFINE entry == [event |-> "io", time |-> e.time - start, fd |-> Collapsed(e.fd),
                     data |-> Utf8(e.data)]
<1>2. entry \in Entries
  BY <1>1 DEF Entries
<1>3. c = [part |-> "line", entry |-> entry]
  BY DEF CastLine, Chunk, Io
<1>4. c \in Chunks /\ c.part = "line"
  BY <1>2, <1>3 DEF Chunks, Parts
<1>5. Timed(c) = [entry EXCEPT !.time = Microseconds(entry.time)]
  BY <1>3 DEF Timed
<1>6. /\ Timed(c).time = Microseconds(e.time - start) /\ Timed(c).data = Utf8(e.data)
      /\ Timed(c).event = "io" /\ Timed(c).fd = Collapsed(e.fd)
  BY <1>5
<1> QED BY <1>1, <1>4, <1>6 DEF IsOutput

LEMMA CastOfIs ==
    ASSUME NEW q, IsRecording(q), NEW n \in 0 .. Len(q), NEW c, c = CastOf(q, n)
    PROVE  /\ c \in Seq(Chunks) /\ Len(c) = n + 1 /\ c[1] = Chunk("header", NoEntry)
           /\ \A i \in 1 .. n : c[i + 1] = CastLine(q[1].time, q[i])
           /\ n > 0 => c = Append(CastOf(q, n - 1), CastLine(q[1].time, q[n]))
<1>0. n \in Nat /\ Len(q) \in Nat
  BY DEF IsRecording
<1>1. ASSUME NEW i \in 1 .. Len(q) PROVE CastLine(q[1].time, q[i]) \in Chunks
  <2>1. 1 \in 1 .. Len(q)
    BY <1>0
  <2>2. q[1] \in Entries /\ q[i] \in Entries /\ q[i].event = "io"
    BY <2>1 DEF IsRecording
  <2>3. q[1].time \in Int
    BY <2>2 DEF Entries
  <2> QED BY <2>2, <2>3, CastLineIs
<1>2. Chunk("header", NoEntry) \in Chunks
  BY DEF Chunk, Chunks, Parts, NoEntry, Close, Entries, Fds
<1> DEFINE At(i) == IF i = 1 THEN Chunk("header", NoEntry) ELSE CastLine(q[1].time, q[i - 1])
<1>3. \A i \in 1 .. Len(q) + 1 : At(i) \in Chunks
  <2> TAKE i \in 1 .. Len(q) + 1
  <2>1. i # 1 => i - 1 \in 1 .. Len(q)
    BY <1>0
  <2> QED BY <1>1, <1>2, <2>1
<1>4. \A k \in 0 .. Len(q) : /\ CastOf(q, k) \in Seq(Chunks) /\ Len(CastOf(q, k)) = k + 1
                            /\ CastOf(q, k) = [i \in 1 .. k + 1 |-> At(i)]
  <2> TAKE k \in 0 .. Len(q)
  <2>1. CastOf(q, k) = [i \in 1 .. k + 1 |-> At(i)]
    BY DEF CastOf
  <2> HIDE DEF At
  <2>2. k + 1 \in Nat /\ \A i \in 1 .. k + 1 : At(i) \in Chunks
    <3>1. k + 1 \in Nat /\ \A i \in 1 .. k + 1 : i \in 1 .. Len(q) + 1
      BY <1>0
    <3> QED BY <1>3, <3>1
  <2> QED BY <2>1, <2>2
<1>5. c \in Seq(Chunks) /\ Len(c) = n + 1 /\ c = [i \in 1 .. n + 1 |-> At(i)]
  <2> HIDE DEF At
  <2> QED BY <1>4
<1>6. c[1] = Chunk("header", NoEntry) /\ \A i \in 1 .. n : c[i + 1] = CastLine(q[1].time, q[i])
  <2>1. /\ 1 \in 1 .. n + 1 /\ At(1) = Chunk("header", NoEntry)
        /\ \A i \in 1 .. n : i + 1 \in 1 .. n + 1 /\ i + 1 - 1 = i /\ i + 1 # 1
    BY <1>0
  <2>2. \A i \in 1 .. n : At(i + 1) = CastLine(q[1].time, q[i])
    BY <2>1
  <2> HIDE DEF At
  <2> QED BY <1>5, <2>1, <2>2
<1>7. ASSUME n > 0 PROVE c = Append(CastOf(q, n - 1), CastLine(q[1].time, q[n]))
  <2> DEFINE b == CastOf(q, n - 1)
             x == CastLine(q[1].time, q[n])
             d == Append(b, x)
  <2>1. n - 1 \in 0 .. Len(q) /\ n - 1 + 1 = n /\ n \in 1 .. Len(q) /\ n + 1 - 1 = n
    BY <1>0, <1>7
  <2>2. /\ b \in Seq(Chunks) /\ Len(b) = n /\ b = [i \in 1 .. n |-> At(i)]
    <3> HIDE DEF At
    <3> QED BY <1>4, <2>1
  <2>3. x \in Chunks /\ At(n + 1) = x
    BY <1>0, <1>1, <2>1
  <2> HIDE DEF At, b, x
  <2>4. /\ d \in Seq(Chunks) /\ DOMAIN d = 1 .. n + 1 /\ d[n + 1] = x
        /\ \A i \in 1 .. n : d[i] = b[i]
    BY <1>0, <2>2, <2>3
  <2> HIDE DEF d
  <2>5. d = [i \in 1 .. n + 1 |-> d[i]]
    BY <2>4
  <2>6. \A i \in 1 .. n + 1 : d[i] = At(i)
    <3> TAKE i \in 1 .. n + 1
    <3>1. CASE i = n + 1
      BY <2>3, <2>4, <3>1
    <3>2. CASE i # n + 1
      <4>1. i \in 1 .. n
        BY <1>0, <3>2
      <4> QED BY <2>2, <2>4, <4>1
    <3> QED BY <3>1, <3>2
  <2>7. d = c
    BY <1>5, <2>5, <2>6
  <2> QED BY <2>7 DEF d, b, x
<1> QED BY <1>5, <1>6, <1>7

\* ToCast writes line after line.
Lines(entries) ==
    LET lines[n \in 0 .. Len(entries)] ==
            IF n = 0 THEN << Chunk("header", NoEntry) >>
            ELSE IF IsIo(entries[n]) THEN Append(lines[n - 1], CastLine(entries[1].time, entries[n]))
                 ELSE lines[n - 1]
    IN  lines

LEMMA LinesAre == ASSUME NEW q, IsRecording(q) PROVE Lines(q)[Len(q)] = CastOf(q, Len(q))
<1> DEFINE m == Len(q)
           Turn(g, n) == IF n = 0 THEN << Chunk("header", NoEntry) >>
                         ELSE IF IsIo(q[n]) THEN Append(g[n - 1], CastLine(q[1].time, q[n]))
                              ELSE g[n - 1]
           f == Lines(q)
<1>0. m \in Nat
  BY DEF IsRecording
<1>1. f = CHOOSE g : g = [n \in 0 .. m |-> Turn(g, n)]
  BY DEF Lines
<1>2. CastOf(q, 0) = << Chunk("header", NoEntry) >>
  <2>1. /\ CastOf(q, 0) \in Seq(Chunks) /\ Len(CastOf(q, 0)) = 1
        /\ CastOf(q, 0)[1] = Chunk("header", NoEntry)
    <3>1. 0 \in 0 .. Len(q)
      BY <1>0
    <3>2. PICK zero : zero = 0
      OBVIOUS
    <3>3. /\ CastOf(q, zero) \in Seq(Chunks) /\ Len(CastOf(q, zero)) = zero + 1
          /\ CastOf(q, zero)[1] = Chunk("header", NoEntry)
      BY <3>1, <3>2, CastOfIs
    <3> QED BY <3>2, <3>3
  <2> QED BY <2>1
<1>3. ASSUME NEW n \in 1 .. m
      PROVE  IsIo(q[n]) /\ CastOf(q, n) = Append(CastOf(q, n - 1), CastLine(q[1].time, q[n]))
  <2>1. n \in 0 .. m /\ n > 0
    BY <1>0
  <2> QED BY <2>1, CastOfIs DEF IsRecording, IsIo
<1> HIDE DEF m, f
<1>4. \E g : g = [n \in 0 .. m |-> Turn(g, n)]
  <2> DEFINE g == [n \in 0 .. m |-> CastOf(q, n)]
  <2>1. ASSUME NEW n \in 0 .. m PROVE g[n] = Turn(g, n)
    <3>1. CASE n = 0
      BY <1>2, <3>1
    <3>2. CASE n # 0
      <4>1. n \in 1 .. m /\ n - 1 \in 0 .. m
        BY <1>0, <3>2
      <4>2. g[n] = CastOf(q, n) /\ g[n - 1] = CastOf(q, n - 1)
        BY <4>1
      <4> HIDE DEF g
      <4> QED BY <1>3, <3>2, <4>1, <4>2
    <3> QED BY <3>1, <3>2
  <2>2. g = [n \in 0 .. m |-> g[n]]
    OBVIOUS
  <2> HIDE DEF g, Turn
  <2>3. g = [n \in 0 .. m |-> Turn(g, n)]
    BY <2>1, <2>2
  <2> QED BY <2>3
<1>5. \A n \in 0 .. m : f[n] = Turn(f, n)
  <2> HIDE DEF Turn
  <2>1. f = [n \in 0 .. m |-> Turn(f, n)]
    BY <1>1, <1>4
  <2> QED BY <2>1
<1> DEFINE S == {n \in 0 .. m : f[n] = CastOf(q, n)}
<1>6. 0 \in S
  BY <1>0, <1>2, <1>5
<1>7. \A n \in 0 .. m - 1 : n \in S => n + 1 \in S
  <2> SUFFICES ASSUME NEW n \in 0 .. m - 1, f[n] = CastOf(q, n) PROVE n + 1 \in S
    OBVIOUS
  <2>1. PICK k \in 1 .. m : k = n + 1 /\ k - 1 = n /\ k # 0
    BY <1>0
  <2>2. f[k] = Turn(f, k)
    BY <1>0, <1>5, <2>1
  <2>3. f[k] = CastOf(q, k)
    BY <1>3, <2>1, <2>2
  <2> QED BY <1>0, <2>1, <2>3
<1>8. m \in S
  <2> HIDE DEF S
  <2>1. 0 .. m \subseteq S
    BY <1>0, <1>6, <1>7, Induction
  <2> QED BY <1>0, <2>1
<1> QED BY <1>8 DEF m, f

\* What `logs asciicast` writes is read back line by line.
LEMMA ReadBack ==
    ASSUME NEW q, IsRecording(q), NEW b, b = ReadCast(ToCast(q))
    PROVE  /\ b \in Seq(TimedEntries) /\ Len(b) = Len(q)
           /\ \A i \in 1 .. Len(q) : b[i] = Timed(CastLine(q[1].time, q[i]))
<1>0. Len(q) \in Nat /\ q \in Seq(Entries)
  BY DEF IsRecording
<1>1. CASE q = << >>
  <2>1. PICK c : c = << >>
    OBVIOUS
  <2>2. c \in Seq(Chunks) /\ Len(c) = 0 /\ Len(q) = 0
    BY <1>1, <2>1
  <2>3. b = ReadCast(c)
    BY <1>1, <2>1 DEF ToCast
  <2>4. PICK h, l : h = HeaderOf(c) /\ l = LastLine(c)
    OBVIOUS
  <2>5. /\ h \in 0 .. Len(c) /\ l \in h .. Len(c)
        /\ b \in Seq(TimedEntries) /\ Len(b) = l - h
    BY <2>2, <2>3, <2>4, CastIs
  <2>6. Len(b) = 0
    BY <2>2, <2>5
  <2> QED BY <2>2, <2>5, <2>6
<1>2. CASE q # << >>
  <2>1. PICK c : c = CastOf(q, Len(q))
    OBVIOUS
  <2>2. b = ReadCast(c)
    <3>1. ToCast(q) = Lines(q)[Len(q)]
      BY <1>2, Zenon DEF ToCast, Lines
    <3> QED BY <2>1, <3>1, LinesAre
  <2>3. /\ c \in Seq(Chunks) /\ Len(c) = Len(q) + 1 /\ c[1] = Chunk("header", NoEntry)
        /\ \A i \in 1 .. Len(q) : c[i + 1] = CastLine(q[1].time, q[i])
    BY <1>0, <2>1, CastOfIs
  <2>4. PICK h, l : h = HeaderOf(c) /\ l = LastLine(c)
    OBVIOUS
  <2>5. /\ h \in 0 .. Len(c) /\ l \in h .. Len(c)
        /\ \A n \in LinesFrom(c, h) : n <= l
        /\ Ended(c) # {} => h \in Ended(c) /\ \A i \in Ended(c) : h <= i
        /\ b \in Seq(TimedEntries) /\ Len(b) = l - h
        /\ \A i \in 1 .. l - h : b[i] = Timed(c[h + i])
    BY <2>2, <2>3, <2>4, CastIs
  <2>6. h = 1
    <3>1. 1 \in DOMAIN c /\ c[1].part = "header"
      BY <1>0, <2>3 DEF Chunk
    <3>2. 1 \in Ended(c)
      BY <3>1 DEF Ended
    <3>3. h \in DOMAIN c /\ h <= 1
      BY <2>5, <3>2 DEF Ended
    <3> QED BY <1>0, <2>3, <3>3
  <2>7. l = Len(q) + 1
    <3>1. ASSUME NEW i \in 2 .. Len(c) PROVE c[i].part = "line"
      <4>1. i - 1 \in 1 .. Len(q) /\ i - 1 + 1 = i
        BY <1>0, <2>3
      <4>2. c[i] = CastLine(q[1].time, q[i - 1])
        BY <2>3, <4>1
      <4> QED BY <4>2 DEF CastLine, Chunk
    <3>2. Len(c) \in LinesFrom(c, h)
      BY <1>0, <2>3, <2>6, <3>1 DEF LinesFrom
    <3> QED BY <1>0, <2>3, <2>5, <3>2
  <2>8. ASSUME NEW i \in 1 .. Len(q) PROVE b[i] = Timed(CastLine(q[1].time, q[i]))
    <3>1. i \in 1 .. l - h /\ h + i = i + 1
      BY <1>0, <2>6, <2>7
    <3> QED BY <2>3, <2>5, <3>1
  <2>9. Len(b) = Len(q)
    BY <1>0, <2>5, <2>6, <2>7
  <2> QED BY <2>5, <2>8, <2>9
<1> QED BY <1>1, <1>2

LEMMA ReadBackKeeps ==
    ASSUME NEW q, IsRecording(q), NEW b, b = ReadCast(ToCast(q)), NEW i \in 1 .. Len(q)
    PROVE  /\ b[i].time = Microseconds(q[i].time - q[1].time)
           /\ b[i].data = Utf8(q[i].data) /\ b[i].data \in Seq(Bytes) /\ q[i].data \in Seq(Bytes)
           /\ IsOutput(b[i]) <=> IsOutput(q[i])
<1>1. q[1] \in Entries /\ q[i] \in Entries /\ q[i].event = "io"
  <2>1. q \in Seq(Entries) /\ Len(q) \in Nat /\ 1 \in 1 .. Len(q)
    BY DEF IsRecording
  <2> QED BY <2>1 DEF IsRecording
<1>2. q[1].time \in Int /\ q[i].data \in Seq(Bytes)
  BY <1>1 DEF Entries
<1>3. PICK c : c = CastLine(q[1].time, q[i])
  OBVIOUS
<1>4. b[i] = Timed(c)
  BY <1>3, ReadBack
<1>5. /\ Timed(c).time = Microseconds(q[i].time - q[1].time)
      /\ Timed(c).data = Utf8(q[i].data)
      /\ IsOutput(Timed(c)) <=> IsOutput(q[i])
  BY <1>1, <1>2, <1>3, CastLineIs
<1> QED BY <1>2, <1>4, <1>5, Utf8Bytes

LEMMA ScreenKept ==
    ASSUME NEW q, IsRecording(q), NEW b, b = ReadCast(ToCast(q))
    PROVE  Screen(b) = Converted(Screen(q))
<1> DEFINE m == Len(q)
<1>0. m \in Nat /\ q \in Seq(Entries) /\ b \in Seq(TimedEntries) /\ Len(b) = m
  BY ReadBack DEF IsRecording
<1>1. /\ \A n \in 1 .. m : b[n].data = Utf8(q[n].data) /\ b[n].data \in Seq(Bytes)
      /\ \A n \in 1 .. m : q[n].data \in Seq(Bytes) /\ (IsOutput(b[n]) <=> IsOutput(q[n]))
  BY ReadBackKeeps
<1> HIDE DEF m
<1>2. PICK s, r : s = Shown(q) /\ r = Shown(b)
  OBVIOUS
<1>3. Showing(s, q) /\ Screen(q) = s[m]
  BY <1>0, <1>1, <1>2, ShownIs DEF m
<1>4. Showing(r, b) /\ Screen(b) = r[m]
  BY <1>0, <1>1, <1>2, ShownIs
<1> DEFINE S == {n \in 0 .. m : r[n] = Converted(s[n])}
<1>5. 0 \in S
  <2>1. r[0] = << >> /\ s[0] = << >>
    BY <1>3, <1>4 DEF Showing
  <2>2. Converted(<< >>) = << >>
    BY DEF Converted
  <2> QED BY <1>0, <2>1, <2>2
<1>6. \A n \in 0 .. m - 1 : n \in S => n + 1 \in S
  <2> SUFFICES ASSUME NEW n \in 0 .. m - 1, r[n] = Converted(s[n]) PROVE n + 1 \in S
    OBVIOUS
  <2>1. PICK k \in 1 .. m : k = n + 1 /\ k - 1 = n
    BY <1>0
  <2>2. s[n] \in Texts /\ s[k] = IF IsOutput(q[k]) THEN Append(s[n], q[k].data) ELSE s[n]
    BY <1>0, <1>3, <2>1 DEF Showing, m
  <2>3. r[k] = IF IsOutput(b[k]) THEN Append(r[n], b[k].data) ELSE r[n]
    BY <1>0, <1>4, <2>1 DEF Showing
  <2>4. /\ b[k].data = Utf8(q[k].data) /\ q[k].data \in Seq(Bytes)
        /\ IsOutput(b[k]) <=> IsOutput(q[k])
    BY <1>1
  <2>5. Converted(Append(s[n], q[k].data)) = Append(Converted(s[n]), Utf8(q[k].data))
    BY <2>2, <2>4, ConvertedAppend
  <2>6. r[k] = Converted(s[k])
    <3>1. CASE IsOutput(q[k])
      BY <2>2, <2>3, <2>4, <2>5, <3>1
    <3>2. CASE ~IsOutput(q[k])
      BY <2>2, <2>3, <2>4, <3>2
    <3> QED BY <3>1, <3>2
  <2> QED BY <1>0, <2>1, <2>6
<1>7. m \in S
  <2> HIDE DEF S
  <2>1. 0 .. m \subseteq S
    BY <1>0, <1>5, <1>6, Induction
  <2> QED BY <1>0, <2>1
<1> QED BY <1>3, <1>4, <1>7

\* For any recording in the user-mode-linux format, at every moment and on a
\* disk that may fail anywhere, `logs asciicast` keeps the screen, and the time
\* of each event that can be told in seconds (cmd/logs.go:64-83,
\* ttylog/asciicast.go:40-70): ConversionKeeps.
THEOREM ConversionIsFaithful == Spec => []ConversionKeeps
<1>1. ToldInv => ConversionKeeps
  <2> SUFFICES ASSUME ToldInv, format = "uml" PROVE ConversionKeeps
    BY DEF ConversionKeeps
  <2>1. PICK q, b : q = Recording /\ b = ReadCast(ToCast(q))
    OBVIOUS
  <2>2. IsRecording(q)
    BY <2>1, ReplayedUml DEF IsRecording
  <2>3. Screen(b) = [i \in DOMAIN Screen(q) |-> Utf8(Screen(q)[i])]
    BY <2>1, <2>2, ScreenKept DEF Converted
  <2>4. DOMAIN b = 1 .. Len(q)
    BY <2>1, <2>2, ReadBack
  <2>5. ASSUME NEW i \in DOMAIN b, q[i].time - q[1].time \notin Inexact
        PROVE  b[i].time = q[i].time - q[1].time
    <3>1. b[i].time = Microseconds(q[i].time - q[1].time)
      BY <2>1, <2>2, <2>4, ReadBackKeeps
    <3>2. PICK since : since = q[i].time - q[1].time
      OBVIOUS
    <3>3. Microseconds(since) = since
      BY <2>5, <3>2, Zenon DEF Microseconds
    <3> QED BY <3>1, <3>2, <3>3
  <2> QED BY <2>1, <2>3, <2>5, Zenon DEF ConversionKeeps
<1> QED BY <1>1, InitTold, NextTold, PTL DEF Spec
=============================================================================
