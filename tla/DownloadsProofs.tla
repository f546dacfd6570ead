---------------------------- MODULE DownloadsProofs ----------------------------
(***************************************************************************)
(* Theorems about Downloads: a download whose name is no other's can be    *)
(* traced, no step takes back evidence, what a session receives of a       *)
(* download is kept, every variable stays within its type and bound, and   *)
(* the reports agree with what happened.                                   *)
(* Inv says how far each download has come and what of it is there then;   *)
(* most actions leave every download alone (QuietStep), a few advance one  *)
(* of them (AdvanceInv).  Sizes bounds what Inv only types.  Story says    *)
(* what each session has logged where it is; what the reports make of a    *)
(* log that tells it is a matter of sequences alone.                       *)
(***************************************************************************)
EXTENDS Downloads, FiniteSetTheorems, WellFoundedInduction, TLAPS

(***************************************************************************)
(* Induction and recursion on numbers                                      *)
(***************************************************************************)

\* Induction up to m; the library's induction theorems take an operator as a
\* parameter, which this does with a set.
LEMMA Induction ==
    ASSUME NEW m \in Nat, NEW S, 0 \in S, \A n \in 0 .. m - 1 : n \in S => n + 1 \in S
    PROVE  0 .. m \subseteq S
<1> DEFINE T == {n \in 0 .. m : n \notin S}
<1> SUFFICES ASSUME T # {} PROVE FALSE
  OBVIOUS
<1>1. PICK n \in T : \A k \in T : ~ (<< k, n >> \in OpToRel(<, Nat))
  <2>1. T \subseteq Nat
    OBVIOUS
  <2> HIDE DEF T
  <2> QED BY <2>1, WFMin, NatLessThanWellFounded, Zenon
<1>2. n # 0 /\ n \in Nat /\ n - 1 \in 0 .. m - 1
  <2>1. n \in 0 .. m /\ n \notin S
    BY <1>1
  <2>2. n # 0
    BY <2>1
  <2> QED BY <2>1, <2>2
<1>3. n - 1 \notin S
  <2>1. n \notin S
    BY <1>1
  <2>2. n - 1 + 1 = n
    BY <1>2
  <2> QED BY <1>2, <2>1, <2>2
<1>4. << n - 1, n >> \in OpToRel(<, Nat)
  BY <1>2 DEF OpToRel
<1>5. n - 1 \in T
  BY <1>2, <1>3
<1> QED BY <1>1, <1>4, <1>5

\* FlattenSeq, of the community modules, goes sequence by sequence.
Flattened(q) ==
    LET flatten[i \in 1 .. Len(q)] == IF i = 1 THEN q[i] ELSE flatten[i - 1] \o q[i]
    IN  flatten

LEMMA FlattenedIs ==
    ASSUME NEW T, NEW q \in Seq(Seq(T))
    PROVE  \A n \in 1 .. Len(q) :
               Flattened(q)[n] = IF n = 1 THEN q[n] ELSE Flattened(q)[n - 1] \o q[n]
<1> DEFINE Turn(g, n) == IF n = 1 THEN q[n] ELSE g[n - 1] \o q[n]
           S == {m \in 0 .. Len(q) : \E g : g = [n \in 1 .. m |-> Turn(g, n)]}
<1>0. Len(q) \in Nat
  OBVIOUS
<1>1. 0 \in S
  <2> DEFINE g == [n \in 1 .. 0 |-> << >>]
  <2>1. g = [n \in 1 .. 0 |-> Turn(g, n)]
    OBVIOUS
  <2>2. 0 \in 0 .. Len(q)
    BY <1>0
  <2> HIDE DEF g, Turn
  <2> QED BY <2>1, <2>2
<1>2. ASSUME NEW m \in 0 .. Len(q) - 1, m \in S PROVE m + 1 \in S
  <2>1. PICK g : g = [n \in 1 .. m |-> Turn(g, n)]
    BY <1>2
  <2> DEFINE h == [n \in 1 .. m + 1 |-> IF n <= m THEN g[n] ELSE Turn(g, n)]
  <2>2. \A n \in 1 .. m + 1 : h[n] = Turn(h, n)
    <3> TAKE n \in 1 .. m + 1
    <3>1. CASE n <= m
      <4>0. g[n] = Turn(g, n)
        <5> HIDE DEF Turn, h
        <5>1. n \in 1 .. m
          BY <3>1
        <5> QED BY <2>1, <5>1
      <4>1. h[n] = Turn(g, n)
        <5> HIDE DEF Turn
        <5> QED BY <4>0, <3>1
      <4>2. n # 1 => h[n - 1] = g[n - 1]
        BY <3>1
      <4> HIDE DEF h
      <4> QED BY <4>1, <4>2
    <3>2. CASE n = m + 1
      <4>1. h[n] = Turn(g, n) /\ (n # 1 => h[n - 1] = g[n - 1])
        BY <3>2
      <4> HIDE DEF h
      <4> QED BY <4>1
    <3> QED BY <3>1, <3>2
  <2>3. h = [n \in 1 .. m + 1 |-> h[n]]
    OBVIOUS
  <2>4. h = [n \in 1 .. m + 1 |-> Turn(h, n)]
    <3> HIDE DEF h
    <3> QED BY <2>2, <2>3
  <2>5. m + 1 \in 0 .. Len(q)
    BY <1>0
  <2> HIDE DEF h, Turn
  <2> QED BY <2>4, <2>5
<1>3. Len(q) \in S
  <2> HIDE DEF S
  <2>1. 0 .. Len(q) \subseteq S
    BY <1>0, <1>1, <1>2, Induction
  <2> QED BY <1>0, <2>1
<1>4. Flattened(q) = [n \in 1 .. Len(q) |-> Turn(Flattened(q), n)]
  <2>1. PICK g : g = [n \in 1 .. Len(q) |-> Turn(g, n)]
    BY <1>3
  <2> QED BY <2>1 DEF Flattened
<1> DEFINE u == Flattened(q)
<1>5. \A n \in 1 .. Len(q) : u[n] = Turn(u, n)
  <2> HIDE DEF Turn
  <2> QED BY <1>4
<1> HIDE DEF u
<1>6. \A n \in 1 .. Len(q) : u[n] = IF n = 1 THEN q[n] ELSE u[n - 1] \o q[n]
  BY <1>5
<1> QED BY <1>6 DEF u


Entries == [kind : Kinds, id : Times \cup {NoId}, what : Whatever]

Chunks == {Torn} \cup {Line(e) : e \in Entries}

Metas == {Missing, TornMeta} \cup {MetaOf(s) : s \in Sessions}

Types ==
    /\ log \in [Writers -> Seq(Chunks)]
    /\ faults \in Nat /\ now \in Times
    /\ pc \in [Sessions -> Labels] /\ id \in [Sessions -> Times \cup {NoId}]
    /\ command \in [Sessions -> Tools]
    /\ base \in [Sessions -> Times] /\ pos \in [Sessions -> Nat]
    /\ meta \in [Times -> Metas] /\ data = [t \in Times |-> data[t]]
    /\ named \in [Times -> Seq(Sessions)]

\* Where a session has named a download and is not done with it.
Busy == {"meta", "tell", "data", "entry", "request", "save", "copy"}

Uses(s, t) == pc[s] \in Busy /\ base[s] = t

\* A line of the log that announces download t.
Tells(chunk, t) == chunk # Torn /\ chunk[2].kind = "Download" /\ chunk[2].what = Name(t)

Told(s, t) == \E i \in DOMAIN log[s] : Tells(log[s][i], t)

\* A name nobody has used.
Unused(t) ==
    /\ meta[t] = Missing /\ data[t] = Missing
    /\ \A s \in Sessions : ~Uses(s, t)
    /\ \A w \in Writers : \A i \in DOMAIN log[w] : ~Tells(log[w][i], t)

\* What is there of the one download of name t, which is session s's,
Kept(t, s) ==
    /\ \A r \in Sessions : Uses(r, t) => r = s
    /\ pc[s] # "new"
    /\ \A w \in Writers : \A i \in DOMAIN log[w] :
          Tells(log[w][i], t) => log[w][i][2].id = id[s] /\ data[t] # Missing
    /\ data[t] # Missing =>
          /\ meta[t] # Missing /\ (faults = 0 => meta[t] = MetaOf(s))
          /\ \E p \in Seq({s}) : data[t] = DataOf(p)
    /\ Stored(data[t]) # << >> /\ faults = 0 => Told(s, t)

\* and how far it has come.
Progress(t, s) ==
    /\ pc[s] = "meta" => meta[t] = Missing /\ data[t] = Missing
    /\ pc[s] = "tell" => meta[t] = TornMeta /\ data[t] = Missing
    /\ pc[s] = "data" => /\ meta[t] # Missing /\ (faults = 0 => meta[t] = MetaOf(s))
                         /\ data[t] = Missing
    /\ pc[s] \in {"entry", "request", "save"} => data[t] = DataOf(<< >>)
    /\ pc[s] = "copy" => data[t] # Missing /\ Len(Stored(data[t])) = pos[s]
    /\ pc[s] \in {"request", "save", "copy"} /\ faults = 0 => Told(s, t)

\* Nothing is written before a transfer begins.
AtStart ==
    \A s \in Sessions :
        pc[s] \in {"local", "name", "meta", "tell", "data", "entry", "request", "save"} =>
            pos[s] = 0

EvidenceOf(t) ==
    /\ named[t] = << >> => Unused(t)
    /\ \A s \in Sessions : named[t] = << s >> => Kept(t, s) /\ (Uses(s, t) => Progress(t, s))

Evidence == \A t \in Times : EvidenceOf(t)

Inv == Types /\ AtStart /\ Evidence

(***************************************************************************)
(* Values                                                                  *)
(***************************************************************************)

LEMMA PrefixOfItself == ASSUME NEW S, NEW q \in Seq(S) PROVE IsPrefix(q, q)
BY DEF IsPrefix

LEMMA PrefixOfAppend ==
    ASSUME NEW S, NEW q \in Seq(S), NEW x \in S PROVE IsPrefix(q, Append(q, x))
<1>1. Len(Append(q, x)) = Len(q) + 1 /\ Len(q) \in Nat
  OBVIOUS
<1>2. SubSeq(q, 1, Len(q)) = q
  OBVIOUS
<1>3. SubSeq(Append(q, x), 1, Len(q)) = q
  OBVIOUS
<1> QED BY <1>1, <1>2, <1>3 DEF IsPrefix

LEMMA OneElement ==
    ASSUME NEW S, NEW q \in Seq(S), q # << >>, Len(q) <= 1
    PROVE  q = << q[1] >> /\ q[1] \in S
<1>1. Len(q) \in Nat /\ Len(q) # 0
  OBVIOUS
<1>2. Len(q) = 1
  BY <1>1
<1> QED BY <1>2

\* Written at its end, a file grows by the piece.
LEMMA WrittenAtEnd ==
    ASSUME NEW S, NEW p \in Seq(S), NEW s \in S
    PROVE  Written(p, Len(p), s) = Append(p, s)
<1>1. Len(p) \in Nat
  OBVIOUS
<1>2. Written(p, Len(p), s) = [i \in 1 .. Len(p) + 1 |-> IF i = Len(p) + 1 THEN s ELSE p[i]]
  BY <1>1 DEF Written
<1>3. /\ Append(p, s) \in [1 .. Len(p) + 1 -> S]
      /\ \A i \in 1 .. Len(p) + 1 : Append(p, s)[i] = IF i = Len(p) + 1 THEN s ELSE p[i]
  <2>1. Append(p, s) \in Seq(S) /\ Len(Append(p, s)) = Len(p) + 1
    OBVIOUS
  <2>2. \A q \in Seq(S) : q \in [1 .. Len(q) -> S]
    OBVIOUS
  <2>3. \A i \in 1 .. Len(p) + 1 : Append(p, s)[i] = IF i = Len(p) + 1 THEN s ELSE p[i]
    BY <1>1
  <2> QED BY <2>1, <2>2, <2>3
<1>4. Append(p, s) = [i \in 1 .. Len(p) + 1 |-> Append(p, s)[i]]
  BY <1>3
<1> QED BY <1>2, <1>3, <1>4

\* The kinds of files are told apart.
LEMMA FileValues ==
    /\ Missing # TornMeta
    /\ \A s : MetaOf(s) # Missing /\ MetaOf(s) # TornMeta
    /\ \A p : DataOf(p) # Missing /\ Stored(DataOf(p)) = p
    /\ Stored(Missing) = << >>
<1>1. Missing # TornMeta
  BY DEF Missing, TornMeta
<1>2. \A s : MetaOf(s) # Missing /\ MetaOf(s) # TornMeta
  <2>1. \A s : Len(MetaOf(s)) = 2 /\ Len(Missing) = 1 /\ Len(TornMeta) = 1
    BY DEF MetaOf, Missing, TornMeta
  <2> QED BY <2>1
<1>3. \A p : DataOf(p) # Missing
  <2>1. \A p : Len(DataOf(p)) = 2 /\ Len(Missing) = 1
    BY DEF DataOf, Missing
  <2> QED BY <2>1
<1>4. \A p : Stored(DataOf(p)) = p
  BY <1>3 DEF Stored, DataOf
<1> QED BY <1>1, <1>2, <1>3, <1>4 DEF Stored

\* An entry about something else announces no download.
LEMMA LineTells ==
    ASSUME NEW e \in Entries
    PROVE  /\ Line(e) \in Chunks /\ Line(e) # Torn /\ Line(e)[2] = e
           /\ \A t \in Times : Tells(Line(e), t) => e.kind = "Download" /\ e.what = Name(t)
<1>1. Line(e)[2] = e
  BY DEF Line
<1>2. Line(e) # Torn
  <2>1. Len(Line(e)) = 2 /\ Len(Torn) = 1
    BY DEF Line, Torn
  <2> QED BY <2>1
<1> QED BY <1>1, <1>2 DEF Chunks, Tells

(***************************************************************************)
(* Steps that touch no download                                            *)
(***************************************************************************)

\* The log grows,
LogGrows ==
    /\ log' \in [Writers -> Seq(Chunks)] /\ faults' \in Nat /\ faults <= faults'
    /\ \A w \in Writers :
          log'[w] = log[w] \/ \E chunk \in Chunks : log'[w] = Append(log[w], chunk)

\* but does not announce download t,
Silent(t) ==
    \A w \in Writers : \A i \in DOMAIN log'[w] : Tells(log'[w][i], t) => i \in DOMAIN log[w]

\* or none.
QuietLog == LogGrows /\ \A t \in Times : Silent(t)

\* A session goes on with what it does to download t, or gives it up.
GoesOn(s, t) ==
    /\ id'[s] = id[s] \/ pc[s] = "new"
    /\ pc'[s] = "new" => pc[s] = "new"
    /\ pc'[s] \in Busy /\ base'[s] = t =>
          /\ base[s] = t /\ pos'[s] = pos[s]
          /\ pc'[s] = pc[s] \/ (pc[s] \in {"request", "save"} /\ pc'[s] \in {"save", "copy"})

\* No step takes back what there is of a download whose name is no other's.
StaysAt(t) ==
    /\ meta[t] = Missing \/ meta[t] = TornMeta \/ meta'[t] = meta[t]
    /\ \/ data'[t] = data[t] \/ data[t] = Missing
       \/ \E p \in Seq(Sessions), s \in Sessions :
             data[t] = DataOf(p) /\ data'[t] = DataOf(Append(p, s))

Stays ==
    /\ LogGrows
    /\ \A t \in Times : Len(named'[t]) <= 1 =>
          /\ Len(named[t]) <= 1 /\ StaysAt(t)
          /\ named'[t] = named[t] \/ named[t] = << >>

QuietAt(t) ==
    /\ LogGrows /\ Silent(t)
    /\ meta'[t] = meta[t] /\ data'[t] = data[t] /\ named'[t] = named[t]
    /\ \A s \in Sessions : GoesOn(s, t)

QuietStep ==
    /\ QuietLog
    /\ UNCHANGED << meta, data, named >>
    /\ \A s \in Sessions, t \in Times : GoesOn(s, t)

LEMMA TornTellsNothing == Torn \in Chunks /\ \A t \in Times : ~Tells(Torn, t)
BY DEF Chunks, Tells

\* What a writer records is at the end of its part, whole if the disk never failed.
LEMMA RecordGrows ==
    ASSUME Types, NEW w \in Writers, NEW e \in Entries, RecordBy(w, e)
    PROVE  /\ LogGrows
           /\ \A v \in Writers : \A i \in DOMAIN log'[v] \ DOMAIN log[v] :
                  v = w /\ log'[v][i] \in {Line(e), Torn}
           /\ faults' = 0 => /\ faults = 0
                             /\ \E i \in DOMAIN log'[w] : log'[w][i] = Line(e)
<1>1. PICK rest \in {Line(e), Torn} :
          /\ log' = log \/ log' = [log EXCEPT ![w] = Append(@, rest)]
          /\ \/ faults' = faults /\ rest = Line(e) /\ log' = [log EXCEPT ![w] = Append(@, rest)]
             \/ faults' = faults + 1
  BY DEF RecordBy
<1>2. rest \in Chunks
  BY LineTells, TornTellsNothing
<1>3. faults' \in Nat /\ faults <= faults' /\ faults + 1 # 0 /\ (faults' = 0 => faults = 0)
  BY <1>1 DEF Types
<1>4. CASE log' = log
  <2>1. log'[w] # Append(log[w], rest)
    <3>1. log[w] \in Seq(Chunks)
      BY DEF Types
    <3> QED BY <1>2, <1>4, <3>1
  <2>2. faults' = faults + 1
    BY <1>1, <1>4, <2>1 DEF Types
  <2> QED BY <1>3, <1>4, <2>2 DEF Types, LogGrows
<1>5. CASE log' = [log EXCEPT ![w] = Append(@, rest)]
  <2>1. log[w] \in Seq(Chunks)
    BY DEF Types
  <2>2. Append(log[w], rest) \in Seq(Chunks)
    BY <1>2, <2>1
  <2>3. log' \in [Writers -> Seq(Chunks)]
    BY <1>5, <2>2 DEF Types
  <2>4. \A v \in Writers : log'[v] = IF v = w THEN Append(log[w], rest) ELSE log[v]
    BY <1>5 DEF Types
  <2>5. LogGrows
    BY <1>2, <1>3, <2>3, <2>4 DEF LogGrows
  <2>6. /\ DOMAIN log'[w] = DOMAIN log[w] \cup {Len(log[w]) + 1}
        /\ log'[w][Len(log[w]) + 1] = rest
    <3>1. log'[w] = Append(log[w], rest) /\ rest \in Chunks
      BY <1>2, <2>4
    <3> QED BY <2>1, <3>1
  <2>7. faults' = 0 => rest = Line(e)
    BY <1>1, <1>3
  <2> QED BY <1>3, <2>4, <2>5, <2>6, <2>7
<1> QED BY <1>1, <1>4, <1>5

LEMMA RecordIsQuiet ==
    ASSUME Types, NEW w \in Writers, NEW e \in Entries, e.kind # "Download", RecordBy(w, e)
    PROVE  QuietLog
<1>1. \A t \in Times : ~Tells(Line(e), t) /\ ~Tells(Torn, t)
  BY LineTells, TornTellsNothing
<1>2. \A t \in Times : Silent(t)
  BY <1>1, RecordGrows DEF Silent
<1> QED BY <1>2, RecordGrows DEF QuietLog

LEMMA SameLogIsQuiet ==
    ASSUME Types, log' = log, faults' \in Nat, faults <= faults' PROVE QuietLog
BY DEF Types, QuietLog, LogGrows, Silent

\* What is in the log is still there, and what it announces was there.
LEMMA LogStays ==
    ASSUME Types, LogGrows, NEW w \in Writers
    PROVE  \A i \in DOMAIN log[w] : i \in DOMAIN log'[w] /\ log'[w][i] = log[w][i]
<1>1. log[w] \in Seq(Chunks)
  BY DEF Types
<1>2. CASE log'[w] = log[w]
  BY <1>2
<1>3. ASSUME NEW chunk \in Chunks, log'[w] = Append(log[w], chunk)
      PROVE  \A i \in DOMAIN log[w] : i \in DOMAIN log'[w] /\ log'[w][i] = log[w][i]
  BY <1>1, <1>3
<1> QED BY <1>2, <1>3 DEF LogGrows

LEMMA ToldStays ==
    ASSUME Types, LogGrows, NEW s \in Sessions, NEW t, Told(s, t) PROVE Told(s, t)'
<1>1. s \in Writers
  BY DEF Writers
<1>2. PICK i \in DOMAIN log[s] : Tells(log[s][i], t)
  BY DEF Told
<1>3. i \in DOMAIN log'[s] /\ log'[s][i] = log[s][i]
  BY <1>1, LogStays
<1> QED BY <1>2, <1>3 DEF Told, Tells

LEMMA QuietTells ==
    ASSUME Types, LogGrows, NEW t, Silent(t), NEW w \in Writers, NEW i \in DOMAIN log'[w],
           Tells(log'[w][i], t)
    PROVE  i \in DOMAIN log[w] /\ log'[w][i] = log[w][i]
BY LogStays DEF Silent

LEMMA QuietEvidenceOf == ASSUME Inv, NEW t \in Times, QuietAt(t) PROVE EvidenceOf(t)'
<1> USE DEF Inv, QuietAt
<1>0. EvidenceOf(t)
  BY DEF Evidence
<1>1. faults \in Nat /\ faults' \in Nat /\ (faults' = 0 => faults = 0)
  BY DEF Types, LogGrows
<1>2. \A s \in Sessions : Uses(s, t)' => Uses(s, t)
  BY DEF GoesOn, Uses, Busy
<1>3. \A s \in Sessions : Told(s, t) => Told(s, t)'
  BY ToldStays
<1>4. ASSUME named[t] = << >> PROVE Unused(t)'
  <2>1. Unused(t)
    BY <1>0, <1>4 DEF EvidenceOf
  <2>2. \A w \in Writers : \A i \in DOMAIN log'[w] : ~Tells(log'[w][i], t)
    BY <2>1, QuietTells DEF Unused
  <2> QED BY <1>2, <2>1, <2>2 DEF Unused, Tells
<1>5. ASSUME NEW s \in Sessions, named[t] = << s >>
      PROVE  Kept(t, s)' /\ (Uses(s, t)' => Progress(t, s)')
  <2>1. Kept(t, s) /\ (Uses(s, t) => Progress(t, s))
    BY <1>0, <1>5 DEF EvidenceOf
  <2>2. pc[s] # "new" /\ id'[s] = id[s] /\ pc'[s] # "new"
    BY <2>1 DEF Kept, GoesOn
  <2>3. \A w \in Writers : \A i \in DOMAIN log'[w] :
            Tells(log'[w][i], t) => log'[w][i][2].id = id'[s] /\ data'[t] # Missing
    BY <2>1, <2>2, QuietTells DEF Kept
  <2>4. Kept(t, s)'
    BY <1>1, <1>2, <1>3, <2>1, <2>2, <2>3 DEF Kept, Tells
  <2>5. ASSUME Uses(s, t)' PROVE Progress(t, s)'
    <3>1. Progress(t, s) /\ pos'[s] = pos[s]
      BY <1>2, <2>1, <2>5 DEF GoesOn, Uses
    <3>2. CASE pc'[s] = pc[s]
      BY <1>1, <1>3, <3>1, <3>2 DEF Progress
    <3>3. CASE pc'[s] # pc[s]
      <4>1. pc[s] \in {"request", "save"} /\ pc'[s] \in {"save", "copy"} /\ pos[s] = 0
        BY <2>5, <3>3 DEF GoesOn, Uses, AtStart
      <4>2. data[t] = DataOf(<< >>) /\ (faults = 0 => Told(s, t))
        BY <3>1, <4>1 DEF Progress
      <4>3. data[t] # Missing /\ Len(Stored(data[t])) = 0
        BY <4>2, FileValues
      <4> QED BY <1>1, <1>3, <3>1, <4>1, <4>2, <4>3 DEF Progress
    <3> QED BY <3>2, <3>3
  <2> QED BY <2>4, <2>5
<1> QED BY <1>4, <1>5 DEF EvidenceOf

LEMMA QuietEvidence == ASSUME Inv, QuietStep PROVE Evidence'
<1>1. \A t \in Times : QuietAt(t)
  BY DEF QuietStep, QuietAt, QuietLog
<1>2. ASSUME NEW t \in Times PROVE EvidenceOf(t)'
  BY <1>1, QuietEvidenceOf
<1> QED BY <1>2 DEF Evidence

\* One session moves to another label, at which it has written nothing if it
\* is about to name or transfer something.
LEMMA MoveInv ==
    ASSUME Inv, QuietLog, UNCHANGED << meta, data, named, id, base >>, now' \in Times,
           NEW s \in Sessions, NEW label \in Labels \ {"new"},
           pc' = [pc EXCEPT ![s] = label], command' \in [Sessions -> Tools],
           \/ pos' = pos
           \/ label \in {"local", "name"} /\ pos' = [pos EXCEPT ![s] = 0],
           label \in {"local", "name"} => pos'[s] = 0,
           label \in Busy => pc[s] \in {"request", "save"} /\ label \in {"save", "copy"}
    PROVE  Inv' /\ Stays
<1> USE DEF Inv
<1>1. Types'
  <2>1. pos' \in [Sessions -> Nat]
    <3>1. CASE pos' = pos
      BY <3>1 DEF Types
    <3>2. CASE pos' = [pos EXCEPT ![s] = 0]
      BY <3>2 DEF Types
    <3> QED BY <3>1, <3>2
  <2>2. pc' \in [Sessions -> Labels]
    BY DEF Types
  <2> QED BY <2>1, <2>2 DEF Types, QuietLog, LogGrows
<1>2. /\ pc'[s] = label
      /\ \A r \in Sessions \ {s} : pc'[r] = pc[r] /\ pos'[r] = pos[r]
      /\ label \notin {"local", "name"} => pos'[s] = pos[s]
  BY DEF Types
<1>3. AtStart'
  BY <1>2 DEF AtStart, Busy
<1>4. \A r \in Sessions, t \in Times : GoesOn(r, t)
  BY <1>2 DEF GoesOn, Busy
<1> QED BY <1>1, <1>3, <1>4, QuietEvidence DEF QuietStep, QuietLog, Stays, StaysAt

\* No session moves.
LEMMA StillInv ==
    ASSUME Inv, QuietLog, UNCHANGED << meta, data, named, id, base, pos, pc, now, command >>
    PROVE  Inv' /\ Stays
<1> USE DEF Inv
<1>1. Types' /\ AtStart'
  BY DEF Types, QuietLog, LogGrows, AtStart
<1>2. \A r \in Sessions, t \in Times : GoesOn(r, t)
  BY DEF GoesOn
<1> QED BY <1>1, <1>2, QuietEvidence DEF QuietStep, QuietLog, Stays, StaysAt

\* Sessions end; where nothing is on its way nothing changes.
LEMMA DiscardInv ==
    ASSUME Inv, QuietLog, UNCHANGED << meta, data, named, id, now >>,
           NEW gone \in SUBSET Sessions, Discard(gone), pc' \in [Sessions -> Labels],
           \A s \in gone : pc'[s] \in {"ended", "killed"},
           \A s \in Sessions \ gone : pc'[s] = pc[s]
    PROVE  Inv' /\ Stays
<1> USE DEF Inv
<1>1. \A s \in Sessions \ gone : base'[s] = base[s] /\ pos'[s] = pos[s]
  BY DEF Discard
<1>2. command' \in [Sessions -> Tools] /\ pos' \in [Sessions -> Nat]
  BY DEF Discard, Types, Tools
<1>3. base' \in [Sessions -> Times]
  <2>1. 0 \in Times
    BY DownloadsAssumption DEF Times
  <2> QED BY <2>1 DEF Discard, Types
<1>4. Types'
  BY <1>2, <1>3 DEF Types, QuietLog, LogGrows
<1>5. AtStart'
  BY <1>1 DEF AtStart
<1>6. \A s \in Sessions, t \in Times : GoesOn(s, t)
  BY <1>1 DEF GoesOn, Busy
<1> QED BY <1>4, <1>5, <1>6, QuietEvidence DEF QuietStep, QuietLog, Stays, StaysAt

\* What is recorded beside downloads are entries.
LEMMA WordEntry ==
    ASSUME Types, NEW s \in Sessions, NEW kind \in Kinds \ {"Download"},
           NEW word \in Tools \cup {"success", "failure", "start", "shell", "other",
                                     "recording", "summary"}
    PROVE  /\ Entry(kind, id[s], Word(word)) \in Entries
           /\ Entry(kind, NoId, Word(word)) \in Entries
           /\ Entry(kind, id[s], Word(word)).kind # "Download"
           /\ Entry(kind, NoId, Word(word)).kind # "Download"
<1>1. Word(word) \in Whatever
  BY DEF Whatever
<1>2. id[s] \in Times \cup {NoId}
  BY DEF Types
<1> QED BY <1>1, <1>2 DEF Entry, Entries

LEMMA RecordedQuietly ==
    ASSUME Types, NEW s \in Sessions, NEW kind \in Kinds \ {"Download"},
           NEW word \in Tools \cup {"success", "failure", "start", "shell", "other",
                                     "recording", "summary"},
           Record(s, kind, Word(word))
    PROVE  QuietLog
<1>1. s \in Writers
  BY DEF Writers
<1> QED BY <1>1, WordEntry, RecordIsQuiet DEF Record

LEMMA ClockInTimes == ASSUME Types, NEW t, ReadClock(t) PROVE now' \in Times
BY DownloadsAssumption DEF ReadClock, Times, Types

(***************************************************************************)
(* Every action                                                            *)
(***************************************************************************)

LEMMA ConnectInv == ASSUME Inv, NEW s \in Sessions, Connect(s) PROVE Inv' /\ Stays
<1> USE DEF Inv
<1>1. /\ pc[s] = "new" /\ pc' = [pc EXCEPT ![s] = "login"]
      /\ UNCHANGED << log, faults, meta, data, named, base, pos, command >>
  BY DEF Connect, Goto, logVars, fileVars, fetchVars
<1>2. PICK now1 \in Times : ReadClock(now1) /\ id' = [id EXCEPT ![s] = now1]
  BY DEF Connect
<1>3. QuietLog
  BY <1>1, SameLogIsQuiet DEF Types
<1>4. pc' \in [Sessions -> Labels] /\ \A r \in Sessions : pc'[r] = IF r = s THEN "login" ELSE pc[r]
  BY <1>1 DEF Types, Labels
<1>5. Types'
  BY <1>1, <1>2, <1>3, <1>4, ClockInTimes DEF Types, QuietLog, LogGrows
<1>6. AtStart'
  BY <1>1, <1>4 DEF AtStart
<1>7. \A r \in Sessions, t \in Times : GoesOn(r, t)
  BY <1>1, <1>2, <1>4 DEF GoesOn, Busy, Types
<1> QED BY <1>1, <1>3, <1>5, <1>6, <1>7, QuietEvidence
      DEF QuietStep, QuietLog, Stays, StaysAt

LEMMA HandlerInv ==
    ASSUME Inv, NEW s \in Sessions,
           Login(s) \/ OpenTtyLog(s) \/ StartShell(s) \/ UnknownCommand(s) \/ SkipFlag(s)
    PROVE  Inv' /\ Stays
<1> USE DEF Inv
<1>1. command[s] \in Tools
  BY DEF Types
<1>2. QuietLog
  BY <1>1, RecordedQuietly DEF Login, OpenTtyLog, StartShell, UnknownCommand, SkipFlag, Kinds
<1>3. UNCHANGED << meta, data, named, id, base, pos, now, command >>
  BY DEF Login, OpenTtyLog, StartShell, UnknownCommand, SkipFlag, worldVars, fetchVars, fileVars
<1>4. CASE UnknownCommand(s) \/ SkipFlag(s)
  BY <1>2, <1>3, <1>4, StillInv DEF UnknownCommand, SkipFlag
<1>5. CASE Login(s) \/ OpenTtyLog(s) \/ StartShell(s)
  <2>1. PICK label \in {"tty", "start", "ended", "shell"} : pc' = [pc EXCEPT ![s] = label]
    BY <1>5 DEF Login, OpenTtyLog, StartShell, Goto
  <2>2. label \in Labels \ {"new"} /\ label \notin Busy /\ label \notin {"local", "name"}
    BY DEF Labels, Busy
  <2>3. now' \in Times /\ command' \in [Sessions -> Tools]
    BY <1>3 DEF Types
  <2> QED BY <1>2, <1>3, <2>1, <2>2, <2>3, MoveInv
<1> QED BY <1>4, <1>5

LEMMA RunToolInv ==
    ASSUME Inv, NEW s \in Sessions, NEW tool \in Tools, RunTool(s, tool) PROVE Inv' /\ Stays
<1> USE DEF Inv
<1>1. QuietLog
  BY RecordedQuietly DEF RunTool, Kinds
<1>2. /\ UNCHANGED << meta, data, named, id, base, pos, now >>
      /\ command' = [command EXCEPT ![s] = tool] /\ pc' = [pc EXCEPT ![s] = "args"]
  BY DEF RunTool, Goto, worldVars, fetchVars, fileVars
<1>3. now' \in Times /\ command' \in [Sessions -> Tools]
  BY <1>2 DEF Types
<1>4. "args" \in Labels \ {"new"} /\ "args" \notin Busy
  BY DEF Labels, Busy
<1> QED BY <1>1, <1>2, <1>3, <1>4, MoveInv

LEMMA EndSessionInv == ASSUME Inv, NEW s \in Sessions, EndSession(s) PROVE Inv' /\ Stays
<1> USE DEF Inv
<1>1. QuietLog
  BY RecordedQuietly DEF EndSession, Kinds
<1>2. /\ UNCHANGED << meta, data, named, id, now >> /\ Discard({s})
      /\ pc' = [pc EXCEPT ![s] = "ended"]
  BY DEF EndSession, Goto, worldVars, fileVars
<1>3. /\ pc' \in [Sessions -> Labels] /\ pc'[s] = "ended"
      /\ \A r \in Sessions \ {s} : pc'[r] = pc[r]
  BY <1>2 DEF Types, Labels
<1> QED BY <1>1, <1>2, <1>3, DiscardInv

\* Arguments, the session's own file, and the answer of the network.
LEMMA FetchInv ==
    ASSUME Inv, NEW s \in Sessions,
           NextArg(s) \/ NoMoreArgs(s) \/ OpenLocal(s) \/ Request(s) \/ CopyEnds(s)
    PROVE  Inv' /\ Stays
<1> USE DEF Inv
<1>1. /\ UNCHANGED << log, faults, meta, data, named, id, base, now, command >>
  BY DEF NextArg, NoMoreArgs, OpenLocal, Request, CopyEnds, logVars, worldVars, fetchVars, fileVars
<1>2. QuietLog
  BY <1>1, SameLogIsQuiet DEF Types
<1>3. now' \in Times /\ command' \in [Sessions -> Tools]
  BY <1>1 DEF Types
<1>4. CASE NextArg(s)
  <2>1. PICK label \in {"local", "name"} : pc' = [pc EXCEPT ![s] = label]
    BY <1>4 DEF NextArg, Goto
  <2>2. label \in Labels \ {"new"} /\ label \notin Busy
    BY DEF Labels, Busy
  <2>3. pos' = [pos EXCEPT ![s] = 0] /\ pos'[s] = 0
    BY <1>4 DEF NextArg, Types
  <2> QED BY <1>1, <1>2, <1>3, <2>1, <2>2, <2>3, MoveInv
<1>5. CASE ~NextArg(s)
  <2>1. pos' = pos
    BY <1>5 DEF NoMoreArgs, OpenLocal, Request, CopyEnds, fetchVars
  <2>2. PICK label \in {"shell", "args", "name", "save", "copy"} :
            /\ pc' = [pc EXCEPT ![s] = label]
            /\ label = "name" => pc[s] = "local"
            /\ label \in {"save", "copy"} => pc[s] \in {"request", "save"}
    BY <1>5 DEF NoMoreArgs, OpenLocal, Request, CopyEnds, NextOrShell, Goto
  <2>3. label \in Labels \ {"new"} /\ (label \in Busy => label \in {"save", "copy"})
    BY DEF Labels, Busy
  <2>4. label \in {"local", "name"} => pos'[s] = 0
    BY <2>1, <2>2 DEF AtStart
  <2> QED BY <1>1, <1>2, <1>3, <2>1, <2>2, <2>3, <2>4, MoveInv
<1> QED BY <1>4, <1>5

LEMMA NameDownloadInv == ASSUME Inv, NEW s \in Sessions, NameDownload(s) PROVE Inv' /\ Stays
<1> USE DEF Inv
<1>1. /\ pc[s] = "name" /\ pc' = [pc EXCEPT ![s] = "meta"]
      /\ UNCHANGED << log, faults, meta, data, id, pos, command >>
  BY DEF NameDownload, Goto, logVars, fileVars
<1>2. PICK t \in Times : /\ ReadClock(t) /\ base' = [base EXCEPT ![s] = t]
                         /\ named' = [named EXCEPT ![t] = Append(@, s)]
  BY DEF NameDownload
<1>3. LogGrows /\ \A u \in Times : Silent(u)
  BY <1>1, SameLogIsQuiet DEF Types, QuietLog
<1>4. /\ pc'[s] = "meta" /\ base'[s] = t
      /\ \A r \in Sessions \ {s} : pc'[r] = pc[r] /\ base'[r] = base[r]
  BY <1>1, <1>2 DEF Types
<1>5. named[t] \in Seq(Sessions) /\ named'[t] = Append(named[t], s)
  BY <1>2 DEF Types
<1>6. Types'
  <2>1. named' \in [Times -> Seq(Sessions)]
    BY <1>2, <1>5 DEF Types
  <2>2. pc' \in [Sessions -> Labels]
    BY <1>1 DEF Types, Labels
  <2> QED BY <1>1, <1>2, <1>3, <2>1, <2>2, ClockInTimes DEF Types, LogGrows
<1>7. AtStart'
  BY <1>1, <1>4 DEF AtStart
<1>8. ASSUME NEW u \in Times \ {t} PROVE EvidenceOf(u)'
  <2>1. \A r \in Sessions : GoesOn(r, u)
    BY <1>1, <1>4, <1>8 DEF GoesOn, Busy
  <2>2. named'[u] = named[u]
    BY <1>2, <1>8 DEF Types
  <2> QED BY <1>1, <1>3, <2>1, <2>2, QuietEvidenceOf DEF QuietAt
<1>9. EvidenceOf(t)'
  <2>1. CASE named[t] = << >>
    <3>1. Unused(t)
      BY <2>1 DEF Evidence, EvidenceOf
    <3>2. \A r \in Sessions : Uses(r, t)' => r = s
      BY <1>4, <3>1 DEF Unused, Uses
    <3>3. Kept(t, s)' /\ Progress(t, s)'
      BY <1>1, <1>4, <3>1, <3>2, FileValues DEF Kept, Progress, Unused, Tells
    <3>4. named'[t] = << s >>
      BY <1>5, <2>1
    <3>5. \A r \in Sessions : named'[t] = << r >> => r = s
      BY <3>4
    <3>6. named'[t] # << >>
      BY <3>4
    <3> QED BY <3>3, <3>5, <3>6 DEF EvidenceOf
  <2>2. CASE named[t] # << >>
    <3>1. Len(named'[t]) >= 2
      BY <1>5, <2>2
    <3>2. named'[t] # << >> /\ \A r \in Sessions : named'[t] # << r >>
      <4>1. Len(<< >>) = 0 /\ \A r \in Sessions : Len(<< r >>) = 1
        OBVIOUS
      <4>2. Len(named'[t]) # 0 /\ Len(named'[t]) # 1
        BY <1>5, <3>1
      <4> QED BY <4>1, <4>2
    <3> QED BY <3>2 DEF EvidenceOf
  <2> QED BY <2>1, <2>2
<1>10. Evidence'
  BY <1>8, <1>9 DEF Evidence
<1>11. Stays
  <2>1. \A u \in Times : StaysAt(u)
    BY <1>1 DEF StaysAt
  <2>2. \A u \in Times : Len(named'[u]) <= 1 =>
            Len(named[u]) <= 1 /\ (named'[u] = named[u] \/ named[u] = << >>)
    <3>1. \A u \in Times \ {t} : named'[u] = named[u]
      BY <1>2 DEF Types
    <3>2. Len(named'[t]) = Len(named[t]) + 1 /\ Len(named[t]) \in Nat
      BY <1>5
    <3>3. Len(named[t]) = 0 => named[t] = << >>
      BY <1>5
    <3> QED BY <3>1, <3>2, <3>3
  <2> QED BY <1>3, <2>1, <2>2 DEF Stays
<1> QED BY <1>6, <1>7, <1>10, <1>11

\* A step of the only download of a name: what other names have stays.
LEMMA AdvanceInv ==
    ASSUME Inv, Types', AtStart', LogGrows, NEW s \in Sessions, Uses(s, base[s]),
           UNCHANGED << id, base, named >>,
           \A r \in Sessions \ {s} : pc'[r] = pc[r] /\ pos'[r] = pos[r],
           pc'[s] # "new",
           \A u \in Times \ {base[s]} :
               Silent(u) /\ meta'[u] = meta[u] /\ data'[u] = data[u],
           named[base[s]] = << s >> =>
               /\ Kept(base[s], s)' /\ (Uses(s, base[s])' => Progress(base[s], s)')
               /\ StaysAt(base[s])
    PROVE  Inv' /\ Stays
<1> USE DEF Inv
<1> DEFINE t == base[s]
<1>1. t \in Times
  BY DEF Types
<1>2. ASSUME NEW u \in Times \ {t} PROVE EvidenceOf(u)'
  <2>1. \A r \in Sessions : GoesOn(r, u)
    BY <1>2 DEF GoesOn
  <2> QED BY <1>2, <2>1, QuietEvidenceOf DEF QuietAt
<1>3. EvidenceOf(t)'
  <2>1. named[t] # << >>
    BY <1>1 DEF Evidence, EvidenceOf, Unused
  <2>2. ASSUME NEW r \in Sessions, named[t] = << r >> PROVE r = s
    BY <1>1, <2>2 DEF Evidence, EvidenceOf, Kept
  <2> QED BY <2>1, <2>2 DEF EvidenceOf
<1>4. Evidence'
  BY <1>2, <1>3 DEF Evidence
<1>5. Stays
  <2>1. \A u \in Times \ {t} : StaysAt(u)
    BY DEF StaysAt
  <2>2. ASSUME Len(named[t]) <= 1 PROVE StaysAt(t)
    <3>1. named[t] \in Seq(Sessions) /\ named[t] # << >>
      BY <1>1 DEF Types, Evidence, EvidenceOf, Unused
    <3>3. named[t] = << named[t][1] >> /\ named[t][1] \in Sessions
      BY <2>2, <3>1, OneElement
    <3>4. named[t][1] = s
      BY <1>1, <3>3 DEF Evidence, EvidenceOf, Kept
    <3> QED BY <3>3, <3>4
  <2> QED BY <2>1, <2>2 DEF Stays
<1> QED BY <1>4, <1>5

\* A session at a label of Busy uses the download it named.
LEMMA InUse ==
    ASSUME Inv, NEW s \in Sessions, pc[s] \in Busy, named[base[s]] = << s >>
    PROVE  Kept(base[s], s) /\ Progress(base[s], s)
<1>1. base[s] \in Times /\ Uses(s, base[s])
  BY DEF Inv, Types, Uses
<1> QED BY <1>1 DEF Inv, Evidence, EvidenceOf

LEMMA CreateMetaInv == ASSUME Inv, NEW s \in Sessions, CreateMeta(s) PROVE Inv' /\ Stays
<1> USE DEF Inv
<1> DEFINE t == base[s]
<1>1. /\ pc[s] = "meta" /\ UNCHANGED << log, faults, data, named, id, base, pos, now, command >>
  BY DEF CreateMeta, logVars, worldVars, fetchVars
<1>2. PICK label \in {"tell", "shell", "args"} :
          /\ pc' = [pc EXCEPT ![s] = label]
          /\ label = "tell" => meta' = [meta EXCEPT ![t] = TornMeta]
          /\ label # "tell" => meta' = meta
  BY DEF CreateMeta, Goto, NextOrShell
<1>3. /\ pc'[s] = label /\ \A r \in Sessions \ {s} : pc'[r] = pc[r]
      /\ pc' \in [Sessions -> Labels]
  BY <1>2 DEF Types, Labels
<1>4. /\ t \in Times /\ meta' \in [Times -> Metas]
      /\ \A u \in Times \ {t} : meta'[u] = meta[u]
      /\ meta'[t] = IF label = "tell" THEN TornMeta ELSE meta[t]
  BY <1>2 DEF Types, Metas
<1>5. LogGrows /\ \A u \in Times : Silent(u)
  BY <1>1, SameLogIsQuiet DEF Types, QuietLog
<1>6. Types' /\ AtStart'
  BY <1>1, <1>3, <1>4 DEF Types, AtStart
<1>7. pc[s] \in Busy /\ Uses(s, t)
  BY <1>1 DEF Uses, Busy
<1>8. ASSUME named[t] = << s >>
      PROVE  Kept(t, s)' /\ (Uses(s, t)' => Progress(t, s)') /\ StaysAt(t)
  <2>1. Kept(t, s) /\ meta[t] = Missing /\ data[t] = Missing
    BY <1>1, <1>7, <1>8, InUse DEF Progress
  <2>2. \A r \in Sessions : Uses(r, t)' => r = s
    BY <1>1, <1>3, <2>1 DEF Kept, Uses
  <2>3. Kept(t, s)'
    BY <1>1, <1>3, <2>1, <2>2, FileValues DEF Kept, Tells
  <2>4. Uses(s, t)' => Progress(t, s)'
    BY <1>1, <1>3, <1>4, <2>1 DEF Progress, Uses, Busy
  <2>5. StaysAt(t)
    BY <1>1, <2>1 DEF StaysAt
  <2> QED BY <2>3, <2>4, <2>5
<1> QED BY <1>1, <1>3, <1>4, <1>5, <1>6, <1>7, <1>8, AdvanceInv

LEMMA WriteMetaInv == ASSUME Inv, NEW s \in Sessions, WriteMeta(s) PROVE Inv' /\ Stays
<1> USE DEF Inv
<1> DEFINE t == base[s]
<1>1. /\ pc[s] = "tell" /\ UNCHANGED << log, data, named, id, base, pos, now, command >>
      /\ pc' = [pc EXCEPT ![s] = "data"]
  BY DEF WriteMeta, Goto, worldVars, fetchVars
<1>2. \/ meta' = [meta EXCEPT ![t] = MetaOf(s)] /\ faults' = faults
      \/ meta' = meta /\ faults' = faults + 1
  BY DEF WriteMeta
<1>3. /\ pc'[s] = "data" /\ \A r \in Sessions \ {s} : pc'[r] = pc[r]
      /\ pc' \in [Sessions -> Labels]
  BY <1>1 DEF Types, Labels
<1>4. /\ t \in Times /\ meta' \in [Times -> Metas]
      /\ \A u \in Times \ {t} : meta'[u] = meta[u]
  <2>1. t \in Times /\ meta \in [Times -> Metas]
    BY DEF Types
  <2>2. MetaOf(s) \in Metas
    BY DEF Metas
  <2> QED BY <1>2, <2>1, <2>2
<1>5. faults' \in Nat /\ faults <= faults' /\ faults \in Nat
  BY <1>2 DEF Types
<1>6. LogGrows /\ \A u \in Times : Silent(u)
  BY <1>1, <1>5, SameLogIsQuiet DEF QuietLog
<1>7. Types' /\ AtStart'
  BY <1>1, <1>3, <1>4, <1>5 DEF Types, AtStart
<1>8. pc[s] \in Busy /\ Uses(s, t)
  BY <1>1 DEF Uses, Busy
<1>9. ASSUME named[t] = << s >>
      PROVE  Kept(t, s)' /\ (Uses(s, t)' => Progress(t, s)') /\ StaysAt(t)
  <2>1. Kept(t, s) /\ meta[t] = TornMeta /\ data[t] = Missing
    BY <1>1, <1>8, <1>9, InUse DEF Progress
  <2>2. \A r \in Sessions : Uses(r, t)' => r = s
    BY <1>1, <1>3, <2>1 DEF Kept, Uses
  <2>3. Kept(t, s)'
    BY <1>1, <1>3, <2>1, <2>2, FileValues DEF Kept, Tells
  <2>4. \/ meta'[t] = MetaOf(s) /\ faults' = faults
        \/ meta'[t] = TornMeta /\ faults' # 0
    <3>1. meta \in [Times -> Metas] /\ t \in Times
      BY DEF Types
    <3>2. faults + 1 # 0
      BY <1>5
    <3> HIDE DEF t
    <3> QED BY <1>2, <2>1, <3>1, <3>2
  <2>5. Progress(t, s)'
    BY <1>1, <1>3, <2>1, <2>4, FileValues DEF Progress
  <2>6. StaysAt(t)
    BY <1>1, <2>1 DEF StaysAt
  <2> QED BY <2>3, <2>5, <2>6
<1> QED BY <1>1, <1>3, <1>4, <1>6, <1>7, <1>8, <1>9, AdvanceInv

LEMMA CreateDataInv == ASSUME Inv, NEW s \in Sessions, CreateData(s) PROVE Inv' /\ Stays
<1> USE DEF Inv
<1> DEFINE t == base[s]
<1>1. /\ pc[s] = "data" /\ UNCHANGED << log, faults, meta, named, id, base, pos, now, command >>
  BY DEF CreateData, logVars, worldVars, fetchVars
<1>2. PICK label \in {"entry", "shell", "args"} :
          /\ pc' = [pc EXCEPT ![s] = label]
          /\ label = "entry" => data' = [data EXCEPT ![t] = DataOf(<< >>)]
          /\ label # "entry" => data' = data
  BY DEF CreateData, Goto, NextOrShell
<1>3. /\ pc'[s] = label /\ \A r \in Sessions \ {s} : pc'[r] = pc[r]
      /\ pc' \in [Sessions -> Labels]
  BY <1>2 DEF Types, Labels
<1>5. /\ t \in Times /\ data' = [u \in Times |-> data'[u]]
      /\ \A u \in Times \ {t} : data'[u] = data[u]
      /\ data'[t] = IF label = "entry" THEN DataOf(<< >>) ELSE data[t]
  <2>1. t \in Times /\ DOMAIN data = Times
    BY DEF Types
  <2>2. data' = [data EXCEPT ![t] = IF label = "entry" THEN DataOf(<< >>) ELSE data[t]]
    <3>1. CASE label = "entry"
      BY <1>2, <3>1
    <3>2. CASE label # "entry"
      <4>1. data = [data EXCEPT ![t] = data[t]]
        BY DEF Types
      <4> QED BY <1>2, <3>2, <4>1
    <3> QED BY <3>1, <3>2
  <2> QED BY <2>1, <2>2
<1>6. LogGrows /\ \A u \in Times : Silent(u)
  BY <1>1, SameLogIsQuiet DEF Types, QuietLog
<1>7. Types' /\ AtStart'
  BY <1>1, <1>3, <1>5 DEF Types, AtStart
<1>8. pc[s] \in Busy /\ Uses(s, t)
  BY <1>1 DEF Uses, Busy
<1>9. ASSUME named[t] = << s >>
      PROVE  Kept(t, s)' /\ (Uses(s, t)' => Progress(t, s)') /\ StaysAt(t)
  <2>1. /\ Kept(t, s) /\ data[t] = Missing
        /\ meta[t] # Missing /\ (faults = 0 => meta[t] = MetaOf(s))
    BY <1>1, <1>8, <1>9, InUse DEF Progress
  <2>2. \A r \in Sessions : Uses(r, t)' => r = s
    BY <1>1, <1>3, <2>1 DEF Kept, Uses
  <2>3. << >> \in Seq({s})
    OBVIOUS
  <2>4. Stored(data'[t]) = << >>
    BY <1>5, <2>1, FileValues
  <2>5. Kept(t, s)'
    BY <1>1, <1>3, <1>5, <2>1, <2>2, <2>3, <2>4 DEF Kept, Tells
  <2>6. Uses(s, t)' => Progress(t, s)'
    BY <1>1, <1>3, <1>5, <2>1 DEF Progress, Uses, Busy
  <2>7. StaysAt(t)
    BY <1>1, <2>1 DEF StaysAt
  <2> QED BY <2>5, <2>6, <2>7
<1> QED BY <1>1, <1>3, <1>5, <1>6, <1>7, <1>8, <1>9, AdvanceInv
LEMMA NameIsOne == \A t, u : Name(t) = Name(u) => t = u
<1>1. \A t : Name(t)[2] = t
  BY DEF Name
<1> QED BY <1>1

LEMMA LogDownloadInv == ASSUME Inv, NEW s \in Sessions, LogDownload(s) PROVE Inv' /\ Stays
<1> USE DEF Inv
<1> DEFINE t == base[s]
           e == Entry("Download", id[s], Name(t))
<1>1. /\ pc[s] = "entry" /\ UNCHANGED << meta, data, named, id, base, pos, now, command >>
      /\ RecordBy(s, e)
  BY DEF LogDownload, Record, worldVars, fetchVars, fileVars
<1>2. PICK label \in {"copy", "request"} : pc' = [pc EXCEPT ![s] = label]
  BY DEF LogDownload, Goto
<1>3. /\ pc'[s] = label /\ \A r \in Sessions \ {s} : pc'[r] = pc[r]
      /\ pc' \in [Sessions -> Labels]
  BY <1>2 DEF Types, Labels
<1>4. t \in Times /\ s \in Writers
  BY DEF Types, Writers
<1>5. e \in Entries /\ e.id = id[s] /\ e.what = Name(t) /\ e.kind = "Download"
  BY <1>4 DEF Entries, Entry, Kinds, Whatever, Types
<1>6. Line(e) # Torn /\ Line(e)[2] = e
  BY <1>5, LineTells
<1>7. /\ LogGrows
      /\ \A v \in Writers : \A i \in DOMAIN log'[v] \ DOMAIN log[v] : log'[v][i] \in {Line(e), Torn}
      /\ faults' = 0 => faults = 0 /\ \E i \in DOMAIN log'[s] : log'[s][i] = Line(e)
  <2> HIDE DEF e, t
  <2> QED BY <1>1, <1>4, <1>5, RecordGrows
<1>8. ASSUME NEW u \in Times \ {t} PROVE Silent(u)
  <2>1. ~Tells(Line(e), u) /\ ~Tells(Torn, u)
    BY <1>5, <1>6, NameIsOne DEF Tells
  <2> QED BY <1>7, <2>1 DEF Silent
<1>9. Types' /\ AtStart'
  BY <1>1, <1>3, <1>7 DEF Types, AtStart, LogGrows
<1>10. pc[s] \in Busy /\ Uses(s, t) /\ pos[s] = 0
  BY <1>1 DEF Uses, Busy, AtStart
<1>11. ASSUME named[t] = << s >>
       PROVE  Kept(t, s)' /\ (Uses(s, t)' => Progress(t, s)') /\ StaysAt(t)
  <2>1. Kept(t, s) /\ data[t] = DataOf(<< >>)
    BY <1>1, <1>10, <1>11, InUse DEF Progress
  <2>2. data[t] # Missing /\ Stored(data[t]) = << >>
    BY <2>1, FileValues
  <2>3. \A r \in Sessions : Uses(r, t)' => r = s
    BY <1>1, <1>3, <1>10, <2>1 DEF Kept, Uses
  <2>4. ASSUME NEW v \in Writers, NEW i \in DOMAIN log'[v], Tells(log'[v][i], t)
        PROVE  log'[v][i][2].id = id[s]
    <3>1. CASE i \in DOMAIN log[v]
      <4>1. log'[v][i] = log[v][i]
        BY <1>7, <3>1, LogStays
      <4> QED BY <2>1, <2>4, <3>1, <4>1 DEF Kept
    <3>2. CASE i \notin DOMAIN log[v]
      BY <1>5, <1>6, <1>7, <2>4, <3>2 DEF Tells
    <3> QED BY <3>1, <3>2
  <2>5. faults' = 0 => faults = 0 /\ Told(s, t)'
    BY <1>1, <1>5, <1>6, <1>7 DEF Told, Tells
  <2>6. Kept(t, s)'
    BY <1>1, <1>3, <2>1, <2>2, <2>3, <2>4, <2>5 DEF Kept, Tells
  <2>7. Progress(t, s)'
    BY <1>1, <1>3, <1>10, <2>1, <2>2, <2>5 DEF Progress
  <2>8. StaysAt(t)
    BY <1>1 DEF StaysAt
  <2> QED BY <2>6, <2>7, <2>8
<1> QED BY <1>1, <1>3, <1>7, <1>8, <1>9, <1>10, <1>11, AdvanceInv

LEMMA CopyInv == ASSUME Inv, NEW s \in Sessions, Copy(s) PROVE Inv' /\ Stays
<1> USE DEF Inv
<1> DEFINE t == base[s]
           more == DataOf(Written(data[t][2], pos[s], s))
<1>1. /\ pc[s] = "copy" /\ UNCHANGED << log, faults, meta, named, id, base, now, command >>
  BY DEF Copy, logVars, worldVars
<1>2. PICK stored \in BOOLEAN, label \in {"copy", "shell", "args"} :
          /\ pc' = [pc EXCEPT ![s] = label]
          /\ data' = IF stored THEN [data EXCEPT ![t] = more] ELSE data
          /\ pos' = IF stored THEN [pos EXCEPT ![s] = @ + 1] ELSE pos
  BY DEF Copy, Goto, NextOrShell
<1>3. /\ pc'[s] = label /\ \A r \in Sessions \ {s} : pc'[r] = pc[r]
      /\ pc' \in [Sessions -> Labels]
  BY <1>2 DEF Types, Labels
<1>4. t \in Times /\ pos[s] \in Nat
  BY DEF Types
<1>5. /\ data' = [u \in Times |-> data'[u]]
      /\ \A u \in Times \ {t} : data'[u] = data[u]
      /\ data'[t] = IF stored THEN more ELSE data[t]
  <2> HIDE DEF more
  <2> QED BY <1>2, <1>4 DEF Types
<1>6. /\ pos' \in [Sessions -> Nat] /\ \A r \in Sessions \ {s} : pos'[r] = pos[r]
      /\ pos'[s] = IF stored THEN pos[s] + 1 ELSE pos[s]
  <2>1. pos[s] + 1 \in Nat /\ pos \in [Sessions -> Nat]
    BY DEF Types
  <2> QED BY <1>2, <2>1
<1>7. LogGrows /\ \A u \in Times : Silent(u)
  BY <1>1, SameLogIsQuiet DEF Types, QuietLog
<1>8. Types' /\ AtStart'
  BY <1>1, <1>3, <1>5, <1>6 DEF Types, AtStart
<1>9. pc[s] \in Busy /\ Uses(s, t)
  BY <1>1 DEF Uses, Busy
<1>10. ASSUME named[t] = << s >>
       PROVE  Kept(t, s)' /\ (Uses(s, t)' => Progress(t, s)') /\ StaysAt(t)
  <2>1. /\ Kept(t, s) /\ data[t] # Missing /\ Len(Stored(data[t])) = pos[s]
        /\ faults = 0 => Told(s, t)
    BY <1>1, <1>9, <1>10, InUse DEF Progress
  <2>2. PICK p \in Seq({s}) : data[t] = DataOf(p)
    BY <2>1 DEF Kept
  <2>3. Stored(data[t]) = p /\ data[t][2] = p /\ Len(p) = pos[s]
    BY <2>1, <2>2, FileValues DEF DataOf
  <2>4. more = DataOf(Append(p, s))
    BY <2>3, WrittenAtEnd
  <2>5. Append(p, s) \in Seq({s}) /\ Len(Append(p, s)) = Len(p) + 1
    OBVIOUS
  <2>6. PICK q \in Seq({s}) : data'[t] = DataOf(q) /\ Len(q) = pos'[s]
    BY <1>5, <1>6, <2>2, <2>3, <2>4, <2>5
  <2>7. data'[t] # Missing /\ Len(Stored(data'[t])) = pos'[s]
    BY <2>6, FileValues
  <2>8. \A r \in Sessions : Uses(r, t)' => r = s
    BY <1>1, <1>3, <1>9, <2>1 DEF Kept, Uses
  <2>9. faults' = faults /\ (Told(s, t) <=> Told(s, t)')
    BY <1>1 DEF Told, Tells
  <2>10. Kept(t, s)'
    BY <1>1, <1>3, <2>1, <2>6, <2>7, <2>8, <2>9 DEF Kept, Tells
  <2>11. Uses(s, t)' => Progress(t, s)'
    BY <1>1, <1>3, <2>1, <2>7, <2>9 DEF Progress, Uses, Busy
  <2>12. StaysAt(t)
    <3>1. p \in Seq(Sessions)
      OBVIOUS
    <3> QED BY <1>1, <1>5, <2>2, <2>4, <3>1 DEF StaysAt
  <2> QED BY <2>10, <2>11, <2>12
<1> QED BY <1>1, <1>3, <1>5, <1>6, <1>7, <1>8, <1>9, <1>10, AdvanceInv

\* Refused logins and the start of the process.
LEMMA ProcessInv == ASSUME Inv, Refuse \/ Start PROVE Inv' /\ Stays
<1> USE DEF Inv
<1>1. /\ UNCHANGED << meta, data, named, id, base, pos, pc, now, command >>
      /\ \/ RecordBy(Process, Entry("LoginAttempt", NoId, Word("failure")))
         \/ RecordBy(Process, Entry("HoneypotEvent", NoId, Word("start")))
  BY DEF Refuse, Start, fetchVars, fileVars
<1>2. /\ Process \in Writers
      /\ \A e \in {Entry("LoginAttempt", NoId, Word("failure")),
                   Entry("HoneypotEvent", NoId, Word("start"))} :
            e \in Entries /\ e.kind # "Download"
  BY DEF Writers, Entries, Entry, Kinds, Whatever
<1>3. QuietLog
  BY <1>1, <1>2, RecordIsQuiet
<1> QED BY <1>1, <1>3, StillInv

LEMMA KillInv == ASSUME Inv, Kill PROVE Inv' /\ Stays
<1> USE DEF Inv
<1> DEFINE gone == {s \in Sessions : pc[s] # "new"}
<1>1. /\ UNCHANGED << meta, data, named, id, now >> /\ Discard(gone)
      /\ pc' = [s \in Sessions |-> IF pc[s] \in {"new", "ended"} THEN pc[s] ELSE "killed"]
  BY DEF Kill, fileVars
<1>2. /\ pc' \in [Sessions -> Labels] /\ \A s \in gone : pc'[s] \in {"ended", "killed"}
      /\ \A s \in Sessions \ gone : pc'[s] = pc[s]
  BY <1>1 DEF Types, Labels
<1>3. CASE UNCHANGED logVars
  <2>1. QuietLog
    BY <1>3, SameLogIsQuiet DEF Types, logVars
  <2> QED BY <1>1, <1>2, <2>1, DiscardInv
<1>4. CASE faults' = faults + 1 /\ log' = [log EXCEPT ![Process] = Append(@, Torn)]
  <2>1. /\ Process \in Writers /\ Torn \in Chunks /\ \A t \in Times : ~Tells(Torn, t)
    BY TornTellsNothing DEF Writers
  <2>2. log[Process] \in Seq(Chunks) /\ log \in [Writers -> Seq(Chunks)]
    BY <2>1 DEF Types
  <2>3. \A v \in Writers : log'[v] = IF v = Process THEN Append(log[Process], Torn) ELSE log[v]
    BY <1>4, <2>2
  <2>4. Append(log[Process], Torn) \in Seq(Chunks)
    BY <2>1, <2>2
  <2>5. LogGrows
    <3>1. faults' \in Nat /\ faults <= faults'
      BY <1>4 DEF Types
    <3>2. log' \in [Writers -> Seq(Chunks)]
      BY <1>4, <2>2, <2>4
    <3> QED BY <2>1, <2>3, <3>1, <3>2 DEF LogGrows
  <2>6. \A i \in DOMAIN log'[Process] \ DOMAIN log[Process] : log'[Process][i] = Torn
    <3>1. log'[Process] = Append(log[Process], Torn)
      BY <2>1, <2>3
    <3>2. /\ DOMAIN log'[Process] = DOMAIN log[Process] \cup {Len(log[Process]) + 1}
          /\ log'[Process][Len(log[Process]) + 1] = Torn
      BY <2>1, <2>2, <3>1
    <3> QED BY <3>2
  <2>7. \A t \in Times : Silent(t)
    BY <2>1, <2>3, <2>6 DEF Silent
  <2>8. QuietLog
    BY <2>5, <2>7 DEF QuietLog
  <2> QED BY <1>1, <1>2, <2>8, DiscardInv
<1> QED BY <1>3, <1>4 DEF Kill

(***************************************************************************)
(* The theorems                                                            *)
(***************************************************************************)

LEMMA InitInv == Init => Inv
<1> SUFFICES ASSUME Init PROVE Inv
  OBVIOUS
<1>1. 0 \in Times
  BY DownloadsAssumption DEF Times
<1>2. Types
  BY <1>1 DEF Init, Types, Labels, Tools, Metas
<1>3. AtStart
  BY DEF Init, AtStart
<1>4. \A t \in Times : named[t] = << >> /\ Unused(t)
  BY DEF Init, Unused, Uses, Busy
<1>5. \A s : << >> # << s >>
  OBVIOUS
<1> QED BY <1>2, <1>3, <1>4, <1>5 DEF Inv, Evidence, EvidenceOf

LEMMA NextInv == ASSUME Inv, Next PROVE Inv' /\ Stays
<1>1. ASSUME NEW s \in Sessions, Step(s) PROVE Inv' /\ Stays
  <2>1. CASE \E tool \in Tools : RunTool(s, tool)
    BY <2>1, RunToolInv
  <2>2. CASE Login(s) \/ OpenTtyLog(s) \/ StartShell(s) \/ UnknownCommand(s) \/ SkipFlag(s)
    BY <2>2, HandlerInv
  <2>3. CASE NextArg(s) \/ NoMoreArgs(s) \/ OpenLocal(s) \/ Request(s) \/ CopyEnds(s)
    BY <2>3, FetchInv
  <2>4. CASE Connect(s) \/ EndSession(s)
    BY <2>4, ConnectInv, EndSessionInv
  <2>5. CASE NameDownload(s) \/ CreateMeta(s) \/ WriteMeta(s) \/ CreateData(s)
                \/ LogDownload(s) \/ Copy(s)
    BY <2>5, NameDownloadInv, CreateMetaInv, WriteMetaInv, CreateDataInv, LogDownloadInv, CopyInv
  <2> QED BY <1>1, <2>1, <2>2, <2>3, <2>4, <2>5 DEF Step
<1>2. CASE Refuse \/ Start
  BY <1>2, ProcessInv
<1>3. CASE Kill
  BY <1>3, KillInv
<1> QED BY <1>1, <1>2, <1>3 DEF Next

LEMMA StutterInv == ASSUME Inv, UNCHANGED vars PROVE Inv'
<1> USE DEF Inv
<1>1. UNCHANGED << log, faults, meta, data, named, id, base, pos, pc, now, command >>
  BY DEF vars, logVars, worldVars, fetchVars, fileVars
<1>2. QuietLog
  BY <1>1, SameLogIsQuiet DEF Types
<1> QED BY <1>1, <1>2, StillInv

LEMMA Invariance == Spec => []Inv
<1>1. Inv /\ [Next]_vars => Inv'
  BY NextInv, StutterInv
<1> QED BY InitInv, <1>1, PTL DEF Spec

LEMMA InvTraceable == Inv => TraceableDownloads
<1> SUFFICES ASSUME Inv, NEW t \in Times, Sole(t)
             PROVE  LET s == named[t][1]
                        TellsT(chunk) == /\ chunk # Torn /\ chunk[2].kind = "Download"
                                         /\ chunk[2].what = Name(t)
                    IN  /\ \A w \in Writers : \A i \in DOMAIN log[w] :
                              TellsT(log[w][i]) => log[w][i][2].id = id[s] /\ data[t] # Missing
                        /\ data[t] # Missing => meta[t] # Missing /\ (faults = 0 => meta[t] = MetaOf(s))
                        /\ \A i \in DOMAIN Stored(data[t]) : data[t][2][i] = s
                        /\ Stored(data[t]) # << >> /\ faults = 0 =>
                              \E i \in DOMAIN log[s] : TellsT(log[s][i])
  BY DEF TraceableDownloads
<1> DEFINE s == named[t][1]
<1>1. named[t] = << s >> /\ s \in Sessions
  <2>1. named[t] \in Seq(Sessions) /\ Len(named[t]) = 1
    BY DEF Inv, Types, Sole
  <2> QED BY <2>1, OneElement
<1>2. Kept(t, s)
  <2> HIDE DEF s
  <2> QED BY <1>1 DEF Inv, Evidence, EvidenceOf
<1>3. \A i \in DOMAIN Stored(data[t]) : data[t][2][i] = s
  <2>1. CASE data[t] = Missing
    BY <2>1, FileValues
  <2>2. CASE data[t] # Missing
    <3>1. PICK p \in Seq({s}) : data[t] = DataOf(p)
      BY <1>2, <2>2 DEF Kept
    <3>2. Stored(data[t]) = p /\ data[t][2] = p
      BY <3>1, FileValues DEF DataOf
    <3> QED BY <3>1, <3>2
  <2> QED BY <2>1, <2>2
<1> QED BY <1>2, <1>3 DEF Kept, Told, Tells

\* Whatever fails, and whoever is killed: a download the log names exists, with
\* its metadata, and is of the session the log and the metadata name
\* (TenantProcOS.DownloadPath), for any number of sessions and of faults.
THEOREM DownloadsAreTraced == Spec => []TraceableDownloads
BY Invariance, InvTraceable, PTL

LEMMA StaysIsEvidence ==
    ASSUME Inv, Stays
    PROVE  /\ \A w \in Writers : IsPrefix(log[w], log'[w])
           /\ \A t \in Times : Len(named'[t]) <= 1 =>
                 /\ meta[t] = Missing \/ meta[t] = TornMeta \/ meta'[t] = meta[t]
                 /\ IsPrefix(Stored(data[t]), Stored(data'[t]))
<1>1. ASSUME NEW w \in Writers PROVE IsPrefix(log[w], log'[w])
  <2>1. log[w] \in Seq(Chunks)
    BY DEF Inv, Types
  <2>2. log'[w] = log[w] \/ \E chunk \in Chunks : log'[w] = Append(log[w], chunk)
    BY DEF Stays, LogGrows
  <2> QED BY <2>1, <2>2, PrefixOfItself, PrefixOfAppend
<1>2. ASSUME NEW t \in Times, Len(named'[t]) <= 1
      PROVE  IsPrefix(Stored(data[t]), Stored(data'[t]))
  <2>1. Len(named[t]) <= 1 /\ StaysAt(t)
    BY <1>2 DEF Stays
  <2>2. CASE data'[t] = data[t]
    <3>1. data[t] = Missing \/ \E p \in Seq(Sessions) : data[t] = DataOf(p)
      <4>1. CASE named[t] = << >>
        BY <4>1 DEF Inv, Evidence, EvidenceOf, Unused
      <4>2. CASE named[t] # << >>
        <5>1. named[t] = << named[t][1] >> /\ named[t][1] \in Sessions
          BY <2>1, <4>2, OneElement DEF Inv, Types
        <5>2. Kept(t, named[t][1])
          BY <5>1 DEF Inv, Evidence, EvidenceOf
        <5>3. ASSUME NEW p \in Seq({named[t][1]}) PROVE p \in Seq(Sessions)
          BY <5>1
        <5> QED BY <5>2, <5>3 DEF Kept
      <4> QED BY <4>1, <4>2
    <3>2. << >> \in Seq(Sessions)
      OBVIOUS
    <3> QED BY <2>2, <3>1, <3>2, FileValues, PrefixOfItself
  <2>3. CASE data[t] = Missing
    <3>1. Stored(data[t]) = << >>
      BY <2>3, FileValues
    <3>2. \A q : IsPrefix(<< >>, q)
      BY DEF IsPrefix
    <3> QED BY <3>1, <3>2
  <2>4. ASSUME NEW p \in Seq(Sessions), NEW s \in Sessions,
               data[t] = DataOf(p), data'[t] = DataOf(Append(p, s))
        PROVE  IsPrefix(Stored(data[t]), Stored(data'[t]))
    BY <2>4, FileValues, PrefixOfAppend
  <2> QED BY <2>1, <2>2, <2>3, <2>4 DEF StaysAt
<1> QED BY <1>1, <1>2 DEF Stays, StaysAt

\* No step, a kill and a restart included, takes back an entry of the log, the
\* metadata of a session or data that was stored (EvidenceStays).
THEOREM EvidenceIsKept == Spec => EvidenceStays
<1>1. Inv /\ [Next]_vars =>
        [ /\ \A w \in Writers : IsPrefix(log[w], log'[w])
          /\ \A t \in Times : Len(named'[t]) <= 1 =>
                /\ meta[t] = Missing \/ meta[t] = TornMeta \/ meta'[t] = meta[t]
                /\ IsPrefix(Stored(data[t]), Stored(data'[t])) ]_vars
  BY NextInv, StaysIsEvidence
<1> QED BY <1>1, Invariance, PTL DEF Spec, EvidenceStays

(***************************************************************************)
(* The session's own files                                                 *)
(***************************************************************************)

Early == {"local", "name", "meta", "tell", "data", "entry", "request", "save"}

Files == DOMAIN local = Sessions

\* What session s copied came out of the download it is at.
CopiesOf(s) ==
    /\ local[s] \in Seq({s})
    /\ pc[s] \in Early => local[s] = << >>
    /\ pc[s] = "copy" => Len(local[s]) <= pos[s]
    /\ local[s] # << >> =>
          /\ named[base[s]] # << >>
          /\ \A r \in Sessions : named[base[s]] = << r >> =>
                r = s /\ Len(local[s]) <= Len(Stored(data[base[s]]))

Copies == \A s \in Sessions : CopiesOf(s)

\* Session s copies nothing in this step.
Calm(s) ==
    /\ local'[s] = local[s] /\ base'[s] = base[s]
    /\ pc'[s] \in Early => pc[s] \in Early
    /\ pc'[s] = "copy" => pos'[s] = pos[s] /\ pc[s] \in Early \cup {"copy"}

\* A session of its own name finds pieces in its download.
LEMMA StoredOf ==
    ASSUME Inv, NEW t \in Times, NEW s \in Sessions, named[t] = << s >>
    PROVE  Stored(data[t]) \in Seq({s})
<1>1. Kept(t, s)
  BY DEF Inv, Evidence, EvidenceOf
<1>2. << >> \in Seq({s})
  OBVIOUS
<1> QED BY <1>1, <1>2, FileValues DEF Kept

LEMMA StoredGrows ==
    ASSUME Inv, NEW t \in Times, NEW s \in Sessions, named[t] = << s >>, StaysAt(t)
    PROVE  \A n \in Nat \ {0} : n <= Len(Stored(data[t])) => n <= Len(Stored(data'[t]))
<1>1. CASE data'[t] = data[t]
  BY <1>1
<1>2. CASE data[t] = Missing
  <2>1. Len(Stored(data[t])) = 0
    BY <1>2, FileValues
  <2> QED BY <2>1
<1>3. ASSUME NEW p \in Seq(Sessions), NEW r \in Sessions,
             data[t] = DataOf(p), data'[t] = DataOf(Append(p, r))
      PROVE  \A n \in Nat : n <= Len(Stored(data[t])) => n <= Len(Stored(data'[t]))
  <2>1. Stored(data[t]) = p /\ Stored(data'[t]) = Append(p, r)
    BY <1>3, FileValues
  <2>2. Len(Append(p, r)) = Len(p) + 1 /\ Len(p) \in Nat
    OBVIOUS
  <2> QED BY <2>1, <2>2
<1> QED BY <1>1, <1>2, <1>3 DEF StaysAt

LEMMA CalmCopies ==
    ASSUME Inv, Stays, NEW s \in Sessions, CopiesOf(s), Calm(s)
    PROVE  CopiesOf(s)'
<1> DEFINE t == base[s]
<1>1. t \in Times /\ base'[s] = t /\ local'[s] = local[s] /\ local[s] \in Seq({s})
  BY DEF Inv, Types, Calm, CopiesOf
<1>2. pc'[s] \in Early => local'[s] = << >>
  BY DEF Calm, CopiesOf
<1>3. pc'[s] = "copy" => Len(local'[s]) <= pos'[s]
  <2>1. Len(<< >>) <= pos[s]
    BY DEF Inv, Types
  <2> QED BY <2>1 DEF Calm, CopiesOf
<1>4. ASSUME local[s] # << >>
      PROVE  /\ named'[t] # << >>
             /\ \A r \in Sessions : named'[t] = << r >> =>
                   r = s /\ Len(local[s]) <= Len(Stored(data'[t]))
  <2>1. /\ named[t] # << >>
        /\ \A r \in Sessions : named[t] = << r >> =>
              r = s /\ Len(local[s]) <= Len(Stored(data[t]))
    BY <1>4 DEF CopiesOf
  <2>2. /\ Len(<< >>) <= 1 /\ \A r \in Sessions : Len(<< r >>) <= 1
    OBVIOUS
  <2>3. Len(named'[t]) <= 1 => named'[t] = named[t] /\ StaysAt(t)
    BY <1>1, <2>1 DEF Stays
  <2>4. named'[t] # << >>
    BY <2>1, <2>2, <2>3
  <2>5. ASSUME NEW r \in Sessions, named'[t] = << r >>
        PROVE  r = s /\ Len(local[s]) <= Len(Stored(data'[t]))
    <3>1. named[t] = << r >> /\ StaysAt(t)
      BY <2>2, <2>3, <2>5
    <3>2. r = s /\ Len(local[s]) <= Len(Stored(data[t]))
      BY <2>1, <3>1
    <3>3. Len(local[s]) \in Nat \ {0}
      BY <1>1, <1>4
    <3>4. \A n \in Nat \ {0} : n <= Len(Stored(data[t])) => n <= Len(Stored(data'[t]))
      BY <1>1, <3>1, StoredGrows
    <3> QED BY <3>2, <3>3, <3>4
  <2> QED BY <2>4, <2>5
<1> HIDE DEF t
<1> QED BY <1>1, <1>2, <1>3, <1>4 DEF CopiesOf

\* An empty file is a copy of anything.
LEMMA BlankCopies ==
    ASSUME NEW s \in Sessions, local'[s] = << >>, pc'[s] = "copy" => pos'[s] \in Nat
    PROVE  CopiesOf(s)'
<1>1. << >> \in Seq({s}) /\ Len(<< >>) = 0
  OBVIOUS
<1> QED BY <1>1 DEF CopiesOf

LEMMA CopyCopies ==
    ASSUME Inv, Inv', Files, Copies, Stays, NEW s \in Sessions, Copy(s) PROVE Copies'
<1> DEFINE t == base[s]
<1>1. PICK stored \in BOOLEAN, copied \in BOOLEAN :
          /\ pos' = IF stored THEN [pos EXCEPT ![s] = @ + 1] ELSE pos
          /\ local' = IF stored /\ copied /\ command[s] # "scp"
                      THEN [local EXCEPT ![s] = Append(@, s)] ELSE local
          /\ pc' = [pc EXCEPT ![s] = IF stored /\ copied THEN "copy" ELSE NextOrShell(s)]
          /\ UNCHANGED << base, named >> /\ pc[s] = "copy"
  BY DEF Copy, Goto
<1>2. /\ NextOrShell(s) \in {"shell", "args"} /\ t \in Times /\ CopiesOf(s)
      /\ pos \in [Sessions -> Nat] /\ pc \in [Sessions -> Labels] /\ DOMAIN local = Sessions
  BY DEF NextOrShell, Inv, Types, Copies, Files
<1>3. ASSUME NEW r \in Sessions \ {s} PROVE CopiesOf(r)'
  <2>1. Calm(r)
    BY <1>1, <1>2, <1>3 DEF Calm
  <2> QED BY <2>1, CalmCopies DEF Copies
<1>4. CopiesOf(s)'
  <2>1. /\ pc'[s] = IF stored /\ copied THEN "copy" ELSE NextOrShell(s)
        /\ pos'[s] = IF stored THEN pos[s] + 1 ELSE pos[s]
        /\ local'[s] = IF stored /\ copied /\ command[s] # "scp"
                       THEN Append(local[s], s) ELSE local[s]
    BY <1>1, <1>2
  <2>2. /\ local[s] \in Seq({s}) /\ Len(local[s]) <= pos[s]
        /\ Len(local[s]) \in Nat /\ pos[s] \in Nat
    BY <1>1, <1>2 DEF CopiesOf
  <2>3. /\ Append(local[s], s) \in Seq({s})
        /\ Len(Append(local[s], s)) = Len(local[s]) + 1
    BY <2>2
  <2>4. local'[s] \in Seq({s}) /\ Len(local'[s]) <= pos[s] + 1
    BY <2>1, <2>2, <2>3
  <2>5. pc'[s] \notin Early /\ (pc'[s] = "copy" => Len(local'[s]) <= pos'[s])
    BY <1>2, <2>1, <2>4 DEF Early
  <2>6. ASSUME local'[s] # << >>
        PROVE  /\ named[t] # << >>
               /\ \A r \in Sessions : named[t] = << r >> =>
                     r = s /\ Len(local'[s]) <= Len(Stored(data'[t]))
    <3>1. pc[s] \in Busy /\ Uses(s, t)
      BY <1>1 DEF Uses, Busy
    <3>2. /\ named[t] # << >>
          /\ \A r \in Sessions : named[t] = << r >> => r = s
      <4>1. named[t] # << >>
        BY <1>2, <3>1 DEF Inv, Evidence, EvidenceOf, Unused
      <4>2. ASSUME NEW r \in Sessions, named[t] = << r >> PROVE r = s
        BY ZenonT(40), <1>2, <3>1, <4>2 DEF Inv, Evidence, EvidenceOf, Kept
      <4> QED BY <4>1, <4>2
    <3>3. ASSUME named[t] = << s >> PROVE Len(local'[s]) <= Len(Stored(data'[t]))
      <4>1. CASE pc'[s] = "copy"
        <5>1. Uses(s, t)' /\ named'[t] = << s >>
          BY <1>1, <3>3, <4>1 DEF Uses, Busy
        <5>2. Progress(t, s)'
          BY <1>1, <1>2, <5>1 DEF Inv, Evidence, EvidenceOf
        <5> QED BY <1>1, <2>5, <4>1, <5>2 DEF Progress
      <4>2. CASE pc'[s] # "copy"
        <5>1. local'[s] = local[s] /\ Len(local[s]) \in Nat \ {0}
          BY <2>1, <2>2, <2>6, <4>2
        <5>2. Len(Stored(data[t])) = pos[s]
          BY <1>1, <3>1, <3>3, InUse DEF Progress
        <5>3. StaysAt(t)
          <6>1. Len(<< s >>) <= 1
            OBVIOUS
          <6> QED BY <1>1, <1>2, <3>3, <6>1 DEF Stays
        <5>4. \A n \in Nat \ {0} : n <= Len(Stored(data[t])) => n <= Len(Stored(data'[t]))
          BY <1>2, <3>3, <5>3, StoredGrows
        <5> QED BY <2>2, <5>1, <5>2, <5>4
      <4> QED BY <4>1, <4>2
    <3> QED BY <3>2, <3>3
  <2>7. base'[s] = t /\ named' = named
    BY <1>1
  <2> HIDE DEF t
  <2> QED BY <2>4, <2>5, <2>6, <2>7 DEF CopiesOf
<1> QED BY <1>3, <1>4 DEF Copies

\* Every other action leaves each session calm or its file empty.
LEMMA CalmStep ==
    ASSUME Inv, Inv', Copies, Stays,
           \A s \in Sessions : Calm(s) \/ (local'[s] = << >> /\ pc'[s] # "copy")
    PROVE  Copies'
<1>1. ASSUME NEW s \in Sessions PROVE CopiesOf(s)'
  BY CalmCopies, BlankCopies DEF Copies
<1> QED BY <1>1 DEF Copies

LEMMA MovesCalmly ==
    ASSUME Inv, NEW s \in Sessions, NEW label,
           label \in Early => pc[s] \in Early,
           label = "copy" => pc[s] \in Early,
           pc' = [pc EXCEPT ![s] = label], UNCHANGED << local, base, pos >>
    PROVE  \A r \in Sessions : Calm(r)
<1>1. pc \in [Sessions -> Labels]
  BY DEF Inv, Types
<1> QED BY <1>1 DEF Calm

LEMMA NextCopies == ASSUME Inv, Inv', Files, Copies, Stays, Next PROVE Copies'
<1> DEFINE Settled(r) == Calm(r) \/ (local'[r] = << >> /\ pc'[r] # "copy")
<1>1. ASSUME NEW s \in Sessions, Step(s) PROVE Copies'
  <2>1. CASE Copy(s)
    BY <2>1, CopyCopies
  <2>2. CASE UnknownCommand(s) \/ SkipFlag(s)
    <3>1. \A r \in Sessions : Calm(r)
      BY <2>2 DEF UnknownCommand, SkipFlag, fetchVars, Calm
    <3> QED BY <3>1, CalmStep
  <2>3. CASE Connect(s) \/ Login(s) \/ OpenTtyLog(s) \/ StartShell(s) \/ NoMoreArgs(s)
             \/ CopyEnds(s) \/ \E tool \in Tools : RunTool(s, tool)
    <3>1. PICK label \in {"login", "tty", "start", "ended", "shell", "args"} :
              pc' = [pc EXCEPT ![s] = label]
      BY <2>3 DEF Connect, Login, OpenTtyLog, StartShell, NoMoreArgs, CopyEnds, RunTool,
                  NextOrShell, Goto
    <3>2. UNCHANGED << local, base, pos >>
      BY <2>3 DEF Connect, Login, OpenTtyLog, StartShell, NoMoreArgs, CopyEnds, RunTool, fetchVars
    <3>3. label \notin Early /\ label # "copy"
      BY DEF Early
    <3> QED BY <3>1, <3>2, <3>3, MovesCalmly, CalmStep
  <2>4. CASE OpenLocal(s) \/ Request(s) \/ CreateMeta(s) \/ WriteMeta(s) \/ CreateData(s)
             \/ LogDownload(s)
    <3>1. PICK label \in Labels : pc' = [pc EXCEPT ![s] = label] /\ pc[s] \in Early
      BY <2>4 DEF OpenLocal, Request, CreateMeta, WriteMeta, CreateData, LogDownload,
                  NextOrShell, Goto, Early, Labels
    <3>2. UNCHANGED << local, base, pos >>
      BY <2>4 DEF OpenLocal, Request, CreateMeta, WriteMeta, CreateData, LogDownload, fetchVars
    <3> QED BY <3>1, <3>2, MovesCalmly, CalmStep
  <2>5. CASE NextArg(s)
    <3>1. /\ DOMAIN local = Sessions /\ base' = base /\ pc \in [Sessions -> Labels]
          /\ pos \in [Sessions -> Nat]
      BY <2>5 DEF NextArg, Inv, Types, Files
    <3>2. local'[s] = << >> /\ pc'[s] # "copy"
      BY <2>5, <3>1 DEF NextArg, Goto
    <3>3. \A r \in Sessions \ {s} : Calm(r)
      BY <2>5, <3>1 DEF NextArg, Goto, Calm
    <3> QED BY <3>2, <3>3, CalmStep
  <2>6. CASE NameDownload(s)
    <3>1. /\ pc[s] = "name" /\ pc' = [pc EXCEPT ![s] = "meta"] /\ local' = local /\ pos' = pos
          /\ pc \in [Sessions -> Labels]
      BY <2>6 DEF NameDownload, Goto, Inv, Types
    <3>2. local[s] = << >>
      BY <3>1 DEF Copies, CopiesOf, Early
    <3>3. \A r \in Sessions \ {s} : base'[r] = base[r]
      BY <2>6 DEF NameDownload, Inv, Types
    <3>4. \A r \in Sessions \ {s} : Calm(r)
      BY <3>1, <3>3 DEF Calm
    <3> QED BY <3>1, <3>2, <3>4, CalmStep
  <2>7. CASE EndSession(s)
    <3>1. Discard({s}) /\ pc' = [pc EXCEPT ![s] = "ended"] /\ pc \in [Sessions -> Labels]
      BY <2>7 DEF EndSession, Goto, Inv, Types
    <3>2. local'[s] = << >> /\ pc'[s] = "ended"
      BY <3>1 DEF Discard
    <3>3. \A r \in Sessions \ {s} : Calm(r)
      BY <3>1 DEF Discard, Calm
    <3> QED BY <3>2, <3>3, CalmStep
  <2> QED BY <1>1, <2>1, <2>2, <2>3, <2>4, <2>5, <2>6, <2>7 DEF Step
<1>2. CASE Refuse \/ Start
  <2>1. \A r \in Sessions : Calm(r)
    BY <1>2 DEF Refuse, Start, fetchVars, Calm
  <2> QED BY <2>1, CalmStep
<1>3. CASE Kill
  <2>1. \A r \in Sessions : pc[r] # "new" => local'[r] = << >> /\ pc'[r] # "copy"
    BY <1>3 DEF Kill, Discard
  <2>2. \A r \in Sessions : pc[r] = "new" => Calm(r)
    BY <1>3 DEF Kill, Discard, Calm
  <2> QED BY <2>1, <2>2, CalmStep
<1> QED BY <1>1, <1>2, <1>3 DEF Next

LEMMA FilesInvariance == Spec => []Files
<1>1. Init => Files
  BY DEF Init, Files
<1>2. ASSUME Files, Next PROVE Files'
  <2>1. ASSUME NEW s \in Sessions, Step(s) PROVE Files'
    <3>1. CASE Copy(s) \/ NextArg(s) \/ EndSession(s)
      BY <1>2, <3>1 DEF Copy, NextArg, EndSession, Discard, Files
    <3>2. CASE ~(Copy(s) \/ NextArg(s) \/ EndSession(s))
      <4>1. local' = local
        BY <2>1, <3>2 DEF Step, Connect, Login, OpenTtyLog, StartShell, UnknownCommand, RunTool,
             SkipFlag, NoMoreArgs, OpenLocal, NameDownload, CreateMeta, WriteMeta, CreateData,
             LogDownload, Request, CopyEnds, fetchVars
      <4> QED BY <1>2, <4>1 DEF Files
    <3> QED BY <3>1, <3>2
  <2>2. CASE Refuse \/ Kill \/ Start
    BY <1>2, <2>2 DEF Refuse, Kill, Start, Discard, fetchVars, Files
  <2> QED BY <1>2, <2>1, <2>2 DEF Next
<1>3. Files /\ UNCHANGED vars => Files'
  BY DEF Files, vars, fetchVars
<1> QED BY <1>1, <1>2, <1>3, PTL DEF Spec

LEMMA CopiesInvariance == Spec => []Copies
<1>1. Init => Copies
  <2>1. ASSUME NEW s \in Sessions, Init PROVE CopiesOf(s)
    BY <2>1 DEF Init, CopiesOf
  <2> QED BY <2>1 DEF Copies
<1>2. Inv /\ Inv' /\ Files /\ Copies /\ [Next]_vars => Copies'
  <2>1. UNCHANGED vars => (Copies => Copies')
    BY DEF vars, fetchVars, fileVars, Copies, CopiesOf
  <2> QED BY <2>1, NextInv, NextCopies
<1> QED BY <1>1, <1>2, Invariance, FilesInvariance, PTL DEF Spec

\* What a session's file holds of a download with a name of its own is the
\* beginning of what the honeypot keeps of it (io.MultiWriter in wget and curl).
THEOREM CopiesKept == Spec => []CopiesAreKept
<1>1. Inv /\ Copies => CopiesAreKept
  <2> SUFFICES ASSUME Inv, Copies, NEW s \in Sessions, Sole(base[s])
               PROVE  IsPrefix(local[s], Stored(data[base[s]]))
    BY DEF CopiesAreKept
  <2> DEFINE t == base[s]
             kept == Stored(data[t])
  <2>1. t \in Times /\ CopiesOf(s)
    BY DEF Inv, Types, Copies
  <2>2. CASE local[s] = << >>
    BY <2>2 DEF IsPrefix
  <2>3. CASE local[s] # << >>
    <3>1. named[t] \in Seq(Sessions) /\ Len(named[t]) = 1
      BY <2>1 DEF Inv, Types, Sole
    <3>2. named[t] = << named[t][1] >> /\ named[t][1] \in Sessions
      BY <3>1, OneElement
    <3>3. named[t] = << s >> /\ Len(local[s]) <= Len(kept) /\ local[s] \in Seq({s})
      BY <2>1, <2>3, <3>2 DEF CopiesOf
    <3>4. kept \in Seq({s})
      BY <2>1, <3>3, StoredOf
    <3> HIDE DEF kept
    <3>5. SubSeq(kept, 1, Len(local[s])) = local[s]
      BY <3>3, <3>4
    <3> QED BY <3>3, <3>5 DEF IsPrefix, kept
  <2> QED BY <2>2, <2>3
<1> QED BY <1>1, Invariance, CopiesInvariance, PTL

(***************************************************************************)
(* Sizes                                                                   *)
(***************************************************************************)

Pieces == Sessions \cup {"hole"}

\* What is stored of a download fits what was written.
FileSize(t) ==
    data[t] # Missing => \E p \in Seq(Pieces) : data[t] = DataOf(p) /\ Len(p) <= MaxBytes

\* A session writes to a data file that was created,
HasFile(s) ==
    pc[s] \in {"entry", "request", "save", "copy"} => data[base[s]] # Missing

\* and its own file is no longer than that.
OwnFile(s) == local[s] \in Seq({s}) /\ Len(local[s]) <= pos[s]

Counters ==
    /\ faults \in 0 .. MaxTrouble /\ up \in BOOLEAN /\ kills \in 0 .. MaxTrouble
    /\ refused \in 0 .. MaxTrouble
    /\ work \in [Sessions -> 0 .. MaxWork]

Sizes ==
    /\ Counters
    /\ pos \in [Sessions -> 0 .. MaxBytes]
    /\ \A s \in Sessions : HasFile(s) /\ OwnFile(s)
    /\ \A t \in Times : FileSize(t)

\* A write the disk fails is one more trouble.
LEMMA RecordCounts ==
    ASSUME Counters, NEW w, NEW e, RecordBy(w, e) PROVE faults' \in 0 .. MaxTrouble
<1>1. MaxTrouble \in Nat
  BY DownloadsAssumption
<1>2. faults' = faults \/ (Troubles < MaxTrouble /\ faults' = faults + 1)
  BY Zenon DEF RecordBy
<1> QED BY <1>1, <1>2 DEF Counters, Troubles

LEMMA NextCounts == ASSUME Counters, Next PROVE Counters'
<1>0. MaxTrouble \in Nat /\ MaxWork \in Nat
  BY DownloadsAssumption
<1>1. ASSUME NEW s \in Sessions, Step(s) PROVE Counters'
  <2>1. UNCHANGED << up, kills, refused >>
    BY <1>1 DEF Step, Connect, Login, OpenTtyLog, EndSession, StartShell, UnknownCommand, RunTool,
         SkipFlag, NextArg, NoMoreArgs, OpenLocal, NameDownload, CreateMeta, WriteMeta, CreateData,
         LogDownload, Request, Copy, CopyEnds, worldVars, processVars
  <2>2. work' = work \/ Works(s)
    BY <1>1 DEF Step, Connect, Login, OpenTtyLog, EndSession, StartShell, UnknownCommand, RunTool,
         SkipFlag, NextArg, NoMoreArgs, OpenLocal, NameDownload, CreateMeta, WriteMeta, CreateData,
         LogDownload, Request, Copy, CopyEnds
  <2>3. work' \in [Sessions -> 0 .. MaxWork]
    BY <1>0, <1>1, <2>2 DEF Works, Counters
  <2>4. faults' \in 0 .. MaxTrouble
    <3>1. CASE faults' = faults
      BY <1>1, <3>1 DEF Counters
    <3>2. CASE \E e : RecordBy(s, e)
      BY <1>1, <3>2, RecordCounts
    <3>3. CASE WriteMeta(s)
      BY <1>0, <1>1, <3>3 DEF WriteMeta, Troubles, Counters
    <3> QED BY <1>1, <3>1, <3>2, <3>3
         DEF Step, Connect, Login, OpenTtyLog, EndSession, StartShell, UnknownCommand, RunTool,
             SkipFlag, NextArg, NoMoreArgs, OpenLocal, NameDownload, CreateMeta, CreateData,
             LogDownload, Request, Copy, CopyEnds, Record, logVars
  <2> QED BY <1>1, <2>1, <2>3, <2>4 DEF Counters
<1>2. CASE Refuse
  <2>1. faults' \in 0 .. MaxTrouble
    BY <1>2, RecordCounts DEF Refuse
  <2> QED BY <1>0, <1>2, <2>1 DEF Refuse, Counters, Troubles
<1>3. CASE Kill
  <2>1. /\ Troubles < MaxTrouble /\ kills' = kills + 1 /\ up' = FALSE
        /\ UNCHANGED << refused, work >>
        /\ faults' = faults \/ faults' = faults + 1
    BY <1>3, Zenon DEF Kill, logVars
  <2>2. up' \in BOOLEAN
    BY <2>1
  <2>3. faults' \in 0 .. MaxTrouble /\ kills' \in 0 .. MaxTrouble
    <3>1. faults + kills + refused < MaxTrouble
      BY <2>1 DEF Troubles
    <3> QED BY <1>0, <2>1, <3>1 DEF Counters
  <2> QED BY <2>1, <2>2, <2>3 DEF Counters
<1>4. CASE Start
  <2>1. faults' \in 0 .. MaxTrouble
    BY <1>4, RecordCounts DEF Start
  <2> QED BY <1>4, <2>1 DEF Start, Counters
<1> QED BY <1>1, <1>2, <1>3, <1>4 DEF Next

\* One session moves, and no file changes.
LEMMA MoveSizes ==
    ASSUME Inv, Sizes, UNCHANGED << data, base >>,
           NEW s \in Sessions,
           \A r \in Sessions \ {s} :
               pc'[r] = pc[r] /\ pos'[r] = pos[r] /\ local'[r] = local[r],
           pos' \in [Sessions -> 0 .. MaxBytes], OwnFile(s)', HasFile(s)'
    PROVE  /\ pos' \in [Sessions -> 0 .. MaxBytes]
           /\ \A r \in Sessions : HasFile(r)' /\ OwnFile(r)'
           /\ \A t \in Times : FileSize(t)'
<1>1. \A t \in Times : FileSize(t)'
  BY DEF Sizes, FileSize
<1>2. ASSUME NEW r \in Sessions, r # s PROVE HasFile(r)' /\ OwnFile(r)'
  BY <1>2 DEF Sizes, HasFile, OwnFile
<1> QED BY <1>1, <1>2

LEMMA AppendOwn ==
    ASSUME NEW s, NEW q \in Seq({s}), NEW n \in Nat, Len(q) <= n
    PROVE  Append(q, s) \in Seq({s}) /\ Len(Append(q, s)) <= n + 1
OBVIOUS

LEMMA Longer ==
    ASSUME NEW s, NEW q \in Seq({s}), NEW n \in Nat, Len(q) <= n PROVE Len(q) <= n + 1
<1>1. Len(q) \in Nat
  OBVIOUS
<1> QED BY <1>1

\* A write within the bound stays within it.
LEMMA WrittenFits ==
    ASSUME NEW S, NEW p \in Seq(S), NEW max \in Nat, Len(p) <= max,
           NEW offset \in Nat, offset < max, NEW piece \in S, "hole" \in S
    PROVE  Written(p, offset, piece) \in Seq(S) /\ Len(Written(p, offset, piece)) <= max
<1> DEFINE n == IF offset < Len(p) THEN Len(p) ELSE offset + 1
<1>1. n \in Nat /\ n <= max /\ Len(p) \in Nat
  OBVIOUS
<1>2. Written(p, offset, piece) =
          [i \in 1 .. n |-> IF i = offset + 1 THEN piece ELSE IF i <= Len(p) THEN p[i] ELSE "hole"]
  BY DEF Written
<1> HIDE DEF n
<1>3. \A i \in 1 .. n : i <= Len(p) => p[i] \in S
  BY <1>1
<1>4. Written(p, offset, piece) \in [1 .. n -> S]
  BY <1>2, <1>3
<1>5. Written(p, offset, piece) \in Seq(S)
  BY <1>1, <1>4
<1>6. Len(Written(p, offset, piece)) = n
  BY <1>1, <1>2
<1> QED BY <1>1, <1>5, <1>6

LEMMA NextSizes == ASSUME Inv, Files, Sizes, Next PROVE Sizes'
<1>0. MaxBytes \in Nat /\ 0 \in 0 .. MaxBytes
  BY DownloadsAssumption
<1>1. Counters'
  BY NextCounts DEF Sizes
<1>2. ASSUME NEW s \in Sessions, Step(s)
      PROVE  /\ pos' \in [Sessions -> 0 .. MaxBytes]
             /\ \A r \in Sessions : HasFile(r)' /\ OwnFile(r)'
             /\ \A t \in Times : FileSize(t)'
  <2>0. \A r \in Sessions \ {s} : pc'[r] = pc[r]
    BY <1>2 DEF Inv, Types, Step, Goto, Connect, Login, OpenTtyLog, EndSession, StartShell,
         UnknownCommand, RunTool, SkipFlag, NextArg, NoMoreArgs, OpenLocal, NameDownload,
         CreateMeta, WriteMeta, CreateData, LogDownload, Request, Copy, CopyEnds
  <2>1. CASE NextArg(s)
    <3>1. /\ UNCHANGED << data, base >>
          /\ pos' = [pos EXCEPT ![s] = 0] /\ local' = [local EXCEPT ![s] = << >>]
          /\ pc' = [pc EXCEPT ![s] = IF command[s] = "curl" THEN "local" ELSE "name"]
      BY <2>1 DEF NextArg, Goto, fileVars
    <3>2. HasFile(s)'
      BY <3>1 DEF HasFile, Inv, Types
    <3>3. pos' \in [Sessions -> 0 .. MaxBytes] /\ pos'[s] = 0
      BY <1>0, <3>1 DEF Sizes
    <3>5. OwnFile(s)'
      <4>1. local'[s] = << >>
        BY <3>1 DEF Files
      <4> QED BY <3>3, <4>1 DEF OwnFile
    <3>4. \A r \in Sessions \ {s} : pos'[r] = pos[r] /\ local'[r] = local[r]
      BY <3>1
    <3> QED BY <2>0, <3>1, <3>2, <3>3, <3>4, <3>5, MoveSizes
  <2>2. CASE Copy(s)
    <3>1. PICK stored \in BOOLEAN, copied \in BOOLEAN :
              /\ pos[s] < MaxBytes /\ pc[s] = "copy"
              /\ data' = IF stored
                     THEN [data EXCEPT ![base[s]] = DataOf(Written(@[2], pos[s], s))] ELSE data
              /\ local' = IF (stored /\ copied) /\ command[s] # "scp"
                          THEN [local EXCEPT ![s] = Append(@, s)] ELSE local
              /\ pos' = IF stored THEN [pos EXCEPT ![s] = @ + 1] ELSE pos
              /\ base' = base
      BY <2>2, Zenon DEF Copy
    <3>2. pos' \in [Sessions -> 0 .. MaxBytes] /\ \A r \in Sessions \ {s} : pos'[r] = pos[r]
      BY <1>0, <3>1 DEF Sizes
    <3>3. \A r \in Sessions \ {s} : local'[r] = local[r]
      BY <3>1
    <3>4. OwnFile(s)'
      <4>1. OwnFile(s) /\ pos[s] \in Nat
        BY <1>0 DEF Sizes
      <4>2. CASE stored /\ copied /\ command[s] # "scp"
        <5>1. pos'[s] = pos[s] + 1 /\ local'[s] = Append(local[s], s)
          BY <3>1, <4>2 DEF Sizes, Files
        <5> QED BY <4>1, <5>1, AppendOwn DEF OwnFile
      <4>3. CASE ~(stored /\ copied /\ command[s] # "scp")
        <5>1. local' = local /\ (pos'[s] = pos[s] \/ pos'[s] = pos[s] + 1)
          BY <3>1, <4>3 DEF Sizes
        <5> QED BY <4>1, <5>1, Longer DEF OwnFile
      <4> QED BY <4>2, <4>3
    <3>5. \A t \in Times : FileSize(t)' /\ (data[t] # Missing => data'[t] # Missing)
      <4>1. base[s] \in Times /\ data = [t \in Times |-> data[t]]
        BY DEF Inv, Types
      <4>2. PICK p \in Seq(Pieces) : data[base[s]] = DataOf(p) /\ Len(p) <= MaxBytes
        BY <3>1, <4>1 DEF Sizes, HasFile, FileSize
      <4>3. data[base[s]][2] = p
        BY <4>2 DEF DataOf
      <4>4. pos[s] \in Nat /\ pos[s] < MaxBytes /\ s \in Pieces /\ "hole" \in Pieces
        BY <1>0, <3>1 DEF Sizes, Pieces
      <4> DEFINE w == Written(p, pos[s], s)
      <4>6. w \in Seq(Pieces) /\ Len(w) <= MaxBytes
        BY <1>0, <4>2, <4>4, WrittenFits
      <4> HIDE DEF w
      <4>7. CASE stored
        <5>1. data' = [data EXCEPT ![base[s]] = DataOf(w)]
          BY <3>1, <4>3, <4>7 DEF w
        <5> QED BY <4>1, <4>6, <5>1, FileValues DEF FileSize, Sizes
      <4>8. CASE ~stored
        BY <3>1, <4>8 DEF FileSize, Sizes
      <4> QED BY <4>7, <4>8
    <3>6. \A r \in Sessions : HasFile(r)'
      <4>1. \A r \in Sessions : base[r] \in Times
        BY DEF Inv, Types
      <4>2. HasFile(s)'
        BY <3>1, <3>5, <4>1 DEF HasFile, Sizes
      <4> QED BY <2>0, <3>1, <3>5, <4>1, <4>2 DEF HasFile, Sizes
    <3>7. \A r \in Sessions \ {s} : OwnFile(r)'
      BY <3>2, <3>3 DEF OwnFile, Sizes
    <3> QED BY <3>2, <3>4, <3>5, <3>6, <3>7
  <2>3. CASE CreateData(s)
    <3>1. UNCHANGED << base, pos, local >>
      BY <2>3 DEF CreateData, fetchVars
    <3>2. \A r \in Sessions : OwnFile(r)'
      BY <3>1 DEF OwnFile, Sizes
    <3>3. << >> \in Seq(Pieces) /\ Len(<< >>) <= MaxBytes
      BY <1>0
    <3>4. \A t \in Times : FileSize(t)'
      BY <2>3, <3>3 DEF CreateData, FileSize, Sizes, Inv, Types
    <3>5. \A r \in Sessions : HasFile(r)'
      <4>1. /\ \A r \in Sessions : base[r] \in Times
            /\ \A t \in Times : data[t] # Missing => data'[t] # Missing
            /\ pc'[s] = "entry" => data'[base[s]] # Missing
            /\ pc'[s] \in {"entry", "shell", "args"}
        BY <2>3, FileValues DEF CreateData, Inv, Types, NextOrShell, Goto
      <4> QED BY <2>0, <3>1, <4>1 DEF HasFile, Sizes
    <3> QED BY <3>1, <3>2, <3>4, <3>5 DEF Sizes
  <2>4. CASE NameDownload(s)
    <3>1. /\ UNCHANGED << data, pos, local >> /\ pc' = [pc EXCEPT ![s] = "meta"]
          /\ \E t \in Times : base' = [base EXCEPT ![s] = t]
      BY <2>4 DEF NameDownload, Goto, fileVars
    <3>2. \A r \in Sessions : OwnFile(r)'
      BY <3>1 DEF OwnFile, Sizes
    <3>4. \A t \in Times : FileSize(t)'
      BY <3>1 DEF FileSize, Sizes
    <3>5. \A r \in Sessions : HasFile(r)'
      BY <3>1 DEF HasFile, Sizes, Inv, Types
    <3> QED BY <3>1, <3>2, <3>4, <3>5 DEF Sizes
  <2>5. CASE EndSession(s)
    <3>1. UNCHANGED data /\ pc' = [pc EXCEPT ![s] = "ended"] /\ Discard({s})
      BY <2>5 DEF EndSession, Goto, fileVars
    <3>2. \A r \in Sessions : OwnFile(r)'
      BY <3>1 DEF OwnFile, Sizes, Discard
    <3>3. pos' \in [Sessions -> 0 .. MaxBytes]
      BY <1>0, <3>1 DEF Sizes, Discard
    <3>4. \A t \in Times : FileSize(t)'
      BY <3>1 DEF FileSize, Sizes
    <3>5. \A r \in Sessions : HasFile(r)'
      BY <3>1 DEF HasFile, Sizes, Discard, Inv, Types
    <3> QED BY <3>2, <3>3, <3>4, <3>5 DEF Sizes
  <2>6. CASE ~(NextArg(s) \/ Copy(s) \/ CreateData(s) \/ NameDownload(s) \/ EndSession(s))
    <3>1. UNCHANGED << data, base, pos, local >>
      BY <1>2, <2>6 DEF Step, Connect, Login, OpenTtyLog, StartShell, UnknownCommand, RunTool,
           SkipFlag, NoMoreArgs, OpenLocal, CreateMeta, WriteMeta, LogDownload, Request, CopyEnds,
           fetchVars, fileVars
    <3>2. HasFile(s)'
      BY <1>2, <2>6, <3>1 DEF Step, Connect, Login, OpenTtyLog, StartShell, UnknownCommand, RunTool,
           SkipFlag, NoMoreArgs, OpenLocal, CreateMeta, WriteMeta, LogDownload, Request, CopyEnds,
           Goto, NextOrShell, HasFile, Sizes, Inv, Types
    <3>3. OwnFile(s)' /\ pos' \in [Sessions -> 0 .. MaxBytes]
      BY <3>1 DEF OwnFile, Sizes
    <3> QED BY <2>0, <3>1, <3>2, <3>3, MoveSizes
  <2> QED BY <2>1, <2>2, <2>3, <2>4, <2>5, <2>6
<1>3. CASE Refuse \/ Start
  <2>1. UNCHANGED << pc, base, pos, local, data >>
    BY <1>3 DEF Refuse, Start, fetchVars, fileVars
  <2> QED BY <1>1, <2>1 DEF Sizes, HasFile, OwnFile, FileSize
<1>4. CASE Kill
  <2>1. /\ UNCHANGED data /\ Discard({r \in Sessions : pc[r] # "new"})
        /\ pc' = [r \in Sessions |-> IF pc[r] \in {"new", "ended"} THEN pc[r] ELSE "killed"]
    BY <1>4 DEF Kill, fileVars
  <2>2. \A r \in Sessions : OwnFile(r)'
    BY <2>1 DEF OwnFile, Sizes, Discard
  <2>3. pos' \in [Sessions -> 0 .. MaxBytes]
    BY <1>0, <2>1 DEF Sizes, Discard
  <2>4. \A t \in Times : FileSize(t)'
    BY <2>1 DEF FileSize, Sizes
  <2>5. \A r \in Sessions : HasFile(r)'
    BY <2>1 DEF HasFile
  <2> QED BY <1>1, <2>2, <2>3, <2>4, <2>5 DEF Sizes
<1>5. (\A s \in Sessions : ~Step(s)) => Refuse \/ Start \/ Kill
  BY DEF Next
<1> QED BY <1>1, <1>2, <1>3, <1>4, <1>5 DEF Sizes
LEMMA InitSizes == Init => Sizes
<1> SUFFICES ASSUME Init PROVE Sizes
  OBVIOUS
<1>1. 0 \in 0 .. MaxTrouble /\ 0 \in 0 .. MaxBytes /\ 0 \in 0 .. MaxWork
  BY DownloadsAssumption
<1>2. Counters /\ pos \in [Sessions -> 0 .. MaxBytes]
  BY <1>1 DEF Init, Counters
<1>3. \A s \in Sessions : << >> \in Seq({s}) /\ Len(<< >>) <= 0
  OBVIOUS
<1>4. \A s \in Sessions : HasFile(s) /\ OwnFile(s)
  BY <1>3 DEF Init, HasFile, OwnFile
<1> QED BY <1>2, <1>4 DEF Init, Sizes, FileSize

LEMMA SizesInvariance == Spec => []Sizes
<1>1. Inv /\ Files /\ Sizes /\ UNCHANGED vars => Sizes'
  BY DEF vars, logVars, worldVars, processVars, fetchVars, fileVars, Sizes, Counters, HasFile,
         OwnFile, FileSize
<1>2. Inv /\ Files /\ Sizes /\ [Next]_vars => Sizes'
  BY <1>1, NextSizes
<1> QED BY <1>2, InitSizes, Invariance, FilesInvariance, PTL DEF Spec

\* Every variable keeps its type and its bound (TypeOK), the files that names
\* share included: no transfer makes a download or a session's own file longer
\* than what one of them has written.
THEOREM TypeCorrect == Spec => []TypeOK
<1>1. Inv /\ Sizes => TypeOK
  <2> SUFFICES ASSUME Inv, Sizes PROVE TypeOK
    OBVIOUS
  <2>1. Types
    BY DEF Inv
  <2>2. \A w \in Writers : \A i \in DOMAIN log[w] :
            \/ log[w][i] = Torn
            \/ /\ log[w][i][1] = "line"
               /\ log[w][i][2] \in [kind : Kinds, id : Times \cup {NoId}, what : Whatever]
    <3> SUFFICES ASSUME NEW w \in Writers, NEW i \in DOMAIN log[w], log[w][i] # Torn
                 PROVE  log[w][i][1] = "line" /\ log[w][i][2] \in Entries
      BY DEF Entries
    <3>1. log[w] \in Seq(Chunks)
      BY <2>1 DEF Types
    <3>2. log[w][i] \in Chunks
      BY <3>1
    <3>3. PICK e \in Entries : log[w][i] = Line(e)
      BY <3>2 DEF Chunks
    <3> QED BY <3>3 DEF Line
  <2>3. \A s \in Sessions : local[s] \in Seq({s}) /\ Len(local[s]) <= MaxBytes
    <3> TAKE s \in Sessions
    <3>1. local[s] \in Seq({s}) /\ Len(local[s]) <= pos[s] /\ pos[s] \in 0 .. MaxBytes
      BY DEF Sizes, OwnFile
    <3>2. Len(local[s]) \in Nat /\ MaxBytes \in Nat
      BY <3>1, DownloadsAssumption
    <3> QED BY <3>1, <3>2
  <2>4. \A t \in Times :
            data[t] # Missing => /\ data[t][2] \in Seq(Sessions \cup {"hole"})
                                 /\ Len(data[t][2]) <= MaxBytes
    BY DEF Sizes, FileSize, Pieces, DataOf
  <2> QED BY <2>1, <2>2, <2>3, <2>4 DEF TypeOK, Types, Sizes, Counters, Metas
<1> QED BY <1>1, Invariance, SizesInvariance, PTL

(***************************************************************************)
(* What is selected of a sequence                                          *)
(***************************************************************************)

\* Selected goes element by element.
Selecting(q, kept) ==
    LET taken[n \in 0 .. Len(q)] ==
            IF n = 0 THEN << >>
            ELSE IF q[n] \in kept THEN Append(taken[n - 1], q[n]) ELSE taken[n - 1]
    IN  taken

LEMMA SelectingIs ==
    ASSUME NEW T, NEW q \in Seq(T), NEW kept
    PROVE  /\ Selecting(q, kept)[0] = << >>
           /\ \A n \in 1 .. Len(q) :
                 Selecting(q, kept)[n] =
                     IF q[n] \in kept THEN Append(Selecting(q, kept)[n - 1], q[n])
                     ELSE Selecting(q, kept)[n - 1]
           /\ Selected(q, kept) = Selecting(q, kept)[Len(q)]
<1> DEFINE Turn(g, n) == IF n = 0 THEN << >>
                         ELSE IF q[n] \in kept THEN Append(g[n - 1], q[n]) ELSE g[n - 1]
           S == {m \in 0 .. Len(q) : \E g : g = [n \in 0 .. m |-> Turn(g, n)]}
<1>0. Len(q) \in Nat
  OBVIOUS
<1>1. 0 \in S
  <2> DEFINE g == [n \in 0 .. 0 |-> << >>]
  <2>1. g = [n \in 0 .. 0 |-> Turn(g, n)]
    OBVIOUS
  <2>2. 0 \in 0 .. Len(q)
    BY <1>0
  <2> HIDE DEF g, Turn
  <2> QED BY <2>1, <2>2
<1>2. ASSUME NEW m \in 0 .. Len(q) - 1, m \in S PROVE m + 1 \in S
  <2>1. PICK g : g = [n \in 0 .. m |-> Turn(g, n)]
    BY <1>2
  <2> DEFINE h == [n \in 0 .. m + 1 |-> IF n <= m THEN g[n] ELSE Turn(g, n)]
  <2>2. \A n \in 0 .. m + 1 : h[n] = Turn(h, n)
    <3> TAKE n \in 0 .. m + 1
    <3>1. CASE n <= m
      <4>0. g[n] = Turn(g, n)
        <5> HIDE DEF Turn, h
        <5>1. n \in 0 .. m
          BY <3>1
        <5> QED BY <2>1, <5>1
      <4>1. h[n] = Turn(g, n)
        <5> HIDE DEF Turn
        <5> QED BY <4>0, <3>1
      <4>2. n # 0 => h[n - 1] = g[n - 1]
        BY <3>1
      <4> HIDE DEF h
      <4> QED BY <4>1, <4>2
    <3>2. CASE n = m + 1
      <4>1. h[n] = Turn(g, n) /\ (n # 0 => h[n - 1] = g[n - 1])
        BY <3>2
      <4> HIDE DEF h
      <4> QED BY <4>1
    <3> QED BY <3>1, <3>2
  <2>3. h = [n \in 0 .. m + 1 |-> h[n]]
    OBVIOUS
  <2>4. h = [n \in 0 .. m + 1 |-> Turn(h, n)]
    <3> HIDE DEF h
    <3> QED BY <2>2, <2>3
  <2>5. m + 1 \in 0 .. Len(q)
    BY <1>0
  <2> HIDE DEF h, Turn
  <2> QED BY <2>4, <2>5
<1>3. Len(q) \in S
  <2> HIDE DEF S
  <2>1. 0 .. Len(q) \subseteq S
    BY <1>0, <1>1, <1>2, Induction
  <2> QED BY <1>0, <2>1
<1>4. Selecting(q, kept) = [n \in 0 .. Len(q) |-> Turn(Selecting(q, kept), n)]
  <2>1. PICK g : g = [n \in 0 .. Len(q) |-> Turn(g, n)]
    BY <1>3
  <2> QED BY <2>1 DEF Selecting
<1> DEFINE u == Selecting(q, kept)
<1>5. \A n \in 0 .. Len(q) : u[n] = Turn(u, n)
  <2> HIDE DEF Turn
  <2> QED BY <1>4
<1> HIDE DEF u
<1>6. u[0] = << >>
  BY <1>0, <1>5
<1>7. \A n \in 1 .. Len(q) : u[n] = IF q[n] \in kept THEN Append(u[n - 1], q[n]) ELSE u[n - 1]
  BY <1>0, <1>5
<1>8. Selected(q, kept) = u[Len(q)]
  BY DEF Selected, Selecting, u
<1> QED BY <1>6, <1>7, <1>8 DEF u

\* A selection that is written down: s[n] is what is selected of the first n elements.
Selects(s, q, kept) ==
    /\ s[0] = << >>
    /\ \A n \in 1 .. Len(q) :
          s[n] = IF q[n] \in kept THEN Append(s[n - 1], q[n]) ELSE s[n - 1]

LEMMA SelectedIs ==
    ASSUME NEW T, NEW q \in Seq(T), NEW kept
    PROVE  /\ Selects(Selecting(q, kept), q, kept)
           /\ Selected(q, kept) = Selecting(q, kept)[Len(q)]
BY SelectingIs DEF Selects

LEMMA TwoAppends ==
    ASSUME NEW T, NEW s \in Seq(T), NEW x \in T
    PROVE  /\ Append(s, x) \in Seq(T) /\ Len(Append(s, x)) = Len(s) + 1
           /\ DOMAIN Append(s, x) = DOMAIN s \cup {Len(s) + 1}
           /\ Append(s, x)[Len(s) + 1] = x
           /\ \A i \in DOMAIN s : Append(s, x)[i] = s[i]
OBVIOUS

\* What a selection holds: the elements that are kept, and no others.
Holds(r, q, n, kept, T) ==
    /\ r \in Seq(T)
    /\ \A i \in DOMAIN r : r[i] \in kept /\ \E j \in 1 .. n : q[j] = r[i]
    /\ \A j \in 1 .. n : q[j] \in kept => \E i \in DOMAIN r : r[i] = q[j]

LEMMA SelectsElements ==
    ASSUME NEW T, NEW q \in Seq(T), NEW kept, NEW s, Selects(s, q, kept)
    PROVE  \A n \in 0 .. Len(q) : Holds(s[n], q, n, kept, T)
<1> DEFINE Good(n) == Holds(s[n], q, n, kept, T)
           S == {n \in 0 .. Len(q) : Good(n)}
<1> USE DEF Holds
<1>0. Len(q) \in Nat
  OBVIOUS
<1>1. 0 \in S
  <2>1. s[0] = << >> /\ 0 \in 0 .. Len(q)
    BY <1>0 DEF Selects
  <2>2. << >> \in Seq(T) /\ \A i \in DOMAIN << >> : FALSE
    OBVIOUS
  <2>3. \A j \in 1 .. 0 : FALSE
    OBVIOUS
  <2> QED BY <2>1, <2>2, <2>3
<1>2. ASSUME NEW n \in 0 .. Len(q) - 1, n \in S PROVE n + 1 \in S
  <2>1. n + 1 \in 1 .. Len(q) /\ n + 1 \in 0 .. Len(q) /\ n + 1 - 1 = n /\ Good(n) /\ n \in Nat
    BY <1>0, <1>2
  <2>6. s[n + 1] = IF q[n + 1] \in kept THEN Append(s[n], q[n + 1]) ELSE s[n]
    <3> HIDE DEF Good, S
    <3> QED BY <2>1 DEF Selects
  <2> HIDE DEF S
  <2>2. \A j \in 1 .. n + 1 : j \in 1 .. n \/ j = n + 1
    BY <2>1
  <2>3. q[n + 1] \in T
    BY <2>1
  <2>4. CASE q[n + 1] \in kept
    <3>1. s[n + 1] = Append(s[n], q[n + 1])
      BY <2>4, <2>6
    <3> DEFINE x == q[n + 1]
               v == s[n]
               w == s[n + 1]
    <3>2. /\ w \in Seq(T)
          /\ DOMAIN w = DOMAIN v \cup {Len(v) + 1}
          /\ w[Len(v) + 1] = x
          /\ \A i \in DOMAIN v : w[i] = v[i]
      <4>1. v \in Seq(T) /\ x \in T /\ w = Append(v, x)
        BY <2>1, <2>3, <3>1
      <4> HIDE DEF x, v, w
      <4> QED BY <4>1, TwoAppends
    <3>3. \A i \in DOMAIN v : v[i] \in kept /\ \E j \in 1 .. n : q[j] = v[i]
      BY <2>1
    <3>4. \A j \in 1 .. n : q[j] \in kept => \E i \in DOMAIN v : v[i] = q[j]
      BY <2>1
    <3>5. x \in kept /\ x = q[n + 1] /\ n + 1 \in 1 .. n + 1 /\ \A j \in 1 .. n : j \in 1 .. n + 1
      BY <2>1, <2>4
    <3> HIDE DEF x, v, w
    <3>6. \A i \in DOMAIN w : w[i] \in kept /\ \E j \in 1 .. n + 1 : q[j] = w[i]
      BY <3>2, <3>3, <3>5
    <3>7. \A j \in 1 .. n + 1 : q[j] \in kept => \E i \in DOMAIN w : w[i] = q[j]
      BY <2>2, <3>2, <3>4, <3>5
    <3> QED BY <2>1, <3>2, <3>6, <3>7 DEF S, w
  <2>5. CASE q[n + 1] \notin kept
    <3>1. s[n + 1] = s[n]
      BY <2>5, <2>6
    <3>2. \A i \in DOMAIN s[n] : \E j \in 1 .. n + 1 : q[j] = s[n][i]
      <4>1. \A i \in DOMAIN s[n] : \E j \in 1 .. n : q[j] = s[n][i]
        BY <2>1
      <4>2. \A j \in 1 .. n : j \in 1 .. n + 1
        BY <2>1
      <4> QED BY <4>1, <4>2, Zenon
    <3> QED BY <2>1, <2>2, <2>5, <3>1, <3>2 DEF S
  <2> QED BY <2>4, <2>5
<1> HIDE DEF S
<1>3. 0 .. Len(q) \subseteq S
  BY <1>0, <1>1, <1>2, Induction
<1> QED BY <1>3 DEF S

LEMMA SelectedElements ==
    ASSUME NEW T, NEW q \in Seq(T), NEW kept, NEW r, r = Selected(q, kept)
    PROVE  /\ r \in Seq(T)
           /\ \A i \in DOMAIN r : r[i] \in kept /\ \E j \in DOMAIN q : q[j] = r[i]
           /\ \A j \in DOMAIN q : q[j] \in kept => \E i \in DOMAIN r : r[i] = q[j]
<1>1. Len(q) \in 0 .. Len(q) /\ DOMAIN q = 1 .. Len(q)
  OBVIOUS
<1>2. PICK s : Selects(s, q, kept) /\ r = s[Len(q)]
  BY SelectedIs
<1>3. Holds(r, q, Len(q), kept, T)
  BY <1>1, <1>2, SelectsElements, Zenon
<1> QED BY <1>1, <1>3 DEF Holds

\* Whether two sets are told apart by no element of a sequence, they select the same.
LEMMA SelectedSame ==
    ASSUME NEW T, NEW q \in Seq(T), NEW kept, NEW other,
           \A i \in DOMAIN q : q[i] \in kept <=> q[i] \in other
    PROVE  Selected(q, kept) = Selected(q, other)
<1> DEFINE s == Selecting(q, kept)
           t == Selecting(q, other)
           S == {n \in 0 .. Len(q) : s[n] = t[n]}
<1>0. Len(q) \in Nat /\ DOMAIN q = 1 .. Len(q)
  OBVIOUS
<1>1. Selects(s, q, kept) /\ Selects(t, q, other)
  BY SelectedIs
<1>2. Selected(q, kept) = s[Len(q)] /\ Selected(q, other) = t[Len(q)]
  BY SelectedIs
<1> HIDE DEF s, t
<1>3. 0 \in S
  BY <1>0, <1>1 DEF Selects
<1>4. ASSUME NEW n \in 0 .. Len(q) - 1, n \in S PROVE n + 1 \in S
  <2>1. n + 1 \in 1 .. Len(q) /\ n + 1 \in 0 .. Len(q) /\ n + 1 - 1 = n
    BY <1>0
  <2> QED BY <1>0, <1>1, <1>4, <2>1 DEF Selects
<1> HIDE DEF S
<1>5. 0 .. Len(q) \subseteq S
  BY <1>0, <1>3, <1>4, Induction
<1> QED BY <1>0, <1>2, <1>5 DEF S

\* A step of a selection.
LEMMA SelectsStep ==
    ASSUME NEW s, NEW q, NEW kept, Selects(s, q, kept), NEW n \in Nat, n + 1 \in 1 .. Len(q)
    PROVE  s[n + 1] = IF q[n + 1] \in kept THEN Append(s[n], q[n + 1]) ELSE s[n]
<1>1. n + 1 - 1 = n
  OBVIOUS
<1> QED BY <1>1 DEF Selects

LEMMA SelectedAll ==
    ASSUME NEW T, NEW q \in Seq(T), NEW kept, \A i \in DOMAIN q : q[i] \in kept
    PROVE  Selected(q, kept) = q
<1> DEFINE s == Selecting(q, kept)
           S == {n \in 0 .. Len(q) : s[n] = SubSeq(q, 1, n)}
<1>0. Len(q) \in Nat /\ DOMAIN q = 1 .. Len(q) /\ SubSeq(q, 1, Len(q)) = q
  OBVIOUS
<1>1. Selects(s, q, kept) /\ Selected(q, kept) = s[Len(q)]
  BY SelectedIs
<1> HIDE DEF s
<1>2. 0 \in S
  <2>1. SubSeq(q, 1, 0) = << >> /\ 0 \in 0 .. Len(q)
    BY <1>0
  <2>2. s[0] = << >>
    BY <1>1 DEF Selects
  <2> QED BY <2>1, <2>2
<1>3. ASSUME NEW n \in 0 .. Len(q) - 1, n \in S PROVE n + 1 \in S
  <2>1. n \in Nat /\ n + 1 \in 1 .. Len(q) /\ n + 1 \in 0 .. Len(q)
    BY <1>0
  <2>2. s[n + 1] = Append(s[n], q[n + 1])
    <3>1. q[n + 1] \in kept
      BY <1>0, <2>1
    <3> QED BY <1>1, <2>1, <3>1, SelectsStep
  <2>3. SubSeq(q, 1, n + 1) = Append(SubSeq(q, 1, n), q[n + 1])
    BY <2>1
  <2> QED BY <1>3, <2>1, <2>2, <2>3
<1> HIDE DEF S
<1>4. 0 .. Len(q) \subseteq S
  BY <1>0, <1>2, <1>3, Induction
<1> QED BY <1>0, <1>1, <1>4 DEF S

LEMMA SelectedNone ==
    ASSUME NEW T, NEW q \in Seq(T), NEW kept, \A i \in DOMAIN q : q[i] \notin kept
    PROVE  Selected(q, kept) = << >>
<1>1. PICK r : r = Selected(q, kept)
  OBVIOUS
<1>2. r \in Seq(T) /\ \A i \in DOMAIN r : r[i] \in kept /\ \E j \in DOMAIN q : q[j] = r[i]
  BY <1>1, SelectedElements
<1>3. DOMAIN r = {}
  BY <1>2
<1> QED BY <1>1, <1>2, <1>3

LEMMA SameSequence ==
    ASSUME NEW T, NEW v \in Seq(T), NEW w \in Seq(T), Len(v) = Len(w),
           \A i \in 1 .. Len(v) : v[i] = w[i]
    PROVE  v = w
<1>1. v = [i \in 1 .. Len(v) |-> v[i]] /\ w = [i \in 1 .. Len(w) |-> w[i]]
  OBVIOUS
<1> QED BY <1>1

Behind(v, w, x) == Append(v \o w, x) = v \o Append(w, x)

LEMMA AppendBehind ==
    ASSUME NEW T, NEW v \in Seq(T), NEW w \in Seq(T), NEW x \in T
    PROVE  Behind(v, w, x)
<1>1. Append(v \o w, x) \in Seq(T) /\ v \o Append(w, x) \in Seq(T)
  OBVIOUS
<1>2. Len(Append(v \o w, x)) = Len(v) + Len(w) + 1 /\ Len(v \o Append(w, x)) = Len(v) + Len(w) + 1
  OBVIOUS
<1>3. ASSUME NEW i \in 1 .. Len(v) + Len(w) + 1
      PROVE  Append(v \o w, x)[i] = (v \o Append(w, x))[i]
  <2>1. CASE i <= Len(v)
    BY <2>1
  <2>2. CASE i > Len(v) /\ i <= Len(v) + Len(w)
    BY <2>2
  <2>3. CASE i = Len(v) + Len(w) + 1
    BY <2>3
  <2> QED BY <2>1, <2>2, <2>3
<1>4. PICK a, b : a = Append(v \o w, x) /\ b = v \o Append(w, x)
  OBVIOUS
<1>5. a \in Seq(T) /\ b \in Seq(T) /\ Len(a) = Len(b) /\ \A i \in 1 .. Len(a) : a[i] = b[i]
  BY <1>1, <1>2, <1>3, <1>4
<1>6. a = b
  BY <1>5, SameSequence
<1> QED BY <1>4, <1>6 DEF Behind

\* What is selected of two sequences, one behind the other.
Apart(a, b, kept) == Selected(a \o b, kept) = Selected(a, kept) \o Selected(b, kept)

LEMMA SelectedJoin ==
    ASSUME NEW T, NEW a \in Seq(T), NEW b \in Seq(T), NEW kept
    PROVE  Apart(a, b, kept)
<1> DEFINE c == a \o b
           s == Selecting(a, kept)
           t == Selecting(b, kept)
           u == Selecting(c, kept)
           S == {n \in 0 .. Len(a) : u[n] = s[n]}
           R == {n \in 0 .. Len(b) : u[Len(a) + n] = s[Len(a)] \o t[n]}
<1>0. /\ Len(a) \in Nat /\ Len(b) \in Nat /\ c \in Seq(T) /\ Len(c) = Len(a) + Len(b)
      /\ \A n \in 1 .. Len(a) : c[n] = a[n]
      /\ \A n \in 1 .. Len(b) : c[Len(a) + n] = b[n] /\ b[n] \in T
  OBVIOUS
<1>1. /\ Selects(s, a, kept) /\ Selected(a, kept) = s[Len(a)]
      /\ Selects(t, b, kept) /\ Selected(b, kept) = t[Len(b)]
  BY SelectedIs
<1> HIDE DEF c
<1>2. Selects(u, c, kept) /\ Selected(c, kept) = u[Len(c)]
  BY <1>0, SelectedIs
<1>3. s[Len(a)] \in Seq(T) /\ \A n \in 0 .. Len(b) : t[n] \in Seq(T)
  <2>1. \A n \in 0 .. Len(b) : Holds(t[n], b, n, kept, T)
    BY <1>1, SelectsElements
  <2>2. Len(a) \in 0 .. Len(a) /\ \A n \in 0 .. Len(a) : Holds(s[n], a, n, kept, T)
    BY <1>0, <1>1, SelectsElements
  <2> QED BY <2>1, <2>2 DEF Holds
<1> HIDE DEF s, t, u
<1>4. 0 \in S
  <2>1. s[0] = << >> /\ u[0] = << >> /\ 0 \in 0 .. Len(a)
    BY <1>0, <1>1, <1>2 DEF Selects
  <2> QED BY <2>1
<1>5. ASSUME NEW n \in 0 .. Len(a) - 1, n \in S PROVE n + 1 \in S
  <2>1. n \in Nat /\ n + 1 \in 1 .. Len(a) /\ n + 1 \in 1 .. Len(c) /\ n + 1 \in 0 .. Len(a)
    BY <1>0
  <2>2. s[n + 1] = IF a[n + 1] \in kept THEN Append(s[n], a[n + 1]) ELSE s[n]
    BY <1>1, <2>1, SelectsStep
  <2>3. u[n + 1] = IF c[n + 1] \in kept THEN Append(u[n], c[n + 1]) ELSE u[n]
    BY <1>2, <2>1, SelectsStep
  <2> QED BY <1>0, <1>5, <2>1, <2>2, <2>3
<1>6. Len(a) \in S
  <2> HIDE DEF S
  <2>1. 0 .. Len(a) \subseteq S
    BY <1>0, <1>4, <1>5, Induction
  <2> QED BY <1>0, <2>1
<1>7. 0 \in R
  <2>1. t[0] = << >>
    BY <1>1 DEF Selects
  <2>2. Len(a) + 0 = Len(a) /\ 0 \in 0 .. Len(b)
    BY <1>0
  <2>3. s[Len(a)] \o << >> = s[Len(a)]
    BY <1>3
  <2>4. u[Len(a)] = s[Len(a)]
    BY <1>6
  <2>5. u[Len(a) + 0] = s[Len(a)] \o t[0]
    BY <2>1, <2>2, <2>3, <2>4
  <2> QED BY <2>2, <2>5
<1>8. ASSUME NEW n \in 0 .. Len(b) - 1, n \in R PROVE n + 1 \in R
  <2>1. /\ n \in Nat /\ n + 1 \in 1 .. Len(b) /\ n + 1 \in 0 .. Len(b) /\ n \in 0 .. Len(b)
        /\ Len(a) + n \in Nat /\ (Len(a) + n) + 1 \in 1 .. Len(c)
        /\ (Len(a) + n) + 1 = Len(a) + (n + 1)
    BY <1>0
  <2>2. t[n + 1] = IF b[n + 1] \in kept THEN Append(t[n], b[n + 1]) ELSE t[n]
    BY <1>1, <2>1, SelectsStep
  <2>3. u[(Len(a) + n) + 1] = IF c[(Len(a) + n) + 1] \in kept
                              THEN Append(u[Len(a) + n], c[(Len(a) + n) + 1]) ELSE u[Len(a) + n]
    <3>1. PICK k : k = Len(a) + n
      OBVIOUS
    <3>2. u[k + 1] = IF c[k + 1] \in kept THEN Append(u[k], c[k + 1]) ELSE u[k]
      BY <1>2, <2>1, <3>1, SelectsStep
    <3> QED BY <3>1, <3>2
  <2>4. c[Len(a) + (n + 1)] = b[n + 1] /\ b[n + 1] \in T /\ t[n] \in Seq(T)
    BY <1>0, <1>3, <2>1
  <2>5. u[Len(a) + n] = s[Len(a)] \o t[n]
    BY <1>8
  <2>6. Append(s[Len(a)] \o t[n], b[n + 1]) = s[Len(a)] \o Append(t[n], b[n + 1])
    <3>1. PICK v, w, x : v = s[Len(a)] /\ w = t[n] /\ x = b[n + 1]
      OBVIOUS
    <3>2. v \in Seq(T) /\ w \in Seq(T) /\ x \in T
      BY <1>3, <2>4, <3>1
    <3>3. Behind(v, w, x)
      BY <3>2, AppendBehind, Zenon
    <3> QED BY <3>1, <3>3 DEF Behind
  <2>7. u[Len(a) + (n + 1)] = s[Len(a)] \o t[n + 1]
    BY <2>1, <2>2, <2>3, <2>4, <2>5, <2>6
  <2> QED BY <2>1, <2>7
<1>9. Len(b) \in R
  <2> HIDE DEF R
  <2>1. 0 .. Len(b) \subseteq R
    BY <1>0, <1>7, <1>8, Induction
  <2> QED BY <1>0, <2>1
<1> QED BY <1>0, <1>1, <1>2, <1>9 DEF c, Apart

LEMMA OneMore ==
    ASSUME NEW a \in Nat, NEW b \in Nat, NEW c \in Nat, c = a + b
    PROVE  c + 1 = (a + 1) + b /\ c + 1 = a + (b + 1)
OBVIOUS

\* Two sets without a common element select as much as both together.
LEMMA SelectedUnion ==
    ASSUME NEW T, NEW q \in Seq(T), NEW kept, NEW other,
           \A x \in T : ~(x \in kept /\ x \in other)
    PROVE  Len(Selected(q, kept \cup other)) = Len(Selected(q, kept)) + Len(Selected(q, other))
<1> DEFINE s == Selecting(q, kept)
           t == Selecting(q, other)
           u == Selecting(q, kept \cup other)
           S == {n \in 0 .. Len(q) : Len(u[n]) = Len(s[n]) + Len(t[n])}
<1>0. Len(q) \in Nat /\ \A n \in 1 .. Len(q) : q[n] \in T
  OBVIOUS
<1>1. /\ Selects(s, q, kept) /\ Selected(q, kept) = s[Len(q)]
      /\ Selects(t, q, other) /\ Selected(q, other) = t[Len(q)]
      /\ Selects(u, q, kept \cup other) /\ Selected(q, kept \cup other) = u[Len(q)]
  BY SelectedIs
<1> HIDE DEF s, t, u
<1>2. /\ \A n \in 0 .. Len(q) : s[n] \in Seq(T)
      /\ \A n \in 0 .. Len(q) : t[n] \in Seq(T)
      /\ \A n \in 0 .. Len(q) : u[n] \in Seq(T)
  <2>1. \A n \in 0 .. Len(q) : Holds(s[n], q, n, kept, T)
    BY <1>1, SelectsElements
  <2>2. \A n \in 0 .. Len(q) : Holds(t[n], q, n, other, T)
    BY <1>1, SelectsElements
  <2>3. \A n \in 0 .. Len(q) : Holds(u[n], q, n, kept \cup other, T)
    BY <1>1, SelectsElements
  <2> QED BY <2>1, <2>2, <2>3 DEF Holds
<1>3. 0 \in S
  <2>1. s[0] = << >> /\ t[0] = << >> /\ u[0] = << >>
    BY <1>1 DEF Selects
  <2>2. Len(<< >>) = 0 /\ 0 + 0 = 0
    OBVIOUS
  <2>3. Len(u[0]) = Len(s[0]) + Len(t[0])
    BY <2>1, <2>2
  <2>4. 0 \in 0 .. Len(q)
    BY <1>0
  <2> QED BY <2>3, <2>4
<1>4. ASSUME NEW n \in 0 .. Len(q) - 1, n \in S PROVE n + 1 \in S
  <2>1. n \in Nat /\ n + 1 \in 1 .. Len(q) /\ n + 1 \in 0 .. Len(q) /\ n \in 0 .. Len(q)
    BY <1>0
  <2>2. PICK x : x = q[n + 1]
    OBVIOUS
  <2>3. /\ s[n + 1] = IF x \in kept THEN Append(s[n], x) ELSE s[n]
        /\ t[n + 1] = IF x \in other THEN Append(t[n], x) ELSE t[n]
        /\ u[n + 1] = IF x \in kept \cup other THEN Append(u[n], x) ELSE u[n]
    BY <1>1, <2>1, <2>2, SelectsStep
  <2>4. x \in T /\ ~(x \in kept /\ x \in other)
    BY <1>0, <2>1, <2>2
  <2>5. /\ \A v \in Seq(T) : Len(Append(v, x)) = Len(v) + 1
        /\ \A v \in Seq(T) : Len(v) \in Nat
    BY <2>4
  <2>6. s[n] \in Seq(T) /\ t[n] \in Seq(T) /\ u[n] \in Seq(T) /\ Len(u[n]) = Len(s[n]) + Len(t[n])
    BY <1>2, <1>4, <2>1
  <2>7. Len(u[n + 1]) = Len(s[n + 1]) + Len(t[n + 1])
    <3>0. /\ Len(u[n]) \in Nat /\ Len(s[n]) \in Nat /\ Len(t[n]) \in Nat
          /\ Len(u[n]) = Len(s[n]) + Len(t[n])
      BY <2>5, <2>6
    <3>1. CASE x \in kept
      <4>1. s[n + 1] = Append(s[n], x) /\ t[n + 1] = t[n] /\ u[n + 1] = Append(u[n], x)
        BY <2>3, <2>4, <3>1
      <4>2. Len(u[n + 1]) = Len(u[n]) + 1 /\ Len(s[n + 1]) = Len(s[n]) + 1
        BY <2>5, <2>6, <4>1
      <4>3. Len(u[n]) + 1 = (Len(s[n]) + 1) + Len(t[n])
        BY <3>0, OneMore, Zenon
      <4> QED BY <4>1, <4>2, <4>3, Zenon
    <3>2. CASE x \in other
      <4>1. t[n + 1] = Append(t[n], x) /\ s[n + 1] = s[n] /\ u[n + 1] = Append(u[n], x)
        BY <2>3, <2>4, <3>2
      <4>2. Len(u[n + 1]) = Len(u[n]) + 1 /\ Len(t[n + 1]) = Len(t[n]) + 1
        BY <2>5, <2>6, <4>1
      <4>3. Len(u[n]) + 1 = Len(s[n]) + (Len(t[n]) + 1)
        BY ZenonT(40), <3>0, OneMore
      <4> QED BY <4>1, <4>2, <4>3, Zenon
    <3>3. CASE x \notin kept /\ x \notin other
      <4>1. s[n + 1] = s[n] /\ t[n + 1] = t[n] /\ u[n + 1] = u[n]
        BY <2>3, <3>3
      <4> QED BY <4>1, <3>0
    <3> QED BY <3>1, <3>2, <3>3
  <2> QED BY <2>1, <2>7
<1>5. Len(q) \in S
  <2> HIDE DEF S
  <2>1. 0 .. Len(q) \subseteq S
    BY <1>0, <1>3, <1>4, Induction
  <2> QED BY <1>0, <2>1
<1>6. Len(u[Len(q)]) = Len(s[Len(q)]) + Len(t[Len(q)])
  BY <1>5
<1> QED BY <1>1, <1>6, Zenon

(***************************************************************************)
(* Sequences that are joined                                               *)
(***************************************************************************)

\* Sequences joined one after the other: f[n] is the first n of them.
Flats(f, q, T) ==
    /\ f[0] = << >>
    /\ \A n \in 1 .. Len(q) : f[n] = f[n - 1] \o q[n]
    /\ \A n \in 0 .. Len(q) : f[n] \in Seq(T)

Joins(f, q, m, n) == f[m] = f[n] \o q[m]

LEMMA FlatsStep ==
    ASSUME NEW T, NEW f, NEW q, Flats(f, q, T), NEW m \in 1 .. Len(q), NEW n, n = m - 1
    PROVE  Joins(f, q, m, n)
<1>1. f[m] = f[m - 1] \o q[m]
  BY Zenon DEF Flats
<1> QED BY <1>1, Zenon DEF Joins

LEMMA FlattenSeqIs ==
    ASSUME NEW T, NEW q \in Seq(Seq(T))
    PROVE  \E f : Flats(f, q, T) /\ FlattenSeq(q) = f[Len(q)]
<1> DEFINE g == Flattened(q)
           f == [n \in 0 .. Len(q) |-> IF n = 0 THEN << >> ELSE g[n]]
           S == {n \in 0 .. Len(q) : f[n] \in Seq(T)}
<1>0. Len(q) \in Nat /\ \A n \in 1 .. Len(q) : q[n] \in Seq(T)
  OBVIOUS
<1>1. \A n \in 1 .. Len(q) : g[n] = IF n = 1 THEN q[n] ELSE g[n - 1] \o q[n]
  BY FlattenedIs
<1>2. FlattenSeq(q) = IF Len(q) = 0 THEN q ELSE g[Len(q)]
  BY DEF FlattenSeq, Flattened
<1> HIDE DEF g
<1>3. f[0] = << >>
  BY <1>0
<1>4. \A n \in 1 .. Len(q) : f[n] = f[n - 1] \o q[n]
  <2> TAKE n \in 1 .. Len(q)
  <2>1. f[n] = g[n] /\ n - 1 \in 0 .. Len(q)
    BY <1>0
  <2>2. CASE n = 1
    <3>1. f[n - 1] = << >> /\ << >> \o q[n] = q[n]
      BY <1>0, <2>2
    <3> QED BY <1>1, <2>1, <2>2, <3>1
  <2>3. CASE n # 1
    <3>1. f[n - 1] = g[n - 1]
      BY <1>0, <2>3
    <3> QED BY <1>1, <2>1, <2>3, <3>1
  <2> QED BY <2>2, <2>3
<1>5. FlattenSeq(q) = f[Len(q)]
  BY <1>0, <1>2
<1> HIDE DEF f
<1>6. 0 \in S
  <2>1. << >> \in Seq(T) /\ 0 \in 0 .. Len(q)
    BY <1>0
  <2>2. f[0] \in Seq(T)
    BY <1>3, <2>1, Zenon
  <2> QED BY <2>1, <2>2
<1>7. ASSUME NEW n \in 0 .. Len(q) - 1, n \in S PROVE n + 1 \in S
  <2>1. n \in Nat /\ n + 1 \in 1 .. Len(q) /\ n + 1 \in 0 .. Len(q) /\ n + 1 - 1 = n
    BY <1>0
  <2>2. f[n + 1] = f[n] \o q[n + 1]
    <3>1. PICK m : m = n + 1
      OBVIOUS
    <3>2. m \in 1 .. Len(q) /\ m - 1 = n
      BY <2>1, <3>1
    <3>3. f[m] = f[m - 1] \o q[m]
      BY <1>4, <3>2, Zenon
    <3> QED BY <3>1, <3>2, <3>3, Zenon
  <2>3. f[n] \in Seq(T) /\ q[n + 1] \in Seq(T)
    BY <1>0, <1>7, <2>1
  <2>4. f[n] \o q[n + 1] \in Seq(T)
    BY <2>3
  <2> QED BY <2>1, <2>2, <2>4
<1> HIDE DEF S
<1>8. 0 .. Len(q) \subseteq S
  BY <1>0, <1>6, <1>7, Induction
<1> QED BY <1>3, <1>4, <1>5, <1>8 DEF S, Flats

\* What is in the whole is in one of its parts.
LEMMA FlatElements ==
    ASSUME NEW T, NEW q \in Seq(Seq(T)), NEW r, r = FlattenSeq(q)
    PROVE  /\ r \in Seq(T)
           /\ \A i \in DOMAIN r : \E j \in DOMAIN q : \E k \in DOMAIN q[j] : r[i] = q[j][k]
<1>0. Len(q) \in Nat /\ DOMAIN q = 1 .. Len(q) /\ \A n \in 1 .. Len(q) : q[n] \in Seq(T)
  OBVIOUS
<1>1. PICK f : Flats(f, q, T) /\ r = f[Len(q)]
  BY FlattenSeqIs
<1> DEFINE In(x) == \E j \in DOMAIN q : \E k \in DOMAIN q[j] : x = q[j][k]
           S == {n \in 0 .. Len(q) : \A i \in DOMAIN f[n] : In(f[n][i])}
<1>2. 0 \in S
  <2>1. f[0] = << >> /\ 0 \in 0 .. Len(q)
    BY <1>0, <1>1 DEF Flats
  <2> QED BY <2>1
<1>3. ASSUME NEW n \in 0 .. Len(q) - 1, n \in S PROVE n + 1 \in S
  <2>1. n \in Nat /\ n + 1 \in 1 .. Len(q) /\ n + 1 \in 0 .. Len(q) /\ n \in 0 .. Len(q)
    BY <1>0
  <2>2. PICK v, w : v = f[n] /\ w = q[n + 1]
    OBVIOUS
  <2>3. f[n + 1] = v \o w
    <3>1. PICK m : m = n + 1
      OBVIOUS
    <3>2. m \in 1 .. Len(q) /\ n = m - 1
      BY <2>1, <3>1
    <3>3. Joins(f, q, m, n)
      BY <1>1, <3>2, FlatsStep, Zenon
    <3> QED BY <2>2, <3>1, <3>3, Zenon DEF Joins
  <2>4. v \in Seq(T) /\ w \in Seq(T)
    BY <1>0, <1>1, <2>1, <2>2 DEF Flats
  <2>5. \A i \in DOMAIN (v \o w) : \/ i \in DOMAIN v /\ (v \o w)[i] = v[i]
                                   \/ i - Len(v) \in DOMAIN w /\ (v \o w)[i] = w[i - Len(v)]
    BY <2>4
  <2>6. \A k \in DOMAIN w : In(w[k])
    BY <1>0, <2>1, <2>2
  <2>7. \A i \in DOMAIN v : In(v[i])
    BY <1>3, <2>2
  <2> HIDE DEF In
  <2>8. \A i \in DOMAIN f[n + 1] : In(f[n + 1][i])
    BY <2>3, <2>5, <2>6, <2>7
  <2> QED BY <2>1, <2>8
<1> HIDE DEF S
<1>4. 0 .. Len(q) \subseteq S
  BY <1>0, <1>2, <1>3, Induction
<1>5. Len(q) \in S
  BY <1>0, <1>4
<1> QED BY <1>0, <1>1, <1>5 DEF S, Flats

\* What belongs to one part alone is found again as that part.
Found(q, kept, j) == Selected(FlattenSeq(q), kept) = q[j]

LEMMA FlatSelected ==
    ASSUME NEW T, NEW q \in Seq(Seq(T)), NEW kept, NEW j \in DOMAIN q,
           \A k \in DOMAIN q[j] : q[j][k] \in kept,
           \A i \in DOMAIN q \ {j} : \A k \in DOMAIN q[i] : q[i][k] \notin kept
    PROVE  Found(q, kept, j)
<1>0. Len(q) \in Nat /\ DOMAIN q = 1 .. Len(q) /\ \A n \in 1 .. Len(q) : q[n] \in Seq(T)
  OBVIOUS
<1>1. PICK f : Flats(f, q, T) /\ FlattenSeq(q) = f[Len(q)]
  BY FlattenSeqIs
<1> DEFINE S == {n \in 0 .. Len(q) : Selected(f[n], kept) = IF j <= n THEN q[j] ELSE << >>}
<1>2. 0 \in S
  <2>1. f[0] = << >> /\ 0 \in 0 .. Len(q) /\ ~(j <= 0)
    BY <1>0, <1>1 DEF Flats
  <2>2. Selected(<< >>, kept) = << >>
    <3>1. << >> \in Seq(T) /\ \A i \in DOMAIN << >> : FALSE
      OBVIOUS
    <3>2. PICK e : e = << >>
      OBVIOUS
    <3>3. Selected(e, kept) = << >>
      BY <3>1, <3>2, SelectedNone
    <3> QED BY <3>2, <3>3
  <2> QED BY <2>1, <2>2
<1>3. ASSUME NEW n \in 0 .. Len(q) - 1, n \in S PROVE n + 1 \in S
  <2>1. /\ n \in Nat /\ n + 1 \in 1 .. Len(q) /\ n + 1 \in 0 .. Len(q) /\ n \in 0 .. Len(q)
        /\ n + 1 \in DOMAIN q /\ j \in Nat
    BY <1>0
  <2>2. PICK v, w : v = f[n] /\ w = q[n + 1]
    OBVIOUS
  <2>3. f[n + 1] = v \o w
    <3>1. PICK m : m = n + 1
      OBVIOUS
    <3>2. m \in 1 .. Len(q) /\ n = m - 1
      BY <2>1, <3>1
    <3>3. Joins(f, q, m, n)
      BY <1>1, <3>2, FlatsStep, Zenon
    <3> QED BY <2>2, <3>1, <3>3, Zenon DEF Joins
  <2>4. v \in Seq(T) /\ w \in Seq(T) /\ q[j] \in Seq(T)
    BY <1>0, <1>1, <2>1, <2>2 DEF Flats
  <2>5. Selected(v \o w, kept) = Selected(v, kept) \o Selected(w, kept)
    <3>1. Apart(v, w, kept)
      BY <2>4, SelectedJoin, Zenon
    <3> QED BY <3>1 DEF Apart
  <2>6. Selected(v, kept) = IF j <= n THEN q[j] ELSE << >>
    BY <1>3, <2>2
  <2>7. CASE n + 1 = j
    <3>1. w = q[j] /\ ~(j <= n) /\ j <= n + 1
      BY <2>1, <2>2, <2>7
    <3>2. Selected(w, kept) = w
      BY <2>4, <3>1, SelectedAll
    <3>3. << >> \o w = w
      BY <2>4
    <3>4. Selected(f[n + 1], kept) = IF j <= n + 1 THEN q[j] ELSE << >>
      BY <2>3, <2>5, <2>6, <3>1, <3>2, <3>3
    <3> QED BY <2>1, <3>4
  <2>8. CASE n + 1 # j
    <3>1. Selected(w, kept) = << >>
      <4>1. \A k \in DOMAIN w : w[k] \notin kept
        BY <2>1, <2>2, <2>8
      <4> QED BY <2>4, <4>1, SelectedNone
    <3>2. j <= n <=> j <= n + 1
      BY <2>1, <2>8
    <3>3. q[j] \o << >> = q[j] /\ << >> \o << >> = << >>
      BY <2>4
    <3>4. Selected(f[n + 1], kept) = IF j <= n + 1 THEN q[j] ELSE << >>
      BY <2>3, <2>5, <2>6, <3>1, <3>2, <3>3
    <3> QED BY <2>1, <3>4
  <2> QED BY <2>7, <2>8
<1> HIDE DEF S
<1>4. 0 .. Len(q) \subseteq S
  BY <1>0, <1>2, <1>3, Induction
<1>5. Len(q) \in S /\ j <= Len(q)
  <2>1. Len(q) \in 0 .. Len(q) /\ j <= Len(q)
    BY <1>0
  <2> QED BY <1>4, <2>1
<1> QED BY <1>1, <1>5 DEF S, Found

(***************************************************************************)
(* Entries and the lines they are on                                       *)
(***************************************************************************)

\* The entries on the lines of a log.
Contents(c) == [i \in DOMAIN c |-> c[i][2]]

AreContents(d, c, E) ==
    /\ d \in Seq(E) /\ Len(d) = Len(c) /\ DOMAIN d = DOMAIN c
    /\ \A i \in DOMAIN c : d[i] = c[i][2]

LEMMA ContentsType ==
    ASSUME NEW T, NEW E, NEW c \in Seq(T), \A x \in T : x[2] \in E
    PROVE  AreContents(Contents(c), c, E)
<1>1. Len(c) \in Nat /\ DOMAIN c = 1 .. Len(c) /\ \A i \in 1 .. Len(c) : c[i] \in T
  OBVIOUS
<1>2. Contents(c) = [i \in 1 .. Len(c) |-> c[i][2]]
  BY <1>1 DEF Contents
<1>3. \A i \in 1 .. Len(c) : c[i][2] \in E
  BY <1>1
<1>4. Contents(c) \in [1 .. Len(c) -> E]
  BY <1>2, <1>3
<1>5. Contents(c) \in Seq(E)
  BY <1>1, <1>4
<1>6. /\ Len(Contents(c)) = Len(c) /\ DOMAIN Contents(c) = DOMAIN c
      /\ \A i \in DOMAIN c : Contents(c)[i] = c[i][2]
  BY <1>1, <1>2
<1> QED BY <1>5, <1>6, Zenon DEF AreContents

Adds(c, x) == Contents(Append(c, x)) = Append(Contents(c), x[2])

LEMMA ContentsAppend ==
    ASSUME NEW T, NEW E, NEW c \in Seq(T), NEW x \in T, \A y \in T : y[2] \in E
    PROVE  Adds(c, x)
<1>1. PICK a : a = Append(c, x)
  OBVIOUS
<1>2. /\ a \in Seq(T) /\ Len(a) = Len(c) + 1 /\ a[Len(c) + 1] = x /\ Len(c) \in Nat
      /\ DOMAIN c = 1 .. Len(c) /\ DOMAIN a = 1 .. Len(c) + 1
      /\ \A i \in 1 .. Len(c) : a[i] = c[i]
  BY <1>1
<1>3. PICK u, v : u = Contents(a) /\ v = Contents(c)
  OBVIOUS
<1>4. /\ u \in Seq(E) /\ Len(u) = Len(c) + 1 /\ \A i \in 1 .. Len(c) + 1 : u[i] = a[i][2]
      /\ v \in Seq(E) /\ Len(v) = Len(c) /\ \A i \in 1 .. Len(c) : v[i] = c[i][2]
  <2>1. AreContents(u, a, E) /\ AreContents(v, c, E)
    BY <1>2, <1>3, ContentsType, Zenon
  <2> QED BY <1>2, <2>1 DEF AreContents
<1>5. PICK w : w = Append(v, x[2])
  OBVIOUS
<1>6. /\ w \in Seq(E) /\ Len(w) = Len(c) + 1 /\ w[Len(c) + 1] = x[2]
      /\ \A i \in 1 .. Len(c) : w[i] = v[i]
  BY <1>4, <1>5
<1>7. Len(u) = Len(w) /\ \A i \in 1 .. Len(u) : u[i] = w[i]
  BY SMTT(30), <1>2, <1>4, <1>6
<1>8. u = w
  BY <1>4, <1>6, <1>7, SameSequence
<1> QED BY <1>1, <1>3, <1>5, <1>8 DEF Adds

\* To select of the entries is to select of the lines.
Alike(c, kept, lines) == Selected(Contents(c), kept) = Contents(Selected(c, lines))

LEMMA SelectedContents ==
    ASSUME NEW T, NEW E, NEW c \in Seq(T), NEW kept, NEW lines,
           \A x \in T : x[2] \in E /\ (x \in lines <=> x[2] \in kept)
    PROVE  Alike(c, kept, lines)
<1>1. PICK d : d = Contents(c)
  OBVIOUS
<1>2. /\ d \in Seq(E) /\ Len(d) = Len(c) /\ Len(c) \in Nat
      /\ \A i \in 1 .. Len(c) : d[i] = c[i][2] /\ c[i] \in T
  <2>1. \A x \in T : x[2] \in E
    OBVIOUS
  <2>2. d \in Seq(E) /\ Len(d) = Len(c) /\ \A i \in DOMAIN c : d[i] = c[i][2]
    <3>1. AreContents(d, c, E)
      BY <1>1, <2>1, ContentsType, Zenon
    <3> QED BY <3>1, Zenon DEF AreContents
  <2>3. Len(c) \in Nat /\ DOMAIN c = 1 .. Len(c) /\ \A i \in 1 .. Len(c) : c[i] \in T
    OBVIOUS
  <2> QED BY <2>2, <2>3
<1> DEFINE s == Selecting(d, kept)
           t == Selecting(c, lines)
           S == {n \in 0 .. Len(c) : s[n] = Contents(t[n])}
<1>3. /\ Selects(s, d, kept) /\ Selected(d, kept) = s[Len(c)]
      /\ Selects(t, c, lines) /\ Selected(c, lines) = t[Len(c)]
  BY <1>2, SelectedIs
<1> HIDE DEF s, t
<1>4. \A n \in 0 .. Len(c) : t[n] \in Seq(T)
  <2>1. \A n \in 0 .. Len(c) : Holds(t[n], c, n, lines, T)
    BY <1>3, SelectsElements
  <2> QED BY <2>1 DEF Holds
<1>5. 0 \in S
  <2>1. s[0] = << >> /\ t[0] = << >> /\ 0 \in 0 .. Len(c)
    BY <1>2, <1>3 DEF Selects
  <2>2. Contents(<< >>) = << >>
    BY DEF Contents
  <2> QED BY <2>1, <2>2
<1>6. ASSUME NEW n \in 0 .. Len(c) - 1, n \in S PROVE n + 1 \in S
  <2>1. n \in Nat /\ n + 1 \in 1 .. Len(c) /\ n + 1 \in 0 .. Len(c) /\ n \in 0 .. Len(c)
    BY <1>2
  <2>2. PICK x : x = c[n + 1]
    OBVIOUS
  <2>3. x \in T /\ d[n + 1] = x[2] /\ (x \in lines <=> x[2] \in kept)
    BY <1>2, <2>1, <2>2
  <2>4. s[n + 1] = IF x[2] \in kept THEN Append(s[n], x[2]) ELSE s[n]
    BY <1>2, <1>3, <2>1, <2>3, SelectsStep
  <2>5. t[n + 1] = IF x \in lines THEN Append(t[n], x) ELSE t[n]
    BY <1>3, <2>1, <2>2, SelectsStep
  <2>6. PICK v : v = t[n]
    OBVIOUS
  <2>7. s[n] = Contents(v) /\ v \in Seq(T)
    BY <1>4, <1>6, <2>1, <2>6
  <2>8. Contents(Append(v, x)) = Append(Contents(v), x[2])
    <3>1. \A y \in T : y[2] \in E
      OBVIOUS
    <3>2. Adds(v, x)
      BY <2>3, <2>7, <3>1, ContentsAppend, Zenon
    <3> QED BY <3>2 DEF Adds
  <2>9. s[n + 1] = Contents(t[n + 1])
    BY <2>3, <2>4, <2>5, <2>6, <2>7, <2>8
  <2> QED BY <2>1, <2>9
<1>7. Len(c) \in S
  <2> HIDE DEF S
  <2>1. 0 .. Len(c) \subseteq S
    BY <1>2, <1>5, <1>6, Induction
  <2> QED BY <1>2, <2>1
<1> QED BY <1>1, <1>3, <1>7 DEF Alike

(***************************************************************************)
(* Everything is counted once                                              *)
(***************************************************************************)

\* CountedIn goes identifier by identifier.
Counting(sessions) ==
    LET entries(n) == IF n \in DOMAIN sessions THEN sessions[n].entries ELSE 0
        before[t \in 0 .. MaxTime + 1] ==
            IF t = 0 THEN entries(NoId) ELSE before[t - 1] + entries(t - 1)
    IN  before

LEMMA CountingIs ==
    ASSUME NEW sessions, NEW u, u = Counting(sessions)
    PROVE  /\ u[0] = IF NoId \in DOMAIN sessions THEN sessions[NoId].entries ELSE 0
           /\ \A n \in 0 .. MaxTime :
                 u[n + 1] = u[n] + IF n \in DOMAIN sessions THEN sessions[n].entries ELSE 0
           /\ CountedIn(sessions) = u[MaxTime + 1]
<1> DEFINE More(n) == IF n \in DOMAIN sessions THEN sessions[n].entries ELSE 0
           Turn(g, n) == IF n = 0 THEN More(NoId) ELSE g[n - 1] + More(n - 1)
           max == MaxTime + 1
           S == {m \in 0 .. max : \E g : g = [n \in 0 .. m |-> Turn(g, n)]}
<1>0. max \in Nat /\ max = MaxTime + 1
  BY DownloadsAssumption
<1>9. Counting(sessions) = CHOOSE g : g = [n \in 0 .. MaxTime + 1 |-> Turn(g, n)]
  BY DEF Counting
<1> HIDE DEF More, max
<1>1. 0 \in S
  <2> DEFINE g == [n \in 0 .. 0 |-> More(NoId)]
  <2>1. g = [n \in 0 .. 0 |-> Turn(g, n)]
    OBVIOUS
  <2>2. 0 \in 0 .. max
    BY <1>0
  <2> HIDE DEF g, Turn
  <2> QED BY <2>1, <2>2
<1>2. ASSUME NEW m \in 0 .. max - 1, m \in S PROVE m + 1 \in S
  <2>1. PICK g : g = [n \in 0 .. m |-> Turn(g, n)]
    BY <1>2
  <2> DEFINE h == [n \in 0 .. m + 1 |-> IF n <= m THEN g[n] ELSE Turn(g, n)]
  <2>2. \A n \in 0 .. m + 1 : h[n] = Turn(h, n)
    <3> TAKE n \in 0 .. m + 1
    <3>1. CASE n <= m
      <4>0. g[n] = Turn(g, n)
        <5> HIDE DEF Turn, h
        <5>1. n \in 0 .. m
          BY <3>1
        <5> QED BY <2>1, <5>1
      <4>1. h[n] = Turn(g, n)
        <5> HIDE DEF Turn
        <5> QED BY <4>0, <3>1
      <4>2. n # 0 => h[n - 1] = g[n - 1]
        BY <3>1
      <4> HIDE DEF h
      <4> QED BY <4>1, <4>2
    <3>2. CASE n = m + 1
      <4>1. h[n] = Turn(g, n) /\ (n # 0 => h[n - 1] = g[n - 1])
        BY <3>2
      <4> HIDE DEF h
      <4> QED BY <4>1
    <3> QED BY <3>1, <3>2
  <2>3. h = [n \in 0 .. m + 1 |-> h[n]]
    OBVIOUS
  <2>4. h = [n \in 0 .. m + 1 |-> Turn(h, n)]
    <3> HIDE DEF h
    <3> QED BY <2>2, <2>3
  <2>5. m + 1 \in 0 .. max
    BY <1>0
  <2> HIDE DEF h, Turn
  <2> QED BY <2>4, <2>5
<1>3. max \in S
  <2> HIDE DEF S
  <2>1. 0 .. max \subseteq S
    BY <1>0, <1>1, <1>2, Induction
  <2> QED BY <1>0, <2>1
<1>4. u = [n \in 0 .. max |-> Turn(u, n)]
  <2>1. PICK g : g = [n \in 0 .. max |-> Turn(g, n)]
    BY <1>3
  <2>2. u = CHOOSE f : f = [n \in 0 .. max |-> Turn(f, n)]
    BY <1>9 DEF max
  <2> QED BY <2>1, <2>2, Zenon
<1>5. \A n \in 0 .. max : u[n] = Turn(u, n)
  <2> HIDE DEF Turn
  <2> QED BY <1>4
<1>6. u[0] = More(NoId)
  BY <1>0, <1>5
<1>7. \A n \in 0 .. MaxTime : u[n + 1] = u[n] + More(n)
  <2> TAKE n \in 0 .. MaxTime
  <2>1. n + 1 \in 0 .. max /\ n + 1 # 0 /\ n + 1 - 1 = n
    BY <1>0, DownloadsAssumption
  <2>2. u[n + 1] = Turn(u, n + 1)
    BY <1>5, <2>1
  <2> QED BY <2>1, <2>2
<1>8. CountedIn(sessions) = u[MaxTime + 1]
  BY DEF CountedIn, Counting
<1> QED BY <1>6, <1>7, <1>8 DEF More

\* The entries of one identifier.
At(n) == {e \in Entries : e.id = n}

LEMMA OfIs ==
    ASSUME NEW q \in Seq(Entries), NEW n
    PROVE  Of(q, n) = Selected(q, At(n))
<1> DEFINE here == {e \in ToSet(q) : e.id = n}
<1>1. \A i \in DOMAIN q : q[i] \in here <=> q[i] \in At(n)
  <2>1. \A i \in DOMAIN q : q[i] \in Entries /\ q[i] \in ToSet(q)
    BY DEF ToSet
  <2> QED BY <2>1 DEF At
<1>2. Of(q, n) = Selected(q, here)
  BY DEF Of
<1> HIDE DEF here
<1> QED BY <1>1, <1>2, SelectedSame

LEMMA OfNone ==
    ASSUME NEW q \in Seq(Entries), NEW n, \A i \in DOMAIN q : q[i].id # n
    PROVE  Of(q, n) = << >>
<1>1. \A i \in DOMAIN q : q[i] \notin At(n)
  BY DEF At
<1> QED BY <1>1, OfIs, SelectedNone

\* Every entry is of no session or counted for one.
LEMMA AllAreCounted ==
    ASSUME NEW q \in Seq(Entries)
    PROVE  Len(q) = Len(Of(q, NoId)) + CountedIn(Interactions(q))
<1> DEFINE ss == Interactions(q)
           Upto(n) == {e \in Entries : e.id \in 0 .. n - 1}
           u == Counting(ss)
           S == {n \in 0 .. MaxTime + 1 : u[n] = Len(Selected(q, Upto(n)))}
<1>0. /\ MaxTime \in Nat /\ MaxTime + 1 \in Nat /\ \A i \in DOMAIN q : q[i] \in Entries
      /\ \A kept : Len(Selected(q, kept)) \in Nat
  <2>1. ASSUME NEW kept PROVE Len(Selected(q, kept)) \in Nat
    <3>1. PICK r : r = Selected(q, kept)
      OBVIOUS
    <3>2. r \in Seq(Entries)
      BY <3>1, SelectedElements
    <3> QED BY <3>1, <3>2
  <2> QED BY <2>1, DownloadsAssumption
<1>1. /\ u[0] = 0
      /\ \A n \in 0 .. MaxTime : u[n + 1] = u[n] + IF n \in DOMAIN ss THEN ss[n].entries ELSE 0
      /\ CountedIn(ss) = u[MaxTime + 1]
  <2>1. NoId \notin DOMAIN ss
    BY DEF Interactions, SessionsOf
  <2> HIDE DEF ss
  <2> QED BY <2>1, CountingIs
<1>2. ASSUME NEW n \in 0 .. MaxTime
      PROVE  (IF n \in DOMAIN ss THEN ss[n].entries ELSE 0) = Len(Of(q, n))
  <2>1. CASE n \in DOMAIN ss
    <3>1. ss[n] = Interaction(Of(q, n))
      BY <2>1 DEF Interactions
    <3> QED BY <2>1, <3>1 DEF Interaction
  <2>2. CASE n \notin DOMAIN ss
    <3>1. n # NoId
      BY DEF NoId
    <3>2. \A i \in DOMAIN q : q[i].id # n
      BY <2>2, <3>1 DEF Interactions, SessionsOf
    <3>3. Len(Of(q, n)) = 0
      BY <3>2, OfNone
    <3> QED BY <2>2, <3>3
  <2> QED BY <2>1, <2>2
<1> HIDE DEF ss, u
<1>3. 0 \in S
  <2>1. \A i \in DOMAIN q : q[i] \notin Upto(0)
    BY <1>0
  <2>2. Selected(q, Upto(0)) = << >>
    <3> HIDE DEF Upto
    <3> QED BY <2>1, SelectedNone
  <2>3. 0 \in 0 .. MaxTime + 1
    BY <1>0
  <2>4. u[0] = Len(Selected(q, Upto(0)))
    BY <1>1, <2>2
  <2> QED BY <2>3, <2>4
<1>4. ASSUME NEW n \in 0 .. MaxTime + 1 - 1, n \in S PROVE n + 1 \in S
  <2>1. n \in 0 .. MaxTime /\ n + 1 \in 0 .. MaxTime + 1 /\ n + 1 - 1 = n /\ n \in Nat
    BY <1>0
  <2>2. u[n + 1] = u[n] + Len(Of(q, n))
    BY <1>1, <1>2, <2>1
  <2>3. u[n] = Len(Selected(q, Upto(n)))
    BY <1>4
  <2>4. \A e \in Entries : ~(e \in Upto(n) /\ e \in At(n))
    BY <2>1 DEF At
  <2>5. \A e \in Entries : e \in Upto(n + 1) <=> e \in Upto(n) \cup At(n)
    BY <2>1 DEF At
  <2> HIDE DEF Upto
  <2>6. Len(Selected(q, Upto(n) \cup At(n))) = Len(Selected(q, Upto(n))) + Len(Selected(q, At(n)))
    BY <2>4, SelectedUnion
  <2>7. Selected(q, Upto(n + 1)) = Selected(q, Upto(n) \cup At(n))
    BY <1>0, <2>5, SelectedSame
  <2>8. u[n + 1] = Len(Selected(q, Upto(n + 1)))
    BY <2>2, <2>3, <2>6, <2>7, OfIs, Zenon
  <2> QED BY <2>1, <2>8
<1>5. MaxTime + 1 \in S
  <2> HIDE DEF S
  <2>1. 0 .. MaxTime + 1 \subseteq S
    BY <1>0, <1>3, <1>4, Induction
  <2> QED BY <1>0, <2>1
<1>6. CountedIn(ss) = Len(Selected(q, Upto(MaxTime + 1)))
  BY <1>1, <1>5
<1>7. /\ \A e \in Entries : ~(e \in At(NoId) /\ e \in Upto(MaxTime + 1))
      /\ \A e \in Entries : e \in At(NoId) \cup Upto(MaxTime + 1)
  <2>1. MaxTime + 1 - 1 = MaxTime /\ NoId \notin 0 .. MaxTime
    BY <1>0 DEF NoId
  <2>2. \A e \in Entries : e.id \in 0 .. MaxTime \/ e.id = NoId
    BY DEF Entries, Times
  <2>3. \A e \in Entries : e \in Upto(MaxTime + 1) <=> e.id \in 0 .. MaxTime
    <3>1. PICK m : m = MaxTime + 1
      OBVIOUS
    <3>2. \A e \in Entries : e \in Upto(m) <=> e.id \in 0 .. m - 1
      OBVIOUS
    <3>3. m - 1 = MaxTime
      BY <1>0, <3>1
    <3> HIDE DEF Upto
    <3>4. \A e \in Entries : e \in Upto(m) <=> e.id \in 0 .. MaxTime
      BY <3>2, <3>3, Zenon
    <3> QED BY <3>1, <3>4, Zenon
  <2>4. \A e \in Entries : e \in At(NoId) <=> e.id = NoId
    BY DEF At
  <2> HIDE DEF Upto
  <2> QED BY <2>1, <2>2, <2>3, <2>4, Zenon
<1> HIDE DEF Upto
<1>8. Selected(q, At(NoId) \cup Upto(MaxTime + 1)) = q
  BY <1>0, <1>7, SelectedAll
<1>9. Len(Selected(q, At(NoId) \cup Upto(MaxTime + 1)))
          = Len(Selected(q, At(NoId))) + Len(Selected(q, Upto(MaxTime + 1)))
  BY <1>7, SelectedUnion
<1>10. Len(q) = Len(Of(q, NoId)) + CountedIn(ss)
  BY <1>6, <1>8, <1>9, OfIs, Zenon
<1> QED BY <1>10 DEF ss

(***************************************************************************)
(* The log of all who wrote it                                             *)
(***************************************************************************)

\* SetToSeq lists a finite set, each element once.
LEMMA SetToSeqIs ==
    ASSUME NEW S, IsFiniteSet(S), NEW q, q = SetToSeq(S)
    PROVE  /\ q \in Seq(S)
           /\ \A x \in S : \E i \in DOMAIN q : q[i] = x
           /\ \A i, j \in DOMAIN q : q[i] = q[j] => i = j
<1> DEFINE n == Cardinality(S)
<1>1. n \in Nat /\ ExistsBijection(1 .. n, S)
  BY FS_CardinalityType
<1> HIDE DEF n
<1>2. PICK g : g \in Bijection(1 .. n, S)
  BY <1>1 DEF ExistsBijection
<1>3. g \in [1 .. n -> S] /\ IsInjective(g)
  BY <1>2 DEF Bijection, Injection
<1>4. q = CHOOSE f \in [1 .. n -> S] : IsInjective(f)
  BY DEF SetToSeq, n
<1>5. q \in [1 .. n -> S] /\ IsInjective(q)
  BY <1>3, <1>4, Zenon
<1>6. q \in Injection(1 .. n, S)
  BY <1>5 DEF Injection
<1>7. q \in Surjection(1 .. n, S)
  <2>1. IsFiniteSet(1 .. n) /\ Cardinality(1 .. n) = n
    BY <1>1, FS_Interval
  <2> QED BY <1>6, <2>1, FS_Injection DEF n
<1>8. \A x \in S : \E i \in 1 .. n : q[i] = x
  BY <1>7, Zenon DEF Surjection
<1>9. q \in Seq(S) /\ DOMAIN q = 1 .. n
  BY <1>1, <1>5
<1> QED BY <1>5, <1>8, <1>9 DEF IsInjective

Parts(order) == [i \in DOMAIN order |-> log[order[i]]]

LEMMA PartsOf ==
    ASSUME Types, NEW order, order = SetToSeq(Writers), NEW q, q = Parts(order)
    PROVE  /\ order \in Seq(Writers) /\ q \in Seq(Seq(Chunks)) /\ Log = FlattenSeq(q)
           /\ DOMAIN q = DOMAIN order /\ \A i \in DOMAIN q : q[i] = log[order[i]]
           /\ \A w \in Writers : \E i \in DOMAIN order : order[i] = w
           /\ \A i, j \in DOMAIN order : order[i] = order[j] => i = j
<1>1. IsFiniteSet(Writers)
  BY DownloadsAssumption, FS_AddElement DEF Writers
<1>2. /\ order \in Seq(Writers)
      /\ \A w \in Writers : \E i \in DOMAIN order : order[i] = w
      /\ \A i, j \in DOMAIN order : order[i] = order[j] => i = j
  BY <1>1, SetToSeqIs
<1>3. Len(order) \in Nat /\ DOMAIN order = 1 .. Len(order) /\ \A i \in 1 .. Len(order) : order[i] \in Writers
  BY <1>2
<1>4. q = [i \in 1 .. Len(order) |-> log[order[i]]]
  BY <1>3 DEF Parts
<1>5. \A i \in 1 .. Len(order) : log[order[i]] \in Seq(Chunks)
  BY <1>3 DEF Types
<1>6. q \in [1 .. Len(order) -> Seq(Chunks)]
  BY <1>4, <1>5
<1>7. q \in Seq(Seq(Chunks))
  BY <1>3, <1>6
<1>8. Log = FlattenSeq(q)
  BY DEF Log, Parts
<1> QED BY <1>2, <1>3, <1>4, <1>7, <1>8

\* What is in the log was written by one of the writers.
LEMMA LogElements ==
    ASSUME Types, NEW all, all = Log
    PROVE  /\ all \in Seq(Chunks)
           /\ \A i \in DOMAIN all : \E w \in Writers : \E k \in DOMAIN log[w] : all[i] = log[w][k]
<1>1. PICK order, q : order = SetToSeq(Writers) /\ q = Parts(order)
  OBVIOUS
<1>2. /\ order \in Seq(Writers) /\ q \in Seq(Seq(Chunks)) /\ Log = FlattenSeq(q)
      /\ DOMAIN q = DOMAIN order /\ \A i \in DOMAIN q : q[i] = log[order[i]]
  BY <1>1, PartsOf
<1>3. /\ all \in Seq(Chunks)
      /\ \A i \in DOMAIN all : \E j \in DOMAIN q : \E k \in DOMAIN q[j] : all[i] = q[j][k]
  BY <1>2, FlatElements
<1>4. \A j \in DOMAIN q : order[j] \in Writers /\ q[j] = log[order[j]]
  BY <1>2
<1>5. ASSUME NEW i \in DOMAIN all
      PROVE  \E w \in Writers : \E k \in DOMAIN log[w] : all[i] = log[w][k]
  <2>1. PICK j \in DOMAIN q : \E k \in DOMAIN q[j] : all[i] = q[j][k]
    BY <1>3
  <2>2. order[j] \in Writers /\ q[j] = log[order[j]]
    BY <1>4
  <2> QED BY <2>1, <2>2, Zenon
<1> QED BY <1>3, <1>5

\* What only one writer wrote is found again as its part.
LEMMA LogSelected ==
    ASSUME Types, NEW w \in Writers, NEW kept,
           \A i \in DOMAIN log[w] : log[w][i] \in kept,
           \A v \in Writers \ {w} : \A i \in DOMAIN log[v] : log[v][i] \notin kept
    PROVE  Selected(Log, kept) = log[w]
<1>1. PICK order, q : order = SetToSeq(Writers) /\ q = Parts(order)
  OBVIOUS
<1>2. /\ order \in Seq(Writers) /\ q \in Seq(Seq(Chunks)) /\ Log = FlattenSeq(q)
      /\ DOMAIN q = DOMAIN order /\ \A i \in DOMAIN q : q[i] = log[order[i]]
      /\ \A v \in Writers : \E i \in DOMAIN order : order[i] = v
      /\ \A i, j \in DOMAIN order : order[i] = order[j] => i = j
  BY <1>1, PartsOf
<1>3. PICK j \in DOMAIN q : order[j] = w
  BY <1>2
<1>4. q[j] = log[w]
  BY <1>2, <1>3
<1>5. \A i \in DOMAIN q \ {j} : order[i] \in Writers \ {w} /\ q[i] = log[order[i]]
  BY <1>2, <1>3
<1>6. /\ \A k \in DOMAIN q[j] : q[j][k] \in kept
      /\ \A i \in DOMAIN q \ {j} : \A k \in DOMAIN q[i] : q[i][k] \notin kept
  BY <1>4, <1>5
<1>7. Found(q, kept, j)
  BY <1>2, <1>6, FlatSelected, Zenon
<1> QED BY <1>2, <1>4, <1>7 DEF Found

(***************************************************************************)
(* What the sessions have written                                          *)
(***************************************************************************)

Commands == {"RunCommand", "UnknownCommand"}

Logged(s, kinds) == \E i \in DOMAIN log[s] : log[s][i][2].kind \in kinds

\* A part of the log is whole and of one identifier.
Owned(w, n) == \A i \in DOMAIN log[w] : log[w][i] # Torn /\ log[w][i][2].id = n

\* What a session has logged where it is.
Tale(s) ==
    /\ pc[s] = "new" <=> id[s] = NoId
    /\ pc[s] = "new" => log[s] = << >>
    /\ pc[s] \in {"login", "tty", "start"} => ~Logged(s, Commands)
    /\ pc[s] \notin {"new", "login", "tty", "start", "ended", "killed"} => Logged(s, Commands)
    /\ pc[s] # "ended" => ~Logged(s, {"SessionEnded"})
    /\ pc[s] = "ended" => (Logged(s, Commands) <=> Logged(s, {"SessionEnded"}))

\* Data is announced, but for what is about to be.
Announced(s) ==
    \A t \in Times : named[t] = << s >> /\ data[t] # Missing =>
        Told(s, t) \/ (pc[s] = "entry" /\ base[s] = t) \/ pc[s] = "killed"

Story == Owned(Process, NoId) /\ \A s \in Sessions : Owned(s, id[s]) /\ Tale(s) /\ Announced(s)

(***************************************************************************)
(* What the reports make of it                                             *)
(***************************************************************************)

Lines == {Line(e) : e \in Entries}

LEMMA LinesAre == Torn \notin Lines /\ Chunks = {Torn} \cup Lines /\ \A x \in Lines : x[2] \in Entries
<1>1. Chunks = {Torn} \cup Lines
  BY DEF Chunks, Lines
<1>2. Torn \notin Lines /\ \A x \in Lines : x[2] \in Entries
  BY LineTells DEF Lines
<1> QED BY <1>1, <1>2

LEMMA LinesContents ==
    ASSUME NEW c \in Seq(Lines)
    PROVE  /\ Contents(c) \in Seq(Entries) /\ Len(Contents(c)) = Len(c)
           /\ DOMAIN Contents(c) = DOMAIN c
           /\ \A i \in DOMAIN c : Contents(c)[i] = c[i][2]
<1>1. \A x \in Lines : x[2] \in Entries
  BY LinesAre
<1>2. AreContents(Contents(c), c, Entries)
  BY <1>1, ContentsType, Zenon
<1> QED BY <1>2, Zenon DEF AreContents

LEMMA WriterLines ==
    ASSUME Types, NEW w \in Writers, NEW n, Owned(w, n)
    PROVE  log[w] \in Seq(Lines)
<1>1. log[w] \in Seq(Chunks)
  BY DEF Types
<1>2. Len(log[w]) \in Nat /\ DOMAIN log[w] = 1 .. Len(log[w]) /\ log[w] \in [1 .. Len(log[w]) -> Chunks]
  BY <1>1
<1>3. \A i \in 1 .. Len(log[w]) : log[w][i] \in Lines
  BY <1>2, LinesAre DEF Owned
<1>4. log[w] \in [1 .. Len(log[w]) -> Lines]
  BY <1>2, <1>3
<1> QED BY <1>2, <1>4

LEMMA StoryOwned ==
    ASSUME Types, Story, NEW w \in Writers PROVE \E n : Owned(w, n)
BY DEF Story, Writers

\* The log is read as it was written.
LEMMA StoryLog ==
    ASSUME Types, Story
    PROVE  Log \in Seq(Lines) /\ Readable(Log) /\ LogEntries = Contents(Log)
<1>1. PICK all : all = Log
  OBVIOUS
<1>2. /\ all \in Seq(Chunks)
      /\ \A i \in DOMAIN all : \E w \in Writers : \E k \in DOMAIN log[w] : all[i] = log[w][k]
  BY <1>1, LogElements
<1>3. \A i \in DOMAIN all : all[i] # Torn
  <2>1. \A w \in Writers : \A k \in DOMAIN log[w] : log[w][k] # Torn
    BY StoryOwned DEF Owned
  <2> QED BY <1>2, <2>1, Zenon
<1>4. Len(all) \in Nat /\ DOMAIN all = 1 .. Len(all) /\ all \in [1 .. Len(all) -> Chunks]
  BY <1>2
<1>5. \A i \in 1 .. Len(all) : all[i] \in Lines
  BY <1>3, <1>4, LinesAre
<1>6. all \in Seq(Lines)
  <2>1. all \in [1 .. Len(all) -> Lines]
    BY <1>4, <1>5
  <2> QED BY <1>4, <2>1
<1>7. EntriesOf(all) = Contents(all)
  <2> DEFINE whole == Selected(all, ToSet(all) \ {Torn})
  <2>1. \A i \in DOMAIN all : all[i] \in ToSet(all) \ {Torn}
    BY <1>3 DEF ToSet
  <2>2. whole = all
    <3>1. PICK kept : kept = ToSet(all) \ {Torn}
      OBVIOUS
    <3> QED BY <1>2, <2>1, <3>1, SelectedAll
  <2>3. EntriesOf(all) = Contents(whole)
    BY DEF EntriesOf, Contents
  <2> HIDE DEF whole
  <2> QED BY <2>2, <2>3
<1> QED BY <1>1, <1>3, <1>6, <1>7 DEF Readable, LogEntries

\* The entries of an identifier that one writer alone used are what it wrote.
LEMMA EntriesOfOne ==
    ASSUME Types, Story, NEW w \in Writers, NEW n, Owned(w, n),
           \A v \in Writers \ {w} : \A i \in DOMAIN log[v] : log[v][i][2].id # n
    PROVE  Of(LogEntries, n) = Contents(log[w])
<1> DEFINE lines == {x \in Lines : x[2].id = n}
<1>1. Log \in Seq(Lines) /\ LogEntries = Contents(Log)
  BY StoryLog
<1>2. \A x \in Lines : x[2] \in Entries /\ (x \in lines <=> x[2] \in At(n))
  BY LinesAre DEF At
<1>3. LogEntries \in Seq(Entries)
  BY <1>1, LinesContents
<1>4. /\ \A i \in DOMAIN log[w] : log[w][i] \in lines
      /\ \A v \in Writers \ {w} : \A i \in DOMAIN log[v] : log[v][i] \notin lines
  <2>1. log[w] \in Seq(Lines)
    BY WriterLines
  <2>2. \A i \in DOMAIN log[w] : log[w][i] \in Lines
    BY <2>1
  <2> QED BY <2>2 DEF Owned
<1> HIDE DEF lines
<1>5. Selected(Log, lines) = log[w]
  BY <1>4, LogSelected
<1>6. Selected(Contents(Log), At(n)) = Contents(Selected(Log, lines))
  <2>1. Alike(Log, At(n), lines)
    BY <1>1, <1>2, SelectedContents, Zenon
  <2> QED BY <2>1 DEF Alike
<1>7. Of(LogEntries, n) = Selected(LogEntries, At(n))
  BY <1>3, OfIs
<1> QED BY <1>1, <1>5, <1>6, <1>7

\* What is listed of some kinds.
LEMMA WhatsAre ==
    ASSUME NEW q \in Seq(Entries), NEW kinds, NEW r, r = Whats(q, kinds)
    PROVE  /\ r # << >> <=> \E i \in DOMAIN q : q[i].kind \in kinds
           /\ Count(q, kinds) > 0 <=> \E i \in DOMAIN q : q[i].kind \in kinds
           /\ \A x : Contains(r, x) <=> \E i \in DOMAIN q : q[i].kind \in kinds /\ q[i].what = x
<1> DEFINE set == {e \in ToSet(q) : e.kind \in kinds}
<1>1. PICK found : found = Selected(q, set)
  OBVIOUS
<1>2. r = [i \in DOMAIN found |-> found[i].what]
  BY <1>1 DEF Whats
<1>3. \A i \in DOMAIN q : q[i] \in set <=> q[i].kind \in kinds
  BY DEF ToSet
<1>4. \A x \in set : x.kind \in kinds
  OBVIOUS
<1> HIDE DEF set
<1>5. /\ found \in Seq(Entries)
      /\ \A i \in DOMAIN found : found[i] \in set /\ \E j \in DOMAIN q : q[j] = found[i]
      /\ \A j \in DOMAIN q : q[j] \in set => \E i \in DOMAIN found : found[i] = q[j]
  BY <1>1, SelectedElements
<1>6. Len(found) \in Nat /\ DOMAIN found = 1 .. Len(found) /\ \A i \in 1 .. Len(found) : found[i] \in Entries
  BY <1>5
<1>7. /\ r \in Seq(Whatever) /\ Len(r) = Len(found)
      /\ \A i \in DOMAIN found : r[i] = found[i].what
  <2>1. r = [i \in 1 .. Len(found) |-> found[i].what]
    BY <1>2, <1>6
  <2>2. \A i \in 1 .. Len(found) : found[i].what \in Whatever
    BY <1>6 DEF Entries
  <2>3. r \in [1 .. Len(found) -> Whatever]
    BY <2>1, <2>2
  <2> QED BY <1>6, <2>1, <2>3
<1>8. \A x : Contains(r, x) <=> \E i \in DOMAIN found : found[i].what = x
  BY <1>6, <1>7 DEF Contains
<1>9. ASSUME NEW x PROVE Contains(r, x) <=> \E i \in DOMAIN q : q[i].kind \in kinds /\ q[i].what = x
  <2>1. ASSUME Contains(r, x) PROVE \E i \in DOMAIN q : q[i].kind \in kinds /\ q[i].what = x
    <3>1. PICK i \in DOMAIN found : found[i].what = x
      BY <1>8, <2>1
    <3>2. PICK j \in DOMAIN q : q[j] = found[i]
      BY <1>5
    <3>3. q[j].kind \in kinds /\ q[j].what = x
      BY <1>4, <1>5, <3>1, <3>2
    <3> QED BY <3>3
  <2>2. ASSUME NEW i \in DOMAIN q, q[i].kind \in kinds, q[i].what = x PROVE Contains(r, x)
    <3>1. PICK j \in DOMAIN found : found[j] = q[i]
      BY <1>3, <1>5, <2>2
    <3> QED BY <1>8, <2>2, <3>1
  <2> QED BY <2>1, <2>2
<1>10. DOMAIN found # {} <=> \E i \in DOMAIN q : q[i].kind \in kinds
  BY <1>3, <1>4, <1>5
<1>11. (r # << >> <=> Len(found) > 0) /\ (DOMAIN found # {} <=> Len(found) > 0)
  BY <1>6, <1>7
<1>12. Count(q, kinds) = Len(found)
  BY <1>7 DEF Count
<1> QED BY <1>9, <1>10, <1>11, <1>12

LEMMA InteractionSays ==
    ASSUME NEW q, NEW told, told = Interaction(q)
    PROVE  /\ told.summed <=> Count(q, {"SessionEnded"}) > 0
           /\ told.commands = Whats(q, {"RunCommand", "UnknownCommand"})
           /\ told.downloads = Whats(q, {"Download"})
<1>1. told.summed = (Count(q, {"SessionEnded"}) > 0)
  BY DEF Interaction
<1> QED BY <1>1 DEF Interaction

LEMMA NameKinds == \A s, t : Told(s, t) <=> \E i \in DOMAIN log[s] : log[s][i] # Torn
                                /\ log[s][i][2].kind \in {"Download"} /\ log[s][i][2].what = Name(t)
BY DEF Told, Tells

LEMMA StoryTells == ASSUME Inv, faults = 0 => Story PROVE ReportsTell
<1> SUFFICES ASSUME faults = 0, Story PROVE ReportsTell
  BY DEF ReportsTell
<1> DEFINE entries == LogEntries
           sessions == Interactions(entries)
<1>0. Types
  BY DEF Inv
<1>1. Readable(Log) /\ Log \in Seq(Lines) /\ entries = Contents(Log)
  BY <1>0, StoryLog
<1>2. entries \in Seq(Entries)
  BY <1>1, LinesContents
<1>3. ASSUME NEW w \in Writers, NEW n, Owned(w, n)
      PROVE  /\ Contents(log[w]) \in Seq(Entries) /\ Len(Contents(log[w])) = Len(log[w])
             /\ DOMAIN Contents(log[w]) = DOMAIN log[w]
             /\ \A i \in DOMAIN log[w] : Contents(log[w])[i] = log[w][i][2]
  <2>1. log[w] \in Seq(Lines)
    BY <1>0, <1>3, WriterLines
  <2> QED BY <2>1, LinesContents, Zenon
<1>4. \A s \in Sessions : pc[s] = "new" \/ id[s] \in Times
  BY <1>0 DEF Story, Tale, Types
<1>5. Process \in Writers /\ Sessions \subseteq Writers /\ Process \notin Sessions
      /\ Writers \ {Process} = Sessions
  BY DownloadsAssumption DEF Writers, Process
<1>6. \A s \in Sessions : \A i \in DOMAIN log[s] : log[s][i][2].id = id[s] /\ id[s] # NoId
  <2> SUFFICES ASSUME NEW s \in Sessions, NEW i \in DOMAIN log[s]
               PROVE  log[s][i][2].id = id[s] /\ id[s] # NoId
    OBVIOUS
  <2>1. log[s] # << >>
    OBVIOUS
  <2> QED BY <2>1 DEF Story, Tale, Owned
<1>7. Len(Of(entries, NoId)) = Len(log[Process])
  <2>1. Owned(Process, NoId)
    BY DEF Story
  <2>2. Of(entries, NoId) = Contents(log[Process])
    <3>1. \A v \in Writers \ {Process} : \A i \in DOMAIN log[v] : log[v][i][2].id # NoId
      BY <1>5, <1>6
    <3>2. PICK n : n = NoId
      OBVIOUS
    <3> QED BY <1>0, <1>5, <2>1, <3>1, <3>2, EntriesOfOne
  <2> QED BY <1>3, <1>5, <2>1, <2>2
<1>8. Summary(entries).entries = Len(log[Process]) + CountedIn(sessions)
  <2>1. Len(entries) = Len(Of(entries, NoId)) + CountedIn(Interactions(entries))
    BY <1>2, AllAreCounted
  <2>2. Summary(entries).entries = Len(entries)
    BY DEF Summary
  <2> QED BY <1>7, <2>1, <2>2
<1>9. ASSUME NEW s \in Sessions, Alone(s), id[s] \in DOMAIN sessions
      PROVE  LET told == sessions[id[s]]
             IN  /\ told.summed <=> pc[s] = "ended" /\ told.commands # << >>
                 /\ \A t \in Times : named[t] = << s >> =>
                       /\ Contains(told.downloads, Name(t)) => data[t] # Missing
                       /\ data[t] # Missing /\ pc[s] \notin {"entry", "killed"} =>
                             Contains(told.downloads, Name(t))
  <2> DEFINE told == sessions[id[s]]
             c == Contents(log[s])
  <2>1. id[s] # NoId /\ told = Interaction(Of(entries, id[s]))
    BY <1>9 DEF Interactions, SessionsOf
  <2>2. Owned(s, id[s]) /\ Owned(Process, NoId) /\ Tale(s) /\ Announced(s)
    BY DEF Story
  <2>3. \A v \in Writers \ {s} : \A i \in DOMAIN log[v] : log[v][i][2].id # id[s]
    <3> SUFFICES ASSUME NEW v \in Writers \ {s}, NEW i \in DOMAIN log[v] PROVE log[v][i][2].id # id[s]
      OBVIOUS
    <3>1. CASE v = Process
      BY <2>1, <2>2, <3>1 DEF Owned
    <3>2. CASE v \in Sessions
      BY <1>6, <1>9, <3>2 DEF Alone
    <3> QED BY <1>5, <3>1, <3>2
  <2>4. Of(entries, id[s]) = c
    <3>1. PICK n : n = id[s]
      OBVIOUS
    <3> QED BY <1>0, <1>5, <2>2, <2>3, <3>1, EntriesOfOne
  <2>5. /\ c \in Seq(Entries) /\ DOMAIN c = DOMAIN log[s]
        /\ \A i \in DOMAIN log[s] : c[i] = log[s][i][2]
    BY <1>3, <1>5, <2>2
  <2>6. told = Interaction(c)
    BY <2>1, <2>4
  <2>7. /\ told.summed <=> Count(c, {"SessionEnded"}) > 0
        /\ told.commands = Whats(c, Commands) /\ told.downloads = Whats(c, {"Download"})
    <3> HIDE DEF told, c
    <3> QED BY <2>6, InteractionSays, Zenon DEF Commands
  <2> HIDE DEF told, c
  <2>8. told.summed <=> Logged(s, {"SessionEnded"})
    BY <2>5, <2>7, WhatsAre DEF Logged
  <2>9. told.commands # << >> <=> Logged(s, Commands)
    BY <2>5, <2>7, WhatsAre DEF Logged
  <2>10. \A t : Contains(told.downloads, Name(t)) <=> Told(s, t)
    <3> TAKE t
    <3>1. Contains(told.downloads, Name(t)) <=>
              \E i \in DOMAIN c : c[i].kind \in {"Download"} /\ c[i].what = Name(t)
      BY <2>5, <2>7, WhatsAre
    <3> QED BY <2>2, <2>5, <3>1, NameKinds DEF Owned
  <2>11. told.summed <=> pc[s] = "ended" /\ told.commands # << >>
    BY <2>2, <2>8, <2>9 DEF Tale
  <2>12. ASSUME NEW t \in Times, named[t] = << s >>
         PROVE  /\ Contains(told.downloads, Name(t)) => data[t] # Missing
                /\ data[t] # Missing /\ pc[s] \notin {"entry", "killed"} =>
                      Contains(told.downloads, Name(t))
    <3>1. Told(s, t) => data[t] # Missing
      <4>1. Kept(t, s)
        BY <2>12 DEF Inv, Evidence, EvidenceOf
      <4> QED BY <1>5, <4>1 DEF Kept, Told
    <3>2. data[t] # Missing /\ pc[s] \notin {"entry", "killed"} => Told(s, t)
      BY <2>2, <2>12 DEF Announced
    <3> QED BY <2>10, <3>1, <3>2
  <2> QED BY <2>11, <2>12 DEF told
<1> QED BY <1>1, <1>8, <1>9 DEF ReportsTell

(***************************************************************************)
(* Every step goes on with the tale                                        *)
(***************************************************************************)

\* An entry was added whole to the part of writer w.
Added(w, e) ==
    /\ \A v \in Writers \ {w} : log'[v] = log[v]
    /\ \A i \in DOMAIN log[w] : i \in DOMAIN log'[w] /\ log'[w][i] = log[w][i]
    /\ \E n : DOMAIN log'[w] = DOMAIN log[w] \cup {n} /\ log'[w][n] = Line(e)

LEMMA RecordsWhole ==
    ASSUME Types, NEW w \in Writers, NEW e \in Entries, RecordBy(w, e), faults' = 0
    PROVE  faults = 0 /\ Added(w, e)
<1>1. faults \in Nat /\ faults + 1 # 0
  BY DEF Types
<1>2. faults' = faults /\ log' = [log EXCEPT ![w] = Append(@, Line(e))]
  BY <1>1 DEF RecordBy
<1>3. log[w] \in Seq(Chunks) /\ Line(e) \in Chunks
  BY LineTells DEF Types
<1>4. PICK old, x, new : old = log[w] /\ x = Line(e) /\ new = log'[w]
  OBVIOUS
<1>5. new = Append(old, x) /\ \A v \in Writers \ {w} : log'[v] = log[v]
  BY <1>2, <1>4 DEF Types
<1>6. /\ DOMAIN new = DOMAIN old \cup {Len(old) + 1} /\ new[Len(old) + 1] = x
      /\ \A i \in DOMAIN old : new[i] = old[i]
  BY <1>3, <1>4, <1>5, TwoAppends
<1>7. /\ \A i \in DOMAIN log[w] : i \in DOMAIN log'[w] /\ log'[w][i] = log[w][i]
      /\ \E n : DOMAIN log'[w] = DOMAIN log[w] \cup {n} /\ log'[w][n] = Line(e)
  BY <1>4, <1>6
<1> QED BY <1>2, <1>5, <1>7 DEF Added

LEMMA OwnedStays ==
    ASSUME NEW w \in Writers, NEW e \in Entries, NEW n, Added(w, e), Owned(w, n), e.id = n
    PROVE  \A i \in DOMAIN log'[w] : log'[w][i] # Torn /\ log'[w][i][2].id = n
<1>1. Line(e) # Torn /\ Line(e)[2] = e
  BY LineTells
<1> QED BY <1>1 DEF Added, Owned

\* What a session's entry changes of its tale.
LEMMA Recorded ==
    ASSUME Types, NEW s \in Sessions, NEW kind, NEW what, Entry(kind, id[s], what) \in Entries,
           Record(s, kind, what), faults' = 0, Owned(s, id[s]), id'[s] = id[s]
    PROVE  /\ faults = 0 /\ Owned(s, id[s])'
           /\ Logged(s, Commands)' <=> Logged(s, Commands) \/ kind \in Commands
           /\ Logged(s, {"SessionEnded"})' <=> Logged(s, {"SessionEnded"}) \/ kind = "SessionEnded"
           /\ \A t \in Times : Told(s, t)' <=> Told(s, t) \/ (kind = "Download" /\ what = Name(t))
           /\ \A v \in Writers \ {s} : log'[v] = log[v]
<1>1. PICK e : e = Entry(kind, id[s], what)
  OBVIOUS
<1>2. e \in Entries /\ e.kind = kind /\ e.id = id[s] /\ e.what = what /\ s \in Writers
  BY <1>1 DEF Entry, Writers
<1>3. faults = 0 /\ Added(s, e)
  BY <1>1, <1>2, RecordsWhole DEF Record
<1>4. PICK n : DOMAIN log'[s] = DOMAIN log[s] \cup {n} /\ log'[s][n] = Line(e)
  BY <1>3 DEF Added
<1>5. \A i \in DOMAIN log[s] : log'[s][i] = log[s][i]
  BY <1>3 DEF Added
<1>6. Line(e) # Torn /\ Line(e)[2] = e
  BY <1>2, LineTells
<1>7. Owned(s, id[s])'
  BY <1>2, <1>3, OwnedStays DEF Owned
<1>8. ASSUME NEW kinds
      PROVE  (\E i \in DOMAIN log'[s] : log'[s][i][2].kind \in kinds)
                <=> (\E i \in DOMAIN log[s] : log[s][i][2].kind \in kinds) \/ kind \in kinds
  BY <1>2, <1>4, <1>5, <1>6
<1>9. \A t \in Times : Told(s, t)' <=> Told(s, t) \/ (kind = "Download" /\ what = Name(t))
  <2> TAKE t \in Times
  <2>1. Tells(Line(e), t) <=> kind = "Download" /\ what = Name(t)
    BY <1>2, <1>6 DEF Tells
  <2>2. Told(s, t)' <=> \E i \in DOMAIN log'[s] : Tells(log'[s][i], t)
    BY DEF Told, Tells
  <2>3. Told(s, t)' <=> (\E i \in DOMAIN log[s] : Tells(log[s][i], t)) \/ Tells(Line(e), t)
    BY <1>4, <1>5, <2>2
  <2> QED BY <2>1, <2>3 DEF Told
<1>10. \A v \in Writers \ {s} : log'[v] = log[v]
  BY <1>3 DEF Added
<1>11. Logged(s, Commands)' <=> Logged(s, Commands) \/ kind \in Commands
  BY <1>8 DEF Logged, Commands
<1>12. Logged(s, {"SessionEnded"})' <=> Logged(s, {"SessionEnded"}) \/ kind = "SessionEnded"
  BY <1>8 DEF Logged
<1> QED BY <1>3, <1>7, <1>9, <1>10, <1>11, <1>12

\* A session that others leave alone goes on as it was.
Same(r) ==
    /\ pc'[r] = pc[r] /\ id'[r] = id[r] /\ base'[r] = base[r] /\ log'[r] = log[r]
    /\ \A t \in Times : named'[t] = << r >> =>
          named[t] = << r >> /\ (data'[t] # Missing => data[t] # Missing)

LEMMA SameTale ==
    ASSUME NEW r \in Sessions, Same(r), Owned(r, id[r]), Tale(r), Announced(r)
    PROVE  Owned(r, id[r])' /\ Tale(r)' /\ Announced(r)'
<1>1. Owned(r, id[r])'
  BY DEF Same, Owned
<1>2. Tale(r)'
  BY DEF Same, Tale, Logged, Commands
<1>3. \A t : Told(r, t)' <=> Told(r, t)
  BY DEF Same, Told, Tells
<1>4. Announced(r)'
  BY <1>3 DEF Same, Announced
<1> QED BY <1>1, <1>2, <1>4

\* A session that only adds what is not about commands, ends or downloads.
LEMMA StillAnnounced ==
    ASSUME NEW s \in Sessions, Announced(s), pc[s] \notin {"entry", "killed"},
           UNCHANGED << data, named >>, \A t \in Times : Told(s, t) => Told(s, t)'
    PROVE  Announced(s)'
BY DEF Announced

\* What the entries of a session are about.
LEMMA StepEntry ==
    ASSUME Types, NEW s \in Sessions
    PROVE  /\ \A tool \in Tools : /\ Entry("RunCommand", id[s], Word(tool)) \in Entries
                                  /\ Entry("InvalidInvocation", id[s], Word(tool)) \in Entries
           /\ Entry("LoginAttempt", id[s], Word("success")) \in Entries
           /\ Entry("OpenTtyLog", id[s], Word("recording")) \in Entries
           /\ Entry("RunCommand", id[s], Word("shell")) \in Entries
           /\ Entry("UnknownCommand", id[s], Word("other")) \in Entries
           /\ Entry("SessionEnded", id[s], Word("summary")) \in Entries
           /\ Entry("Download", id[s], Name(base[s])) \in Entries
<1>1. id[s] \in Times \cup {NoId} /\ base[s] \in Times
  BY DEF Types
<1>2. Name(base[s]) \in Whatever
  BY <1>1 DEF Whatever
<1>3. \A word \in Tools \cup {"success", "failure", "start", "shell", "other", "recording", "summary"} :
          Word(word) \in Whatever
  BY DEF Whatever
<1> QED BY <1>1, <1>2, <1>3 DEF Entry, Entries, Kinds

LEMMA ProcessEntry ==
    /\ Entry("LoginAttempt", NoId, Word("failure")) \in Entries
    /\ Entry("HoneypotEvent", NoId, Word("start")) \in Entries
<1>1. Word("failure") \in Whatever /\ Word("start") \in Whatever
  BY DEF Whatever
<1> QED BY <1>1 DEF Entry, Entries, Kinds

TaleOf(s) == Owned(s, id[s]) /\ Tale(s) /\ Announced(s)

\* The actions that record, but for the announcement of a download.
LEMMA RecordingTale ==
    ASSUME Inv, NEW s \in Sessions, faults' = 0, TaleOf(s),
           \/ Login(s) \/ OpenTtyLog(s) \/ StartShell(s) \/ UnknownCommand(s)
           \/ SkipFlag(s) \/ EndSession(s) \/ \E tool \in Tools : RunTool(s, tool)
    PROVE  TaleOf(s)' /\ faults = 0 /\ \A v \in Writers \ {s} : log'[v] = log[v]
<1> DEFINE Says(kind) ==
              /\ faults = 0 /\ Owned(s, id[s])'
              /\ Logged(s, Commands)' <=> Logged(s, Commands) \/ kind \in Commands
              /\ Logged(s, {"SessionEnded"})' <=> Logged(s, {"SessionEnded"}) \/ kind = "SessionEnded"
              /\ \A t \in Times : Told(s, t) => Told(s, t)'
              /\ \A v \in Writers \ {s} : log'[v] = log[v]
<1>0. Types /\ Owned(s, id[s]) /\ Tale(s) /\ Announced(s)
  BY DEF Inv, TaleOf
<1>1. UNCHANGED << id, data, named >>
  BY DEF Login, OpenTtyLog, StartShell, UnknownCommand, SkipFlag, EndSession, RunTool, fileVars
<1>2. ASSUME NEW kind, NEW what, Entry(kind, id[s], what) \in Entries, Record(s, kind, what)
      PROVE  Says(kind)
  <2>1. id'[s] = id[s]
    BY <1>1
  <2> QED BY <1>0, <1>2, <2>1, Recorded
<1> HIDE DEF Says
<1>3. ASSUME NEW kind, NEW from, NEW to, Says(kind), pc[s] = from, pc'[s] = to,
             from \notin {"new", "entry", "ended", "killed"},
             to \notin {"new", "login", "killed"},
             kind \in Commands => to \notin {"tty", "start"},
             to \in {"tty", "start"} => from \in {"login", "tty", "start"},
             to \notin {"tty", "start", "ended"} =>
                 from \notin {"login", "tty", "start"} \/ kind \in Commands,
             kind = "SessionEnded" => to = "ended",
             to = "ended" =>
                 \/ kind = "SessionEnded" /\ from \notin {"login", "tty", "start"}
                 \/ kind \notin Commands \cup {"SessionEnded"} /\ from \in {"login", "tty", "start"}
      PROVE  TaleOf(s)' /\ faults = 0 /\ \A v \in Writers \ {s} : log'[v] = log[v]
  <2>1. Announced(s)'
    BY <1>0, <1>1, <1>3, StillAnnounced DEF Says
  <2>2. Tale(s)'
    BY <1>0, <1>1, <1>3, Zenon DEF Says, Tale
  <2> QED BY <1>3, <2>1, <2>2 DEF Says, TaleOf
<1>4. \A label \in Labels : Goto(s, label) => pc'[s] = label
  BY <1>0 DEF Goto, Types
<1>5. CASE Login(s)
  <2>1. /\ pc[s] = "login" /\ pc'[s] = "tty" /\ Record(s, "LoginAttempt", Word("success"))
    BY <1>4, <1>5 DEF Login, Labels
  <2>2. Says("LoginAttempt")
    BY <1>0, <1>2, <2>1, StepEntry
  <2> QED BY <1>3, <2>1, <2>2 DEF Commands
<1>6. CASE OpenTtyLog(s)
  <2>1. /\ pc[s] = "tty" /\ pc'[s] \in {"start", "ended"} /\ Record(s, "OpenTtyLog", Word("recording"))
    BY <1>4, <1>6 DEF OpenTtyLog, Labels
  <2>2. Says("OpenTtyLog")
    BY <1>0, <1>2, <2>1, StepEntry
  <2> QED BY <1>3, <2>1, <2>2 DEF Commands
<1>7. CASE StartShell(s)
  <2>1. /\ pc[s] = "start" /\ pc'[s] = "shell" /\ Record(s, "RunCommand", Word("shell"))
    BY <1>4, <1>7 DEF StartShell, Labels
  <2>2. Says("RunCommand")
    BY <1>0, <1>2, <2>1, StepEntry
  <2> QED BY <1>3, <2>1, <2>2 DEF Commands
<1>8. CASE UnknownCommand(s)
  <2>1. /\ pc[s] = "shell" /\ pc'[s] = "shell" /\ Record(s, "UnknownCommand", Word("other"))
    BY <1>8 DEF UnknownCommand
  <2>2. Says("UnknownCommand")
    BY <1>0, <1>2, <2>1, StepEntry
  <2> QED BY <1>3, <2>1, <2>2 DEF Commands
<1>9. CASE SkipFlag(s)
  <2>1. /\ pc[s] = "args" /\ pc'[s] = "args" /\ Record(s, "InvalidInvocation", Word(command[s]))
        /\ command[s] \in Tools
    BY <1>0, <1>9 DEF SkipFlag, Types
  <2>2. Says("InvalidInvocation")
    BY <1>0, <1>2, <2>1, StepEntry
  <2> QED BY <1>3, <2>1, <2>2 DEF Commands
<1>10. CASE EndSession(s)
  <2>1. /\ pc[s] = "shell" /\ pc'[s] = "ended" /\ Record(s, "SessionEnded", Word("summary"))
    BY <1>4, <1>10 DEF EndSession, Labels
  <2>2. Says("SessionEnded")
    BY <1>0, <1>2, <2>1, StepEntry
  <2> QED BY <1>3, <2>1, <2>2 DEF Commands
<1>11. ASSUME NEW tool \in Tools, RunTool(s, tool)
       PROVE  TaleOf(s)' /\ faults = 0 /\ \A v \in Writers \ {s} : log'[v] = log[v]
  <2>1. /\ pc[s] = "shell" /\ pc'[s] = "args" /\ Record(s, "RunCommand", Word(tool))
    BY <1>4, <1>11 DEF RunTool, Labels
  <2>2. Says("RunCommand")
    BY <1>0, <1>2, <2>1, StepEntry
  <2> QED BY <1>3, <2>1, <2>2 DEF Commands
<1> QED BY <1>5, <1>6, <1>7, <1>8, <1>9, <1>10, <1>11

LEMMA LogDownloadTale ==
    ASSUME Inv, NEW s \in Sessions, faults' = 0, TaleOf(s), LogDownload(s)
    PROVE  TaleOf(s)' /\ faults = 0 /\ \A v \in Writers \ {s} : log'[v] = log[v]
<1>0. Types /\ Owned(s, id[s]) /\ Tale(s) /\ Announced(s)
  BY DEF Inv, TaleOf
<1>1. /\ pc[s] = "entry" /\ Record(s, "Download", Name(base[s])) /\ UNCHANGED << id, data, named >>
      /\ pc'[s] \in {"copy", "request"}
  BY <1>0 DEF LogDownload, Goto, Types, fileVars
<1>2. /\ faults = 0 /\ Owned(s, id[s])'
      /\ Logged(s, Commands)' <=> Logged(s, Commands) \/ "Download" \in Commands
      /\ Logged(s, {"SessionEnded"})' <=> Logged(s, {"SessionEnded"}) \/ "Download" = "SessionEnded"
      /\ \A t \in Times : Told(s, t)' <=> Told(s, t) \/ ("Download" = "Download" /\ Name(base[s]) = Name(t))
      /\ \A v \in Writers \ {s} : log'[v] = log[v]
  <2>1. Entry("Download", id[s], Name(base[s])) \in Entries /\ id'[s] = id[s]
    BY <1>0, <1>1, StepEntry
  <2>2. PICK kind, what : kind = "Download" /\ what = Name(base[s])
    OBVIOUS
  <2> QED BY <1>0, <1>1, <2>1, <2>2, Recorded
<1>3. Tale(s)'
  BY <1>0, <1>1, <1>2 DEF Tale, Commands
<1>4. Announced(s)'
  BY <1>0, <1>1, <1>2 DEF Announced
<1> QED BY <1>2, <1>3, <1>4 DEF TaleOf

\* The actions that do not record.
LEMMA SilentTale ==
    ASSUME NEW s \in Sessions, Types, TaleOf(s), log'[s] = log[s], id'[s] = id[s],
           pc[s] \notin {"new", "login", "tty", "start", "ended", "killed"},
           pc'[s] \notin {"new", "login", "tty", "start", "ended", "killed"}, Announced(s)'
    PROVE  TaleOf(s)'
<1>0. Owned(s, id[s]) /\ Tale(s)
  BY DEF TaleOf
<1>1. Owned(s, id[s])'
  BY <1>0 DEF Owned
<1>2. /\ Logged(s, Commands)' <=> Logged(s, Commands)
      /\ Logged(s, {"SessionEnded"})' <=> Logged(s, {"SessionEnded"})
  BY DEF Logged, Commands
<1>3. Tale(s)'
  BY <1>0, <1>2 DEF Tale
<1> QED BY <1>1, <1>3 DEF TaleOf

LEMMA ConnectTale ==
    ASSUME Inv, NEW s \in Sessions, TaleOf(s), Connect(s) PROVE TaleOf(s)'
<1>0. Types /\ Tale(s) /\ Owned(s, id[s])
  BY DEF Inv, TaleOf
<1>1. /\ pc[s] = "new" /\ pc'[s] = "login" /\ id'[s] \in Times /\ UNCHANGED << log, data, named >>
  BY <1>0 DEF Connect, Goto, Types, logVars, fileVars
<1>2. id'[s] # NoId /\ log'[s] = << >>
  BY <1>0, <1>1, DownloadsAssumption DEF Tale, Times, NoId
<1>3. Owned(s, id[s])'
  BY <1>2 DEF Owned
<1>4. Tale(s)'
  BY <1>1, <1>2 DEF Tale, Logged
<1>5. \A t \in Times : named[t] # << s >>
  BY <1>1 DEF Inv, Evidence, EvidenceOf, Kept
<1>6. Announced(s)'
  BY <1>1, <1>5 DEF Announced
<1> QED BY <1>3, <1>4, <1>6 DEF TaleOf

LEMMA FetchTale ==
    ASSUME Inv, NEW s \in Sessions, TaleOf(s),
           \/ NextArg(s) \/ NoMoreArgs(s) \/ OpenLocal(s) \/ Request(s) \/ CopyEnds(s)
           \/ CreateMeta(s) \/ WriteMeta(s)
    PROVE  TaleOf(s)'
<1>0. Types /\ Announced(s)
  BY DEF Inv, TaleOf
<1>1. /\ UNCHANGED << log, id, data, named >>
      /\ pc[s] \in {"args", "local", "save", "request", "copy", "meta", "tell"}
  BY DEF NextArg, NoMoreArgs, OpenLocal, Request, CopyEnds, CreateMeta, WriteMeta, logVars, fileVars
<1>2. pc'[s] \in {"local", "name", "shell", "args", "copy", "save", "tell", "data"}
  BY <1>0 DEF NextArg, NoMoreArgs, OpenLocal, Request, CopyEnds, CreateMeta, WriteMeta, Goto,
       NextOrShell, Types
<1>3. \A t : Told(s, t)' <=> Told(s, t)
  BY <1>1 DEF Told, Tells
<1>4. Announced(s)'
  BY <1>0, <1>1, <1>3, StillAnnounced
<1> QED BY <1>0, <1>1, <1>2, <1>4, SilentTale

LEMMA NameDownloadTale ==
    ASSUME Inv, NEW s \in Sessions, TaleOf(s), NameDownload(s) PROVE TaleOf(s)'
<1>0. Types /\ Announced(s)
  BY DEF Inv, TaleOf
<1>1. /\ pc[s] = "name" /\ pc'[s] = "meta" /\ UNCHANGED << log, id, data >>
  BY <1>0 DEF NameDownload, Goto, Types, logVars, fileVars
<1>2. PICK u \in Times : named' = [named EXCEPT ![u] = Append(@, s)]
  BY DEF NameDownload
<1>3. \A t \in Times \ {u} : named'[t] = named[t]
  BY <1>0, <1>2 DEF Types
<1>4. named'[u] = << s >> => data[u] = Missing
  <2> SUFFICES ASSUME named'[u] = << s >> PROVE data[u] = Missing
    OBVIOUS
  <2>1. named[u] \in Seq(Sessions) /\ named'[u] = Append(named[u], s)
    BY <1>0, <1>2 DEF Types
  <2>2. named[u] = << >>
    <3>1. Len(<< s >>) = 1 /\ Len(named'[u]) = Len(named[u]) + 1
      BY <2>1
    <3> QED BY <2>1, <3>1
  <2> QED BY <2>2 DEF Inv, Evidence, EvidenceOf, Unused
<1>5. \A t : Told(s, t)' <=> Told(s, t)
  BY <1>1 DEF Told, Tells
<1>6. Announced(s)'
  BY <1>0, <1>1, <1>3, <1>4, <1>5 DEF Announced
<1> QED BY <1>0, <1>1, <1>6, SilentTale

LEMMA CreateDataTale ==
    ASSUME Inv, NEW s \in Sessions, TaleOf(s), CreateData(s) PROVE TaleOf(s)'
<1>0. Types /\ Announced(s)
  BY DEF Inv, TaleOf
<1>1. /\ pc[s] = "data" /\ UNCHANGED << log, id, named, base >>
      /\ pc'[s] \in {"entry", "shell", "args"}
  BY <1>0 DEF CreateData, Goto, NextOrShell, Types, logVars, fetchVars
<1>2. \A t : Told(s, t)' <=> Told(s, t)
  BY <1>1 DEF Told, Tells
<1>3. \/ pc'[s] = "entry" /\ \A t \in Times \ {base[s]} : data'[t] = data[t]
      \/ data' = data
  BY <1>0 DEF CreateData, Goto, Types
<1>4. Announced(s)'
  BY <1>0, <1>1, <1>2, <1>3 DEF Announced
<1> QED BY <1>0, <1>1, <1>4, SilentTale

LEMMA CopyTale ==
    ASSUME Inv, NEW s \in Sessions, TaleOf(s), Copy(s) PROVE TaleOf(s)'
<1>0. Types /\ Announced(s) /\ base[s] \in Times
  BY DEF Inv, TaleOf, Types
<1>1. /\ pc[s] = "copy" /\ UNCHANGED << log, id, named, base >>
      /\ pc'[s] \in {"copy", "shell", "args"}
  BY <1>0, Zenon DEF Copy, Goto, NextOrShell, Types, logVars, fetchVars
<1>2. \A t : Told(s, t)' <=> Told(s, t)
  BY <1>1 DEF Told, Tells
<1>3. \A t \in Times \ {base[s]} : data'[t] = data[t]
  BY <1>0 DEF Copy, Types
<1>4. named[base[s]] = << s >> => data[base[s]] # Missing
  BY <1>1, InUse DEF Busy, Progress
<1>5. Announced(s)'
  BY <1>0, <1>1, <1>2, <1>3, <1>4 DEF Announced
<1> QED BY <1>0, <1>1, <1>5, SilentTale

\* Names and data of another session's downloads are left alone.
LEMMA OthersFiles ==
    ASSUME Inv, NEW s \in Sessions, Step(s), NEW r \in Sessions \ {s}, NEW t \in Times,
           named'[t] = << r >>
    PROVE  named[t] = << r >> /\ (data'[t] # Missing => data[t] # Missing)
<1>0. Types
  BY DEF Inv
<1>1. CASE NameDownload(s)
  <2>1. data' = data
    BY <1>1 DEF NameDownload, fileVars
  <2>2. PICK u \in Times : named' = [named EXCEPT ![u] = Append(@, s)]
    BY <1>1 DEF NameDownload
  <2>3. CASE t = u
    <3>1. named[t] \in Seq(Sessions) /\ named'[t] = Append(named[t], s)
      BY <1>0, <2>2, <2>3 DEF Types
    <3>2. /\ Len(named[t]) \in Nat /\ Len(named'[t]) = Len(named[t]) + 1
          /\ named'[t][Len(named[t]) + 1] = s
      BY <3>1
    <3>3. Len(named'[t]) = 1 /\ named'[t][1] = r
      OBVIOUS
    <3>4. Len(named[t]) + 1 = 1
      BY <3>2, <3>3
    <3> QED BY <3>2, <3>3, <3>4
  <2>4. CASE t # u
    BY <1>0, <2>1, <2>2, <2>4 DEF Types
  <2> QED BY <2>3, <2>4
<1>2. CASE CreateData(s) \/ Copy(s)
  <2>1. named' = named /\ pc[s] \in Busy
    BY <1>2 DEF CreateData, Copy, Busy
  <2>2. Kept(t, r)
    BY <2>1 DEF Inv, Evidence, EvidenceOf
  <2>3. base[s] # t
    BY <2>1, <2>2 DEF Kept, Uses
  <2>4. data'[t] = data[t]
    <3>1. CASE CreateData(s)
      BY <1>0, <2>3, <3>1 DEF CreateData, Types
    <3>2. CASE Copy(s)
      BY <1>0, <2>3, <3>2 DEF Copy, Types
    <3> QED BY <1>2, <3>1, <3>2
  <2> QED BY <2>1, <2>4
<1>3. CASE ~(NameDownload(s) \/ CreateData(s) \/ Copy(s))
  <2>1. UNCHANGED << data, named >>
    BY <1>3 DEF Step, Connect, Login, OpenTtyLog, EndSession, StartShell, UnknownCommand, RunTool,
         SkipFlag, NextArg, NoMoreArgs, OpenLocal, CreateMeta, WriteMeta, LogDownload, Request,
         CopyEnds, fileVars
  <2> QED BY <2>1
<1> QED BY <1>1, <1>2, <1>3

LEMMA OthersMove ==
    ASSUME Inv, NEW s \in Sessions, Step(s), NEW r \in Sessions \ {s}
    PROVE  pc'[r] = pc[r] /\ id'[r] = id[r] /\ base'[r] = base[r]
<1>0. Types
  BY DEF Inv
<1>1. pc'[r] = pc[r]
  BY <1>0 DEF Types, Step, Goto, Connect, Login, OpenTtyLog, EndSession, StartShell,
       UnknownCommand, RunTool, SkipFlag, NextArg, NoMoreArgs, OpenLocal, NameDownload,
       CreateMeta, WriteMeta, CreateData, LogDownload, Request, Copy, CopyEnds
<1>2. id'[r] = id[r]
  BY <1>0 DEF Types, Step, Connect, Login, OpenTtyLog, EndSession, StartShell,
       UnknownCommand, RunTool, SkipFlag, NextArg, NoMoreArgs, OpenLocal, NameDownload,
       CreateMeta, WriteMeta, CreateData, LogDownload, Request, Copy, CopyEnds
<1>3. base'[r] = base[r]
  <2>1. CASE EndSession(s)
    BY <2>1 DEF EndSession, Discard
  <2>2. CASE NameDownload(s)
    BY <1>0, <2>2 DEF NameDownload, Types
  <2>3. CASE ~(EndSession(s) \/ NameDownload(s))
    BY <2>3 DEF Step, Connect, Login, OpenTtyLog, StartShell,
       UnknownCommand, RunTool, SkipFlag, NextArg, NoMoreArgs, OpenLocal,
       CreateMeta, WriteMeta, CreateData, LogDownload, Request, Copy, CopyEnds, fetchVars
  <2> QED BY <2>1, <2>2, <2>3
<1> QED BY <1>1, <1>2, <1>3

\* A step of a session: it goes on with its tale, and the others with theirs.
LEMMA StepStory ==
    ASSUME Inv, NEW s \in Sessions, Step(s), faults' = 0, faults = 0 => Story
    PROVE  Story'
<1>1. faults = 0
  <2>0. Types
    BY DEF Inv
  <2>1. \A w, e : RecordBy(w, e) => faults = 0
    BY <2>0 DEF RecordBy, Types
  <2>2. (\E w, e : RecordBy(w, e)) \/ faults' = faults \/ faults' = faults + 1
    BY DEF Step, Connect, Login, OpenTtyLog, EndSession, StartShell, UnknownCommand, RunTool,
         SkipFlag, NextArg, NoMoreArgs, OpenLocal, NameDownload, CreateMeta, WriteMeta, CreateData,
         LogDownload, Request, Copy, CopyEnds, Record, logVars
  <2> QED BY <2>0, <2>1, <2>2 DEF Types
<1>2. TaleOf(s)
  BY <1>1 DEF Story, TaleOf
<1>3. TaleOf(s)' /\ \A v \in Writers \ {s} : log'[v] = log[v]
  <2>1. CASE \/ Login(s) \/ OpenTtyLog(s) \/ StartShell(s) \/ UnknownCommand(s)
             \/ SkipFlag(s) \/ EndSession(s) \/ \E tool \in Tools : RunTool(s, tool)
    BY <1>2, <2>1, RecordingTale
  <2>2. CASE LogDownload(s)
    BY <1>2, <2>2, LogDownloadTale
  <2>3. CASE \/ NextArg(s) \/ NoMoreArgs(s) \/ OpenLocal(s) \/ Request(s) \/ CopyEnds(s)
             \/ CreateMeta(s) \/ WriteMeta(s)
    <3>1. log' = log
      BY <2>3 DEF NextArg, NoMoreArgs, OpenLocal, Request, CopyEnds, CreateMeta, WriteMeta, logVars
    <3>2. TaleOf(s)'
      BY <1>2, <2>3, FetchTale
    <3> QED BY <3>1, <3>2
  <2>4. CASE Connect(s) \/ NameDownload(s) \/ CreateData(s) \/ Copy(s)
    <3>1. log' = log
      BY <2>4 DEF Connect, NameDownload, CreateData, Copy, logVars
    <3>2. TaleOf(s)'
      BY <1>2, <2>4, ConnectTale, NameDownloadTale, CreateDataTale, CopyTale
    <3> QED BY <3>1, <3>2
  <2> QED BY <2>1, <2>2, <2>3, <2>4 DEF Step
<1>4. Owned(Process, NoId)'
  <2>1. Process \in Writers \ {s}
    BY DownloadsAssumption DEF Writers, Process
  <2>2. log'[Process] = log[Process] /\ Owned(Process, NoId)
    BY <1>1, <1>3, <2>1 DEF Story
  <2> QED BY <2>2 DEF Owned, Process, NoId
<1>5. ASSUME NEW r \in Sessions \ {s} PROVE TaleOf(r)'
  <2>1. r \in Writers \ {s}
    BY DEF Writers
  <2>2. Same(r)
    BY <1>3, <2>1, OthersFiles, OthersMove DEF Same
  <2> QED BY <1>1, <2>2, SameTale DEF Story, TaleOf
<1> QED BY <1>3, <1>4, <1>5 DEF Story, TaleOf

LEMMA ProcessStory ==
    ASSUME Inv, Refuse \/ Start, faults' = 0, faults = 0 => Story
    PROVE  Story'
<1>0. Types /\ Process \in Writers /\ Process \notin Sessions /\ Sessions \subseteq Writers
  BY DownloadsAssumption DEF Inv, Writers, Process
<1>1. PICK e \in Entries : RecordBy(Process, e) /\ e.id = NoId
  <2>1. PICK e : /\ RecordBy(Process, e)
                 /\ e \in {Entry("LoginAttempt", NoId, Word("failure")),
                           Entry("HoneypotEvent", NoId, Word("start"))}
    BY DEF Refuse, Start
  <2> QED BY <2>1, ProcessEntry DEF Entry
<1>2. faults = 0 /\ Added(Process, e)
  BY <1>0, <1>1, RecordsWhole
<1>3. Owned(Process, NoId)'
  <2>1. Owned(Process, NoId)
    BY <1>2 DEF Story
  <2>2. PICK n : n = NoId
    OBVIOUS
  <2>3. \A i \in DOMAIN log'[Process] : log'[Process][i] # Torn /\ log'[Process][i][2].id = n
    BY <1>0, <1>1, <1>2, <2>1, <2>2, OwnedStays
  <2> QED BY <2>2, <2>3 DEF Owned, Process, NoId
<1>4. ASSUME NEW r \in Sessions PROVE TaleOf(r)'
  <2>1. UNCHANGED << pc, id, base, data, named >>
    BY DEF Refuse, Start, fetchVars, fileVars
  <2>2. log'[r] = log[r]
    BY <1>0, <1>2 DEF Added
  <2>3. Same(r)
    BY <2>1, <2>2 DEF Same
  <2> QED BY <1>2, <2>3, SameTale DEF Story, TaleOf
<1> QED BY <1>3, <1>4 DEF Story, TaleOf

LEMMA KillStory ==
    ASSUME Inv, Kill, faults' = 0, faults = 0 => Story
    PROVE  Story'
<1>0. Types /\ faults + 1 # 0
  BY DEF Inv, Types
<1>1. /\ log' = log /\ faults = 0 /\ UNCHANGED << id, data, named >>
      /\ pc' = [r \in Sessions |-> IF pc[r] \in {"new", "ended"} THEN pc[r] ELSE "killed"]
  BY <1>0, Zenon DEF Kill, logVars, fileVars
<1>2. Story
  BY <1>1
<1>3. Owned(Process, NoId)'
  BY <1>1, <1>2 DEF Story, Owned, Process, NoId
<1>4. ASSUME NEW r \in Sessions PROVE TaleOf(r)'
  <2>1. Owned(r, id[r]) /\ Tale(r) /\ Announced(r)
    BY <1>2 DEF Story
  <2>2. Owned(r, id[r])'
    BY <1>1, <2>1 DEF Owned
  <2>3. /\ Logged(r, Commands)' <=> Logged(r, Commands)
        /\ Logged(r, {"SessionEnded"})' <=> Logged(r, {"SessionEnded"})
        /\ \A t : Told(r, t)' <=> Told(r, t)
    BY <1>1 DEF Logged, Commands, Told, Tells
  <2>4. \/ pc'[r] = pc[r] /\ pc[r] \in {"new", "ended"}
        \/ pc'[r] = "killed" /\ pc[r] \notin {"new", "ended"}
    BY <1>1
  <2>5. Tale(r)'
    BY <1>1, <2>1, <2>3, <2>4 DEF Tale
  <2>6. Announced(r)'
    BY <1>1, <2>1, <2>3, <2>4 DEF Announced
  <2> QED BY <2>2, <2>5, <2>6 DEF TaleOf
<1> QED BY <1>3, <1>4 DEF Story, TaleOf

LEMMA StoryInvariance == Spec => [](faults = 0 => Story)
<1>1. Init => (faults = 0 => Story)
  <2> SUFFICES ASSUME Init PROVE Story
    OBVIOUS
  <2>1. /\ \A w \in Writers : log[w] = << >>
        /\ \A s \in Sessions : pc[s] = "new" /\ id[s] = NoId
        /\ \A t \in Times : named[t] = << >>
    BY DEF Init
  <2>2. \A i \in DOMAIN << >> : FALSE
    OBVIOUS
  <2>3. Owned(Process, NoId) /\ \A s \in Sessions : Owned(s, id[s])
    BY <2>1, <2>2 DEF Owned, Writers
  <2>4. \A s \in Sessions : log[s] = << >> /\ \A kinds : ~Logged(s, kinds)
    BY <2>1, <2>2 DEF Logged, Writers
  <2>5. \A s \in Sessions : Tale(s)
    BY <2>1, <2>4 DEF Tale
  <2>6. \A s : << >> # << s >>
    OBVIOUS
  <2>7. \A s \in Sessions : Announced(s)
    BY <2>1, <2>6 DEF Announced
  <2> QED BY <2>3, <2>5, <2>7 DEF Story
<1>2. Inv /\ (faults = 0 => Story) /\ Next => (faults' = 0 => Story')
  <2> SUFFICES ASSUME Inv, faults = 0 => Story, Next, faults' = 0 PROVE Story'
    OBVIOUS
  <2>1. CASE \E s \in Sessions : Step(s)
    BY <2>1, StepStory
  <2>2. CASE Refuse \/ Start
    BY <2>2, ProcessStory
  <2>3. CASE Kill
    BY <2>3, KillStory
  <2> QED BY <2>1, <2>2, <2>3 DEF Next
<1>3. Inv /\ (faults = 0 => Story) /\ UNCHANGED vars => (faults' = 0 => Story')
  <2> SUFFICES ASSUME faults = 0 => Story, UNCHANGED vars, faults' = 0 PROVE Story'
    OBVIOUS
  <2>1. UNCHANGED << log, faults, pc, id, base, data, named >>
    BY DEF vars, logVars, worldVars, fetchVars, fileVars
  <2> QED BY <2>1 DEF Story, Owned, Tale, Announced, Logged, Commands, Told, Tells, Process, NoId
<1>4. Inv /\ (faults = 0 => Story) /\ [Next]_vars => (faults = 0 => Story)'
  BY <1>2, <1>3
<1> QED BY <1>1, <1>4, Invariance, PTL DEF Spec

\* As long as the disk took every entry (ReportsTell): of a session that shares
\* its identifier with no other, `events interactions` (report.go:84-142)
\* tells whether it came to its end and of its downloads those that are on the
\* disk and not just about to be logged, and `events summary` counts nothing
\* but these sessions' entries and what the process logged outside of them.
THEOREM ReportsAgree == Spec => []ReportsTell
<1>1. Inv /\ (faults = 0 => Story) => ReportsTell
  BY StoryTells
<1> QED BY <1>1, Invariance, StoryInvariance, PTL
=============================================================================
