-------------------------- MODULE InstallationProofs --------------------------
(***************************************************************************)
(* Theorems about Installation: types, the host key that servers present   *)
(* lasts, and what they serve is the image they were given.                *)
(*                                                                         *)
(* The extraction goes entry by entry and so does its lemma: after n       *)
(* entries of the archive every node is what is due after n entries (Due), *)
(* and after the last of them that is the union of the layers (Overlay).   *)
(***************************************************************************)
EXTENDS Installation, MemMapFsProofs, WellFoundedInduction

(***************************************************************************)
(* Induction and recursion on numbers                                      *)
(***************************************************************************)

\* Induction up to m; the library's induction theorems take an operator as a
\* parameter, which this does with a set.
LEMMA Induction ==
    ASSUME NEW m \in Nat, NEW S, 0 \in S, \A n \in 0 .. m - 1 : n \in S => n + 1 \in S
    PROVE  0 .. m \subseteq S
<1> DEFINE T == {n \in 0 .. m : n \notin S}
<1> SUFFICES ASSUME T # {} PROVE FALSE
  OBVIOUS
<1>1. PICK n \in T : \A k \in T : ~ (<< k, n >> \in OpToRel(<, Nat))
  <2>1. T \subseteq Nat
    OBVIOUS
  <2> HIDE DEF T
  <2> QED BY <2>1, WFMin, NatLessThanWellFounded, Zenon
<1>2. n # 0 /\ n \in Nat /\ n - 1 \in 0 .. m - 1
  <2>1. n \in 0 .. m /\ n \notin S
    BY <1>1
  <2>2. n # 0
    BY <2>1
  <2> QED BY <2>1, <2>2
<1>3. n - 1 \notin S
  <2>1. n \notin S
    BY <1>1
  <2>2. n - 1 + 1 = n
    BY <1>2
  <2> QED BY <1>2, <2>1, <2>2
<1>4. << n - 1, n >> \in OpToRel(<, Nat)
  BY <1>2 DEF OpToRel
<1>5. n - 1 \in T
  BY <1>2, <1>3
<1> QED BY <1>1, <1>4, <1>5

\* A set of numbers up to m has a largest one.
LEMMA Largest ==
    ASSUME NEW m \in Nat, NEW S, S \subseteq 0 .. m, S # {}
    PROVE  \E j \in S : \A i \in S : i <= j
<1> DEFINE U == {n \in 0 .. m : (\E k \in S : k >= m - n) => \E j \in S : \A i \in S : i <= j}
<1>1. 0 \in U
  OBVIOUS
<1>2. \A n \in 0 .. m - 1 : n \in U => n + 1 \in U
  <2> SUFFICES ASSUME NEW n \in 0 .. m - 1, n \in U, NEW k \in S, k >= m - (n + 1)
               PROVE  \E j \in S : \A i \in S : i <= j
    OBVIOUS
  <2>1. CASE \E i \in S : i >= m - n
    BY <2>1
  <2>2. CASE ~\E i \in S : i >= m - n
    BY <2>2
  <2> QED BY <2>1, <2>2
<1> HIDE DEF U
<1>3. 0 .. m \subseteq U
  BY <1>1, <1>2, Induction
<1>4. m \in U
  BY <1>3
<1>5. \E k \in S : k >= m - m
  <2>1. \A k \in S : k \in 0 .. m
    OBVIOUS
  <2>2. \A k \in S : k >= m - m
    BY <2>1
  <2> QED BY <2>2
<1> QED BY <1>4, <1>5 DEF U

\* FlattenSeq, of the community modules, goes sequence by sequence.
Flattened(q) ==
    LET flatten[i \in 1 .. Len(q)] == IF i = 1 THEN q[i] ELSE flatten[i - 1] \o q[i]
    IN  flatten

LEMMA FlattenedIs ==
    ASSUME NEW T, NEW q \in Seq(Seq(T))
    PROVE  \A n \in 1 .. Len(q) :
               Flattened(q)[n] = IF n = 1 THEN q[n] ELSE Flattened(q)[n - 1] \o q[n]
<1> DEFINE Turn(g, n) == IF n = 1 THEN q[n] ELSE g[n - 1] \o q[n]
           S == {m \in 0 .. Len(q) : \E g : g = [n \in 1 .. m |-> Turn(g, n)]}
<1>0. Len(q) \in Nat
  OBVIOUS
<1>1. 0 \in S
  <2> DEFINE g == [n \in 1 .. 0 |-> << >>]
  <2>1. g = [n \in 1 .. 0 |-> Turn(g, n)]
    OBVIOUS
  <2>2. 0 \in 0 .. Len(q)
    BY <1>0
  <2> HIDE DEF g, Turn
  <2> QED BY <2>1, <2>2
<1>2. ASSUME NEW m \in 0 .. Len(q) - 1, m \in S PROVE m + 1 \in S
  <2>1. PICK g : g = [n \in 1 .. m |-> Turn(g, n)]
    BY <1>2
  <2> DEFINE h == [n \in 1 .. m + 1 |-> IF n <= m THEN g[n] ELSE Turn(g, n)]
  <2>2. \A n \in 1 .. m + 1 : h[n] = Turn(h, n)
    <3> TAKE n \in 1 .. m + 1
    <3>1. CASE n <= m
      <4>0. g[n] = Turn(g, n)
        <5> HIDE DEF Turn, h
        <5>1. n \in 1 .. m
          BY <3>1
        <5> QED BY <2>1, <5>1
      <4>1. h[n] = Turn(g, n)
        <5> HIDE DEF Turn
        <5> QED BY <4>0, <3>1
      <4>2. n # 1 => h[n - 1] = g[n - 1]
        BY <3>1
      <4> HIDE DEF h
      <4> QED BY <4>1, <4>2
    <3>2. CASE n = m + 1
      <4>1. h[n] = Turn(g, n) /\ (n # 1 => h[n - 1] = g[n - 1])
        BY <3>2
      <4> HIDE DEF h
      <4> QED BY <4>1
    <3> QED BY <3>1, <3>2
  <2>3. h = [n \in 1 .. m + 1 |-> h[n]]
    OBVIOUS
  <2>4. h = [n \in 1 .. m + 1 |-> Turn(h, n)]
    <3> HIDE DEF h
    <3> QED BY <2>2, <2>3
  <2>5. m + 1 \in 0 .. Len(q)
    BY <1>0
  <2> HIDE DEF h, Turn
  <2> QED BY <2>4, <2>5
<1>3. Len(q) \in S
  <2> HIDE DEF S
  <2>1. 0 .. Len(q) \subseteq S
    BY <1>0, <1>1, <1>2, Induction
  <2> QED BY <1>0, <2>1
<1>4. Flattened(q) = [n \in 1 .. Len(q) |-> Turn(Flattened(q), n)]
  <2>1. PICK g : g = [n \in 1 .. Len(q) |-> Turn(g, n)]
    BY <1>3
  <2> QED BY <2>1 DEF Flattened
<1> DEFINE u == Flattened(q)
<1>5. \A n \in 1 .. Len(q) : u[n] = Turn(u, n)
  <2> HIDE DEF Turn
  <2> QED BY <1>4
<1> HIDE DEF u
<1>6. \A n \in 1 .. Len(q) : u[n] = IF n = 1 THEN q[n] ELSE u[n - 1] \o q[n]
  BY <1>5
<1> QED BY <1>6 DEF u


(***************************************************************************)
(* Sequences                                                               *)
(***************************************************************************)

LEMMA MaxIs ==
    ASSUME NEW m \in Nat, NEW S, S \subseteq 0 .. m, S # {}
    PROVE  Seqs!Max(S) \in S /\ \A n \in S : n <= Seqs!Max(S)
BY Largest DEF Seqs!Max

LEMMA Assoc ==
    ASSUME NEW S, NEW a \in Seq(S), NEW b \in Seq(S), NEW c \in Seq(S)
    PROVE  (a \o b) \o c = a \o (b \o c) /\ a \o b \in Seq(S)
OBVIOUS

\* Extractions goes entry by entry.
Extended(r, e) == IF r.err = "ok" THEN ExtractEntry(r.data, e) ELSE r

LEMMA ExtractionsIs ==
    ASSUME NEW T, NEW es \in Seq(T)
    PROVE  /\ Extractions(es)[0] = Done(FreshFs)
           /\ \A n \in 1 .. Len(es) : Extractions(es)[n] = Extended(Extractions(es)[n - 1], es[n])
<1> DEFINE Turn(g, n) == IF n = 0 THEN Done(FreshFs)
                         ELSE IF g[n - 1].err = "ok" THEN ExtractEntry(g[n - 1].data, es[n])
                         ELSE g[n - 1]
           S == {m \in 0 .. Len(es) : \E g : g = [n \in 0 .. m |-> Turn(g, n)]}
<1>0. Len(es) \in Nat
  OBVIOUS
<1>1. 0 \in S
  <2> DEFINE g == [n \in 0 .. 0 |-> Done(FreshFs)]
  <2>1. g = [n \in 0 .. 0 |-> Turn(g, n)]
    OBVIOUS
  <2>2. 0 \in 0 .. Len(es)
    BY <1>0
  <2> HIDE DEF g, Turn
  <2> QED BY <2>1, <2>2
<1>2. ASSUME NEW m \in 0 .. Len(es) - 1, m \in S PROVE m + 1 \in S
  <2>1. PICK g : g = [n \in 0 .. m |-> Turn(g, n)]
    BY <1>2
  <2> DEFINE h == [n \in 0 .. m + 1 |-> IF n <= m THEN g[n] ELSE Turn(g, n)]
  <2>2. \A n \in 0 .. m + 1 : h[n] = Turn(h, n)
    <3> TAKE n \in 0 .. m + 1
    <3>1. CASE n <= m
      <4>0. g[n] = Turn(g, n)
        <5> HIDE DEF Turn, h
        <5>1. n \in 0 .. m
          BY <3>1
        <5> QED BY <2>1, <5>1
      <4>1. h[n] = Turn(g, n)
        <5> HIDE DEF Turn
        <5> QED BY <4>0, <3>1
      <4>2. n # 0 => h[n - 1] = g[n - 1]
        BY <3>1
      <4> HIDE DEF h
      <4> QED BY <4>1, <4>2
    <3>2. CASE n = m + 1
      <4>1. h[n] = Turn(g, n) /\ n # 0 /\ h[n - 1] = g[n - 1]
        BY <3>2
      <4> HIDE DEF h
      <4> QED BY <4>1
    <3> QED BY <3>1, <3>2
  <2>3. h = [n \in 0 .. m + 1 |-> h[n]]
    OBVIOUS
  <2>4. h = [n \in 0 .. m + 1 |-> Turn(h, n)]
    <3> HIDE DEF h
    <3> QED BY <2>2, <2>3
  <2>5. m + 1 \in 0 .. Len(es)
    BY <1>0
  <2> HIDE DEF h, Turn
  <2> QED BY <2>4, <2>5
<1>3. Len(es) \in S
  <2> HIDE DEF S
  <2>1. 0 .. Len(es) \subseteq S
    BY <1>0, <1>1, <1>2, Induction
  <2> QED BY <1>0, <2>1
<1>4. Extractions(es) = [n \in 0 .. Len(es) |-> Turn(Extractions(es), n)]
  <2>1. PICK g : g = [n \in 0 .. Len(es) |-> Turn(g, n)]
    BY <1>3
  <2> QED BY <2>1 DEF Extractions
<1> DEFINE u == Extractions(es)
<1>5. \A n \in 0 .. Len(es) : u[n] = Turn(u, n)
  <2> HIDE DEF Turn
  <2> QED BY <1>4
<1> HIDE DEF u
<1>6. u[0] = Done(FreshFs)
  BY <1>0, <1>5
<1>7. \A n \in 1 .. Len(es) : u[n] = Extended(u[n - 1], es[n])
  BY <1>0, <1>5 DEF Extended
<1> QED BY <1>6, <1>7 DEF u

LEMMA EntriesOfIs ==
    ASSUME NEW T, NEW q \in Seq(Seq(T))
    PROVE  EntriesOf(q) = IF Len(q) = 0 THEN << >> ELSE Flattened(q)[Len(q)]
<1>1. Len(q) = 0 => q = << >>
  OBVIOUS
<1> QED BY <1>1 DEF EntriesOf, Seqs!FlattenSeq, Flattened

\* The entries of an image are those of its first layer and of the others.
LEMMA EntriesAre ==
    ASSUME NEW T, NEW l \in Seq(T), NEW q \in Seq(Seq(T))
    PROVE  /\ EntriesOf(<< >>) = << >>
           /\ EntriesOf(q) \in Seq(T)
           /\ EntriesOf(<< l >> \o q) = l \o EntriesOf(q)
<1> DEFINE r == << l >> \o q
           f == Flattened(q)
           g == Flattened(r)
           S == {n \in 0 .. Len(q) : n # 0 => f[n] \in Seq(T) /\ g[n + 1] = l \o f[n]}
<1>0. /\ Len(q) \in Nat /\ r \in Seq(Seq(T)) /\ Len(r) = Len(q) + 1 /\ r[1] = l
      /\ \A n \in 1 .. Len(q) : r[n + 1] = q[n] /\ q[n] \in Seq(T)
  OBVIOUS
<1>1. /\ \A n \in 1 .. Len(q) : f[n] = IF n = 1 THEN q[n] ELSE f[n - 1] \o q[n]
      /\ EntriesOf(q) = IF Len(q) = 0 THEN << >> ELSE f[Len(q)]
  BY FlattenedIs, EntriesOfIs
<1> HIDE DEF r
<1>2. /\ \A n \in 1 .. Len(r) : g[n] = IF n = 1 THEN r[n] ELSE g[n - 1] \o r[n]
      /\ EntriesOf(r) = IF Len(r) = 0 THEN << >> ELSE g[Len(r)]
  BY <1>0, FlattenedIs, EntriesOfIs
<1>3. EntriesOf(<< >>) = << >>
  <2>1. << >> \in Seq(Seq(T)) /\ Len(<< >>) = 0
    OBVIOUS
  <2> QED BY <2>1, EntriesOfIs
<1> HIDE DEF f, g
<1>4. g[1] = l
  BY <1>0, <1>2
<1>5. 0 \in S
  BY <1>0
<1>6. ASSUME NEW n \in 0 .. Len(q) - 1, n \in S PROVE n + 1 \in S
  <2>0. Len(q) \in Nat
    BY <1>0
  <2>1. PICK k \in 1 .. Len(q) : k = n + 1 /\ k \in 0 .. Len(q) /\ n = k - 1 /\ k # 0
    BY <2>0
  <2>2. g[k + 1] = g[k] \o q[k] /\ q[k] \in Seq(T)
    <3>1. k + 1 \in 1 .. Len(r) /\ k + 1 # 1 /\ (k + 1) - 1 = k
      BY <1>0, <2>1
    <3>2. r[k + 1] = q[k] /\ q[k] \in Seq(T)
      BY <1>0, <2>1
    <3> QED BY <1>2, <3>1, <3>2
  <2>3. CASE k = 1
    <3>1. f[k] = q[k] /\ g[k + 1] = l \o q[k] /\ q[k] \in Seq(T)
      BY <1>1, <1>4, <2>1, <2>2, <2>3, Zenon
    <3>2. k \in S
      BY <2>1, <3>1, Zenon
    <3> QED BY <2>1, <3>2
  <2>4. CASE k # 1
    <3>1. n # 0 /\ f[k - 1] \in Seq(T) /\ g[k] = l \o f[k - 1]
      BY <1>6, <2>1, <2>4
    <3>2. f[k] = f[k - 1] \o q[k]
      BY <1>1, <2>1, <2>4
    <3>3. (l \o f[k - 1]) \o q[k] = l \o (f[k - 1] \o q[k]) /\ f[k - 1] \o q[k] \in Seq(T)
      <4>1. \A a, b, c \in Seq(T) : (a \o b) \o c = a \o (b \o c) /\ a \o b \in Seq(T)
        BY Assoc
      <4>2. l \in Seq(T) /\ f[k - 1] \in Seq(T) /\ q[k] \in Seq(T)
        BY <2>2, <3>1
      <4> QED BY <4>1, <4>2, Zenon
    <3>5. f[k] \in Seq(T) /\ g[k + 1] = l \o f[k]
      BY <2>2, <3>1, <3>2, <3>3, Zenon
    <3>4. k \in S
      BY <2>1, <3>5, Zenon
    <3> QED BY <2>1, <3>4
  <2> QED BY <2>3, <2>4
<1>7. Len(q) \in S
  <2> HIDE DEF S
  <2>1. 0 .. Len(q) \subseteq S
    BY <1>0, <1>5, <1>6, Induction
  <2> QED BY <1>0, <2>1
<1>8. EntriesOf(q) \in Seq(T)
  BY <1>0, <1>1, <1>7
<1>9. EntriesOf(r) = l \o EntriesOf(q)
  BY <1>0, <1>1, <1>2, <1>4, <1>7
<1> QED BY <1>3, <1>8, <1>9 DEF r

(***************************************************************************)
(* The extraction of one entry                                             *)
(***************************************************************************)

\* What a node is apart from the children it lists.
SameNode(m, n) ==
    m.kind = n.kind /\ m.mode = n.mode /\ m.content = n.content /\ m.mtime = n.mtime

\* A filesystem with a root whose map and lists agree.
Sound(l) == l \in FsData /\ Tidy(l) /\ l[Root].kind = "dir"

\* Directories are made for the parents that miss, or none.
LEMMA ParentsMade ==
    ASSUME NEW l, Sound(l), NEW p \in Paths, NEW m, m = MkdirAll(l, p, "0777").data
    PROVE  /\ Sound(m)
           /\ m[p].kind # "none" => \A q \in Paths : IF q \in Prefixes(p) /\ l[q].kind = "none"
                               THEN SameNode(m[q], NewDir("0777", {}))
                               ELSE SameNode(m[q], l[q])
<1> DEFINE dirs    == Made(l, p)
           kids(q) == {k \in dirs : Parent(k) = q}
<1> USE DEF Sound
<1>1. dirs \subseteq Missing(l, p) /\ Root \notin dirs /\ (dirs # Missing(l, p) => dirs = {})
  BY MadeIs
<1>2. \A q \in Paths : m[q] = IF q \in dirs THEN NewDir("0777", kids(q))
                              ELSE [l[q] EXCEPT !.kids = @ \cup kids(q)]
  BY DEF MkdirAll
<1>3. m \in FsData /\ Tidy(m)
  <2>1. "0777" \in Modes
    BY DEF Modes
  <2> QED BY <2>1, MkdirAllType, MkdirAllTidy DEF MapResult
<1>4. ASSUME NEW q \in Paths, q \in dirs PROVE SameNode(m[q], NewDir("0777", {}))
  <2> HIDE DEF dirs, kids
  <2> QED BY <1>2, <1>4 DEF NewDir, NoNode, SameNode
<1>5. ASSUME NEW q \in Paths, q \notin dirs PROVE SameNode(m[q], l[q])
  <2> HIDE DEF dirs, kids
  <2>1. l[q] \in Node
    BY DEF FsData
  <2> QED BY <1>2, <1>5, <2>1 DEF Node, SameNode
<1>6. ASSUME m[p].kind # "none" PROVE dirs = Missing(l, p)
  <2> SUFFICES ASSUME dirs # Missing(l, p) PROVE FALSE
    OBVIOUS
  <2>1. dirs = {} /\ Missing(l, p) # {} /\ m[p].kind # "none"
    BY <1>1, <1>6
  <2>2. PICK q \in Prefixes(p) : l[q].kind = "none"
    BY <2>1 DEF Missing
  <2>3. l[p].kind # "none"
    <3>1. SameNode(m[p], l[p])
      BY <1>5, <2>1
    <3> QED BY <2>1, <3>1 DEF SameNode
  <2>4. q # p
    BY <2>2, <2>3
  <2> QED BY <2>2, <2>3, <2>4, NothingBelow
<1> HIDE DEF dirs
<1>7. m[p].kind # "none" =>
        \A q \in Paths : q \in dirs <=> q \in Prefixes(p) /\ l[q].kind = "none"
  BY <1>6 DEF Missing
<1>8. m[Root].kind = "dir"
  BY <1>1, <1>5, RootIs DEF SameNode
<1> QED BY <1>3, <1>4, <1>5, <1>7, <1>8

\* A new node at p, and its parent lists it.
LEMMA Registered ==
    ASSUME NEW l, Sound(l), NEW p \in Paths, l[p].kind = "none", l[Parent(p)].kind = "dir",
           NEW node \in Node, node.kind # "none", node.kids = {}, ~node.stuck,
           node.kind # "file" => node.content = Empty,
           NEW m, m = Register(l, p, node)
    PROVE  Sound(m) /\ m[p] = node /\ \A q \in Paths \ {p} : SameNode(m[q], l[q])
<1> USE DEF Sound
<1>1. p # Root
  BY RootIs
<1>2. m[p] = node
  BY DEF Register
<1>3. \A q \in Paths \ {p} : SameNode(m[q], l[q])
  BY DEF Register, SameNode, FsData, Node
<1>4. m \in FsData
  BY RegisterType
<1>5. Tidy(m)
  BY <1>1, RegisterTidy
<1> QED BY <1>1, <1>2, <1>3, <1>4, <1>5, RootIs DEF SameNode

\* A node takes the place of another.
Put(l, p, node) == [l EXCEPT ![p] = node]

\* One node changes in its attributes or, if it is a file, in its content.
LEMMA Changed ==
    ASSUME NEW l, Sound(l), NEW p \in Paths, NEW node \in Node,
           node.kind = l[p].kind, node.kids = l[p].kids, node.stuck = l[p].stuck,
           node.content = l[p].content \/ node.kind = "file"
    PROVE  /\ Sound(Put(l, p, node)) /\ Put(l, p, node)[p] = node
           /\ \A q \in Paths \ {p} : Put(l, p, node)[q] = l[q]
<1> DEFINE m == Put(l, p, node)
<1>0. l \in FsData /\ Tidy(l) /\ l[Root].kind = "dir"
  BY DEF Sound
<1>1. m \in FsData
  BY <1>0, UpdateType DEF Put
<1>2. m[p] = node /\ \A q \in Paths \ {p} : m[q] = l[q]
  BY <1>0 DEF FsData, Put
<1> HIDE DEF m
<1>3. \A q \in Paths : m[q].kind = l[q].kind /\ m[q].kids = l[q].kids /\ m[q].stuck = l[q].stuck
  BY <1>2
<1>4. Rooted(m)
  BY <1>0, <1>3, PathsClosed DEF Tidy, Rooted
<1>5. \A q : Children(m, q) = Children(l, q)
  BY <1>3 DEF Children
<1>6. \A q \in Paths : m[q].kids = Children(m, q) /\ ~m[q].stuck
  BY <1>0, <1>3, <1>5 DEF Tidy
<1>7. \A q \in Paths : m[q].kind # "file" => m[q].content = Empty
  BY <1>0, <1>2 DEF Tidy
<1>8. Tidy(m)
  BY <1>4, <1>6, <1>7 DEF Tidy
<1> QED BY <1>0, <1>1, <1>2, <1>3, <1>8, RootIs DEF m, Sound

LEMMA NodeTyped ==
    ASSUME NEW l, Sound(l), NEW p \in Paths
    PROVE  l[p] \in Node
BY DEF Sound, FsData

\* A node with a new content, or with the attributes of an entry.
Filled(n, content) == [n EXCEPT !.content = content, !.mtime = "session"]

Stamped(n, mode) == [n EXCEPT !.mode = mode, !.mtime = "image"]

LEMMA FilledIs ==
    ASSUME NEW n \in Node, NEW content \in Contents
    PROVE  /\ Filled(n, content) \in Node
           /\ Filled(n, content).kind = n.kind /\ Filled(n, content).kids = n.kids
           /\ Filled(n, content).stuck = n.stuck /\ Filled(n, content).content = content
BY DEF Node, Times, Filled

LEMMA StampedIs ==
    ASSUME NEW n \in Node, NEW mode \in Modes
    PROVE  /\ Stamped(n, mode) \in Node
           /\ Stamped(n, mode).kind = n.kind /\ Stamped(n, mode).kids = n.kids
           /\ Stamped(n, mode).stuck = n.stuck /\ Stamped(n, mode).content = n.content
           /\ Stamped(n, mode).mode = mode /\ Stamped(n, mode).mtime = "image"
BY DEF Node, Times, Stamped

\* A file gets a content.
LEMMA FileFilled ==
    ASSUME NEW l, Sound(l), NEW p \in Paths, l[p].kind = "file", NEW content \in Contents,
           NEW m, m = WriteFile(l, p, content)
    PROVE  /\ Sound(m) /\ m[p].kind = "file" /\ m[p].content = content
           /\ \A q \in Paths \ {p} : m[q] = l[q]
<1>1. l[p] \in Node /\ l \in FsData
  BY NodeTyped DEF Sound
<1>2. m = Put(l, p, Filled(l[p], content))
  BY <1>1 DEF WriteFile, Put, Filled, FsData
<1>3. /\ Filled(l[p], content) \in Node
      /\ Filled(l[p], content).kind = l[p].kind /\ Filled(l[p], content).kids = l[p].kids
      /\ Filled(l[p], content).stuck = l[p].stuck /\ Filled(l[p], content).content = content
  BY <1>1, FilledIs
<1> DEFINE node == Filled(l[p], content)
<1> HIDE DEF node
<1>4. /\ Sound(Put(l, p, node)) /\ Put(l, p, node)[p] = node
      /\ \A q \in Paths \ {p} : Put(l, p, node)[q] = l[q]
  BY <1>3, Changed DEF node
<1> QED BY <1>2, <1>3, <1>4 DEF node

\* The directory or file that an entry makes of a path.
LEMMA EnsureDirDoes ==
    ASSUME NEW l, Sound(l), NEW p \in Paths, NEW mode \in Modes, NEW r,
           r = EnsureDir(l, p, mode), r.err = "ok"
    PROVE  /\ Sound(r.data) /\ r.data[p].kind # "none"
           /\ l[Parent(p)].kind # "none" \/ l[p].kind # "none"
           /\ l[p].kind = "none" => r.data[p].kind = "dir"
           /\ l[p].kind # "none" => r.data[p].kind = l[p].kind
           /\ r.data[p].kind = "dir" => r.data[p].content = Empty
           /\ \A q \in Paths \ {p} : SameNode(r.data[q], l[q])
<1>0. Parent(p) \in Paths
  BY PathsClosed
<1>1. CASE l[p].kind # "none"
  <2>1. r.data = l
    BY <1>1 DEF EnsureDir, Done
  <2> QED BY <1>1, <2>1 DEF SameNode, Sound, Tidy
<1>2. CASE l[p].kind = "none"
  <2>1. r = IF ParentErr(l, p) # "ok" THEN Fail(l, ParentErr(l, p))
            ELSE Done(Register(l, p, NewDir(mode, {})))
    BY <1>2 DEF EnsureDir
  <2>2. ParentErr(l, p) = "ok" /\ r.data = Register(l, p, NewDir(mode, {}))
    BY <2>1 DEF Fail, Done
  <2>3. l[Parent(p)].kind = "dir"
    <3>1. l[Parent(p)].kind \in Kinds
      BY <1>0 DEF Sound, FsData, Node
    <3> QED BY <2>2, <3>1 DEF ParentErr, Kinds
  <2>4. /\ NewDir(mode, {}) \in Node
        /\ NewDir(mode, {}).kind = "dir" /\ NewDir(mode, {}).kids = {}
        /\ ~NewDir(mode, {}).stuck /\ NewDir(mode, {}).content = Empty
    BY NewNodes DEF NewDir, NoNode
  <2>5. /\ Sound(r.data) /\ r.data[p] = NewDir(mode, {})
        /\ \A q \in Paths \ {p} : SameNode(r.data[q], l[q])
    BY <1>2, <2>2, <2>3, <2>4, Registered
  <2> QED BY <1>2, <2>3, <2>4, <2>5
<1> QED BY <1>1, <1>2

LEMMA PutFileDoes ==
    ASSUME NEW l, Sound(l), NEW p \in Paths, NEW content \in Contents, NEW r,
           r = PutFile(l, p, content), r.err = "ok"
    PROVE  /\ Sound(r.data) /\ r.data[p].kind = "file" /\ r.data[p].content = content
           /\ l[p].kind # "dir"
           /\ l[Parent(p)].kind # "none" \/ l[p].kind # "none"
           /\ \A q \in Paths \ {p} : SameNode(r.data[q], l[q])
<1> DEFINE c == CreateFile(l, p)
<1>0. Parent(p) \in Paths /\ l[p].kind \in Kinds /\ l[Parent(p)].kind \in Kinds
  BY PathsClosed DEF Sound, FsData, Node
<1>1. c.err = "ok" /\ r.data = WriteFile(c.data, p, content)
  BY DEF PutFile, Done
<1>2. /\ Sound(c.data) /\ c.data[p].kind = "file"
      /\ l[p].kind # "dir" /\ (l[Parent(p)].kind # "none" \/ l[p].kind # "none")
      /\ \A q \in Paths \ {p} : SameNode(c.data[q], l[q])
  <2>1. CASE l[p].kind = "file"
    <3>1. c.data = WriteFile(l, p, Empty)
      BY <2>1 DEF CreateFile, Done
    <3> HIDE DEF c
    <3>2. /\ Sound(c.data) /\ c.data[p].kind = "file"
          /\ \A q \in Paths \ {p} : c.data[q] = l[q]
      BY <2>1, <3>1, FileFilled, ContentsAssumption
    <3> QED BY <2>1, <3>2 DEF SameNode
  <2>2. CASE l[p].kind = "dir"
    BY <1>1, <2>2 DEF CreateFile, Fail
  <2>3. CASE l[p].kind = "none"
    <3>1. c = IF ParentErr(l, p) # "ok" THEN Fail(l, ParentErr(l, p))
              ELSE Done(Register(l, p, NewFile))
      BY <2>3 DEF CreateFile
    <3>2. ParentErr(l, p) = "ok" /\ c.data = Register(l, p, NewFile)
      BY <1>1, <3>1 DEF Fail, Done
    <3>3. l[Parent(p)].kind = "dir"
      BY <1>0, <3>2 DEF ParentErr, Kinds
    <3>4. NewFile \in Node /\ NewFile.kind = "file" /\ NewFile.kids = {} /\ ~NewFile.stuck
      BY NewNodes DEF NewFile, NoNode
    <3> HIDE DEF c
    <3>5. Sound(c.data) /\ c.data[p] = NewFile /\ \A q \in Paths \ {p} : SameNode(c.data[q], l[q])
      BY <2>3, <3>2, <3>3, <3>4, Registered
    <3> QED BY <2>3, <3>3, <3>4, <3>5
  <2> QED BY <1>0, <2>1, <2>2, <2>3 DEF Kinds
<1> HIDE DEF c
<1>3. /\ Sound(r.data) /\ r.data[p].kind = "file" /\ r.data[p].content = content
      /\ \A q \in Paths \ {p} : r.data[q] = c.data[q]
  BY <1>1, <1>2, FileFilled
<1> QED BY <1>2, <1>3

\* What an entry leaves at its path, and everywhere else.
LEMMA ExtractEntryDoes ==
    ASSUME NEW l, Sound(l), NEW e \in Entries, NEW r, r = ExtractEntry(l, e), r.err = "ok"
    PROVE  /\ Sound(r.data)
           /\ r.data[e.path].mode = e.mode /\ r.data[e.path].mtime = "image"
           /\ e.kind = "dir" /\ l[e.path].kind # "file" => r.data[e.path].kind = "dir"
           /\ e.kind # "dir" => r.data[e.path].kind = "file" /\ r.data[e.path].content = DataIn(e)
           /\ \A q \in Paths \ {e.path} :
                 IF q \in Prefixes(e.path) /\ l[q].kind = "none"
                 THEN SameNode(r.data[q], NewDir("0777", {}))
                 ELSE SameNode(r.data[q], l[q])
<1> DEFINE p == e.path
           m == MkdirAll(l, Parent(p), "0777").data
           put == IF e.kind = "dir" THEN EnsureDir(m, p, e.mode) ELSE PutFile(m, p, DataIn(e))
<1>0. /\ p \in Paths /\ Parent(p) \in Paths /\ e.mode \in Modes /\ DataIn(e) \in Contents
      /\ e.kind \in EntryKinds
  BY PathsClosed, ContentsAssumption DEF Entries, DataIn
<1>1. /\ Sound(m)
      /\ m[Parent(p)].kind # "none" =>
           \A q \in Paths : IF q \in Prefixes(Parent(p)) /\ l[q].kind = "none"
                            THEN SameNode(m[q], NewDir("0777", {}))
                            ELSE SameNode(m[q], l[q])
  BY <1>0, ParentsMade
<1>2. put.err = "ok" /\ r.data = Finished(put.data, e)
  BY DEF ExtractEntry, Done
<1>m. PICK m1 : m1 = m
  OBVIOUS
<1>p. PICK put1 : put1 = put
  OBVIOUS
<1>d. e.kind = "dir" => put1 = EnsureDir(m1, p, e.mode)
  BY <1>m, <1>p
<1>f. e.kind # "dir" => put1 = PutFile(m1, p, DataIn(e))
  BY <1>m, <1>p
<1> HIDE DEF m, put, p
<1>3. /\ Sound(put1.data)
      /\ m1[Parent(p)].kind # "none" \/ m1[p].kind # "none"
      /\ put1.data[p].kind # "none"
      /\ e.kind = "dir" /\ m1[p].kind # "file" => put1.data[p].kind = "dir"
      /\ e.kind # "dir" => put1.data[p].kind = "file" /\ put1.data[p].content = DataIn(e)
      /\ \A q \in Paths \ {p} : SameNode(put1.data[q], m1[q])
  <2>0. Sound(m1) /\ put1.err = "ok" /\ m1[p].kind \in Kinds
    <3>1. Sound(m1) /\ put1.err = "ok"
      BY <1>1, <1>2, <1>m, <1>p
    <3> QED BY <1>0, <3>1, NodeTyped DEF Node
  <2>1. CASE e.kind = "dir"
    BY <1>0, <1>d, <2>0, <2>1, EnsureDirDoes DEF Kinds
  <2>2. CASE e.kind # "dir"
    BY <1>0, <1>f, <2>0, <2>2, PutFileDoes
  <2> QED BY <2>1, <2>2
<1>4. m1[Parent(p)].kind # "none"
  <2>1. CASE p = Root
    BY <1>1, <1>m, <2>1, RootIs DEF Sound
  <2>2. CASE p # Root
    <3>1. Parent(p) \in Prefixes(p) \ {p}
      BY <1>0, <2>2, ParentIs, PrefixOrder
    <3> QED BY <1>0, <1>1, <1>3, <1>m, <3>1 DEF Sound, Tidy, Rooted
  <2> QED BY <2>1, <2>2
<1>5. \A q \in Paths : IF q \in Prefixes(Parent(p)) /\ l[q].kind = "none"
                       THEN SameNode(m1[q], NewDir("0777", {}))
                       ELSE SameNode(m1[q], l[q])
  BY <1>1, <1>4, <1>m
<1>6. p \in Prefixes(Parent(p)) => l[p].kind # "none"
  BY <1>0, ParentIs, RootIs DEF Sound
<1>7. m1[p].kind = l[p].kind
  BY <1>0, <1>5, <1>6 DEF SameNode
<1>8. \A q \in Paths \ {p} : q \in Prefixes(Parent(p)) <=> q \in Prefixes(p)
  BY <1>0, ParentIs, RootIs
<1>9. \A q \in Paths \ {p} : IF q \in Prefixes(p) /\ l[q].kind = "none"
                             THEN SameNode(put1.data[q], NewDir("0777", {}))
                             ELSE SameNode(put1.data[q], l[q])
  BY <1>3, <1>5, <1>8 DEF SameNode
<1>10. /\ Sound(r.data)
       /\ r.data[p].mode = e.mode /\ r.data[p].mtime = "image"
       /\ r.data[p].kind = put1.data[p].kind /\ r.data[p].content = put1.data[p].content
       /\ \A q \in Paths \ {p} : r.data[q] = put1.data[q]
  <2>1. put1.data[p] \in Node /\ put1.data \in FsData
    BY <1>0, <1>3, NodeTyped DEF Sound
  <2>2. r.data = Put(put1.data, p, Stamped(put1.data[p], e.mode))
    <3>1. r.data = [SetMode(put1.data, p, e.mode).data EXCEPT ![p].mtime = "image"]
      BY <1>2, <1>p DEF Finished, p
    <3>2. SetMode(put1.data, p, e.mode).data = [put1.data EXCEPT ![p].mode = e.mode]
      BY <1>3 DEF SetMode, Done
    <3> QED BY <1>0, <2>1, <3>1, <3>2 DEF Put, Stamped, FsData
  <2> DEFINE node == Stamped(put1.data[p], e.mode)
  <2>3. /\ node \in Node /\ node.kind = put1.data[p].kind /\ node.kids = put1.data[p].kids
        /\ node.stuck = put1.data[p].stuck /\ node.content = put1.data[p].content
        /\ node.mode = e.mode /\ node.mtime = "image"
    BY <1>0, <2>1, StampedIs
  <2> HIDE DEF node
  <2>4. /\ Sound(Put(put1.data, p, node)) /\ Put(put1.data, p, node)[p] = node
        /\ \A q \in Paths \ {p} : Put(put1.data, p, node)[q] = put1.data[q]
    BY <1>0, <1>3, <2>3, Changed
  <2> QED BY <2>2, <2>3, <2>4 DEF node
<1> QED BY <1>3, <1>7, <1>9, <1>10 DEF p

(***************************************************************************)
(* An archive is the union of its layers                                   *)
(***************************************************************************)

\* The first n entries: where p is among them, the last of them there, and
\* whether one is below p.
Before(es, n, p) == {i \in 1 .. n : es[i].path = p}

Highest(es, n, p) == es[Seqs!Max(Before(es, n, p))]

OnTheWay(es, n, p) == \E i \in 1 .. n : p \in Prefixes(es[i].path) \ {es[i].path}

\* What a node should be once they are extracted, apart from its children.
Due(es, n, p) ==
    IF Before(es, n, p) # {}
    THEN LET e == Highest(es, n, p)
         IN  [kind    |-> IF e.kind = "dir" THEN "dir" ELSE "file",
              mode    |-> e.mode, mtime |-> "image",
              content |-> IF e.kind = "dir" THEN Empty ELSE e.content]
    ELSE IF p = Root \/ OnTheWay(es, n, p)
    THEN [kind |-> "dir", mode |-> IF p = Root THEN "0755" ELSE "0777",
          mtime |-> "session", content |-> Empty]
    ELSE [kind |-> "none", mode |-> "none", mtime |-> "image", content |-> Empty]

\* What one more entry adds.
LEMMA OneMore ==
    ASSUME NEW es \in Seq(Entries), NEW n \in 1 .. Len(es), NEW k, k = n - 1
    PROVE  /\ Before(es, n, es[n].path) # {} /\ Highest(es, n, es[n].path) = es[n]
           /\ \A q : q # es[n].path => Before(es, n, q) = Before(es, k, q)
           /\ \A q : OnTheWay(es, n, q) <=> \/ OnTheWay(es, k, q)
                                            \/ q \in Prefixes(es[n].path) \ {es[n].path}
           /\ \A q : Before(es, k, q) # {} =>
                        \E i \in DOMAIN es : es[i].path = q /\ Highest(es, k, q) = es[i]
<1>0. Len(es) \in Nat /\ DOMAIN es = 1 .. Len(es)
  OBVIOUS
<1>1. n \in Nat /\ k \in Nat /\ \A i : i \in 1 .. n <=> i \in 1 .. k \/ i = n
  BY <1>0
<1>a. n \in 1 .. n /\ \A i \in 1 .. n : i <= n /\ i \in 0 .. n
  BY <1>1
<1>b. \A i \in 1 .. k : i \in 0 .. k /\ i \in 1 .. Len(es)
  BY <1>0, <1>1
<1>2. Before(es, n, es[n].path) # {} /\ Highest(es, n, es[n].path) = es[n]
  <2> DEFINE S == Before(es, n, es[n].path)
  <2>1. n \in S /\ S \subseteq 0 .. n /\ \A i \in S : i <= n
    BY <1>a DEF Before
  <2> HIDE DEF S
  <2>2. Seqs!Max(S) \in S /\ n <= Seqs!Max(S) /\ Seqs!Max(S) <= n
    BY <1>1, <2>1, MaxIs
  <2>3. Seqs!Max(S) = n
    <3>1. \A i \in 0 .. n : n <= i /\ i <= n => i = n
      BY <1>1
    <3> QED BY <2>1, <2>2, <3>1
  <2> QED BY <2>1, <2>3 DEF S, Highest
<1>3. \A q : q # es[n].path => Before(es, n, q) = Before(es, k, q)
  BY <1>1 DEF Before
<1>4. \A q : OnTheWay(es, n, q) <=> \/ OnTheWay(es, k, q)
                                    \/ q \in Prefixes(es[n].path) \ {es[n].path}
  BY <1>1 DEF OnTheWay
<1>5. ASSUME NEW q, Before(es, k, q) # {}
      PROVE  \E i \in DOMAIN es : es[i].path = q /\ Highest(es, k, q) = es[i]
  <2> DEFINE S == Before(es, k, q)
  <2>1. S \subseteq 0 .. k
    BY <1>b DEF Before
  <2> HIDE DEF S
  <2>2. Seqs!Max(S) \in S
    BY <1>1, <1>5, <2>1, MaxIs DEF S
  <2> QED BY <1>0, <1>b, <2>2 DEF S, Before, Highest
<1> QED BY <1>2, <1>3, <1>4, <1>5

\* An entry of a plain image brings what is due.
LEMMA DueStep ==
    ASSUME NEW es \in Seq(Entries), Plain(es), NEW n \in 1 .. Len(es), NEW k, k = n - 1,
           NEW l, Sound(l), \A q \in Paths : SameNode(l[q], Due(es, k, q)),
           NEW r, r = ExtractEntry(l, es[n]), r.err = "ok"
    PROVE  Sound(r.data) /\ \A q \in Paths : SameNode(r.data[q], Due(es, n, q))
<1> DEFINE p == es[n].path
<1>0. n \in DOMAIN es /\ es[n] \in Entries
  OBVIOUS
<1>1. p \in Paths /\ es[n].kind \in EntryKinds
  BY <1>0 DEF Entries
<1>2. /\ Before(es, n, p) # {} /\ Highest(es, n, p) = es[n]
      /\ \A q : q # p => Before(es, n, q) = Before(es, k, q)
      /\ \A q : OnTheWay(es, n, q) <=> OnTheWay(es, k, q) \/ q \in Prefixes(p) \ {p}
      /\ \A q : Before(es, k, q) # {} =>
                   \E i \in DOMAIN es : es[i].path = q /\ Highest(es, k, q) = es[i]
  BY OneMore
<1> DEFINE e == es[n]
<1>3. /\ Sound(r.data)
      /\ r.data[p].mode = e.mode /\ r.data[p].mtime = "image"
      /\ e.kind = "dir" /\ l[p].kind # "file" => r.data[p].kind = "dir"
      /\ e.kind # "dir" => r.data[p].kind = "file" /\ r.data[p].content = DataIn(e)
      /\ \A q \in Paths \ {p} : IF q \in Prefixes(p) /\ l[q].kind = "none"
                                THEN SameNode(r.data[q], NewDir("0777", {}))
                                ELSE SameNode(r.data[q], l[q])
  BY <1>0, ExtractEntryDoes
<1>4. SameNode(r.data[p], Due(es, n, p))
  <2>1. Due(es, n, p) = [kind    |-> IF e.kind = "dir" THEN "dir" ELSE "file",
                         mode    |-> e.mode, mtime |-> "image",
                         content |-> IF e.kind = "dir" THEN Empty ELSE e.content]
    BY <1>2 DEF Due
  <2>2. CASE e.kind = "dir"
    <3>1. l[p].kind # "file"
      <4> SUFFICES ASSUME l[p].kind = "file" PROVE FALSE
        OBVIOUS
      <4>1. Due(es, k, p).kind = "file"
        BY <1>1 DEF SameNode
      <4>2. Before(es, k, p) # {} /\ Highest(es, k, p).kind # "dir"
        BY <4>1 DEF Due
      <4>3. PICK i \in DOMAIN es : es[i].path = p /\ Highest(es, k, p) = es[i]
        BY <1>2, <4>2
      <4> QED BY <1>0, <2>2, <4>2, <4>3 DEF Plain
    <3>2. r.data[p].kind = "dir"
      BY <1>3, <2>2, <3>1
    <3>3. r.data[p].content = Empty
      BY <1>1, <1>3, <3>2 DEF Sound, Tidy
    <3> QED BY <1>3, <2>1, <2>2, <3>2, <3>3 DEF SameNode
  <2>3. CASE e.kind # "dir"
    <3>1. e.kind \in {"file", "link"}
      BY <1>0, <1>1, <2>3 DEF Plain, EntryKinds
    <3>2. r.data[p].kind = "file" /\ r.data[p].content = e.content
      BY <1>3, <2>3, <3>1 DEF DataIn
    <3> QED BY <1>3, <2>1, <2>3, <3>2 DEF SameNode
  <2> QED BY <2>2, <2>3
<1> HIDE DEF p, e
<1>5. ASSUME NEW q \in Paths, q # p PROVE SameNode(r.data[q], Due(es, n, q))
  <2>1. Before(es, n, q) = Before(es, k, q) /\ Highest(es, n, q) = Highest(es, k, q)
    BY <1>2, <1>5 DEF Highest
  <2>2. OnTheWay(es, n, q) <=> OnTheWay(es, k, q) \/ q \in Prefixes(p)
    BY <1>2, <1>5
  <2>3. SameNode(l[q], Due(es, k, q))
    OBVIOUS
  <2>4. CASE q \in Prefixes(p) /\ l[q].kind = "none"
    <3>1. Due(es, k, q).kind = "none"
      BY <2>3, <2>4 DEF SameNode
    <3>2. Before(es, k, q) = {} /\ q # Root
      BY <3>1 DEF Due
    <3>3. Due(es, n, q) = [kind |-> "dir", mode |-> "0777", mtime |-> "session", content |-> Empty]
      BY <2>1, <2>2, <2>4, <3>2 DEF Due
    <3>4. SameNode(r.data[q], NewDir("0777", {}))
      BY <1>3, <1>5, <2>4
    <3> QED BY <3>3, <3>4 DEF SameNode, NewDir, NoNode
  <2>5. CASE ~(q \in Prefixes(p) /\ l[q].kind = "none")
    <3>1. SameNode(r.data[q], l[q])
      BY <1>3, <1>5, <2>5
    <3>2. Due(es, n, q) = Due(es, k, q)
      <4>1. CASE q \notin Prefixes(p)
        BY <2>1, <2>2, <4>1 DEF Due
      <4>2. CASE l[q].kind # "none"
        <5>1. Due(es, k, q).kind # "none"
          BY <2>3, <4>2 DEF SameNode
        <5>2. Before(es, k, q) # {} \/ q = Root \/ OnTheWay(es, k, q)
          BY <5>1 DEF Due
        <5> QED BY <2>1, <2>2, <5>2 DEF Due
      <4> QED BY <2>5, <4>1, <4>2
    <3> QED BY <2>3, <3>1, <3>2 DEF SameNode
  <2> QED BY <2>4, <2>5
<1> QED BY <1>3, <1>4, <1>5

\* Of what the extraction leaves: a sound filesystem, and what is due.
LEMMA ExtractIs ==
    ASSUME NEW es \in Seq(Entries), NEW r, r = Extract(es), r.err = "ok"
    PROVE  /\ Sound(r.data)
           /\ Plain(es) => \A p \in Paths : SameNode(r.data[p], Due(es, Len(es), p))
<1> DEFINE u == Extractions(es)
           S == {n \in 0 .. Len(es) : u[n].err = "ok" =>
                    /\ Sound(u[n].data)
                    /\ Plain(es) => \A p \in Paths : SameNode(u[n].data[p], Due(es, n, p))}
<1>0. Len(es) \in Nat /\ \A n \in 1 .. Len(es) : es[n] \in Entries
  OBVIOUS
<1>1. /\ u[0] = Done(FreshFs)
      /\ \A n \in 1 .. Len(es) : u[n] = Extended(u[n - 1], es[n])
  BY ExtractionsIs
<1>2. r = u[Len(es)]
  BY DEF Extract
<1> HIDE DEF u
<1>3. 0 \in S
  <2>1. u[0].data = FreshFs
    BY <1>1 DEF Done
  <2>2. Sound(FreshFs)
    <3>1. FreshFs[Root].kind = "dir"
      BY RootIs DEF FreshFs, NewDir, NoNode
    <3> QED BY <3>1, FreshFsType, FreshIsTidy DEF Sound
  <2>3. ASSUME NEW p \in Paths PROVE SameNode(FreshFs[p], Due(es, 0, p))
    <3>1. Before(es, 0, p) = {} /\ ~OnTheWay(es, 0, p)
      <4>1. 1 .. 0 = {}
        OBVIOUS
      <4> QED BY <4>1 DEF Before, OnTheWay
    <3> QED BY <3>1 DEF Due, FreshFs, NewDir, NoNode, SameNode
  <2>4. 0 \in 0 .. Len(es)
    BY <1>0
  <2> QED BY <2>1, <2>2, <2>3, <2>4
<1>4. ASSUME NEW n \in 0 .. Len(es) - 1, n \in S PROVE n + 1 \in S
  <2>1. PICK k \in 1 .. Len(es) : k = n + 1 /\ k \in 0 .. Len(es) /\ n = k - 1
    BY <1>0
  <2>2. u[k] = Extended(u[n], es[k]) /\ es[k] \in Entries
    BY <1>0, <1>1, <2>1
  <2>3. ASSUME u[k].err = "ok"
        PROVE  /\ Sound(u[k].data)
               /\ Plain(es) => \A p \in Paths : SameNode(u[k].data[p], Due(es, k, p))
    <3>1. u[n].err = "ok" /\ u[k] = ExtractEntry(u[n].data, es[k])
      BY <2>2, <2>3 DEF Extended
    <3>2. /\ Sound(u[n].data)
          /\ Plain(es) => \A p \in Paths : SameNode(u[n].data[p], Due(es, n, p))
      BY <1>4, <3>1
    <3>3. Sound(u[k].data)
      BY <2>2, <2>3, <3>1, <3>2, ExtractEntryDoes
    <3>4. ASSUME Plain(es)
          PROVE  \A p \in Paths : SameNode(u[k].data[p], Due(es, k, p))
      BY <2>1, <2>3, <3>1, <3>2, <3>4, DueStep
    <3> QED BY <3>3, <3>4
  <2> QED BY <2>1, <2>3
<1>5. Len(es) \in S
  <2> HIDE DEF S
  <2>1. 0 .. Len(es) \subseteq S
    BY <1>0, <1>3, <1>4, Induction
  <2> QED BY <1>0, <2>1
<1> QED BY <1>2, <1>5

\* Two nodes with the same fields are one.
LEMMA SameFields ==
    ASSUME NEW m \in Node, NEW n \in Node, SameNode(m, n), m.kids = n.kids, m.stuck = n.stuck
    PROVE  m = n
BY DEF Node, SameNode

\* What a sound filesystem with the nodes due holds is the union of the layers.
LEMMA DueIsOverlay ==
    ASSUME NEW es \in Seq(Entries), NEW l, Sound(l),
           \A p \in Paths : SameNode(l[p], Due(es, Len(es), p))
    PROVE  l = Overlay(es)
<1> DEFINE n == Len(es)
<1>1. DOMAIN es = 1 .. n
  OBVIOUS
<1>2. \A p : At(es, p) = Before(es, n, p) /\ Top(es, p) = Highest(es, n, p)
             /\ (Above(es, p) <=> OnTheWay(es, n, p))
  BY <1>1 DEF At, Before, Top, Highest, Above, OnTheWay
<1> HIDE DEF n
<1>3. \A p \in Paths : SameNode(l[p], Due(es, n, p))
  BY DEF n
<1>4. \A p \in Paths : l[p].kind = OverlaidKind(es, p)
  <2> TAKE p \in Paths
  <2>1. Due(es, n, p).kind = OverlaidKind(es, p)
    BY <1>2 DEF Due, OverlaidKind
  <2> QED BY <1>3, <2>1 DEF SameNode
<1>5. ASSUME NEW p \in Paths PROVE Overlay(es)[p] = l[p]
  <2> DEFINE listed == At(es, p) # {}
             kids == {k \in Paths \ {Root} : Parent(k) = p /\ OverlaidKind(es, k) # "none"}
             mode == IF listed THEN Top(es, p).mode ELSE IF p = Root THEN "0755" ELSE "0777"
             time == IF listed THEN "image" ELSE "session"
             node == Overlay(es)[p]
  <2>0. /\ l[p] \in Node /\ ~l[p].stuck /\ l[p].kids = Children(l, p)
        /\ SameNode(l[p], Due(es, n, p)) /\ l[p].kind = OverlaidKind(es, p)
    BY <1>3, <1>4, NodeTyped DEF Sound, Tidy
  <2>1. kids = Children(l, p)
    BY <1>4 DEF Children
  <2>2. l[p].kind # "dir" => Children(l, p) = {}
    <3> SUFFICES ASSUME l[p].kind # "dir", NEW k \in Children(l, p) PROVE FALSE
      OBVIOUS
    <3>1. k \in Paths /\ k # Root /\ Parent(k) = p /\ l[k].kind # "none"
      BY DEF Children
    <3>2. p \in Prefixes(k) \ {k}
      BY <3>1, ParentIs, PrefixOrder
    <3> QED BY <3>1, <3>2 DEF Sound, Tidy, Rooted
  <2>3. node = CASE OverlaidKind(es, p) = "none" -> NoNode
                 [] OverlaidKind(es, p) = "dir" -> [NewDir(mode, kids) EXCEPT !.mtime = time]
                 [] OTHER -> [NewFile EXCEPT !.mode = Top(es, p).mode, !.mtime = "image",
                                             !.content = Top(es, p).content]
    BY DEF Overlay
  <2>4. OverlaidKind(es, p) \in {"none", "dir", "file"}
    BY DEF OverlaidKind
  <2> HIDE DEF node
  <2>5. CASE OverlaidKind(es, p) = "none"
    <3>1. node = NoNode
      BY <2>3, <2>5
    <3>2. Before(es, n, p) = {} /\ ~(p = Root \/ OnTheWay(es, n, p))
      BY <1>2, <2>5 DEF OverlaidKind
    <3>3. SameNode(l[p], NoNode)
      BY <2>0, <3>2 DEF SameNode, Due, NoNode
    <3>4. l[p].kids = NoNode.kids /\ l[p].stuck = NoNode.stuck
      BY <2>0, <2>2, <2>5 DEF NoNode, Node
    <3>5. l[p] = NoNode
      BY <2>0, <3>3, <3>4, SameFields, NewNodes
    <3> QED BY <3>1, <3>5 DEF node
  <2>6. CASE OverlaidKind(es, p) = "dir"
    <3>1. node = [NewDir(mode, kids) EXCEPT !.mtime = time]
      BY <2>3, <2>6
    <3>2. node = [kind |-> "dir", mode |-> mode, content |-> Empty, mtime |-> time,
                  kids |-> kids, stuck |-> FALSE]
      <4> HIDE DEF mode, time, kids
      <4> QED BY <3>1 DEF NewDir, NoNode
    <3>3. /\ Due(es, n, p).kind = "dir" /\ Due(es, n, p).mode = mode
          /\ Due(es, n, p).mtime = time /\ Due(es, n, p).content = Empty
      <4>1. CASE listed
        BY <1>2, <2>6, <4>1 DEF Due, OverlaidKind
      <4>2. CASE ~listed
        <5>1. p = Root \/ OnTheWay(es, n, p)
          BY <1>2, <2>6, <4>2 DEF OverlaidKind
        <5> QED BY <1>2, <4>2, <5>1 DEF Due
      <4> QED BY <4>1, <4>2
    <3> HIDE DEF mode, time, kids, listed
    <3>4. /\ l[p].kind = "dir" /\ l[p].mode = mode /\ l[p].mtime = time /\ l[p].content = Empty
          /\ l[p].kids = kids /\ l[p].stuck = FALSE
      BY <2>0, <2>1, <3>3 DEF SameNode, Node
    <3>5. l[p] = [kind |-> "dir", mode |-> mode, content |-> Empty, mtime |-> time,
                  kids |-> kids, stuck |-> FALSE]
      BY <2>0, <3>4 DEF Node
    <3> QED BY <3>2, <3>5 DEF node
  <2>7. CASE OverlaidKind(es, p) = "file"
    <3> DEFINE e == Top(es, p)
    <3>1. node = [NewFile EXCEPT !.mode = e.mode, !.mtime = "image", !.content = e.content]
      BY <2>3, <2>7
    <3>2. Before(es, n, p) # {} /\ e.kind # "dir" /\ e = Highest(es, n, p)
      BY <1>2, <2>7 DEF OverlaidKind
    <3>3. /\ Due(es, n, p).kind = "file" /\ Due(es, n, p).mode = e.mode
          /\ Due(es, n, p).mtime = "image" /\ Due(es, n, p).content = e.content
      BY <3>2 DEF Due
    <3> HIDE DEF e
    <3>4. node = [kind |-> "file", mode |-> e.mode, content |-> e.content, mtime |-> "image",
                  kids |-> {}, stuck |-> FALSE]
      BY <3>1 DEF NewFile, NoNode
    <3>5. /\ l[p].kind = "file" /\ l[p].mode = e.mode /\ l[p].mtime = "image"
          /\ l[p].content = e.content /\ l[p].kids = {} /\ l[p].stuck = FALSE
      BY <2>0, <2>2, <2>7, <3>3 DEF SameNode, Node
    <3>6. l[p] = [kind |-> "file", mode |-> e.mode, content |-> e.content, mtime |-> "image",
                  kids |-> {}, stuck |-> FALSE]
      BY <2>0, <3>5 DEF Node
    <3> QED BY <3>4, <3>6 DEF node
  <2> QED BY <2>4, <2>5, <2>6, <2>7 DEF node
<1>6. l = [p \in Paths |-> l[p]]
  BY DEF Sound, FsData
<1>7. Overlay(es) = [p \in Paths |-> Overlay(es)[p]]
  BY DEF Overlay
<1> QED BY <1>5, <1>6, <1>7

\* A sound filesystem is a tree.
LEMMA SoundIsTree ==
    ASSUME NEW l, Sound(l)
    PROVE  IsTree(l)
BY DEF Sound, Tidy, Rooted, Children, IsTree

\* The extraction of an archive, in one place.
LEMMA Extracted ==
    ASSUME NEW es \in Seq(Entries), NEW r, r = Extract(es), r.err = "ok"
    PROVE  /\ r.data \in FsData
           /\ IsTree(r.data)
           /\ Plain(es) => r.data = Overlay(es)
BY ExtractIs, DueIsOverlay, SoundIsTree DEF Sound

(***************************************************************************)
(* The host key                                                            *)
(***************************************************************************)

\* The fields that the proof looks at are there.
Records ==
    /\ DOMAIN files = Files
    /\ files["key"] = [state |-> files["key"].state, what |-> files["key"].what]
    /\ tool = [at |-> tool.at, writing |-> tool.writing, key |-> tool.key,
               image |-> tool.image, left |-> tool.left]

\* While init writes a file nothing but its creation has happened to it: no
\* other tool runs, and the server only reads.
WritesItsOwn ==
    tool.writing => tool.at \in Files /\ files[tool.at].state = "empty"

KeyInv == Records /\ WritesItsOwn /\ HostKeyLasts

\* A step that leaves the file of the key and the keys that were taken alone.
LEMMA Elsewhere ==
    ASSUME HostKeyLasts, files'["key"] = files["key"], taken' = taken
    PROVE  HostKeyLasts'
BY DEF HostKeyLasts

\* While no whole key is in its file no server has taken one.
LEMMA NoneTaken ==
    ASSUME HostKeyLasts, files["key"].state # "whole"
    PROVE  taken \ {Ephemeral} = {}
<1> SUFFICES ASSUME NEW key \in taken \ {Ephemeral} PROVE FALSE
  OBVIOUS
<1>1. files["key"] = [state |-> "whole", what |-> key]
  BY DEF HostKeyLasts, File
<1> QED BY <1>1

\* Only the key's file matters, and that only when a key has been taken from it.
LEMMA Installed ==
    ASSUME KeyInv, NEW f \in Files, NEW file,
           files' = [files EXCEPT ![f] = file], taken' = taken,
           f = "key" => files["key"].state # "whole"
    PROVE  HostKeyLasts'
<1>1. CASE f = "key"
  BY <1>1, NoneTaken DEF KeyInv, HostKeyLasts
<1>2. CASE f # "key"
  BY <1>2, Elsewhere DEF KeyInv, Records, Files
<1> QED BY <1>1, <1>2

LEMMA InitKey == Init => KeyInv
BY DEF Init, KeyInv, Records, WritesItsOwn, HostKeyLasts, Files, File, NoTool

\* The tools.

LEMMA RunInitKey == ASSUME KeyInv, RunInit PROVE KeyInv'
BY Elsewhere DEF KeyInv, RunInit, fileVars, Records, WritesItsOwn, NoTool

LEMMA LookAtKey == ASSUME KeyInv, LookAt PROVE KeyInv'
<1> USE DEF KeyInv, Records, WritesItsOwn
<1>1. CASE files[tool.at].state # "none"
  <2>1. files' = files /\ taken' = taken /\ tool' = [tool EXCEPT !.at = StepAfter(tool.at)]
    BY <1>1 DEF LookAt
  <2>2. ~tool.writing
    BY DEF LookAt
  <2> QED BY <2>1, <2>2, Elsewhere
<1>2. CASE files[tool.at].state = "none"
  <2> DEFINE new == Defaults(tool.key)[tool.at]
  <2>1. /\ files' = [files EXCEPT ![tool.at] = File("empty", new)]
        /\ tool' = [tool EXCEPT !.writing = TRUE]
        /\ taken' = taken /\ tool.at \in Files
    BY <1>2 DEF LookAt, Install
  <2>2. Records' /\ WritesItsOwn'
    BY <2>1 DEF File, Files
  <2>3. HostKeyLasts'
    BY <1>2, <2>1, Installed
  <2> QED BY <2>2, <2>3
<1> QED BY <1>1, <1>2

LEMMA WriteOutKey == ASSUME KeyInv, WriteOut PROVE KeyInv'
<1> USE DEF KeyInv, Records, WritesItsOwn
<1> DEFINE new == [files[tool.at] EXCEPT !.state = "whole"]
<1>1. /\ files' = [files EXCEPT ![tool.at] = new]
      /\ tool' = [tool EXCEPT !.at = StepAfter(tool.at), !.writing = FALSE]
      /\ taken' = taken /\ tool.at \in Files /\ files[tool.at].state = "empty"
  BY DEF WriteOut, Install
<1>2. ~tool'.writing
  BY <1>1
<1>3. DOMAIN files' = Files /\ files'["key"] = [state |-> files'["key"].state, what |-> files'["key"].what]
  BY <1>1 DEF Files
<1>4. tool' = [at |-> StepAfter(tool.at), writing |-> FALSE, key |-> tool.key,
               image |-> tool.image, left |-> tool.left]
  BY <1>1
<1>5. HostKeyLasts'
  BY <1>1, Installed
<1> QED BY <1>2, <1>3, <1>4, <1>5

LEMMA MakeDirKey == ASSUME KeyInv, MakeDir PROVE KeyInv'
<1> USE DEF KeyInv, Records, WritesItsOwn
<1>1. files' = files /\ taken' = taken
  BY DEF MakeDir
<1>2. ~tool.writing
  BY DEF MakeDir, Dirs, Files
<1>3. tool' = NoTool \/ tool' = [tool EXCEPT !.at = StepAfter(tool.at)]
  BY DEF MakeDir
<1> QED BY <1>1, <1>2, <1>3, Elsewhere DEF NoTool

\* A file that is given up half written is that of a key no server has taken.
LEMMA InitBreaksKey == ASSUME KeyInv, InitBreaks PROVE KeyInv'
<1> USE DEF KeyInv, Records, WritesItsOwn
<1>1. tool' = NoTool /\ taken' = taken
  BY DEF InitBreaks
<1>2. CASE files' = files
  BY <1>1, <1>2, Elsewhere DEF NoTool
<1>3. CASE files' # files
  <2> DEFINE new == [files[tool.at] EXCEPT !.state = "part"]
  <2>1. /\ files' = [files EXCEPT ![tool.at] = new]
        /\ tool.at \in Files /\ files[tool.at].state = "empty"
    BY <1>3 DEF InitBreaks, Install
  <2>2. Records' /\ WritesItsOwn'
    BY <1>1, <2>1 DEF Files, NoTool
  <2>3. HostKeyLasts'
    BY <1>1, <2>1, Installed
  <2> QED BY <2>2, <2>3
<1> QED BY <1>2, <1>3

LEMMA RunImg2fsKey ==
    ASSUME KeyInv, NEW image \in Images, RunImg2fs(image) PROVE KeyInv'
<1> USE DEF KeyInv, Records, WritesItsOwn
<1> DEFINE new == File("empty", NoArchive)
<1>1. /\ files' = [files EXCEPT !["root"] = new] /\ taken' = taken
      /\ tool' = [NoTool EXCEPT !.at = "walk", !.image = image, !.left = image]
  BY DEF RunImg2fs, Install
<1>2. Records' /\ WritesItsOwn'
  BY <1>1 DEF Files, NoTool
<1>3. HostKeyLasts'
  BY <1>1, Installed DEF Files
<1> QED BY <1>2, <1>3

LEMMA WalkEntryKey == ASSUME KeyInv, WalkEntry PROVE KeyInv'
<1> USE DEF KeyInv, Records, WritesItsOwn
<1> DEFINE layer == Head(tool.left)
           new   == [files["root"] EXCEPT !.what.entries = Append(@, Head(layer))]
           left  == << Tail(layer) >> \o Tail(tool.left)
<1>1. /\ files' = [files EXCEPT !["root"] = new] /\ taken' = taken
      /\ tool' = [tool EXCEPT !.left = left] /\ tool.at = "walk"
  BY DEF WalkEntry
<1>2. Records' /\ WritesItsOwn'
  BY <1>1 DEF Files
<1>3. HostKeyLasts'
  BY <1>1, Installed DEF Files
<1> QED BY <1>2, <1>3

\* img2fs ends, or fails, and leaves some archive.
LEMMA WalkOverKey ==
    ASSUME KeyInv, NEW archive, files' = [files EXCEPT !["root"] = archive],
           tool' = NoTool, taken' = taken
    PROVE  KeyInv'
<1>1. Records' /\ WritesItsOwn'
  BY DEF KeyInv, Records, WritesItsOwn, Files, NoTool
<1>2. HostKeyLasts'
  BY Installed DEF KeyInv, Files
<1> QED BY <1>1, <1>2 DEF KeyInv

LEMMA WalkKey ==
    ASSUME KeyInv, NextLayer \/ WalkEnds \/ WalkFails \/ WalkBreaks PROVE KeyInv'
<1>1. CASE NextLayer
  BY <1>1, Elsewhere DEF NextLayer, fileVars, KeyInv, Records, WritesItsOwn
<1>2. CASE WalkEnds
  BY <1>2, WalkOverKey DEF WalkEnds, Install
<1>3. CASE WalkFails
  BY <1>3, WalkOverKey DEF WalkFails, Install
<1>4. CASE WalkBreaks
  BY <1>4, WalkOverKey DEF WalkBreaks, Install
<1> QED BY <1>1, <1>2, <1>3, <1>4

\* The operator and the server.

LEMMA EditConfigKey ==
    ASSUME KeyInv, NEW what \in {"edited", "wrong"}, EditConfig(what) PROVE KeyInv'
<1> DEFINE new == File("whole", what)
<1>1. files' = [files EXCEPT !["config"] = new] /\ tool' = tool /\ tool = NoTool /\ taken' = taken
  BY DEF EditConfig, Install, Idle
<1>2. Records' /\ WritesItsOwn'
  BY <1>1 DEF KeyInv, Records, WritesItsOwn, Files, NoTool
<1>3. HostKeyLasts'
  BY <1>1, Installed DEF KeyInv, Files
<1> QED BY <1>2, <1>3 DEF KeyInv

\* With the key's file the operator removes what was taken from it.
LEMMA RemoveFileKey ==
    ASSUME KeyInv, NEW f \in Files, RemoveFile(f) PROVE KeyInv'
<1> DEFINE new == [files[f] EXCEPT !.state = "none"]
<1>1. /\ files' = [files EXCEPT ![f] = new] /\ tool' = tool /\ tool = NoTool
      /\ taken' = IF f = "key" THEN {} ELSE taken
  BY DEF RemoveFile, Install, Idle
<1>2. Records' /\ WritesItsOwn'
  BY <1>1 DEF KeyInv, Records, WritesItsOwn, Files, NoTool
<1>3. HostKeyLasts'
  <2>1. CASE f = "key"
    BY <1>1, <2>1 DEF HostKeyLasts
  <2>2. CASE f # "key"
    BY <1>1, <2>2, Installed DEF KeyInv
  <2> QED BY <2>1, <2>2
<1> QED BY <1>2, <1>3 DEF KeyInv

\* A server takes the key that stands whole in the file, or one of its own.
LEMMA ReadKeyKey == ASSUME KeyInv, ReadKey PROVE KeyInv'
<1> DEFINE key  == files["key"]
           used == IF key.state = "whole" THEN key.what ELSE Ephemeral
<1>1. files' = files /\ tool' = tool /\ (taken' = taken \/ taken' = taken \cup {used})
  BY DEF ReadKey, fileVars
<1>2. used # Ephemeral => files["key"] = File("whole", used)
  BY DEF KeyInv, Records, File
<1>3. HostKeyLasts'
  BY <1>1, <1>2 DEF KeyInv, HostKeyLasts
<1> QED BY <1>1, <1>3 DEF KeyInv, Records, WritesItsOwn

LEMMA ServerKey == ASSUME KeyInv, ServerStep PROVE KeyInv'
<1>1. CASE ReadKey
  BY <1>1, ReadKeyKey
<1>2. CASE ~ReadKey
  <2>1. files' = files /\ tool' = tool /\ taken' = taken
    BY <1>2 DEF ServerStep, Serve, LoadConfig, ReadImage, OpenLog, Listen, Stop, fileVars
  <2> QED BY <2>1, Elsewhere DEF KeyInv, Records, WritesItsOwn
<1> QED BY <1>1, <1>2

(***************************************************************************)
(* Types and the served image                                              *)
(***************************************************************************)

AllImages == Seq(Seq(Entries))

\* States of each file and what it can hold.
FileKind(f) ==
    [state: States,
     what: IF f = "config" THEN {"default", "edited", "wrong"}
           ELSE IF f = "key" THEN {Ephemeral} \cup Keys
           ELSE [entries: Seq(Entries), image: AllImages]]

FilesTyped == files = [f \in Files |-> files[f]] /\ \A f \in Files : files[f] \in FileKind(f)

ToolTyped ==
    tool \in [at: Files \cup Dirs \cup {"idle", "walk"}, writing: BOOLEAN,
              key: {Ephemeral} \cup Keys, image: AllImages, left: AllImages]

ServerTyped ==
    server \in [at: {"down", "config", "image", "log", "key", "listen", "up"}, data: FsData,
                image: AllImages, key: {Ephemeral} \cup Keys]

CountersTyped == commands \in 0 .. MaxCommands /\ troubles \in 0 .. MaxTrouble

Typed ==
    /\ FilesTyped /\ ToolTyped /\ ServerTyped /\ CountersTyped
    /\ made \subseteq Dirs \cup {"app.log"}
    /\ taken \subseteq {Ephemeral} \cup Keys

\* While img2fs runs the archive is not whole and lacks what is left; otherwise it
\* holds the entries of the image it is said to hold, whatever state it is in.
Archived ==
    LET root == files["root"]
    IN  IF tool.at = "walk"
        THEN /\ root.state # "whole"
             /\ root.what.entries \o EntriesOf(tool.left) = EntriesOf(tool.image)
        ELSE root.what.entries = EntriesOf(root.what.image)

\* A server that has read the archive has what the extraction makes of its image.
Unpacked ==
    server.at \in {"log", "key", "listen", "up"} =>
        LET r == Extract(EntriesOf(server.image))
        IN  r.err = "ok" /\ server.data = r.data

StateInv == Typed /\ Archived /\ Unpacked

\* The steps of init follow one another and come to an end.
LEMMA StepsType ==
    /\ \A step \in Files \cup Dirs : StepAfter(step) \in Files \cup Dirs \cup {"idle"}
    /\ Seqs!ToSet(Steps) = Files \cup Dirs \cup {"idle"}
<1>0. DOMAIN Steps = 1 .. 6
  BY DEF Steps
<1>1. \A i \in 1 .. 6 : Steps[i] \in Files \cup Dirs \cup {"idle"}
  BY DEF Steps, Files, Dirs
<1>2. \A step \in Files \cup Dirs : \E i \in 1 .. 5 : Steps[i] = step
  BY DEF Steps, Files, Dirs
<1>3. ASSUME NEW step \in Files \cup Dirs PROVE StepAfter(step) \in Files \cup Dirs \cup {"idle"}
  <2> DEFINE n == CHOOSE i \in 1 .. 5 : Steps[i] = step
  <2>1. n \in 1 .. 5
    BY <1>2
  <2> HIDE DEF n
  <2>2. 1 + n \in 1 .. 6
    BY <2>1
  <2> QED BY <1>1, <2>2 DEF StepAfter, n
<1>4. Seqs!ToSet(Steps) = Files \cup Dirs \cup {"idle"}
  <2>1. Seqs!ToSet(Steps) = {Steps[i] : i \in 1 .. 6}
    BY <1>0 DEF Seqs!ToSet
  <2>2. Steps[6] = "idle"
    BY DEF Steps
  <2>3. \A x \in Files \cup Dirs \cup {"idle"} : \E i \in 1 .. 6 : Steps[i] = x
    BY <1>2, <2>2
  <2> QED BY <1>1, <2>1, <2>3
<1> QED BY <1>3, <1>4

\* The entries of the images that the tools meet.
LEMMA EntriesType ==
    /\ \A image \in AllImages : EntriesOf(image) \in Seq(Entries)
    /\ EntriesOf(<< >>) = << >>
    /\ \A layer \in Seq(Entries), image \in AllImages :
          EntriesOf(<< layer >> \o image) = layer \o EntriesOf(image)
    /\ \A entries \in Seq(Entries) : EntriesOf(<< entries >>) = entries
    /\ Images \subseteq AllImages /\ Embedded \in AllImages /\ << >> \in AllImages
<1>1. << >> \in AllImages
  BY DEF AllImages
<1>2. /\ \A image \in AllImages : EntriesOf(image) \in Seq(Entries)
      /\ EntriesOf(<< >>) = << >>
      /\ \A layer \in Seq(Entries), image \in AllImages :
            EntriesOf(<< layer >> \o image) = layer \o EntriesOf(image)
  <2>1. << >> \in Seq(Entries)
    OBVIOUS
  <2> QED BY <1>1, <2>1, EntriesAre DEF AllImages
<1>3. ASSUME NEW entries \in Seq(Entries) PROVE EntriesOf(<< entries >>) = entries
  <2>1. << entries >> \o << >> = << entries >> /\ entries \o << >> = entries
    OBVIOUS
  <2>2. EntriesOf(<< entries >> \o << >>) = entries \o EntriesOf(<< >>)
    BY <1>1, <1>2
  <2> QED BY <1>2, <2>1, <2>2
<1>4. Images \subseteq AllImages /\ Embedded \in AllImages
  BY InstallationAssumption DEF AllImages
<1> QED BY <1>1, <1>2, <1>3, <1>4

\* A sequence is its head and its tail.
LEMMA Split ==
    ASSUME NEW S, NEW l \in Seq(S), l # << >>
    PROVE  Head(l) \in S /\ Tail(l) \in Seq(S) /\ l = << Head(l) >> \o Tail(l)
OBVIOUS

LEMMA Appended ==
    ASSUME NEW S, NEW w \in Seq(S), NEW x \in S
    PROVE  Append(w, x) \in Seq(S) /\ << x >> \in Seq(S) /\ Append(w, x) = w \o << x >>
OBVIOUS

\* The same regrouping, of four sequences.
Regroups(w, h, t, r) == w \o ((h \o t) \o r) = (w \o h) \o (t \o r)

LEMMA Regrouped ==
    ASSUME NEW S, NEW w \in Seq(S), NEW h \in Seq(S), NEW t \in Seq(S), NEW r \in Seq(S)
    PROVE  Regroups(w, h, t, r)
<1>1. (h \o t) \o r = h \o (t \o r)
  BY SMTT(30)
<1>2. t \o r \in Seq(S)
  OBVIOUS
<1>3. PICK u : u = t \o r
  OBVIOUS
<1>4. u \in Seq(S)
  BY <1>2, <1>3, Zenon
<1>5. (w \o h) \o u = w \o (h \o u)
  BY <1>4, SMTT(30)
<1> QED BY <1>1, <1>3, <1>5, Zenon DEF Regroups

\* An entry goes from the front of what is left to the end of what is written.
LEMMA Moved ==
    ASSUME NEW S, NEW w \in Seq(S), NEW l \in Seq(S), l # << >>, NEW r \in Seq(S)
    PROVE  /\ Append(w, Head(l)) \in Seq(S) /\ Tail(l) \in Seq(S)
           /\ w \o (l \o r) = Append(w, Head(l)) \o (Tail(l) \o r)
<1>1. Head(l) \in S /\ Tail(l) \in Seq(S) /\ l = << Head(l) >> \o Tail(l)
  BY Split
<1>2. /\ Append(w, Head(l)) \in Seq(S) /\ << Head(l) >> \in Seq(S)
      /\ Append(w, Head(l)) = w \o << Head(l) >>
  BY <1>1, Appended
<1>3. PICK h, t : h = << Head(l) >> /\ t = Tail(l)
  OBVIOUS
<1>4. h \in Seq(S) /\ t \in Seq(S) /\ l = h \o t /\ Append(w, Head(l)) = w \o h
  BY <1>1, <1>2, <1>3, Zenon
<1>5. Regroups(w, h, t, r)
  BY <1>4, Regrouped, Zenon
<1>6. w \o ((h \o t) \o r) = (w \o h) \o (t \o r)
  BY <1>5, Zenon DEF Regroups
<1> QED BY <1>1, <1>2, <1>3, <1>4, <1>6, Zenon

\* A file in another state.
InState(file, state) == [file EXCEPT !.state = state]

LEMMA InStateType ==
    ASSUME NEW f \in Files, NEW file \in FileKind(f), NEW state \in States
    PROVE  InState(file, state) \in FileKind(f) /\ InState(file, state).what = file.what
<1> DEFINE T == IF f = "config" THEN {"default", "edited", "wrong"}
                ELSE IF f = "key" THEN {Ephemeral} \cup Keys
                ELSE [entries: Seq(Entries), image: AllImages]
<1>1. FileKind(f) = [state: States, what: T]
  BY DEF FileKind
<1> HIDE DEF T
<1> QED BY <1>1 DEF InState

\* A file replaces another of its kind.
LEMMA FilePut ==
    ASSUME FilesTyped, NEW f \in Files, NEW file \in FileKind(f),
           files' = [files EXCEPT ![f] = file]
    PROVE  /\ FilesTyped' /\ files'[f] = file
           /\ f # "root" => files'["root"] = files["root"]
<1>1. files' = [g \in Files |-> IF g = f THEN file ELSE files[g]]
  BY DEF FilesTyped
<1> QED BY <1>1 DEF FilesTyped, Files

\* The kinds of the three files.
LEMMA FileKinds ==
    /\ FileKind("config") = [state: States, what: {"default", "edited", "wrong"}]
    /\ FileKind("key") = [state: States, what: {Ephemeral} \cup Keys]
    /\ FileKind("root") = [state: States, what: [entries: Seq(Entries), image: AllImages]]
<1>1. "key" # "config" /\ "root" # "config" /\ "root" # "key"
  OBVIOUS
<1> QED BY <1>1, Zenon DEF FileKind

\* Whole files, and others, of a given content.
LEMMA FileTyped ==
    /\ \A state \in States, what \in {"default", "edited", "wrong"} :
          File(state, what) \in FileKind("config")
    /\ \A state \in States, key \in {Ephemeral} \cup Keys : File(state, key) \in FileKind("key")
    /\ \A state \in States, entries \in Seq(Entries), image \in AllImages :
          /\ File(state, Archive(entries, image)) \in FileKind("root")
          /\ File(state, Archive(entries, image)).state = state
          /\ File(state, Archive(entries, image)).what.entries = entries
          /\ File(state, Archive(entries, image)).what.image = image
BY FileKinds DEF File, Archive

\* A step that leaves what the archive holds alone, while img2fs does not run.
LEMMA ArchiveAlone ==
    ASSUME Archived, tool.at # "walk", tool'.at # "walk",
           files'["root"].what = files["root"].what
    PROVE  Archived'
BY DEF Archived

LEMMA InitState == Init => StateInv
<1> SUFFICES ASSUME Init PROVE StateInv
  OBVIOUS
<1> USE DEF Init
<1>1. FilesTyped
  <2>1. \A f \in Files : File("none", Blank[f]) \in FileKind(f)
    <3>1. "none" \in States
      BY DEF States
    <3>2. Blank["config"] = "default" /\ Blank["key"] = Ephemeral
          /\ Blank["root"] = Archive(<< >>, << >>)
      BY DEF Blank, NoArchive
    <3>3. << >> \in Seq(Entries) /\ << >> \in AllImages
      BY EntriesType
    <3>4. /\ File("none", Blank["config"]) \in FileKind("config")
          /\ File("none", Blank["key"]) \in FileKind("key")
          /\ File("none", Blank["root"]) \in FileKind("root")
      <4>1. File("none", "default") \in FileKind("config")
        BY <3>1, FileTyped
      <4>2. File("none", Ephemeral) \in FileKind("key")
        BY <3>1, FileTyped
      <4>3. File("none", Archive(<< >>, << >>)) \in FileKind("root")
        BY <3>1, <3>3, FileTyped
      <4> QED BY <3>2, <4>1, <4>2, <4>3, Zenon
    <3> QED BY <3>4 DEF Files
  <2> QED BY <2>1 DEF FilesTyped
<1>2. ToolTyped
  BY EntriesType DEF ToolTyped, NoTool
<1>3. ServerTyped
  BY EntriesType, FreshFsType DEF ServerTyped, Down
<1>4. CountersTyped
  BY InstallationAssumption DEF CountersTyped
<1>5. Archived
  <2>1. files["root"].what = Archive(<< >>, << >>)
    BY DEF Files, File, Blank, NoArchive
  <2> QED BY <2>1, EntriesType DEF Archived, NoTool, Archive
<1>6. Unpacked
  BY DEF Unpacked, Down
<1> QED BY <1>1, <1>2, <1>3, <1>4, <1>5, <1>6 DEF StateInv, Typed

\* The tools.

LEMMA CountersStep ==
    ASSUME CountersTyped, commands' = commands \/ Command, troubles' = troubles \/ Trouble
    PROVE  CountersTyped'
BY InstallationAssumption DEF CountersTyped, Command, Trouble

LEMMA RunInitState == ASSUME StateInv, RunInit PROVE StateInv'
<1> USE DEF StateInv, Typed
<1>1. /\ tool' = [NoTool EXCEPT !.at = "config", !.key = commands + 1] /\ tool.at = "idle"
      /\ files' = files /\ made' = made /\ server' = server /\ taken' = taken
      /\ Command /\ troubles' = troubles
  BY DEF RunInit, Idle, NoTool, fileVars
<1>2. commands + 1 \in Keys
  BY InstallationAssumption, <1>1 DEF Command, CountersTyped, Keys
<1>3. ToolTyped' /\ tool'.at = "config"
  BY <1>1, <1>2, EntriesType DEF ToolTyped, NoTool, Files
<1>4. CountersTyped'
  BY <1>1, CountersStep
<1>5. Archived'
  BY <1>1, <1>3, ArchiveAlone
<1> QED BY <1>1, <1>3, <1>4, <1>5 DEF FilesTyped, ServerTyped, Unpacked

\* The tool goes on to the next step of init.
LEMMA GoesOn ==
    ASSUME ToolTyped, tool.at \in Files \cup Dirs, NEW writing \in BOOLEAN,
           \/ tool' = [tool EXCEPT !.at = StepAfter(tool.at)]
           \/ tool' = [tool EXCEPT !.at = StepAfter(tool.at), !.writing = writing]
           \/ tool' = [tool EXCEPT !.writing = writing]
    PROVE  ToolTyped' /\ tool'.at # "walk"
<1>1. StepAfter(tool.at) \in Files \cup Dirs \cup {"idle"}
  BY StepsType
<1> DEFINE next == StepAfter(tool.at)
<1> HIDE DEF next
<1>2. next \in Files \cup Dirs \cup {"idle"}
  BY <1>1 DEF next
<1>3. \/ tool' = [tool EXCEPT !.at = next]
      \/ tool' = [tool EXCEPT !.at = next, !.writing = writing]
      \/ tool' = [tool EXCEPT !.writing = writing]
  BY DEF next
<1>4. "walk" \notin Files \cup Dirs \cup {"idle"}
  BY DEF Files, Dirs
<1> QED BY <1>2, <1>3, <1>4 DEF ToolTyped

\* What init writes.
LEMMA DefaultsType ==
    ASSUME NEW key \in {Ephemeral} \cup Keys, NEW f \in Files, NEW file,
           file = File("empty", Defaults(key)[f])
    PROVE  /\ file \in FileKind(f)
           /\ f = "root" => /\ file.what.entries = EntriesOf(Embedded)
                            /\ file.what.image = Embedded
<1>1. "empty" \in States
  BY DEF States
<1>2. Defaults(key)["config"] = "default" /\ Defaults(key)["key"] = key
      /\ Defaults(key)["root"] = Archive(EntriesOf(Embedded), Embedded)
  BY DEF Defaults
<1>3. EntriesOf(Embedded) \in Seq(Entries) /\ Embedded \in AllImages
  BY EntriesType
<1> QED BY <1>1, <1>2, <1>3, FileTyped DEF Files

LEMMA LookAtState == ASSUME StateInv, LookAt PROVE StateInv'
<1> USE DEF StateInv, Typed
<1>1. /\ tool.at \in Files
      /\ made' = made /\ server' = server /\ taken' = taken
      /\ commands' = commands /\ troubles' = troubles
  BY DEF LookAt
<1>w. tool.at # "walk"
  BY <1>1 DEF Files
<1>2. CASE files[tool.at].state # "none"
  <2>1. files' = files /\ tool' = [tool EXCEPT !.at = StepAfter(tool.at)]
    BY <1>2 DEF LookAt
  <2>2. ToolTyped' /\ tool'.at # "walk"
    BY <1>1, <2>1, GoesOn
  <2>3. Archived'
    BY <1>w, <2>1, <2>2, ArchiveAlone
  <2> QED BY <1>1, <2>1, <2>2, <2>3 DEF FilesTyped, ServerTyped, CountersTyped, Unpacked
<1>3. CASE files[tool.at].state = "none"
  <2> DEFINE file == File("empty", Defaults(tool.key)[tool.at])
  <2>1. files' = [files EXCEPT ![tool.at] = file] /\ tool' = [tool EXCEPT !.writing = TRUE]
    BY <1>3 DEF LookAt, Install
  <2>2. ToolTyped' /\ tool'.at # "walk"
    BY <1>1, <2>1, GoesOn
  <2>3. /\ file \in FileKind(tool.at)
        /\ tool.at = "root" => file.what.entries = EntriesOf(Embedded) /\ file.what.image = Embedded
    <3>1. tool.key \in {Ephemeral} \cup Keys
      BY DEF ToolTyped
    <3> QED BY <1>1, <3>1, DefaultsType
  <2> HIDE DEF file
  <2>4. /\ FilesTyped' /\ files'[tool.at] = file
        /\ tool.at # "root" => files'["root"] = files["root"]
    BY <1>1, <2>1, <2>3, FilePut
  <2>5. Archived'
    <3>1. CASE tool.at = "root"
      BY <2>2, <2>3, <2>4, <3>1 DEF Archived
    <3>2. CASE tool.at # "root"
      BY <1>w, <2>2, <2>4, <3>2, ArchiveAlone
    <3> QED BY <3>1, <3>2
  <2> QED BY <1>1, <2>2, <2>4, <2>5 DEF ServerTyped, CountersTyped, Unpacked
<1> QED BY <1>2, <1>3

\* A file changes its state only, while img2fs does not run.
LEMMA StateChanges ==
    ASSUME FilesTyped, Archived, NEW f \in Files, NEW state \in States,
           files' = [files EXCEPT ![f] = [files[f] EXCEPT !.state = state]],
           tool.at # "walk", tool'.at # "walk"
    PROVE  FilesTyped' /\ Archived'
<1> DEFINE file == InState(files[f], state)
<1>1. files' = [files EXCEPT ![f] = file]
  BY DEF InState
<1>2. file \in FileKind(f) /\ file.what = files[f].what
  BY InStateType DEF FilesTyped
<1> HIDE DEF file
<1>3. /\ FilesTyped' /\ files'[f] = file
      /\ f # "root" => files'["root"] = files["root"]
  BY <1>1, <1>2, FilePut
<1>4. files'["root"].what = files["root"].what
  BY <1>2, <1>3
<1> QED BY <1>3, <1>4, ArchiveAlone

LEMMA WriteOutState == ASSUME StateInv, WriteOut PROVE StateInv'
<1> USE DEF StateInv, Typed
<1>1. /\ tool.at \in Files
      /\ files' = [files EXCEPT ![tool.at] = [files[tool.at] EXCEPT !.state = "whole"]]
      /\ tool' = [tool EXCEPT !.at = StepAfter(tool.at), !.writing = FALSE]
      /\ made' = made /\ server' = server /\ taken' = taken
      /\ commands' = commands /\ troubles' = troubles
  BY DEF WriteOut, Install
<1>2. tool.at # "walk" /\ "whole" \in States
  BY <1>1 DEF Files, States
<1>3. ToolTyped' /\ tool'.at # "walk"
  BY <1>1, GoesOn
<1>4. FilesTyped' /\ Archived'
  BY <1>1, <1>2, <1>3, StateChanges
<1> QED BY <1>1, <1>3, <1>4 DEF ServerTyped, CountersTyped, Unpacked

LEMMA NoToolTyped == ASSUME tool' = NoTool PROVE ToolTyped' /\ tool'.at = "idle"
BY EntriesType DEF ToolTyped, NoTool

LEMMA MakeDirState == ASSUME StateInv, MakeDir PROVE StateInv'
<1> USE DEF StateInv, Typed
<1>1. /\ tool.at \in Dirs /\ made' = made \cup {tool.at}
      /\ tool' = NoTool \/ tool' = [tool EXCEPT !.at = StepAfter(tool.at)]
      /\ files' = files /\ server' = server /\ taken' = taken
      /\ commands' = commands /\ troubles' = troubles
  BY DEF MakeDir
<1>2. tool.at # "walk"
  BY <1>1 DEF Dirs
<1>3. ToolTyped' /\ tool'.at # "walk"
  BY <1>1, GoesOn, NoToolTyped
<1>4. Archived'
  BY <1>1, <1>2, <1>3, ArchiveAlone
<1> QED BY <1>1, <1>3, <1>4 DEF FilesTyped, ServerTyped, CountersTyped, Unpacked

LEMMA InitBreaksState == ASSUME StateInv, KeyInv, InitBreaks PROVE StateInv'
<1> USE DEF StateInv, Typed
<1>1. /\ tool.at \in Files \cup Dirs /\ tool' = NoTool /\ Trouble
      /\ made' = made /\ server' = server /\ taken' = taken /\ commands' = commands
      /\ \/ files' = files
         \/ /\ tool.writing
            /\ files' = [files EXCEPT ![tool.at] = [files[tool.at] EXCEPT !.state = "part"]]
  BY DEF InitBreaks, Install
<1>2. tool.at # "walk" /\ "part" \in States
  BY <1>1 DEF Files, Dirs, States
<1>3. ToolTyped' /\ tool'.at # "walk"
  BY <1>1, NoToolTyped
<1>4. CountersTyped'
  BY <1>1, CountersStep
<1>5. FilesTyped' /\ Archived'
  <2>1. CASE files' = files
    BY <1>2, <1>3, <2>1, ArchiveAlone DEF FilesTyped
  <2>2. CASE files' # files
    <3>1. tool.at \in Files
      BY <1>1, <2>2 DEF KeyInv, WritesItsOwn
    <3> QED BY <1>1, <1>2, <1>3, <2>2, <3>1, StateChanges
  <2> QED BY <2>1, <2>2
<1> QED BY <1>1, <1>3, <1>4, <1>5 DEF ServerTyped, Unpacked

LEMMA ArchiveIs ==
    ASSUME NEW state \in States, NEW entries \in Seq(Entries), NEW image \in AllImages,
           NEW file, file = File(state, Archive(entries, image))
    PROVE  /\ file \in FileKind("root") /\ file.state = state
           /\ file.what.entries = entries /\ file.what.image = image
BY FileTyped

LEMMA NoArchiveIs ==
    /\ File("empty", NoArchive) \in FileKind("root")
    /\ File("empty", NoArchive).state = "empty"
    /\ File("empty", NoArchive).what.entries = << >>
<1>1. PICK entries, image : entries = << >> /\ image = << >>
  OBVIOUS
<1>2. "empty" \in States /\ entries \in Seq(Entries) /\ image \in AllImages
  BY <1>1, EntriesType DEF States
<1>3. PICK file : file = File("empty", Archive(entries, image))
  OBVIOUS
<1>4. File("empty", NoArchive) = file
  BY <1>1, <1>3 DEF NoArchive
<1>5. /\ file \in FileKind("root") /\ file.state = "empty" /\ file.what.entries = entries
  BY <1>2, <1>3, ArchiveIs
<1> QED BY <1>1, <1>4, <1>5, Zenon

LEMMA MovedEntry ==
    \A w, l, r \in Seq(Entries) : l # << >> =>
        /\ Append(w, Head(l)) \in Seq(Entries) /\ Tail(l) \in Seq(Entries)
        /\ w \o (l \o r) = Append(w, Head(l)) \o (Tail(l) \o r)
BY SMTT(30), Moved

LEMMA RunImg2fsState ==
    ASSUME StateInv, NEW image \in Images, RunImg2fs(image) PROVE StateInv'
<1> USE DEF StateInv, Typed
<1> DEFINE file == File("empty", NoArchive)
<1>1. /\ files' = [files EXCEPT !["root"] = file] /\ "root" \in Files
      /\ tool' = [NoTool EXCEPT !.at = "walk", !.image = image, !.left = image]
      /\ made' = made /\ server' = server /\ taken' = taken
      /\ Command /\ troubles' = troubles
  BY DEF RunImg2fs, Install, Files
<1>2. /\ file \in FileKind("root") /\ file.state = "empty"
      /\ file.what.entries = << >>
  BY NoArchiveIs
<1> HIDE DEF file
<1>3. FilesTyped' /\ files'["root"] = file
  BY <1>1, <1>2, FilePut
<1>4. /\ ToolTyped' /\ tool'.at = "walk" /\ tool'.left = image /\ tool'.image = image
      /\ image \in AllImages
  <2>1. image \in AllImages /\ << >> \in AllImages
    BY EntriesType
  <2> QED BY <1>1, <2>1 DEF ToolTyped, NoTool
<1>5. Archived'
  <2>1. EntriesOf(image) \in Seq(Entries)
    BY <1>4, EntriesType
  <2>2. << >> \o EntriesOf(image) = EntriesOf(image)
    BY <2>1
  <2> QED BY <1>2, <1>3, <1>4, <2>2 DEF Archived
<1>6. CountersTyped'
  BY <1>1, CountersStep
<1> QED BY <1>1, <1>3, <1>4, <1>5, <1>6 DEF ServerTyped, Unpacked

\* The archive while img2fs runs.
LEMMA ArchiveTyped ==
    ASSUME FilesTyped, ToolTyped, Archived, tool.at = "walk"
    PROVE  /\ files["root"].what.entries \in Seq(Entries)
           /\ files["root"].state # "whole" /\ files["root"].state \in States
           /\ tool.left \in AllImages /\ tool.image \in AllImages
           /\ files["root"].what.entries \o EntriesOf(tool.left) = EntriesOf(tool.image)
<1>1. files["root"] \in [state: States, what: [entries: Seq(Entries), image: AllImages]]
  BY FileKinds DEF FilesTyped, Files
<1> QED BY <1>1 DEF ToolTyped, Archived

LEMMA WalkEntryState == ASSUME StateInv, WalkEntry PROVE StateInv'
<1> USE DEF StateInv, Typed
<1> DEFINE root == files["root"]
           layer == Head(tool.left)
           rest == Tail(tool.left)
           entries == Append(root.what.entries, Head(layer))
           left == << Tail(layer) >> \o rest
           file == [root EXCEPT !.what.entries = Append(@, Head(layer))]
<1>1. /\ tool.at = "walk" /\ tool.left # << >> /\ layer # << >>
      /\ files' = [files EXCEPT !["root"] = file]
      /\ tool' = [tool EXCEPT !.left = left]
      /\ made' = made /\ server' = server /\ taken' = taken
      /\ commands' = commands /\ troubles' = troubles
  BY DEF WalkEntry
<1>2. /\ root \in [state: States, what: [entries: Seq(Entries), image: AllImages]]
      /\ root.what.entries \in Seq(Entries) /\ root.state # "whole"
      /\ tool.left \in AllImages
      /\ root.what.entries \o EntriesOf(tool.left) = EntriesOf(tool.image)
  <2>1. root \in [state: States, what: [entries: Seq(Entries), image: AllImages]]
    BY FileKinds DEF FilesTyped, Files
  <2> QED BY <1>1, <2>1, ArchiveTyped
<1> HIDE DEF root
<1>3. /\ layer \in Seq(Entries) /\ rest \in AllImages /\ tool.left = << layer >> \o rest
  BY <1>1, <1>2, Split DEF AllImages
<1>4. EntriesOf(tool.left) = layer \o EntriesOf(rest) /\ EntriesOf(rest) \in Seq(Entries)
  BY <1>3, EntriesType
<1> HIDE DEF layer, rest
<1>5. /\ entries \in Seq(Entries) /\ Tail(layer) \in Seq(Entries)
      /\ root.what.entries \o (layer \o EntriesOf(rest))
           = entries \o (Tail(layer) \o EntriesOf(rest))
  <2>1. \A w, l, r \in Seq(Entries) : l # << >> =>
           /\ Append(w, Head(l)) \in Seq(Entries) /\ Tail(l) \in Seq(Entries)
           /\ w \o (l \o r) = Append(w, Head(l)) \o (Tail(l) \o r)
    BY MovedEntry, Zenon
  <2>2. root.what.entries \in Seq(Entries)
    BY <1>2
  <2>3. entries = Append(root.what.entries, Head(layer))
    OBVIOUS
  <2> HIDE DEF entries
  <2> QED BY <1>1, <1>3, <1>4, <2>1, <2>2, <2>3, Zenon
<1>6. EntriesOf(left) = Tail(layer) \o EntriesOf(rest) /\ left \in AllImages
  <2>1. EntriesOf(left) = Tail(layer) \o EntriesOf(rest)
    BY <1>3, <1>5, EntriesType
  <2>2. left \in AllImages
    <3>1. \A t \in Seq(Entries), r \in Seq(Seq(Entries)) : << t >> \o r \in Seq(Seq(Entries))
      OBVIOUS
    <3> QED BY <1>3, <1>5, <3>1 DEF AllImages
  <2> QED BY <2>1, <2>2
<1>7. file = [root EXCEPT !.what.entries = entries]
  BY <1>2
<1> HIDE DEF entries, left, file
<1>8. /\ file \in FileKind("root") /\ file.state = root.state /\ file.what.entries = entries
  BY <1>2, <1>5, <1>7, FileKinds
<1>9. FilesTyped' /\ files'["root"] = file
  BY <1>1, <1>8, FilePut DEF Files
<1>10. ToolTyped' /\ tool'.at = "walk" /\ tool'.left = left /\ tool'.image = tool.image
  BY <1>1, <1>6 DEF ToolTyped
<1>11. Archived'
  BY <1>2, <1>4, <1>5, <1>6, <1>8, <1>9, <1>10 DEF Archived
<1> QED BY <1>1, <1>9, <1>10, <1>11 DEF ServerTyped, CountersTyped, Unpacked

LEMMA NextLayerState == ASSUME StateInv, NextLayer PROVE StateInv'
<1> USE DEF StateInv, Typed
<1> DEFINE rest == Tail(tool.left)
<1>1. /\ tool.at = "walk" /\ tool.left # << >> /\ Head(tool.left) = << >>
      /\ tool' = [tool EXCEPT !.left = rest]
      /\ files' = files /\ made' = made /\ server' = server /\ taken' = taken
      /\ commands' = commands /\ troubles' = troubles
  BY DEF NextLayer, fileVars
<1>2. /\ tool.left \in AllImages /\ files["root"].state # "whole"
      /\ files["root"].what.entries \o EntriesOf(tool.left) = EntriesOf(tool.image)
  BY <1>1, ArchiveTyped
<1>3. << >> \in Seq(Entries) /\ rest \in AllImages /\ tool.left = << << >> >> \o rest
  BY <1>1, <1>2, Split DEF AllImages
<1> HIDE DEF rest
<1>4. EntriesOf(tool.left) = << >> \o EntriesOf(rest) /\ EntriesOf(rest) \in Seq(Entries)
  BY <1>3, EntriesType
<1>5. EntriesOf(tool.left) = EntriesOf(rest)
  BY <1>4
<1>6. ToolTyped' /\ tool'.at = "walk" /\ tool'.left = rest /\ tool'.image = tool.image
  BY <1>1, <1>3 DEF ToolTyped
<1>7. Archived'
  BY <1>1, <1>2, <1>5, <1>6 DEF Archived
<1> QED BY <1>1, <1>6, <1>7 DEF FilesTyped, ServerTyped, CountersTyped, Unpacked

\* img2fs ends, or fails, and leaves the archive of some image.
LEMMA WalkOver ==
    ASSUME StateInv, NEW state \in States, NEW entries \in Seq(Entries), NEW image \in AllImages,
           EntriesOf(image) = entries,
           files' = [files EXCEPT !["root"] = File(state, Archive(entries, image))],
           tool' = NoTool, commands' = commands, troubles' = troubles \/ Trouble,
           UNCHANGED << made, server, taken >>
    PROVE  StateInv'
<1> USE DEF StateInv, Typed
<1> DEFINE file == File(state, Archive(entries, image))
<1>1. file \in FileKind("root") /\ file.what.entries = entries /\ file.what.image = image
  BY FileTyped
<1> HIDE DEF file
<1>2. FilesTyped' /\ files'["root"] = file
  BY <1>1, FilePut DEF file, Files
<1>3. ToolTyped' /\ tool'.at = "idle"
  BY NoToolTyped
<1>4. Archived'
  BY <1>1, <1>2, <1>3 DEF Archived
<1>5. CountersTyped'
  BY CountersStep
<1> QED BY <1>2, <1>3, <1>4, <1>5 DEF ServerTyped, Unpacked

LEMMA WalkEndsState == ASSUME StateInv, WalkEnds PROVE StateInv'
<1> DEFINE entries == files["root"].what.entries
<1>1. /\ tool.at = "walk" /\ tool.left = << >>
      /\ files' = [files EXCEPT !["root"] = File("whole", Archive(entries, tool.image))]
      /\ tool' = NoTool /\ UNCHANGED << made, server, taken, commands, troubles >>
  BY DEF WalkEnds, Install
<1>2. /\ entries \in Seq(Entries) /\ tool.image \in AllImages
      /\ entries \o EntriesOf(tool.left) = EntriesOf(tool.image)
  BY <1>1, ArchiveTyped DEF StateInv, Typed
<1> HIDE DEF entries
<1>3. EntriesOf(tool.image) = entries
  <2>1. entries \o << >> = entries
    BY <1>2
  <2> QED BY <1>1, <1>2, <2>1, EntriesType
<1>4. "whole" \in States
  BY DEF States
<1> QED BY <1>1, <1>2, <1>3, <1>4, WalkOver

LEMMA WalkFailsState == ASSUME StateInv, WalkFails PROVE StateInv'
<1> DEFINE entries == files["root"].what.entries
<1>1. /\ tool.at = "walk"
      /\ files' = [files EXCEPT !["root"] = File("whole", Archive(entries, << entries >>))]
      /\ tool' = NoTool /\ Trouble /\ UNCHANGED << made, server, taken, commands >>
  BY DEF WalkFails, Install
<1>2. entries \in Seq(Entries)
  BY <1>1, ArchiveTyped DEF StateInv, Typed
<1> HIDE DEF entries
<1>3. << entries >> \in AllImages /\ EntriesOf(<< entries >>) = entries
  BY <1>2, EntriesType DEF AllImages
<1>4. "whole" \in States
  BY DEF States
<1> QED BY <1>1, <1>2, <1>3, <1>4, WalkOver

LEMMA WalkBreaksState == ASSUME StateInv, WalkBreaks PROVE StateInv'
<1>1. /\ files' = [files EXCEPT !["root"] = File("part", Archive(<< >>, << >>))]
      /\ tool' = NoTool /\ Trouble /\ UNCHANGED << made, server, taken, commands >>
  BY DEF WalkBreaks, Install, NoArchive
<1>2. /\ << >> \in Seq(Entries) /\ << >> \in AllImages /\ EntriesOf(<< >>) = << >>
      /\ "part" \in States
  BY EntriesType DEF States
<1> QED BY <1>1, <1>2, WalkOver

\* The operator and the server.

LEMMA EditConfigState ==
    ASSUME StateInv, NEW what \in {"edited", "wrong"}, EditConfig(what) PROVE StateInv'
<1> USE DEF StateInv, Typed
<1> DEFINE file == File("whole", what)
<1>1. /\ files' = [files EXCEPT !["config"] = file] /\ tool' = tool /\ tool.at = "idle"
      /\ Command /\ UNCHANGED << made, server, taken, troubles >>
  BY DEF EditConfig, Install, Idle, NoTool
<1>2. file \in FileKind("config")
  BY FileTyped DEF States
<1> HIDE DEF file
<1>3. FilesTyped' /\ files'["root"] = files["root"]
  BY <1>1, <1>2, FilePut DEF Files
<1>4. Archived'
  BY <1>1, <1>3, ArchiveAlone
<1>5. CountersTyped'
  BY <1>1, CountersStep
<1> QED BY <1>1, <1>3, <1>4, <1>5 DEF ToolTyped, ServerTyped, Unpacked

LEMMA RemoveFileState ==
    ASSUME StateInv, NEW f \in Files, RemoveFile(f) PROVE StateInv'
<1> USE DEF StateInv, Typed
<1>1. /\ files' = [files EXCEPT ![f] = [files[f] EXCEPT !.state = "none"]]
      /\ tool' = tool /\ tool.at = "idle"
      /\ Command /\ UNCHANGED << made, server, troubles >>
      /\ taken' = {} \/ taken' = taken
  BY DEF RemoveFile, Install, Idle, NoTool
<1>2. FilesTyped' /\ Archived'
  BY <1>1, StateChanges DEF States
<1>3. CountersTyped'
  BY <1>1, CountersStep
<1> QED BY <1>1, <1>2, <1>3 DEF ToolTyped, ServerTyped, Unpacked

\* Steps of the server leave the tools alone, and most of them what it has read.
LEMMA ServerMoves ==
    ASSUME StateInv, UNCHANGED << files, tool >>, ServerTyped', Unpacked',
           commands' = commands \/ Command, troubles' = troubles \/ Trouble,
           made' \subseteq made \cup {"app.log"}, taken' \subseteq {Ephemeral} \cup Keys
    PROVE  StateInv'
<1>1. CountersTyped'
  BY CountersStep DEF StateInv, Typed
<1> QED BY <1>1 DEF StateInv, Typed, FilesTyped, ToolTyped, Archived

LEMMA ServerDown ==
    ASSUME server' = Down
    PROVE  ServerTyped' /\ Unpacked'
BY EntriesType, FreshFsType DEF ServerTyped, Unpacked, Down

ReadKeyNow == IF files["key"].state = "whole" THEN files["key"].what ELSE Ephemeral

\* What a server has read stays while it starts.
LEMMA ServerGoesOn ==
    ASSUME ServerTyped, Unpacked,
           \/ server.at = "down" /\ server' = [server EXCEPT !.at = "config"]
           \/ server.at = "config" /\ server' = [server EXCEPT !.at = "image"]
           \/ server.at = "log" /\ server' = [server EXCEPT !.at = "key"]
           \/ server.at = "listen" /\ server' = [server EXCEPT !.at = "up"]
           \/ /\ server.at = "key" /\ ReadKeyNow \in {Ephemeral} \cup Keys
              /\ server' = [server EXCEPT !.at = "listen", !.key = ReadKeyNow]
    PROVE  ServerTyped' /\ Unpacked'
<1>1. ServerTyped'
  BY DEF ServerTyped
<1>2. \/ server'.at \in {"config", "image"}
      \/ /\ server.at \in {"log", "key", "listen", "up"}
         /\ server'.image = server.image /\ server'.data = server.data
  BY DEF ServerTyped
<1>3. Unpacked'
  BY <1>2 DEF Unpacked
<1> QED BY <1>1, <1>3

LEMMA ReadImageState == ASSUME StateInv, ReadImage PROVE StateInv'
<1> USE DEF StateInv, Typed
<1> DEFINE root == files["root"]
           r == Extract(root.what.entries)
<1>1. /\ UNCHANGED << files, made, tool, taken, commands, troubles >>
      /\ \/ /\ root.state = "whole" /\ r.err = "ok"
            /\ server' = [server EXCEPT !.at = "log", !.data = r.data, !.image = root.what.image]
         \/ server' = Down
  BY DEF ReadImage, fileVars
<1>2. root \in [state: States, what: [entries: Seq(Entries), image: AllImages]]
  BY FileKinds DEF FilesTyped, Files
<1>3. ASSUME root.state = "whole", r.err = "ok",
             server' = [server EXCEPT !.at = "log", !.data = r.data, !.image = root.what.image]
      PROVE  ServerTyped' /\ Unpacked'
  <2>1. root.what.entries = EntriesOf(root.what.image)
    BY <1>3 DEF Archived
  <2>2. root.what.image \in AllImages /\ root.what.entries \in Seq(Entries)
    BY <1>2
  <2> HIDE DEF root
  <2>3. r.data \in FsData
    BY <1>3, <2>2, Extracted
  <2>4. r = Extract(EntriesOf(root.what.image))
    BY <2>1
  <2> HIDE DEF r
  <2>5. ServerTyped' /\ server'.data = r.data /\ server'.image = root.what.image
    BY <1>3, <2>2, <2>3 DEF ServerTyped
  <2> QED BY <1>3, <2>4, <2>5 DEF Unpacked
<1>4. ServerTyped' /\ Unpacked'
  BY <1>1, <1>3, ServerDown
<1> HIDE DEF root, r
<1> QED BY <1>1, <1>4, ServerMoves

LEMMA ServerState == ASSUME StateInv, ServerStep PROVE StateInv'
<1> USE DEF StateInv, Typed
<1>1. CASE ReadImage
  BY <1>1, ReadImageState
<1>2. CASE ReadKey
  <2>1. /\ UNCHANGED << files, made, tool, commands, troubles >>
        /\ server.at = "key"
        /\ \/ server' = Down /\ taken' = taken
           \/ /\ server' = [server EXCEPT !.at = "listen", !.key = ReadKeyNow]
              /\ taken' = taken \cup {ReadKeyNow}
    BY <1>2 DEF ReadKey, fileVars, ReadKeyNow
  <2>2. ReadKeyNow \in {Ephemeral} \cup Keys
    <3>1. files["key"] \in [state: States, what: {Ephemeral} \cup Keys]
      BY FileKinds DEF FilesTyped, Files
    <3> QED BY <3>1 DEF ReadKeyNow
  <2>3. ServerTyped' /\ Unpacked'
    BY <2>1, <2>2, ServerDown, ServerGoesOn
  <2> QED BY <2>1, <2>2, <2>3, ServerMoves
<1>3. CASE Serve \/ LoadConfig \/ OpenLog \/ Listen \/ Stop
  <2>1. /\ UNCHANGED << files, tool, taken >>
        /\ made' = made \/ made' = made \cup {"app.log"}
        /\ commands' = commands \/ Command
        /\ troubles' = troubles \/ Trouble
    BY <1>3 DEF Serve, LoadConfig, OpenLog, Listen, Stop, fileVars
  <2>2. \/ server' = Down
        \/ server.at = "down" /\ server' = [server EXCEPT !.at = "config"]
        \/ server.at = "config" /\ server' = [server EXCEPT !.at = "image"]
        \/ server.at = "log" /\ server' = [server EXCEPT !.at = "key"]
        \/ server.at = "listen" /\ server' = [server EXCEPT !.at = "up"]
    BY <1>3 DEF Serve, LoadConfig, OpenLog, Listen, Stop
  <2>3. ServerTyped' /\ Unpacked'
    BY <2>2, ServerDown, ServerGoesOn
  <2> QED BY <2>1, <2>3, ServerMoves
<1> QED BY <1>1, <1>2, <1>3 DEF ServerStep

LEMMA StateStep == ASSUME StateInv, KeyInv, [Next]_vars PROVE StateInv'
<1>1. CASE ToolStep
  BY <1>1, RunInitState, LookAtState, WriteOutState, MakeDirState, InitBreaksState,
     RunImg2fsState, WalkEntryState, NextLayerState, WalkEndsState, WalkFailsState,
     WalkBreaksState DEF ToolStep
<1>2. CASE OperatorStep
  BY <1>2, EditConfigState, RemoveFileState DEF OperatorStep
<1>3. CASE ServerStep
  BY <1>3, ServerState
<1>4. CASE UNCHANGED vars
  BY <1>4 DEF vars, StateInv, Typed, FilesTyped, ToolTyped, ServerTyped, CountersTyped,
     Archived, Unpacked
<1> QED BY <1>1, <1>2, <1>3, <1>4 DEF Next

LEMMA StateTypes == StateInv => TypeOK
<1> SUFFICES ASSUME StateInv PROVE TypeOK
  OBVIOUS
<1>1. /\ files["config"] \in [state: States, what: {"default", "edited", "wrong"}]
      /\ files["key"] \in [state: States, what: {Ephemeral} \cup Keys]
      /\ files["root"] \in [state: States, what: [entries: Seq(Entries), image: AllImages]]
  BY FileKinds DEF StateInv, Typed, FilesTyped, Files
<1>2. /\ files["root"].state \in States
      /\ files["root"].what.entries \in Seq(Entries)
      /\ files["root"].what.image \in Seq(Seq(Entries))
  BY <1>1 DEF AllImages
<1>3. /\ tool.at \in Seqs!ToSet(Steps) \cup {"walk"} /\ tool.writing \in BOOLEAN
      /\ tool.key \in {Ephemeral} \cup Keys
      /\ tool.image \in Seq(Seq(Entries)) /\ tool.left \in Seq(Seq(Entries))
  BY StepsType DEF StateInv, Typed, ToolTyped, AllImages
<1>4. /\ server.at \in {"down", "config", "image", "log", "key", "listen", "up"}
      /\ server.data \in FsData /\ server.image \in Seq(Seq(Entries))
      /\ server.key \in {Ephemeral} \cup Keys
  BY DEF StateInv, Typed, ServerTyped, AllImages
<1> QED BY <1>1, <1>2, <1>3, <1>4 DEF TypeOK, StateInv, Typed, CountersTyped

LEMMA StateServes == StateInv => ServedImage
<1> SUFFICES ASSUME StateInv, server.at = "up"
             PROVE  /\ IsTree(server.data)
                    /\ Plain(EntriesOf(server.image)) =>
                         server.data = Overlay(EntriesOf(server.image))
  BY DEF ServedImage
<1> DEFINE es == EntriesOf(server.image)
<1>1. Extract(es).err = "ok" /\ server.data = Extract(es).data
  BY DEF StateInv, Unpacked
<1>2. es \in Seq(Entries)
  BY EntriesType DEF StateInv, Typed, ServerTyped
<1> HIDE DEF es
<1>3. IsTree(server.data) /\ (Plain(es) => server.data = Overlay(es))
  BY <1>1, <1>2, Extracted
<1> QED BY <1>3 DEF es

(***************************************************************************)
(* Theorems                                                                *)
(***************************************************************************)

LEMMA KeyStep == ASSUME KeyInv, [Next]_vars PROVE KeyInv'
<1>1. CASE ToolStep
  BY <1>1, RunInitKey, LookAtKey, WriteOutKey, MakeDirKey, InitBreaksKey,
     RunImg2fsKey, WalkEntryKey, WalkKey DEF ToolStep
<1>2. CASE OperatorStep
  BY <1>2, EditConfigKey, RemoveFileKey DEF OperatorStep
<1>3. CASE ServerStep
  BY <1>3, ServerKey
<1>4. CASE UNCHANGED vars
  BY <1>4, Elsewhere DEF vars, KeyInv, Records, WritesItsOwn
<1> QED BY <1>1, <1>2, <1>3, <1>4 DEF Next

LEMMA Inductive == Spec => [](KeyInv /\ StateInv)
<1>1. KeyInv /\ StateInv /\ [Next]_vars => KeyInv' /\ StateInv'
  BY KeyStep, StateStep
<1> QED BY <1>1, InitKey, InitState, PTL DEF Spec

\* init, img2fs, the operator and servers, in any order and broken off at any
\* point, keep the one host key that servers present (Initialize, initialize.go:64;
\* NewHoneypot, honeypot.go:83): HostKeyLasts, for every number of commands and failures.
THEOREM HostKeyStays == Spec => []HostKeyLasts
<1>1. KeyInv /\ StateInv => HostKeyLasts
  BY DEF KeyInv
<1> QED BY <1>1, Inductive, PTL

\* The tools and the server keep every file, the archive's entries and the
\* unpacked filesystem within their types: TypeOK.
THEOREM TypeCorrect == Spec => []TypeOK
<1>1. KeyInv /\ StateInv => TypeOK
  BY StateTypes
<1> QED BY <1>1, Inductive, PTL

\* A server that accepts connections serves a tree, and of a plain image exactly
\* the union of its layers, for all images and however img2fs was broken off
\* (walkImgFs, img2fs.go:103; ExtractTarToVFS, fs.go:41): ServedImage.
THEOREM ServedImageHolds == Spec => []ServedImage
<1>1. KeyInv /\ StateInv => ServedImage
  BY StateServes
<1> QED BY <1>1, Inductive, PTL

=============================================================================
