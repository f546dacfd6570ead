--------------------------- MODULE MemMapFsProofs ---------------------------
(***************************************************************************)
(* Lemmas about paths and about the operations of MemMapFs on one          *)
(* filesystem.  Whatever they are given they return filesystems, and what  *)
(* is Tidy stays so: the map and the lists of children agree, every name   *)
(* has its directories, and no mutex stays locked.                         *)
(***************************************************************************)
EXTENDS MemMapFs, TLAPS

(***************************************************************************)
(* The helpers stay within their types                                     *)
(***************************************************************************)

\* What an operation on one filesystem returns.
MapResult == [data: FsData, err: Errs]

\* A path's directory and everything on the way to it are paths.
LEMMA PathsClosed ==
    ASSUME NEW p \in Paths
    PROVE  Parent(p) \in Paths /\ Prefixes(p) \subseteq Paths /\ Root \in Paths
<1>1. p \in Seq(Names) /\ Root \in Paths
  BY PathsAssumption DEF Root
<1>2. Prefixes(p) \subseteq Paths
  BY PathsAssumption DEF Prefixes
<1>3. Parent(p) \in Paths
  <2>1. CASE p = Root
    BY <2>1, <1>1 DEF Parent
  <2>2. CASE p # Root
    <3>1. Len(p) \in Nat
      BY <1>1
    <3>2. Len(p) # 0
      BY <1>1, <2>2 DEF Root
    <3>3. Len(p) - 1 \in 0 .. Len(p)
      BY <3>1, <3>2
    <3> QED BY <2>2, <3>3, PathsAssumption DEF Parent
  <2> QED BY <2>1, <2>2
<1> QED BY <1>1, <1>2, <1>3

\* The nodes the code makes are nodes.
LEMMA NewNodes ==
    /\ NoNode \in Node
    /\ NewFile \in Node
    /\ \A mode \in Modes, kids \in SUBSET Paths : NewDir(mode, kids) \in Node
BY ContentsAssumption DEF NoNode, NewFile, NewDir, Node, Kinds, Modes, Times

\* A new layer is a filesystem.
LEMMA FreshFsType == FreshFs \in FsData
BY NewNodes DEF FreshFs, FsData, Modes

\* Replacing one node by another.
LEMMA UpdateType ==
    ASSUME NEW data \in FsData, NEW p \in Paths, NEW node \in Node
    PROVE  [data EXCEPT ![p] = node] \in FsData
BY DEF FsData

\* Closing and writing a file change at most its node.
LEMMA FileType ==
    ASSUME NEW data \in FsData, NEW p \in Paths, NEW content \in Contents
    PROVE  /\ \A ro \in BOOLEAN : CloseFile(data, p, ro) \in FsData
           /\ WriteFile(data, p, content) \in FsData
           /\ SetTime(data, p) \in MapResult
<1>1. data[p] \in Node /\ "session" \in Times
  BY DEF FsData, Times
<1>2. [data[p] EXCEPT !.mtime = "session"] \in Node
      /\ [data[p] EXCEPT !.content = content, !.mtime = "session"] \in Node
  BY <1>1 DEF Node
<1>3. [data EXCEPT ![p] = [data[p] EXCEPT !.mtime = "session"]] \in FsData
  BY <1>2, UpdateType
<1>4. [data EXCEPT ![p] = [data[p] EXCEPT !.content = content, !.mtime = "session"]] \in FsData
  BY <1>2, UpdateType
<1>5. [data EXCEPT ![p].mtime = "session"] \in FsData
  BY <1>3
<1>6. WriteFile(data, p, content) \in FsData
  BY <1>4 DEF WriteFile
<1>7. SetTime(data, p) \in MapResult
  BY <1>5 DEF SetTime, Done, Fail, MapResult, Errs
<1> QED BY <1>5, <1>6, <1>7 DEF CloseFile

\* Chmod of one map.
LEMMA SetModeType ==
    ASSUME NEW data \in FsData, NEW p \in Paths, NEW mode \in Modes
    PROVE  SetMode(data, p, mode) \in MapResult
<1>1. [data[p] EXCEPT !.mode = mode] \in Node
  BY DEF FsData, Node
<1>2. [data EXCEPT ![p] = [data[p] EXCEPT !.mode = mode]] \in FsData
  BY <1>1, UpdateType
<1>3. [data EXCEPT ![p].mode = mode] \in FsData
  BY <1>2
<1> QED BY <1>3 DEF SetMode, Done, Fail, MapResult, Errs

\* Adding a node.
LEMMA RegisterType ==
    ASSUME NEW data \in FsData, NEW p \in Paths, NEW node \in Node
    PROVE  Register(data, p, node) \in FsData
<1> SUFFICES ASSUME NEW q \in Paths
             PROVE  (CASE q = p -> node
                       [] q = Parent(p) /\ q # p -> [data[q] EXCEPT !.kids = @ \cup {p}]
                       [] OTHER         -> data[q]) \in Node
  BY DEF Register, FsData
<1>1. data[q] \in Node
  BY DEF FsData
<1>2. [data[q] EXCEPT !.kids = @ \cup {p}] \in Node
  BY <1>1 DEF Node
<1> QED BY <1>1, <1>2

\* The parent check knows three answers.
LEMMA ParentErrType ==
    ASSUME NEW data \in FsData, NEW p \in Paths
    PROVE  ParentErr(data, p) \in Errs
<1>1. data[Parent(p)].kind \in Kinds
  BY PathsClosed DEF FsData, Node
<1> QED BY <1>1 DEF ParentErr, Kinds, Errs

\* Create on one map.
LEMMA CreateFileType ==
    ASSUME NEW data \in FsData, NEW p \in Paths
    PROVE  CreateFile(data, p) \in MapResult
<1>1. data[p].kind \in Kinds
  BY DEF FsData, Node
<1>2. WriteFile(data, p, Empty) \in FsData /\ CloseFile(data, p, FALSE) \in FsData
  BY FileType, ContentsAssumption
<1>3. Register(data, p, NewFile) \in FsData
  BY RegisterType, NewNodes
<1> QED BY <1>1, <1>2, <1>3, ParentErrType
        DEF CreateFile, Done, Fail, MapResult, Errs, Kinds

\* MkdirAll on one map.
LEMMA MkdirAllType ==
    ASSUME NEW data \in FsData, NEW p \in Paths, NEW mode \in Modes
    PROVE  MkdirAll(data, p, mode) \in MapResult
<1> DEFINE made    == Made(data, p)
           kids(q) == {k \in made : Parent(k) = q}
           new     == [q \in Paths |-> IF q \in made THEN NewDir(mode, kids(q))
                                       ELSE [data[q] EXCEPT !.kids = @ \cup kids(q)]]
<1>1. made \subseteq Paths
  BY PathsClosed DEF Made, Missing
<1>2. \A q : kids(q) \in SUBSET Paths
  BY <1>1
<1>3. \A q \in Paths : NewDir(mode, kids(q)) \in Node
  BY <1>2, NewNodes
<1>4. ASSUME NEW q \in Paths
      PROVE  [data[q] EXCEPT !.kids = @ \cup kids(q)] \in Node
  <2> HIDE DEF kids
  <2>1. data[q] \in Node /\ kids(q) \in SUBSET Paths
    BY <1>2 DEF FsData
  <2> QED BY <2>1 DEF Node
<1>5. new \in FsData
  <2> HIDE DEF kids, made
  <2> QED BY <1>3, <1>4 DEF FsData
<1>6. MkdirAll(data, p, mode).data = new /\ MkdirAll(data, p, mode).err \in Errs
  BY DEF MkdirAll, Errs
<1>7. MkdirAll(data, p, mode) = [data |-> new, err |-> MkdirAll(data, p, mode).err]
  BY DEF MkdirAll
<1> HIDE DEF new
<1> QED BY <1>5, <1>6, <1>7 DEF MapResult

\* Remove on one map.
LEMMA RemoveNodeType ==
    ASSUME NEW data \in FsData, NEW p \in Paths
    PROVE  RemoveNode(data, p) \in MapResult
<1> DEFINE new == [q \in Paths |-> CASE q = p -> NoNode
                                    [] q = Parent(p) /\ q # p ->
                                          [data[q] EXCEPT !.kids = @ \ {p}]
                                    [] OTHER -> data[q]]
           jammed == [data EXCEPT ![Parent(p)].stuck = TRUE]
<1>1. new \in FsData
  <2>1. \A q \in Paths : data[q] \in Node /\ [data[q] EXCEPT !.kids = @ \ {p}] \in Node
    BY DEF FsData, Node
  <2> QED BY <2>1, NewNodes DEF FsData
<1>2. jammed \in FsData
  <2>1. Parent(p) \in Paths /\ data[Parent(p)] \in Node
    BY PathsClosed DEF FsData
  <2>2. [data[Parent(p)] EXCEPT !.stuck = TRUE] \in Node
    BY <2>1 DEF Node
  <2>3. [data EXCEPT ![Parent(p)] = [data[Parent(p)] EXCEPT !.stuck = TRUE]] \in FsData
    BY <2>1, <2>2, UpdateType
  <2> QED BY <2>3
<1>3. data[p].kind \in Kinds /\ data[Parent(p)].kind \in Kinds
  BY PathsClosed DEF FsData, Node
<1>4. RemoveNode(data, p) \in {Fail(data, "noent"), Fail(data, "panic"),
                               Fail(jammed, "panic"), Done(new)}
  BY <1>3 DEF RemoveNode, Kinds
<1> HIDE DEF new, jammed
<1> QED BY <1>1, <1>2, <1>4 DEF Done, Fail, MapResult, Errs

(***************************************************************************)
(* Paths                                                                   *)
(***************************************************************************)

\* The first n components of a path.
LEMMA Front ==
    ASSUME NEW p \in Seq(Names), NEW n \in 0 .. Len(p)
    PROVE  /\ SubSeq(p, 1, n) \in Seq(Names)
           /\ Len(SubSeq(p, 1, n)) = n
           /\ \A i \in 1 .. n : SubSeq(p, 1, n)[i] = p[i]
<1>1. Len(p) \in Nat /\ n \in Nat /\ \A i \in 1 .. n : p[i] \in Names
  OBVIOUS
<1> QED BY <1>1

\* Two sequences of the same components are one.
LEMMA SameSequence ==
    ASSUME NEW S, NEW p \in Seq(S), NEW q \in Seq(S), Len(p) = Len(q),
           \A i \in 1 .. Len(p) : p[i] = q[i]
    PROVE  p = q
OBVIOUS

\* A prefix is a shorter path with the same components.
LEMMA PrefixIs ==
    ASSUME NEW p \in Seq(Names), NEW q
    PROVE  q \in Prefixes(p) <=> /\ q \in Seq(Names)
                                 /\ Len(q) <= Len(p)
                                 /\ \A i \in 1 .. Len(q) : q[i] = p[i]
<1>1. ASSUME q \in Prefixes(p)
      PROVE  q \in Seq(Names) /\ Len(q) <= Len(p) /\ \A i \in 1 .. Len(q) : q[i] = p[i]
  <2>1. PICK n \in 0 .. Len(p) : q = SubSeq(p, 1, n)
    BY <1>1 DEF Prefixes
  <2> QED BY <2>1, Front
<1>2. ASSUME q \in Seq(Names), Len(q) <= Len(p), \A i \in 1 .. Len(q) : q[i] = p[i]
      PROVE  q \in Prefixes(p)
  <2>1. Len(q) \in 0 .. Len(p)
    BY <1>2
  <2>2. /\ SubSeq(p, 1, Len(q)) \in Seq(Names)
        /\ Len(SubSeq(p, 1, Len(q))) = Len(q)
        /\ \A i \in 1 .. Len(q) : SubSeq(p, 1, Len(q))[i] = p[i]
    BY <2>1, Front
  <2>3. q = SubSeq(p, 1, Len(q))
    <3> DEFINE s == SubSeq(p, 1, Len(q))
    <3>1. s \in Seq(Names) /\ Len(s) = Len(q) /\ \A i \in 1 .. Len(s) : s[i] = q[i]
      BY <1>2, <2>2
    <3> HIDE DEF s
    <3>2. s = q
      BY <1>2, <3>1, SameSequence
    <3> QED BY <3>2 DEF s
  <2> QED BY <2>1, <2>3 DEF Prefixes
<1> QED BY <1>1, <1>2

\* A path and the root are prefixes of it, prefixes of prefixes are prefixes, and
\* of two prefixes of a path one is a prefix of the other.
LEMMA PrefixOrder ==
    ASSUME NEW p \in Paths
    PROVE  /\ p \in Prefixes(p) /\ Root \in Prefixes(p) /\ Prefixes(p) \subseteq Paths
           /\ \A q \in Prefixes(p) : Prefixes(q) \subseteq Prefixes(p)
           /\ \A q, r \in Prefixes(p) : q \in Prefixes(r) \/ r \in Prefixes(q)
<1>1. p \in Seq(Names)
  BY PathsAssumption
<1>2. p \in Prefixes(p)
  BY <1>1, PrefixIs
<1>3. Root \in Prefixes(p)
  <2>1. Root \in Seq(Names) /\ Len(Root) = 0
    BY DEF Root
  <2>2. Len(Root) <= Len(p) /\ \A i \in 1 .. Len(Root) : Root[i] = p[i]
    BY <1>1, <2>1
  <2> QED BY <1>1, <2>1, <2>2, PrefixIs
<1>4. ASSUME NEW q \in Prefixes(p), NEW r \in Prefixes(q)
      PROVE  r \in Prefixes(p)
  <2>1. q \in Seq(Names) /\ Len(q) <= Len(p) /\ \A i \in 1 .. Len(q) : q[i] = p[i]
    BY <1>1, PrefixIs
  <2>2. r \in Seq(Names) /\ Len(r) <= Len(q) /\ \A i \in 1 .. Len(r) : r[i] = q[i]
    BY <2>1, PrefixIs
  <2>3. Len(r) <= Len(p) /\ \A i \in 1 .. Len(r) : r[i] = p[i]
    BY <1>1, <2>1, <2>2
  <2> QED BY <1>1, <2>2, <2>3, PrefixIs
<1>5. ASSUME NEW q \in Prefixes(p), NEW r \in Prefixes(p), Len(q) <= Len(r)
      PROVE  q \in Prefixes(r)
  <2>1. q \in Seq(Names) /\ Len(q) <= Len(p) /\ \A i \in 1 .. Len(q) : q[i] = p[i]
    BY <1>1, PrefixIs
  <2>2. r \in Seq(Names) /\ Len(r) <= Len(p) /\ \A i \in 1 .. Len(r) : r[i] = p[i]
    BY <1>1, PrefixIs
  <2>3. \A i \in 1 .. Len(q) : q[i] = r[i]
    BY <1>5, <2>1, <2>2
  <2> QED BY <1>5, <2>1, <2>2, <2>3, PrefixIs
<1>6. ASSUME NEW q \in Prefixes(p), NEW r \in Prefixes(p)
      PROVE  q \in Prefixes(r) \/ r \in Prefixes(q)
  <2>1. Len(q) \in Nat /\ Len(r) \in Nat
    BY <1>1, PrefixIs
  <2>2. Len(q) <= Len(r) \/ Len(r) <= Len(q)
    BY <2>1
  <2> QED BY <1>5, <2>2
<1> QED BY <1>2, <1>3, <1>4, <1>6, PathsClosed

\* The way to a path is the way to its directory and the path itself; the
\* directory is another path, unless it is the root.
LEMMA ParentIs ==
    ASSUME NEW p \in Paths, p # Root
    PROVE  /\ Parent(p) # p
           /\ Prefixes(p) = Prefixes(Parent(p)) \cup {p}
           /\ p \notin Prefixes(Parent(p))
<1>1. p \in Seq(Names) /\ Len(p) \in Nat /\ Len(p) # 0
  BY PathsAssumption DEF Root
<1>2. Len(p) - 1 \in 0 .. Len(p) /\ Parent(p) = SubSeq(p, 1, Len(p) - 1)
  BY <1>1 DEF Parent
<1>3. Parent(p) \in Seq(Names) /\ Len(Parent(p)) = Len(p) - 1
      /\ \A i \in 1 .. Len(p) - 1 : Parent(p)[i] = p[i]
  BY ZenonT(40), <1>1, <1>2, Front
<1>4. Parent(p) # p
  BY <1>1, <1>3
<1>5. p \notin Prefixes(Parent(p))
  BY <1>1, <1>3, PrefixIs
<1>6. Prefixes(Parent(p)) \subseteq Prefixes(p)
  <2>1. Parent(p) \in Prefixes(p)
    BY <1>2 DEF Prefixes
  <2> QED BY <2>1, PrefixOrder
<1>7. ASSUME NEW q \in Prefixes(p), q # p
      PROVE  q \in Prefixes(Parent(p))
  <2>1. q \in Seq(Names) /\ Len(q) <= Len(p) /\ \A i \in 1 .. Len(q) : q[i] = p[i]
    BY <1>1, PrefixIs
  <2>2. Len(q) # Len(p)
    BY <1>1, <1>7, <2>1
  <2>3. Len(q) <= Len(Parent(p)) /\ \A i \in 1 .. Len(q) : q[i] = Parent(p)[i]
    BY <1>1, <1>3, <2>1, <2>2
  <2> QED BY <1>3, <2>1, <2>3, PrefixIs
<1> QED BY <1>4, <1>5, <1>6, <1>7, PrefixOrder

\* The root is its own directory and has nothing above it.
LEMMA RootIs == Parent(Root) = Root /\ Prefixes(Root) = {Root} /\ Root \in Paths
<1>1. Root \in Paths /\ Root \in Seq(Names) /\ Len(Root) = 0
  BY PathsAssumption DEF Root
<1>2. \A q \in Prefixes(Root) : q \in Seq(Names) /\ Len(q) <= 0
  BY <1>1, PrefixIs
<1>3. Prefixes(Root) \subseteq {Root}
  BY <1>1, <1>2
<1> QED BY <1>1, <1>3, PrefixOrder DEF Parent

\* Something below a directory lies below one of its children.
LEMMA ChildOnTheWay ==
    ASSUME NEW p \in Paths, NEW q \in Prefixes(p), q # p
    PROVE  \E r \in Prefixes(p) : r # Root /\ Parent(r) = q
<1>1. PICK n \in 0 .. Len(p) : q = SubSeq(p, 1, n)
  BY DEF Prefixes
<1>2. p \in Seq(Names) /\ Len(p) \in Nat
  BY PathsAssumption
<1>3. n # Len(p)
  BY <1>1, <1>2
<1>4. n + 1 \in 0 .. Len(p) /\ n \in 0 .. Len(p)
  BY <1>2, <1>3
<1> DEFINE r == SubSeq(p, 1, n + 1)
<1>5. r \in Prefixes(p)
  BY <1>4 DEF Prefixes
<1>6. r \in Seq(Names) /\ Len(r) = n + 1 /\ \A i \in 1 .. n + 1 : r[i] = p[i]
  BY <1>2, <1>4, Front
<1>7. q \in Seq(Names) /\ Len(q) = n /\ \A i \in 1 .. n : q[i] = p[i]
  BY <1>1, <1>2, <1>4, Front
<1> HIDE DEF r
<1>8. r # Root
  BY <1>4, <1>6 DEF Root
<1>9. Parent(r) = SubSeq(r, 1, n)
  BY <1>4, <1>6, <1>8 DEF Parent
<1>10. SubSeq(r, 1, n) \in Seq(Names) /\ Len(SubSeq(r, 1, n)) = n
       /\ \A i \in 1 .. n : SubSeq(r, 1, n)[i] = r[i]
  BY <1>4, <1>6, Front
<1>11. SubSeq(r, 1, n) = q
  <2> DEFINE s == SubSeq(r, 1, n)
  <2>1. s \in Seq(Names) /\ Len(s) = Len(q) /\ \A i \in 1 .. Len(s) : s[i] = q[i]
    BY <1>4, <1>6, <1>7, <1>10
  <2> HIDE DEF s
  <2>2. s = q
    BY <1>7, <2>1, SameSequence
  <2> QED BY <2>2 DEF s
<1> QED BY <1>5, <1>8, <1>9, <1>11

(***************************************************************************)
(* Files                                                                   *)
(***************************************************************************)

\* Whatever is in the layer has all its directories there.
Rooted(l) ==
    \A p \in Paths : l[p].kind # "none" => \A q \in Prefixes(p) \ {p} : l[q].kind = "dir"

\* The children of p, read off the names.
Children(l, p) == {k \in Paths \ {Root} : Parent(k) = p /\ l[k].kind # "none"}

\* The two representations of a layer agree, and nothing is wrong with its nodes.
Tidy(l) ==
    /\ Rooted(l)
    /\ \A p \in Paths :
          /\ l[p].kids = Children(l, p)
          /\ l[p].kind # "file" => l[p].content = Empty
          /\ ~l[p].stuck

\* The same files and directories, apart from attributes.
Alike(l, m) ==
    \A q \in Paths : /\ SameEntry(m[q], l[q])
                     /\ m[q].kids = l[q].kids
                     /\ m[q].stuck = l[q].stuck

\* A layer that differs in attributes only is as tidy as it was.
LEMMA AlikeTidy ==
    ASSUME NEW l, NEW m, Alike(l, m)
    PROVE  /\ \A q \in Paths : SameEntry(m[q], l[q])
           /\ Tidy(l) => Tidy(m)
<1>1. \A q \in Paths : m[q].kind = l[q].kind
  BY DEF Alike, SameEntry
<1>2. ASSUME Tidy(l) PROVE Tidy(m)
  <2>1. Rooted(m)
    BY <1>1, <1>2, PathsClosed DEF Tidy, Rooted
  <2>2. \A p : Children(m, p) = Children(l, p)
    BY <1>1 DEF Children
  <2> QED BY <1>2, <2>1, <2>2 DEF Tidy, Alike, SameEntry
<1> QED BY <1>2 DEF Alike

\* Closing a file, and setting its time or mode, touch attributes only.
LEMMA AttributesAlike ==
    ASSUME NEW l \in FsData, NEW p \in Paths, NEW mode
    PROVE  /\ \A ro : Alike(l, CloseFile(l, p, ro))
           /\ Alike(l, SetTime(l, p).data)
           /\ Alike(l, SetMode(l, p, mode).data)
           /\ Alike(l, l)
BY DEF Alike, SameEntry, CloseFile, SetTime, SetMode, Done, Fail, FsData, Node

\* Writing a file.
LEMMA WriteFileIs ==
    ASSUME NEW l \in FsData, NEW p \in Paths, l[p].kind = "file", NEW content \in Contents,
           NEW m, m = WriteFile(l, p, content)
    PROVE  /\ m[p].kind = "file" /\ m[p].content = content
           /\ \A q \in Paths \ {p} : SameEntry(m[q], l[q])
           /\ Tidy(l) => Tidy(m)
<1>1. /\ m[p].kind = "file" /\ m[p].content = content
      /\ \A q \in Paths \ {p} : m[q] = l[q]
      /\ m[p].kids = l[p].kids /\ m[p].stuck = l[p].stuck
  BY DEF WriteFile, FsData, Node
<1>2. \A q \in Paths : m[q].kind = l[q].kind
  BY <1>1
<1>4. ASSUME Tidy(l) PROVE Tidy(m)
  <2>1. Rooted(m)
    BY <1>2, <1>4, PathsClosed DEF Tidy, Rooted
  <2>2. \A q : Children(m, q) = Children(l, q)
    BY <1>2 DEF Children
  <2> QED BY <1>1, <1>4, <2>1, <2>2 DEF Tidy
<1> QED BY <1>1, <1>4 DEF SameEntry

\* In a tidy layer a path that is not there has nothing below it.
LEMMA NothingBelow ==
    ASSUME NEW l, Tidy(l), NEW p \in Paths, NEW q \in Prefixes(p), q # p, l[q].kind # "dir"
    PROVE  l[p].kind = "none"
BY DEF Tidy, Rooted

\* A new entry joins the list of its directory, so that the layer stays tidy.
LEMMA RegisterTidy ==
    ASSUME NEW l \in FsData, Tidy(l), NEW p \in Paths, p # Root, l[p].kind = "none",
           l[Parent(p)].kind = "dir",
           NEW node, node.kind # "none", node.kids = {}, ~node.stuck,
           node.kind # "file" => node.content = Empty
    PROVE  Tidy(Register(l, p, node))
<1> DEFINE m == Register(l, p, node)
<1>1. Parent(p) \in Paths /\ Parent(p) # p /\ Prefixes(p) = Prefixes(Parent(p)) \cup {p}
  BY PathsClosed, ParentIs
<1>2. m[p] = node
  BY DEF Register
<1>3. m[Parent(p)] = [l[Parent(p)] EXCEPT !.kids = @ \cup {p}]
  BY <1>1 DEF Register
<1>4. \A q \in Paths \ {p, Parent(p)} : m[q] = l[q]
  BY DEF Register
<1> HIDE DEF m
<1>6. /\ m[Parent(p)].kind = "dir" /\ m[Parent(p)].kids = l[Parent(p)].kids \cup {p}
      /\ m[Parent(p)].content = l[Parent(p)].content
      /\ m[Parent(p)].stuck = l[Parent(p)].stuck
  BY <1>1, <1>3 DEF FsData, Node
<1>7. \A q \in Paths \ {p} : m[q].kind = l[q].kind
  BY <1>4, <1>6
<1>8. Rooted(m)
  <2> SUFFICES ASSUME NEW q \in Paths, m[q].kind # "none", NEW r \in Prefixes(q), r # q
               PROVE  m[r].kind = "dir"
    BY DEF Rooted
  <2>1. r \in Paths
    BY PathsClosed
  <2>2. CASE q = p
    <3>1. r \in Prefixes(Parent(p))
      BY <2>2, <1>1
    <3>2. l[r].kind = "dir"
      BY <3>1, <1>1 DEF Tidy, Rooted
    <3> QED BY <2>1, <2>2, <3>2, <1>7
  <2>3. CASE q # p
    <3>1. l[r].kind = "dir"
      BY <2>3, <1>7 DEF Tidy, Rooted
    <3> QED BY <2>1, <3>1, <1>7
  <2> QED BY <2>2, <2>3
<1>9. ASSUME NEW q \in Paths
      PROVE  m[q].kids = Children(m, q)
  <2>1. CASE q = p
    <3>1. ASSUME NEW k \in Paths \ {Root}, Parent(k) = p, m[k].kind # "none"
          PROVE  FALSE
      <4>1. k # p
        BY <1>1, <3>1
      <4>2. l[k].kind # "none"
        BY <3>1, <4>1, <1>7
      <4>3. p \in Prefixes(k) /\ p # k
        BY <3>1, ParentIs, PrefixOrder, <4>1, PathsClosed
      <4> QED BY <4>2, <4>3, NothingBelow
    <3> QED BY <1>2, <2>1, <3>1 DEF Children
  <2>2. CASE q = Parent(p)
    BY <2>2, <1>1, <1>2, <1>6, <1>7 DEF Tidy, Children
  <2>3. CASE q # p /\ q # Parent(p)
    BY <2>3, <1>4, <1>7 DEF Tidy, Children
  <2> QED BY <2>1, <2>2, <2>3
<1>10. ASSUME NEW q \in Paths
       PROVE  (m[q].kind # "file" => m[q].content = Empty) /\ ~m[q].stuck
  BY <1>2, <1>4, <1>6 DEF Tidy
<1> QED BY <1>8, <1>9, <1>10 DEF Tidy, m

\* MemMapFs.Create: an empty file at p, and no other entry changed; or an error
\* and no entry changed at all.
LEMMA CreateFileDoes ==
    ASSUME NEW l \in FsData, NEW p \in Paths, NEW r, r = CreateFile(l, p)
    PROVE  /\ r.err # "ok" => Alike(l, r.data)
           /\ r.err = "ok" => /\ r.data[p].kind = "file" /\ r.data[p].content = Empty
                              /\ \A q \in Paths \ {p} : SameEntry(r.data[q], l[q])
                              /\ l[p].kind = "none" => p # Root /\ l[Parent(p)].kind = "dir"
           /\ Tidy(l) => Tidy(r.data)
           /\ r.err \in {"ok", "noent", "notdir", "isdir"}
           /\ r.err = "noent" => l[Parent(p)].kind = "none"
<1>0. Parent(p) \in Paths /\ l[p].kind \in Kinds /\ l[Parent(p)].kind \in Kinds
  BY PathsClosed DEF FsData, Node
<1>1. CASE l[p].kind = "file"
  <2>1. r = Done(WriteFile(l, p, Empty))
    BY <1>1 DEF CreateFile
  <2>2. r.err = "ok" /\ r.data = WriteFile(l, p, Empty)
    BY <2>1 DEF Done
  <2> QED BY <1>1, <2>2, WriteFileIs, ContentsAssumption
<1>2. CASE l[p].kind = "dir"
  <2>1. r = Fail(CloseFile(l, p, FALSE), "isdir")
    BY <1>2 DEF CreateFile
  <2>2. r.err = "isdir" /\ r.data = CloseFile(l, p, FALSE)
    BY <2>1 DEF Fail
  <2>3. Alike(l, r.data)
    BY <2>2, AttributesAlike
  <2> QED BY <2>2, <2>3, AlikeTidy
<1>3. CASE l[p].kind = "none" /\ ParentErr(l, p) # "ok"
  <2>1. r = Fail(l, ParentErr(l, p))
    BY <1>3 DEF CreateFile
  <2>2. ParentErr(l, p) \in {"noent", "notdir"}
        /\ (ParentErr(l, p) = "noent" => l[Parent(p)].kind = "none")
    BY <1>0, <1>3 DEF ParentErr, Kinds
  <2> QED BY <2>1, <2>2, AttributesAlike DEF Fail
<1>4. CASE l[p].kind = "none" /\ ParentErr(l, p) = "ok"
  <2>1. r.err = "ok" /\ r.data = Register(l, p, NewFile)
    BY <1>4 DEF CreateFile, Done
  <2>2. l[Parent(p)].kind = "dir"
    BY <1>0, <1>4 DEF ParentErr, Kinds
  <2>3. p # Root
    BY <1>4, <2>2, RootIs
  <2>4. /\ r.data[p] = NewFile /\ NewFile.kind = "file" /\ NewFile.content = Empty
        /\ NewFile.kids = {} /\ ~NewFile.stuck
    BY <2>1 DEF Register, NewFile, NoNode
  <2>5. ASSUME NEW q \in Paths \ {p} PROVE SameEntry(r.data[q], l[q])
    <3>1. r.data[q] = l[q] \/ r.data[q] = [l[q] EXCEPT !.kids = @ \cup {p}]
      BY <2>1 DEF Register
    <3> QED BY <3>1 DEF SameEntry, FsData, Node
  <2>6. Tidy(l) => Tidy(r.data)
    BY <1>4, <2>1, <2>2, <2>3, <2>4, RegisterTidy
  <2> QED BY <2>1, <2>2, <2>3, <2>4, <2>5, <2>6
<1> QED BY <1>0, <1>1, <1>2, <1>3, <1>4 DEF Kinds

(***************************************************************************)
(* Directories                                                             *)
(***************************************************************************)

\* MkdirAll makes directories on the way to p, never the root; in a tidy layer it
\* makes all that miss or none.
LEMMA MadeIs ==
    ASSUME NEW l \in FsData, NEW p \in Paths
    PROVE  /\ Made(l, p) \subseteq Missing(l, p) /\ Missing(l, p) \subseteq Prefixes(p)
           /\ Root \notin Made(l, p)
           /\ Tidy(l) /\ Made(l, p) # Missing(l, p) => Made(l, p) = {}
<1>1. Made(l, p) \subseteq Missing(l, p) /\ Missing(l, p) \subseteq Prefixes(p)
  BY DEF Made, Missing
<1>2. Root \notin Made(l, p)
  BY RootIs DEF Made, Missing, Obstructed
<1>3. ASSUME Tidy(l), NEW q \in Made(l, p), NEW r \in Missing(l, p), r \notin Made(l, p)
      PROVE  FALSE
  <2>1. r \in Paths /\ q \in Paths /\ r \in Prefixes(p) /\ q \in Prefixes(p)
        /\ l[q].kind = "none" /\ l[r].kind = "none"
    BY <1>1, PathsClosed DEF Missing
  <2>2. PICK s \in Missing(l, r) : Obstructed(l, s)
    BY <1>3 DEF Made
  <2>3. s \in Prefixes(p) /\ s \in Paths /\ s \in Missing(l, p) /\ l[s].kind = "none"
    BY <2>1, <2>2, PrefixOrder DEF Missing
  <2>4. s \notin Prefixes(q)
    BY <1>3, <2>2, <2>3 DEF Made, Missing
  <2>5. q \in Prefixes(s) /\ q # s
    BY <2>1, <2>3, <2>4, PrefixOrder
  <2>6. s # Root
    BY <2>1, <2>4, PrefixOrder
  <2>7. l[Parent(s)].kind = "file"
    BY <2>2, <2>6 DEF Obstructed
  <2>8. q \in Prefixes(Parent(s)) /\ q # Parent(s) /\ Parent(s) \in Paths
    BY <2>1, <2>3, <2>5, <2>6, <2>7, ParentIs, PathsClosed
  <2>9. l[Parent(s)].kind = "none"
    BY <1>3, <2>1, <2>8, NothingBelow
  <2> QED BY <2>7, <2>9
<1> QED BY <1>1, <1>2, <1>3

\* The directories MkdirAll makes are linked from one another and from the first
\* that was there.
LEMMA MkdirAllTidy ==
    ASSUME NEW l \in FsData, Tidy(l), NEW p \in Paths, NEW mode,
           NEW m, m = MkdirAll(l, p, mode).data
    PROVE  Tidy(m)
<1> DEFINE made    == Made(l, p)
           kids(q) == {k \in made : Parent(k) = q}
<1>1. made \subseteq Prefixes(p) /\ made \subseteq Paths /\ Root \notin made
      /\ \A q \in made : l[q].kind = "none"
  BY MadeIs, PathsClosed DEF Missing
<1>2. \A q \in Paths : m[q] = IF q \in made THEN NewDir(mode, kids(q))
                              ELSE [l[q] EXCEPT !.kids = @ \cup kids(q)]
  BY DEF MkdirAll
<1>3. ASSUME NEW q \in Paths, q \in made
      PROVE  m[q].kind = "dir" /\ m[q].kids = kids(q) /\ ~m[q].stuck
             /\ m[q].content = Empty
  <2> HIDE DEF made, kids
  <2> QED BY <1>2, <1>3 DEF NewDir, NoNode
<1>4. ASSUME NEW q \in Paths, q \notin made
      PROVE  m[q].kind = l[q].kind /\ m[q].kids = l[q].kids \cup kids(q)
             /\ m[q].stuck = l[q].stuck /\ m[q].content = l[q].content
  <2> HIDE DEF made, kids
  <2>1. l[q] \in Node
    BY DEF FsData
  <2> QED BY <1>2, <1>4, <2>1 DEF Node
<1>5. ASSUME NEW q \in made, NEW r \in Prefixes(q), r # q
      PROVE  m[r].kind = "dir"
  <2>1. q \in Paths /\ r \in Paths /\ q \in Prefixes(p) /\ r \in Prefixes(p)
    BY <1>1, PathsClosed, PrefixOrder
  <2>2. CASE l[r].kind = "none"
    <3>1. r \in Missing(l, p) /\ Missing(l, r) \subseteq Missing(l, q)
      BY <2>1, <2>2, PrefixOrder DEF Missing
    <3>2. r \in made
      BY <3>1, <1>5 DEF Made
    <3> QED BY <3>2, <2>1, <1>3
  <2>3. CASE l[r].kind = "dir"
    BY <2>1, <2>3, <1>1, <1>4
  <2>4. CASE l[r].kind = "file"
    <3>1. PICK s \in Prefixes(q) : s # Root /\ Parent(s) = r
      BY <1>5, <2>1, ChildOnTheWay
    <3>2. s \in Paths /\ r \in Prefixes(s) /\ r # s
      BY <2>1, <3>1, PathsClosed, ParentIs, PrefixOrder
    <3>3. l[s].kind = "none"
      BY <2>4, <3>2, NothingBelow
    <3>4. s \in Missing(l, q) /\ Obstructed(l, s)
      BY <2>4, <3>1, <3>3 DEF Missing, Obstructed
    <3> QED BY <1>5, <3>4 DEF Made
  <2>5. l[r].kind \in Kinds
    BY <2>1 DEF FsData, Node
  <2> QED BY <2>2, <2>3, <2>4, <2>5 DEF Kinds
<1>6. Rooted(m)
  <2> SUFFICES ASSUME NEW q \in Paths, m[q].kind # "none", NEW r \in Prefixes(q), r # q
               PROVE  m[r].kind = "dir"
    BY DEF Rooted
  <2>1. CASE q \in made
    BY <2>1, <1>5
  <2>2. CASE q \notin made
    <3>1. l[r].kind = "dir" /\ r \in Paths
      BY <2>2, <1>4, PathsClosed DEF Tidy, Rooted
    <3> QED BY <3>1, <1>1, <1>4
  <2> QED BY <2>1, <2>2
<1>7. ASSUME NEW q \in Paths
      PROVE  m[q].kids = Children(m, q)
  <2>1. ASSUME NEW k \in Paths, k \notin made, k # Root, Parent(k) = q, m[k].kind # "none"
        PROVE  q \notin made
    <3>1. l[k].kind # "none"
      BY <2>1, <1>4
    <3>2. q \in Prefixes(k) /\ q # k
      BY <2>1, ParentIs, PathsClosed, PrefixOrder
    <3>3. l[q].kind = "dir"
      BY <3>1, <3>2 DEF Tidy, Rooted
    <3> QED BY <3>3, <1>1
  <2>2. CASE q \in made
    <3>1. m[q].kids = kids(q)
      BY <2>2, <1>3
    <3>2. Children(m, q) = kids(q)
      <4>1. Children(m, q) \subseteq kids(q)
        BY <2>1, <2>2 DEF Children
      <4>2. kids(q) \subseteq Children(m, q)
        <5> SUFFICES ASSUME NEW k \in made, Parent(k) = q
                     PROVE  k \in Children(m, q)
          OBVIOUS
        <5> QED BY <1>1, <1>3 DEF Children
      <4> QED BY <4>1, <4>2
    <3> QED BY <3>1, <3>2
  <2>3. CASE q \notin made
    <3>1. m[q].kids = Children(l, q) \cup kids(q)
      BY <2>3, <1>4 DEF Tidy
    <3>2. ASSUME NEW k \in Paths \ {Root}, Parent(k) = q
          PROVE  m[k].kind # "none" <=> l[k].kind # "none" \/ k \in made
      BY <1>1, <1>3, <1>4
    <3> QED BY <3>1, <3>2, <1>1 DEF Children
  <2> QED BY <2>2, <2>3
<1>8. ASSUME NEW q \in Paths
      PROVE  (m[q].kind # "file" => m[q].content = Empty) /\ ~m[q].stuck
  BY <1>3, <1>4 DEF Tidy
<1> QED BY <1>6, <1>7, <1>8 DEF Tidy

\* MemMapFs.MkdirAll: directories on the way to p where there was nothing, and no
\* other entry changed; in a tidy layer none at all when it fails.
LEMMA MkdirAllDoes ==
    ASSUME NEW l \in FsData, NEW p \in Paths, NEW mode, NEW r, r = MkdirAll(l, p, mode)
    PROVE  /\ \A q \in Paths :
                 \/ SameEntry(r.data[q], l[q])
                 \/ /\ q \in Prefixes(p) /\ l[q].kind = "none"
                    /\ r.data[q].kind = "dir" /\ r.data[q].content = Empty
           /\ r.err = "ok" => \A q \in Prefixes(p) : r.data[q].kind # "none"
           /\ r.err \in {"ok", "noent", "notdir"}
           /\ Tidy(l) => Tidy(r.data)
           /\ Tidy(l) /\ r.err # "ok" => Alike(l, r.data)
           /\ r.err = "noent" => l[Root].kind = "none"
           /\ l[Root].kind = "none" => r.err # "ok"
<1> DEFINE made    == Made(l, p)
           kids(q) == {k \in made : Parent(k) = q}
<1>1. made \subseteq Prefixes(p) /\ made \subseteq Paths
      /\ \A q \in made : l[q].kind = "none"
  BY MadeIs, PathsClosed DEF Missing
<1>2. \A q \in Paths : r.data[q] = IF q \in made THEN NewDir(mode, kids(q))
                                   ELSE [l[q] EXCEPT !.kids = @ \cup kids(q)]
  BY DEF MkdirAll
<1>3. r.err \in {"ok", "noent", "notdir"} /\ (r.err = "ok" => made = Missing(l, p))
  BY DEF MkdirAll
<1>4. ASSUME NEW q \in Paths, q \in made
      PROVE  r.data[q].kind = "dir" /\ r.data[q].content = Empty
  <2> HIDE DEF made, kids
  <2> QED BY <1>2, <1>4 DEF NewDir, NoNode
<1>5. ASSUME NEW q \in Paths, q \notin made
      PROVE  /\ SameEntry(r.data[q], l[q])
             /\ r.data[q].kids = l[q].kids \cup kids(q) /\ r.data[q].stuck = l[q].stuck
  <2> HIDE DEF made, kids
  <2>1. l[q] \in Node
    BY DEF FsData
  <2> QED BY <1>2, <1>5, <2>1 DEF Node, SameEntry
<1>6. ASSUME r.err = "ok", NEW q \in Prefixes(p)
      PROVE  r.data[q].kind # "none"
  <2>1. q \in Paths
    BY PathsClosed
  <2> QED BY <2>1, <1>3, <1>4, <1>5, <1>6 DEF Missing, SameEntry
<1>7. ASSUME Tidy(l), r.err # "ok"
      PROVE  Alike(l, r.data)
  <2>1. made # Missing(l, p)
    <3>1. made = Missing(l, p) => Root \notin Missing(l, p)
      BY MadeIs
    <3> HIDE DEF made
    <3>2. made = Missing(l, p) => r.err = "ok"
      BY <3>1 DEF MkdirAll, made
    <3> QED BY <3>2, <1>7
  <2>2. made = {}
    BY <1>7, <2>1, MadeIs
  <2> QED BY <2>2, <1>5 DEF Alike
<1>8. Tidy(l) => Tidy(r.data)
  BY MkdirAllTidy
<1>9. r.err = "noent" => l[Root].kind = "none"
  BY DEF MkdirAll, Missing
<1>10. l[Root].kind = "none" => r.err # "ok"
  <2>1. l[Root].kind = "none" => Root \in Missing(l, p)
    BY PrefixOrder DEF Missing
  <2> QED BY <2>1, <1>3, MadeIs
<1> QED BY <1>1, <1>3, <1>4, <1>5, <1>6, <1>7, <1>8, <1>9, <1>10

\* MemMapFs.Remove: the entry is gone, and no other is changed.  Its panic, on a
\* name whose directory is missing, needs a layer that is not tidy.
LEMMA RemoveNodeIs ==
    ASSUME NEW l \in FsData, NEW p \in Paths, NEW r, r = RemoveNode(l, p)
    PROVE  /\ \A q \in Paths \ {p} : SameEntry(r.data[q], l[q])
           /\ r.err = "ok" => r.data[p].kind = "none" /\ r.data[p].content = Empty
           /\ r.err # "ok" => SameEntry(r.data[p], l[p])
           /\ l[p].kind # "none" /\ l[Parent(p)].kind = "dir" => r.err = "ok"
           /\ Tidy(l) /\ l[Root].kind # "file" =>
                 r.err \in {"ok", "noent"} /\ (l[p].kind # "none" => l[Parent(p)].kind = "dir")
           /\ Tidy(l) /\ Children(l, p) = {} /\ (l[p].kind # "none" => l[Parent(p)].kind = "dir")
                 => Tidy(r.data)
<1>0. Parent(p) \in Paths /\ l[p].kind \in Kinds /\ l[Parent(p)].kind \in Kinds
  BY PathsClosed DEF FsData, Node
<1>1. CASE l[p].kind = "none"
  <2>1. r.err = "noent" /\ r.data = l
    BY <1>1 DEF RemoveNode, Fail
  <2> QED BY <2>1, <1>1 DEF SameEntry
<1>2. CASE l[p].kind # "none" /\ l[Parent(p)].kind # "dir"
  <2>1. /\ r.err = "panic"
        /\ r.data = l \/ r.data = [l EXCEPT ![Parent(p)].stuck = TRUE]
    BY <1>0, <1>2 DEF RemoveNode, Fail, Kinds
  <2>2. \A q \in Paths : SameEntry(r.data[q], l[q])
    <3> SUFFICES ASSUME NEW q \in Paths PROVE SameEntry(r.data[q], l[q])
      OBVIOUS
    <3>1. r.data[q] = l[q] \/ r.data[q] = [l[q] EXCEPT !.stuck = TRUE]
      BY <2>1 DEF FsData
    <3>2. l[q] \in Node
      BY DEF FsData
    <3> QED BY <3>1, <3>2 DEF SameEntry, Node
  <2>3. ~(Tidy(l) /\ l[Root].kind # "file")
    <3>1. CASE p = Root
      BY <3>1, <1>0, <1>2, RootIs DEF Kinds
    <3>2. CASE p # Root
      BY <3>2, <1>0, <1>2, ParentIs, PrefixOrder DEF Tidy, Rooted
    <3> QED BY <3>1, <3>2
  <2> QED BY <1>2, <2>1, <2>2, <2>3
<1>3. CASE l[p].kind # "none" /\ l[Parent(p)].kind = "dir"
  <2>1. /\ r.err = "ok"
        /\ r.data = [q \in Paths |-> CASE q = p -> NoNode
                                       [] q = Parent(p) /\ q # p -> [l[q] EXCEPT !.kids = @ \ {p}]
                                       [] OTHER -> l[q]]
    BY <1>3 DEF RemoveNode, Done
  <2>2. r.data[p] = NoNode /\ NoNode.kind = "none" /\ NoNode.content = Empty
        /\ NoNode.kids = {} /\ ~NoNode.stuck
    BY <2>1 DEF NoNode
  <2>3. ASSUME NEW q \in Paths \ {p}
        PROVE  /\ SameEntry(r.data[q], l[q])
               /\ r.data[q].kids = IF q = Parent(p) THEN l[q].kids \ {p} ELSE l[q].kids
               /\ r.data[q].stuck = l[q].stuck
    <3>1. r.data[q] = IF q = Parent(p) THEN [l[q] EXCEPT !.kids = @ \ {p}] ELSE l[q]
      BY <2>1
    <3>2. l[q] \in Node
      BY DEF FsData
    <3> QED BY <3>1, <3>2 DEF SameEntry, Node
  <2>4. ASSUME Tidy(l), Children(l, p) = {}
        PROVE  Tidy(r.data)
    <3>1. ASSUME NEW q \in Paths, r.data[q].kind # "none", NEW s \in Prefixes(q), s # q
          PROVE  r.data[s].kind = "dir"
      <4>1. q # p /\ s \in Paths
        BY <3>1, <2>2, PathsClosed
      <4>2. l[q].kind # "none" /\ l[s].kind = "dir"
        BY ZenonT(40), <3>1, <4>1, <2>3, <2>4 DEF Tidy, Rooted, SameEntry
      <4>3. s # p
        <5> SUFFICES ASSUME s = p PROVE FALSE
          OBVIOUS
        <5>1. PICK k \in Prefixes(q) : k # Root /\ Parent(k) = p
          BY <3>1, ChildOnTheWay
        <5>2. k \in Paths /\ l[k].kind # "none"
          BY <4>2, <2>4, PathsClosed, NothingBelow
        <5> QED BY <5>1, <5>2, <2>4 DEF Children
      <4> QED BY <4>1, <4>2, <4>3, <2>3 DEF SameEntry
    <3>2. ASSUME NEW q \in Paths
          PROVE  r.data[q].kids = Children(r.data, q)
      <4>1. Children(r.data, q) = Children(l, q) \ {p}
        BY <2>2, <2>3 DEF Children, SameEntry
      <4>2. l[q].kids = Children(l, q)
        BY <2>4 DEF Tidy
      <4>3. CASE q = p
        BY <4>1, <4>3, <2>2, <2>4
      <4>4. CASE q # p /\ q = Parent(p)
        BY <4>1, <4>2, <4>4, <2>3
      <4>5. CASE q # p /\ q # Parent(p)
        <5>1. p \notin Children(l, q)
          BY <4>5 DEF Children
        <5> QED BY <4>1, <4>2, <4>5, <5>1, <2>3
      <4> QED BY <4>3, <4>4, <4>5
    <3>3. ASSUME NEW q \in Paths
          PROVE  (r.data[q].kind # "file" => r.data[q].content = Empty) /\ ~r.data[q].stuck
      BY <2>2, <2>3, <2>4 DEF Tidy, SameEntry
    <3> QED BY <3>1, <3>2, <3>3 DEF Tidy, Rooted
  <2> QED BY <1>3, <2>1, <2>2, <2>3, <2>4
<1> QED BY <1>1, <1>2, <1>3

\* A new filesystem is tidy and holds its root.
LEMMA FreshIsTidy ==
    /\ Tidy(FreshFs)
    /\ \A p \in Paths : FreshFs[p].kind = IF p = Root THEN "dir" ELSE "none"
<1>1. \A p \in Paths : /\ FreshFs[p].kind = IF p = Root THEN "dir" ELSE "none"
                       /\ FreshFs[p].kids = {} /\ FreshFs[p].content = Empty
                       /\ ~FreshFs[p].stuck
  BY DEF FreshFs, NewDir, NoNode
<1>2. Rooted(FreshFs)
  BY <1>1, RootIs DEF Rooted
<1>3. \A p \in Paths : Children(FreshFs, p) = {}
  BY <1>1 DEF Children
<1> QED BY <1>1, <1>2, <1>3 DEF Tidy
=============================================================================
