-------------------------------- MODULE CowFs --------------------------------
(***************************************************************************)
(* The union filesystem of third_party/cowfs: a shared base that is only   *)
(* read and a private layer that takes every change.  Operators over the   *)
(* pair (b, l) of the two data maps.  An operation returns what it left of *)
(* both, [base, layer, err]: the base is part of the result because base   *)
(* files are opened and closed here, and closing a handle may write.       *)
(***************************************************************************)
EXTENDS MemMapFs

Result(b, l, err) == [base |-> b, layer |-> l, err |-> err]

InLayer(b, r) == Result(b, r.data, r.err)

(***************************************************************************)
(* What is visible through the union                                       *)
(***************************************************************************)

\* Stat, LstatIfPossible: the layer's entry hides the base's.
StatNode(b, l, p) == IF l[p].kind # "none" THEN l[p] ELSE b[p]

Exists(b, l, p) == StatNode(b, l, p).kind # "none"

\* Mutant: isBaseFile without asking the layer first.
IsBaseFileAnyway(b, l, p) == b[p].kind # "none"

\* isBaseFile
IsBaseFile(b, l, p) == l[p].kind = "none" /\ b[p].kind # "none"

\* Open and Readdir of a directory: both sides when both are directories.
ListDir(b, l, p) ==
    CASE l[p].kind = "none" -> b[p].kids
      [] l[p].kind = "dir" /\ b[p].kind = "dir" -> l[p].kids \cup b[p].kids
      [] OTHER -> l[p].kids

(***************************************************************************)
(* Operations                                                              *)
(***************************************************************************)

\* Open of a base file is OpenFile with O_RDONLY; the handle is then closed.
OpenAndCloseBase(b, p) == CloseFile(b, p, OpensReadOnly("rdonly"))

\* Open, read to the end, Close.
ReadFile(b, l, p) ==
    CASE ~Exists(b, l, p)      -> Result(b, l, "noent")
      [] IsBaseFile(b, l, p)   -> Result(OpenAndCloseBase(b, p), l, "ok")
      [] l[p].kind # "none"    -> Result(b, CloseFile(l, p, OpensReadOnly("rdonly")), "ok")

\* Mutants: copyToLayer takes no notice of how many bytes were copied, leaves the
\* entry behind when it does, or copies none.
CopyToLayerUnchecked(b, l, p) ==
    LET fresh == CreateFile(MkdirAll(l, Parent(p), "0777").data, p)
    IN  Result(b, fresh.data, fresh.err)

CopyToLayerLeaving(b, l, p) ==
    LET fresh == CreateFile(MkdirAll(l, Parent(p), "0777").data, p)
    IN  Result(b, fresh.data, IF b[p].kind = "dir" THEN "io" ELSE fresh.err)

CopyToLayerEmpty(b, l, p) ==
    LET fresh == CreateFile(MkdirAll(l, Parent(p), "0777").data, p)
    IN  IF b[p].kind = "dir" THEN Result(b, l, "io") ELSE Result(b, fresh.data, fresh.err)

\* copyToLayer: parents with 0777, contents, then the modification time.  A
\* directory reports 42 bytes and yields none, so its copy is removed again.
CopyToLayer(b, l, p) ==
    LET up    == IF l[Parent(p)].kind = "none"
                 THEN MkdirAll(l, Parent(p), "0777") ELSE Done(l)
        fresh == CreateFile(up.data, p)
        base  == OpenAndCloseBase(b, p)
        copy  == [fresh.data[p] EXCEPT !.content = b[p].content, !.mtime = b[p].mtime]
    IN  CASE up.err # "ok"      -> Result(base, up.data, up.err)
          [] up.err = "ok" /\ fresh.err # "ok" -> Result(base, fresh.data, fresh.err)
          [] up.err = "ok" /\ fresh.err = "ok" /\ b[p].kind = "dir" ->
                Result(base, RemoveNode(fresh.data, p).data, "io")
          [] OTHER -> Result(base, [fresh.data EXCEPT ![p] = copy], "ok")

\* The first half of Chtimes, Chmod and Chown.
CopyUp(b, l, p) == IF IsBaseFile(b, l, p) THEN CopyToLayer(b, l, p) ELSE Result(b, l, "ok")

Chtimes(b, l, p) ==
    LET r == CopyUp(b, l, p)
    IN  IF r.err # "ok" THEN r ELSE InLayer(r.base, SetTime(r.layer, p))

Chmod(b, l, p, mode) ==
    LET r == CopyUp(b, l, p)
    IN  IF r.err # "ok" THEN r ELSE InLayer(r.base, SetMode(r.layer, p, mode))

\* Create: OpenFile with write flags.
Create(b, l, p) ==
    LET up     == CopyToLayer(b, l, p)
        parent == MkdirAll(l, Parent(p), "0777")
    IN  CASE IsBaseFile(b, l, p) ->
                IF up.err # "ok" THEN up ELSE InLayer(up.base, CreateFile(up.layer, p))
          [] ~IsBaseFile(b, l, p) /\ b[Parent(p)].kind = "dir" ->
                IF parent.err # "ok" THEN InLayer(b, parent)
                ELSE InLayer(b, CreateFile(parent.data, p))
          [] ~IsBaseFile(b, l, p) /\ b[Parent(p)].kind # "dir" ->
                CASE l[Parent(p)].kind = "none" -> Result(b, l, "noent")
                  [] l[Parent(p)].kind = "file" -> Result(b, l, "notdir")
                  [] l[Parent(p)].kind = "dir"  -> InLayer(b, CreateFile(l, p))

\* Mkdir.  MkdirAll differs only in what a base directory answers.
Mkdir(b, l, p) ==
    IF b[p].kind = "dir" THEN Result(b, l, "exist") ELSE InLayer(b, MkdirAll(l, p, "0777"))

\* Remove takes the layer's entry away and nothing else.
Remove(b, l, p) == InLayer(b, RemoveNode(l, p))

=============================================================================
