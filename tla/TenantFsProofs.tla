--------------------------- MODULE TenantFsProofs ---------------------------
(***************************************************************************)
(* For every image, set of paths and number of tenants: the types; that no *)
(* session disturbs the image or another session; and what a session finds *)
(* where.  The tree it sees hangs together, a step changes only the path   *)
(* it names, an error changes nothing, what a redirection wrote is what    *)
(* is read, and only touch crashes.                                        *)
(*                                                                         *)
(* A layer is kept as a map of names and, in each directory, a list of     *)
(* children.  The proofs rest on TreeInv: the layer hides no directory of  *)
(* the image behind a file, an open redirection finds its own words, and,  *)
(* without rm -r, the layer is Tidy: its map and its lists agree, every    *)
(* name has its directories, and no mutex stays locked.  What follows from *)
(* Tidy is stated for Recursive = FALSE, since RemoveAll loses it.         *)
(***************************************************************************)
EXTENDS TenantFs, MemMapFsProofs

(***************************************************************************)
(* The union filesystem never writes to its base                           *)
(***************************************************************************)

\* What an operation on a base and a layer returns: the base as it was.
CowResult(b) == [base: {b}, layer: FsData, err: Errs]

\* Reading a base file through a read-only handle leaves it alone.
LEMMA BaseUntouched == \A b, p : OpenAndCloseBase(b, p) = b
BY DEF OpenAndCloseBase, CloseFile, OpensReadOnly

\* cat
LEMMA ReadFileResult ==
    ASSUME NEW b \in FsData, NEW l \in FsData, NEW p \in Paths
    PROVE  ReadFile(b, l, p) \in CowResult(b)
<1>1. CloseFile(l, p, OpensReadOnly("rdonly")) = l
  BY DEF CloseFile, OpensReadOnly
<1>2. Exists(b, l, p) /\ ~IsBaseFile(b, l, p) => l[p].kind # "none"
  BY DEF Exists, IsBaseFile, StatNode
<1> QED BY <1>1, <1>2, BaseUntouched DEF ReadFile, Result, CowResult, Errs

\* Copying a file up changes the layer only.
LEMMA CopyToLayerResult ==
    ASSUME NEW b \in FsData, NEW l \in FsData, NEW p \in Paths
    PROVE  CopyToLayer(b, l, p) \in CowResult(b)
<1> DEFINE up    == IF l[Parent(p)].kind = "none"
                    THEN MkdirAll(l, Parent(p), "0777") ELSE Done(l)
           fresh == CreateFile(up.data, p)
           undo  == RemoveNode(fresh.data, p)
           copy  == [fresh.data[p] EXCEPT !.content = b[p].content, !.mtime = b[p].mtime]
           whole == [fresh.data EXCEPT ![p] = copy]
<1>1. up \in MapResult
  BY MkdirAllType, PathsClosed DEF Done, MapResult, Errs, Modes
<1>2. fresh \in MapResult
  <2> HIDE DEF up
  <2> QED BY <1>1, CreateFileType DEF MapResult
<1>3. undo \in MapResult
  <2> HIDE DEF fresh
  <2> QED BY <1>2, RemoveNodeType DEF MapResult
<1>4. whole \in FsData
  <2> HIDE DEF fresh
  <2>1. fresh.data[p] \in Node /\ b[p] \in Node /\ fresh.data \in FsData
    BY <1>2 DEF FsData, MapResult
  <2>2. copy \in Node
    BY <2>1 DEF Node
  <2> QED BY <2>1, <2>2, UpdateType
<1>5. CopyToLayer(b, l, p) \in {Result(b, up.data, up.err), Result(b, fresh.data, fresh.err),
                                Result(b, undo.data, "io"), Result(b, whole, "ok")}
  BY BaseUntouched, Zenon DEF CopyToLayer
<1> HIDE DEF up, fresh, undo, whole
<1> QED BY <1>1, <1>2, <1>3, <1>4, <1>5 DEF Result, CowResult, MapResult, Errs

\* What an operation on the layer returns is a result over the same base.
LEMMA InLayerResult ==
    ASSUME NEW b, NEW r \in MapResult
    PROVE  InLayer(b, r) \in CowResult(b)
BY DEF InLayer, Result, CowResult, MapResult

\* The copy that comes before a change of attributes.
LEMMA CopyUpResult ==
    ASSUME NEW b \in FsData, NEW l \in FsData, NEW p \in Paths
    PROVE  CopyUp(b, l, p) \in CowResult(b)
BY CopyToLayerResult DEF CopyUp, Result, CowResult, Errs

\* touch and chmod
LEMMA AttributeResults ==
    ASSUME NEW b \in FsData, NEW l \in FsData, NEW p \in Paths, NEW mode \in Modes
    PROVE  Chtimes(b, l, p) \in CowResult(b) /\ Chmod(b, l, p, mode) \in CowResult(b)
<1> DEFINE r == CopyUp(b, l, p)
<1>1. r \in CowResult(b)
  BY CopyUpResult
<1>2. r.base = b /\ r.layer \in FsData
  BY <1>1 DEF CowResult
<1> HIDE DEF r
<1>3. SetTime(r.layer, p) \in MapResult /\ SetMode(r.layer, p, mode) \in MapResult
  BY <1>2, FileType, SetModeType, ContentsAssumption
<1>4. InLayer(b, SetTime(r.layer, p)) \in CowResult(b)
      /\ InLayer(b, SetMode(r.layer, p, mode)) \in CowResult(b)
  BY <1>3, InLayerResult
<1> QED BY <1>1, <1>2, <1>4, Zenon DEF Chtimes, Chmod, r

\* Create
LEMMA CreateResult ==
    ASSUME NEW b \in FsData, NEW l \in FsData, NEW p \in Paths
    PROVE  Create(b, l, p) \in CowResult(b)
<1> DEFINE up     == CopyToLayer(b, l, p)
           parent == MkdirAll(l, Parent(p), "0777")
<1>1. up \in CowResult(b) /\ up.base = b /\ up.layer \in FsData
  BY CopyToLayerResult DEF CowResult
<1>2. parent \in MapResult /\ parent.data \in FsData
  BY MkdirAllType, PathsClosed DEF Modes, MapResult
<1> HIDE DEF up, parent
<1>3. /\ InLayer(b, CreateFile(up.layer, p)) \in CowResult(b)
      /\ InLayer(b, CreateFile(parent.data, p)) \in CowResult(b)
      /\ InLayer(b, CreateFile(l, p)) \in CowResult(b)
      /\ InLayer(b, parent) \in CowResult(b)
  BY <1>1, <1>2, CreateFileType, InLayerResult
<1>4. Result(b, l, "noent") \in CowResult(b) /\ Result(b, l, "notdir") \in CowResult(b)
  BY DEF Result, CowResult, Errs
<1>5. l[Parent(p)].kind \in Kinds
  BY PathsClosed DEF FsData, Node
<1>6. CASE IsBaseFile(b, l, p)
  BY <1>1, <1>3, <1>6, Zenon DEF Create, up
<1>7. CASE ~IsBaseFile(b, l, p) /\ b[Parent(p)].kind = "dir"
  BY <1>3, <1>7, Zenon DEF Create, parent
<1>8. CASE ~IsBaseFile(b, l, p) /\ b[Parent(p)].kind # "dir"
  <2>1. Create(b, l, p) \in {Result(b, l, "noent"), Result(b, l, "notdir"),
                             InLayer(b, CreateFile(l, p))}
    BY <1>5, <1>8 DEF Create, Kinds
  <2> QED BY <2>1, <1>3, <1>4, Zenon
<1> QED BY <1>6, <1>7, <1>8

\* mkdir, rm and rmdir
LEMMA DirectoryResults ==
    ASSUME NEW b \in FsData, NEW l \in FsData, NEW p \in Paths
    PROVE  Mkdir(b, l, p) \in CowResult(b) /\ Remove(b, l, p) \in CowResult(b)
<1>1. MkdirAll(l, p, "0777") \in MapResult /\ RemoveNode(l, p) \in MapResult
  BY MkdirAllType, RemoveNodeType DEF Modes
<1>2. InLayer(b, MkdirAll(l, p, "0777")) \in CowResult(b)
      /\ InLayer(b, RemoveNode(l, p)) \in CowResult(b)
  BY <1>1, InLayerResult
<1>3. Result(b, l, "exist") \in CowResult(b)
  BY DEF Result, CowResult, Errs
<1> QED BY <1>2, <1>3, Zenon DEF Mkdir, Remove

(***************************************************************************)
(* Steps                                                                   *)
(***************************************************************************)

\* A step of tenant t that keeps to its own layer, in a state of the right types.
Local(t) ==
    /\ TypeOK'
    /\ base' = base
    /\ last'.who = t
    /\ \A u \in Tenants \ {t} : layer'[u] = layer[u]

\* The two ways an operation ends: with a result over the same base, or never.
LEMMA EffectLocal ==
    ASSUME TypeOK, NEW t \in Tenants, NEW op \in Ops, NEW p \in Paths,
           NEW r \in CowResult(base), Effect(t, op, p, r), file' \in [Tenants -> File]
    PROVE  Local(t)
<1>1. r.base = base /\ r.layer \in FsData /\ r.err \in Errs
  BY DEF CowResult
<1>2. base' = base /\ layer' \in [Tenants -> FsData] /\ cwd' = cwd /\ hung' = hung
  BY <1>1 DEF Effect, TypeOK
<1>3. \A u \in Tenants \ {t} : layer'[u] = layer[u]
  BY DEF Effect, TypeOK
<1>4. last' \in [who: Tenants, op: Ops, path: Paths, err: Errs] /\ last'.who = t
  BY <1>1 DEF Effect, Report
<1>5. TypeOK'
  BY <1>2, <1>4 DEF TypeOK
<1> QED BY <1>2, <1>3, <1>4, <1>5 DEF Local

LEMMA HangLocal ==
    ASSUME TypeOK, NEW t \in Tenants, NEW op \in Ops, NEW p \in Paths, Hang(t, op, p)
    PROVE  Local(t)
BY DEF Hang, Report, TypeOK, Local, Errs

\* Every command that runs to its end through Run.
LEMMA RunLocal ==
    ASSUME TypeOK, NEW t \in Tenants, NEW op \in Ops, NEW p \in Paths, NEW hangs,
           NEW r \in CowResult(base), Run(t, op, p, hangs, r)
    PROVE  Local(t)
<1>1. CASE hangs
  BY <1>1, HangLocal DEF Run
<1>2. CASE ~hangs
  <2>1. Effect(t, op, p, r) /\ Detach(t, r.layer)
    BY <1>2 DEF Run
  <2>2. file[t] \in File
    BY DEF TypeOK
  <2>3. [file[t] EXCEPT !.attached = @ /\ r.layer[file[t].path].kind = "file"] \in File
    BY <2>2 DEF File
  <2>4. file' = [file EXCEPT ![t] = [file[t] EXCEPT
                    !.attached = @ /\ r.layer[file[t].path].kind = "file"]]
    BY <2>1 DEF Detach
  <2>5. file' \in [Tenants -> File]
    BY <2>3, <2>4 DEF TypeOK
  <2> QED BY <2>1, <2>5, EffectLocal
<1> QED BY <1>1, <1>2

\* A refusal of a path that does not resolve is a result as well.
LEMMA ResolvedResult ==
    ASSUME TypeOK, NEW t \in Tenants, NEW q, NEW r \in CowResult(base)
    PROVE  Resolved(t, q, r) \in CowResult(base)
BY DEF Resolved, Result, CowResult, TypeOK, Errs

\* No effect at all is a result, with any error.
LEMMA NoEffectResult ==
    ASSUME TypeOK, NEW t \in Tenants, NEW err \in Errs
    PROVE  Result(base, layer[t], err) \in CowResult(base)
BY DEF Result, CowResult, TypeOK

\* Only the error of a result may be replaced.
LEMMA RelabelResult ==
    ASSUME NEW b, NEW r \in CowResult(b), NEW err \in Errs
    PROVE  [r EXCEPT !.err = err] \in CowResult(b)
BY DEF CowResult

(***************************************************************************)
(* One lemma per action                                                    *)
(***************************************************************************)

LEMMA LoginLocal ==
    ASSUME TypeOK, NEW t \in Tenants, Login(t)
    PROVE  Local(t)
<1>1. FreshFs \in FsData /\ Root \in Paths /\ NoFile \in File
  BY FreshFsType, PathsAssumption, ContentsAssumption DEF Root, NoFile, File
<1> QED BY <1>1 DEF Login, Report, TypeOK, Local, Ops, Errs

LEMMA CatLocal ==
    ASSUME TypeOK, NEW t \in Tenants, NEW p \in Paths, Cat(t, p)
    PROVE  Local(t)
<1>1. Resolved(t, p, ReadFile(base, layer[t], p)) \in CowResult(base)
  BY ReadFileResult, ResolvedResult DEF TypeOK
<1> QED BY <1>1, RunLocal DEF Cat, Ops

LEMMA ChangeModeLocal ==
    ASSUME TypeOK, NEW t \in Tenants, NEW p \in Paths, NEW mode \in ChmodModes,
           ChangeMode(t, p, mode)
    PROVE  Local(t)
<1>1. Chmod(base, layer[t], p, mode) \in CowResult(base)
  BY AttributeResults, ModesAssumption DEF TypeOK
<1>2. Resolved(t, p, Chmod(base, layer[t], p, mode)) \in CowResult(base)
  BY <1>1, ResolvedResult
<1> QED BY <1>2, RunLocal DEF ChangeMode, Ops

LEMMA TouchLocal ==
    ASSUME TypeOK, NEW t \in Tenants, NEW p \in Paths, NEW noCreate \in BOOLEAN,
           Touch(t, p, noCreate)
    PROVE  Local(t)
<1> DEFINE times   == Resolved(t, p, Chtimes(base, layer[t], p))
           created == Resolved(t, Parent(p), Create(times.base, times.layer, p))
           closed  == [created EXCEPT !.layer = CloseFile(created.layer, p, FALSE)]
           result  == CASE times.err # "noent" -> times
                        [] times.err = "noent" /\ noCreate -> [times EXCEPT !.err = "ok"]
                        [] times.err = "noent" /\ ~noCreate /\ created.err = "ok" -> closed
                        [] OTHER -> [created EXCEPT !.err = "panic"]
<1>1. times \in CowResult(base)
  <2>1. Chtimes(base, layer[t], p) \in CowResult(base)
    BY AttributeResults DEF TypeOK, Modes
  <2> QED BY <2>1, ResolvedResult
<1>2. created \in CowResult(base)
  <2>1. times.base = base /\ times.layer \in FsData
    BY <1>1 DEF CowResult
  <2> HIDE DEF times
  <2>2. Create(times.base, times.layer, p) \in CowResult(base)
    BY <2>1, CreateResult DEF TypeOK
  <2> QED BY <2>2, ResolvedResult
<1>3. closed \in CowResult(base)
  <2> HIDE DEF created
  <2>1. CloseFile(created.layer, p, FALSE) \in FsData
    BY <1>2, FileType, ContentsAssumption DEF CowResult
  <2> QED BY <1>2, <2>1 DEF CowResult
<1>4. [times EXCEPT !.err = "ok"] \in CowResult(base)
      /\ [created EXCEPT !.err = "panic"] \in CowResult(base)
  <2> HIDE DEF times, created
  <2> QED BY <1>1, <1>2, RelabelResult DEF Errs
<1>5. Run(t, "touch", p, Hangs(t, p), result)
  BY Zenon DEF Touch
<1>6. result \in CowResult(base)
  <2> HIDE DEF times, created, closed
  <2> QED BY <1>1, <1>3, <1>4
<1> HIDE DEF result
<1> QED BY <1>5, <1>6, RunLocal DEF Ops

LEMMA MakeDirLocal ==
    ASSUME TypeOK, NEW t \in Tenants, NEW p \in Paths, MakeDir(t, p)
    PROVE  Local(t)
<1>1. Mkdir(base, layer[t], p) \in CowResult(base)
  BY DirectoryResults DEF TypeOK
<1>2. Resolved(t, Parent(p), Mkdir(base, layer[t], p)) \in CowResult(base)
  BY <1>1, ResolvedResult
<1> QED BY <1>2, RunLocal DEF MakeDir, Ops

LEMMA MakeDirsLocal ==
    ASSUME TypeOK, NEW t \in Tenants, NEW path \in Paths, MakeDirs(t, path)
    PROVE  Local(t)
<1> DEFINE target == cwd[t] \o path
           r      == Mkdir(base, layer[t], target)
           quiet  == [r EXCEPT !.err = IF @ = "exist" THEN "ok" ELSE @]
           hangs  == \/ Hangs(t, cwd[t])
                     \/ /\ Reachable(t, cwd[t])
                        /\ \E q \in Prefixes(Parent(target)) : StatNode(base, layer[t], q).stuck
<1>1. target \in Paths /\ Run(t, "mkdir -p", path, hangs, Resolved(t, cwd[t], quiet))
  BY Zenon DEF MakeDirs
<1>2. r \in CowResult(base)
  <2> HIDE DEF target
  <2> QED BY <1>1, DirectoryResults DEF TypeOK
<1>3. quiet \in CowResult(base)
  <2> HIDE DEF r
  <2> QED BY <1>2 DEF CowResult, Errs
<1> HIDE DEF quiet, hangs
<1>4. Resolved(t, cwd[t], quiet) \in CowResult(base)
  BY <1>3, ResolvedResult
<1> QED BY <1>1, <1>4, RunLocal DEF Ops

LEMMA RmLocal ==
    ASSUME TypeOK, NEW t \in Tenants, NEW p \in Paths, Rm(t, p)
    PROVE  Local(t)
<1> DEFINE r == IF Seen(t, p).kind = "dir" /\ ~Recursive
                THEN Result(base, layer[t], "isdir") ELSE Remove(base, layer[t], p)
<1>1. r \in CowResult(base)
  BY DirectoryResults, NoEffectResult DEF TypeOK, Errs
<1>2. Run(t, "rm", p, Hangs(t, p), Resolved(t, p, r))
  BY DEF Rm
<1> HIDE DEF r
<1> QED BY <1>1, <1>2, ResolvedResult, RunLocal DEF Ops

LEMMA RmdirLocal ==
    ASSUME TypeOK, NEW t \in Tenants, NEW p \in Paths, Rmdir(t, p)
    PROVE  Local(t)
<1> DEFINE r == CASE Seen(t, p).kind # "dir" -> Result(base, layer[t], "notdir")
                  [] Seen(t, p).kind = "dir" /\ Listed(t, p) # {} ->
                        Result(base, layer[t], "notempty")
                  [] OTHER -> Remove(base, layer[t], p)
           merging == layer[t][p].kind = "dir" /\ base[p].kind = "dir"
           hangs   == \/ Hangs(t, p)
                      \/ /\ Reachable(t, p) /\ merging
                         /\ \E k \in layer[t][p].kids : layer[t][k].stuck
<1>1. r \in CowResult(base)
  <2>1. /\ Result(base, layer[t], "notdir") \in CowResult(base)
        /\ Result(base, layer[t], "notempty") \in CowResult(base)
    BY NoEffectResult DEF Errs
  <2>2. Remove(base, layer[t], p) \in CowResult(base)
    BY DirectoryResults DEF TypeOK
  <2> QED BY <2>1, <2>2
<1>2. Run(t, "rmdir", p, hangs, Resolved(t, p, r))
  BY Zenon DEF Rmdir
<1> HIDE DEF r, hangs
<1> QED BY <1>1, <1>2, ResolvedResult, RunLocal DEF Ops

LEMMA ChangeDirLocal ==
    ASSUME TypeOK, NEW t \in Tenants, NEW p \in Paths, ChangeDir(t, p)
    PROVE  Local(t)
<1>1. CASE Hang(t, "cd", p)
  BY <1>1, HangLocal DEF Ops
<1>2. CASE ~Hang(t, "cd", p)
  <2>1. /\ base' = base /\ layer' = layer /\ file' = file /\ hung' = hung
        /\ cwd' \in [Tenants -> Paths]
    BY <1>2 DEF ChangeDir, TypeOK
  <2>2. PICK err \in Errs : Report(t, "cd", p, err)
    BY <1>2 DEF ChangeDir, Errs
  <2>3. last' \in [who: Tenants, op: Ops, path: Paths, err: Errs] /\ last'.who = t
    BY <2>2 DEF Report, Ops
  <2>4. TypeOK'
    BY <2>1, <2>3 DEF TypeOK
  <2> QED BY <2>1, <2>3, <2>4 DEF Local
<1> QED BY <1>1, <1>2

LEMMA OpenLocal ==
    ASSUME TypeOK, NEW t \in Tenants, NEW p \in Paths, Open(t, p)
    PROVE  Local(t)
<1> DEFINE r == Resolved(t, Parent(p), Create(base, layer[t], p))
           opened == [open |-> TRUE, path |-> p, attached |-> TRUE, wrote |-> Empty]
<1>1. r \in CowResult(base)
  BY CreateResult, ResolvedResult DEF TypeOK
<1>2. \/ Hang(t, "open", p)
      \/ /\ Effect(t, "open", p, r)
         /\ file' = [file EXCEPT ![t] = IF r.err = "ok" THEN opened ELSE @]
  BY DEF Open
<1> HIDE DEF r
<1>3. opened \in File
  BY ContentsAssumption DEF File
<1>4. file' \in [Tenants -> File] \/ Hang(t, "open", p)
  BY <1>2, <1>3 DEF TypeOK
<1> QED BY <1>1, <1>2, <1>4, HangLocal, EffectLocal DEF Ops

LEMMA WriteLocal ==
    ASSUME TypeOK, NEW t \in Tenants, NEW content \in Contents \ {Empty}, Write(t, content)
    PROVE  Local(t)
<1> DEFINE f == file[t]
           l == IF f.attached THEN WriteFile(layer[t], f.path, content) ELSE layer[t]
<1>1. f \in File /\ f.path \in Paths /\ layer[t] \in FsData
  BY DEF TypeOK, File
<1>2. l \in FsData
  BY <1>1, FileType
<1>3. Result(base, l, "ok") \in CowResult(base)
  BY <1>2 DEF Result, CowResult, Errs
<1>4. \/ Hang(t, "write", f.path)
      \/ /\ Effect(t, "write", f.path, Result(base, l, "ok"))
         /\ file' = [file EXCEPT ![t] = [f EXCEPT !.wrote = content]]
  BY DEF Write
<1>5. file' \in [Tenants -> File] \/ Hang(t, "write", f.path)
  <2>1. [f EXCEPT !.wrote = content] \in File
    BY <1>1 DEF File
  <2> QED BY <2>1, <1>4 DEF TypeOK
<1> HIDE DEF f, l
<1> QED BY <1>1, <1>3, <1>4, <1>5, HangLocal, EffectLocal DEF Ops

LEMMA CloseLocal ==
    ASSUME TypeOK, NEW t \in Tenants, Close(t)
    PROVE  Local(t)
<1> DEFINE f == file[t]
           l == IF f.attached THEN CloseFile(layer[t], f.path, FALSE) ELSE layer[t]
<1>1. f \in File /\ f.path \in Paths /\ layer[t] \in FsData
  BY DEF TypeOK, File
<1>2. l \in FsData
  BY <1>1, FileType, ContentsAssumption
<1>3. Result(base, l, "ok") \in CowResult(base)
  BY <1>2 DEF Result, CowResult, Errs
<1>4. \/ Hang(t, "close", f.path)
      \/ /\ Effect(t, "close", f.path, Result(base, l, "ok"))
         /\ file' = [file EXCEPT ![t] = NoFile]
  BY DEF Close
<1>5. NoFile \in File
  BY PathsAssumption, ContentsAssumption DEF NoFile, File, Root
<1>6. file' \in [Tenants -> File] \/ Hang(t, "close", f.path)
  BY <1>4, <1>5 DEF TypeOK
<1> HIDE DEF f, l
<1> QED BY <1>1, <1>3, <1>4, <1>6, HangLocal, EffectLocal DEF Ops

\* Every step belongs to one tenant.
LEMMA NextLocal ==
    ASSUME TypeOK, Next
    PROVE  \E t \in Tenants : Local(t)
<1> SUFFICES ASSUME NEW t \in Tenants,
                    \/ Login(t)
                    \/ \E p \in Paths : OnPath(t, p)
                    \/ \E content \in Contents \ {Empty} : Write(t, content)
                    \/ Close(t)
             PROVE  Local(t)
  BY DEF Next
<1>1. CASE Login(t)
  BY <1>1, LoginLocal
<1>2. CASE \E p \in Paths : OnPath(t, p)
  <2> PICK p \in Paths : OnPath(t, p)
    BY <1>2
  <2> QED BY CatLocal, TouchLocal, ChangeModeLocal, MakeDirLocal, MakeDirsLocal, RmLocal,
             RmdirLocal, ChangeDirLocal, OpenLocal DEF OnPath
<1>3. CASE \E content \in Contents \ {Empty} : Write(t, content)
  BY <1>3, WriteLocal
<1>4. CASE Close(t)
  BY <1>4, CloseLocal
<1> QED BY <1>1, <1>2, <1>3, <1>4

(***************************************************************************)
(* Theorems                                                                *)
(***************************************************************************)

\* The types hold of every session's filesystem: no operation, on whatever
\* state earlier ones have left, makes a malformed node or an unknown path.
THEOREM TypeCorrect == Spec => []TypeOK
<1>1. Init => TypeOK
  <2>1. FreshFs \in FsData /\ Root \in Paths /\ NoFile \in File
    BY FreshFsType, PathsAssumption, ContentsAssumption DEF Root, NoFile, File
  <2>2. Init => last \in [who: Tenants, op: Ops, path: Paths, err: Errs]
    BY <2>1 DEF Init, Ops, Errs
  <2>3. Init => /\ base \in FsData /\ layer \in [Tenants -> FsData]
                /\ cwd \in [Tenants -> Paths] /\ file \in [Tenants -> File]
                /\ hung \in [Tenants -> BOOLEAN]
    BY <2>1, ImageAssumption DEF Init
  <2> QED BY <2>2, <2>3 DEF TypeOK
<1>2. TypeOK /\ [Next]_vars => TypeOK'
  <2> SUFFICES ASSUME TypeOK, [Next]_vars PROVE TypeOK'
    OBVIOUS
  <2>1. CASE Next
    BY <2>1, NextLocal DEF Local
  <2>2. CASE UNCHANGED vars
    BY <2>2 DEF vars, TypeOK
  <2> QED BY <2>1, <2>2
<1> QED BY <1>1, <1>2, PTL DEF Spec

\* What a tenant sees is a function of the image and its own layer.
LEMMA OwnView ==
    ASSUME NEW u \in Tenants, NEW p \in Paths, base' = base, layer'[u] = layer[u]
    PROVE  Seen(u, p)' = Seen(u, p) /\ Listed(u, p)' = Listed(u, p)
BY DEF Seen, Listed, Reachable

\* The sandbox: no step of any session, of any number of them, changes the
\* shared image or anything another session can see.
THEOREM SandboxHolds == Spec => Sandbox
<1>1. TypeOK /\ [Next]_vars =>
        [ /\ base' = base
          /\ \A u \in Tenants \ {last'.who} : \A p \in Paths :
                /\ Seen(u, p)' = Seen(u, p)
                /\ Listed(u, p)' = Listed(u, p) ]_vars
  <2> SUFFICES ASSUME TypeOK, Next
               PROVE  /\ base' = base
                      /\ \A u \in Tenants \ {last'.who} : \A p \in Paths :
                            /\ Seen(u, p)' = Seen(u, p)
                            /\ Listed(u, p)' = Listed(u, p)
    OBVIOUS
  <2> PICK t \in Tenants : Local(t)
    BY NextLocal
  <2>1. base' = base /\ \A u \in Tenants \ {last'.who} : layer'[u] = layer[u]
    BY DEF Local
  <2> QED BY <2>1, OwnView
<1> QED BY <1>1, TypeCorrect, PTL DEF Spec, Sandbox

\* The image is never modified, so that every session starts from the same files.
THEOREM ImageIntact == Spec => [](base = Image)
<1>1. Init => base = Image
  BY DEF Init
<1>2. TypeOK /\ base = Image /\ [Next]_vars => (base = Image)'
  BY NextLocal DEF Local, vars
<1> QED BY <1>1, <1>2, TypeCorrect, PTL DEF Spec

(***************************************************************************)
(* What a layer may hide                                                   *)
(***************************************************************************)

\* No file of the layer hides a directory of the image.
KeepsDirs(l) == \A p \in Paths : Image[p].kind = "dir" => l[p].kind # "file"

\* A layer that differs in attributes only is as tidy as it was.
LEMMA AlikeSame ==
    ASSUME NEW l, NEW m, Alike(l, m)
    PROVE  /\ \A q \in Paths : SameEntry(m[q], l[q])
           /\ KeepsDirs(l) => KeepsDirs(m)
           /\ Tidy(l) => Tidy(m)
BY AlikeTidy DEF KeepsDirs, SameEntry

\* Writing a file.
LEMMA WriteFileDoes ==
    ASSUME NEW l \in FsData, NEW p \in Paths, l[p].kind = "file", NEW content \in Contents,
           NEW m, m = WriteFile(l, p, content)
    PROVE  /\ m[p].kind = "file" /\ m[p].content = content
           /\ \A q \in Paths \ {p} : SameEntry(m[q], l[q])
           /\ KeepsDirs(l) => KeepsDirs(m)
           /\ Tidy(l) => Tidy(m)
<1>1. /\ m[p].kind = "file" /\ m[p].content = content
      /\ \A q \in Paths \ {p} : SameEntry(m[q], l[q])
      /\ Tidy(l) => Tidy(m)
  BY WriteFileIs
<1>2. \A q \in Paths : m[q].kind = l[q].kind
  BY <1>1 DEF SameEntry
<1> QED BY <1>1, <1>2 DEF KeepsDirs

\* Removing a file of the layer; that its directory is missing is ruled out by
\* the image, which has a root.
LEMMA RemoveNodeDoes ==
    ASSUME NEW l \in FsData, NEW p \in Paths, NEW r, r = RemoveNode(l, p)
    PROVE  /\ \A q \in Paths \ {p} : SameEntry(r.data[q], l[q])
           /\ r.err = "ok" => r.data[p].kind = "none" /\ r.data[p].content = Empty
           /\ r.err # "ok" => SameEntry(r.data[p], l[p])
           /\ l[p].kind # "none" /\ l[Parent(p)].kind = "dir" => r.err = "ok"
           /\ KeepsDirs(l) => KeepsDirs(r.data)
           /\ Tidy(l) /\ KeepsDirs(l) =>
                 r.err \in {"ok", "noent"} /\ (l[p].kind # "none" => l[Parent(p)].kind = "dir")
           /\ Tidy(l) /\ Children(l, p) = {} /\ (l[p].kind # "none" => l[Parent(p)].kind = "dir")
                 => Tidy(r.data)
<1>1. KeepsDirs(l) => l[Root].kind # "file"
  BY RootIs, ImageAssumption DEF KeepsDirs
<1>2. /\ \A q \in Paths \ {p} : SameEntry(r.data[q], l[q])
      /\ r.err = "ok" => r.data[p].kind = "none"
      /\ r.err # "ok" => SameEntry(r.data[p], l[p])
  BY RemoveNodeIs
<1>3. KeepsDirs(l) => KeepsDirs(r.data)
  BY <1>2 DEF KeepsDirs, SameEntry
<1> QED BY <1>1, <1>3, RemoveNodeIs

(***************************************************************************)
(* A layer over the image                                                  *)
(***************************************************************************)

\* What the session sees at a path of its layer that resolves.
View(l, q) == StatNode(Image, l, q)

\* The session sees the same at q through m as through l.
Kept(l, m, q) == SameEntry(View(m, q), View(l, q))

\* What was right with l is right with m.
Sound(l, m) ==
    /\ KeepsDirs(l) => KeepsDirs(m)
    /\ KeepsDirs(l) /\ Tidy(l) => Tidy(m)

\* What the layer itself has at q is what it had.
Stays(l, m, q) == l[q].kind # "none" => SameEntry(m[q], l[q])

\* From l to m nothing a session sees has changed.
Quiet(l, m) ==
    /\ Sound(l, m)
    /\ \A q \in Paths : Kept(l, m, q) /\ Stays(l, m, q)

\* What ImageAssumption says of one path.
LEMMA ImageNodes ==
    ASSUME NEW p \in Paths
    PROVE  /\ Image[p] \in Node /\ Image[p].kind \in Kinds
           /\ Image[p].kind # "none" => \A q \in Prefixes(p) \ {p} : Image[q].kind = "dir"
           /\ Image[p].kind # "none" => Image[Parent(p)].kind = "dir"
           /\ Image[p].kind # "file" => Image[p].content = Empty
<1>1. Image[p] \in Node /\ Image[p].kind \in Kinds
  BY ImageAssumption DEF FsData, Node
<1>2. p = Root \/ Parent(p) \in Prefixes(p) \ {p}
  BY PathsClosed, ParentIs, PrefixOrder
<1> QED BY <1>1, <1>2, ImageAssumption, RootIs

\* An entry of the layer that is the same is seen the same.
LEMMA SameKept ==
    ASSUME NEW l, NEW m, NEW q \in Paths, SameEntry(m[q], l[q])
    PROVE  Kept(l, m, q) /\ Stays(l, m, q)
BY DEF SameEntry, Kept, Stays, View, StatNode

\* Attributes are not seen.
LEMMA AlikeQuiet ==
    ASSUME NEW l, NEW m, Alike(l, m)
    PROVE  Quiet(l, m)
BY AlikeSame, SameKept DEF Quiet, Sound

\* Two quiet changes are one.
LEMMA QuietTwice ==
    ASSUME NEW l, NEW m, NEW n, Quiet(l, m), Quiet(m, n)
    PROVE  Quiet(l, n)
BY DEF Quiet, Sound, Kept, Stays, SameEntry

\* Making the directories on the way to something the image has.
LEMMA ParentsQuiet ==
    ASSUME NEW l \in FsData, NEW p \in Paths, NEW mode, NEW r, r = MkdirAll(l, p, mode),
           Image[p].kind = "dir"
    PROVE  Quiet(l, r.data)
<1>1. ASSUME NEW q \in Paths PROVE Kept(l, r.data, q) /\ Stays(l, r.data, q)
  <2>1. CASE SameEntry(r.data[q], l[q])
    BY <2>1, SameKept
  <2>2. CASE /\ q \in Prefixes(p) /\ l[q].kind = "none"
             /\ r.data[q].kind = "dir" /\ r.data[q].content = Empty
    <3>1. Image[q].kind = "dir" /\ Image[q].content = Empty
      BY <2>2, ImageNodes
    <3> QED BY <2>2, <3>1 DEF Kept, Stays, SameEntry, View, StatNode
  <2> QED BY <2>1, <2>2, MkdirAllDoes
<1>2. KeepsDirs(l) => KeepsDirs(r.data)
  BY MkdirAllDoes DEF KeepsDirs, SameEntry
<1>3. Tidy(l) => Tidy(r.data)
  BY MkdirAllDoes
<1> QED BY <1>1, <1>2, <1>3 DEF Quiet, Sound

\* Copying up changes nothing a session sees, whether it succeeds or fails.
LEMMA CopyToLayerDoes ==
    ASSUME NEW l \in FsData, NEW p \in Paths, IsBaseFile(Image, l, p),
           NEW r, r = CopyToLayer(Image, l, p)
    PROVE  /\ Quiet(l, r.layer)
           /\ r.err \in {"ok", "noent", "notdir", "isdir", "io"}
           /\ r.err = "ok" => r.layer[p].kind = "file" /\ Image[p].kind = "file"
           /\ Tidy(l) /\ r.err = "noent" => l[Root].kind = "none" /\ Alike(l, r.layer)
           /\ Tidy(l) /\ l[Root].kind = "none" => r.err # "ok"
<1> DEFINE up    == IF l[Parent(p)].kind = "none"
                    THEN MkdirAll(l, Parent(p), "0777") ELSE Done(l)
           fresh == CreateFile(up.data, p)
           undo  == RemoveNode(fresh.data, p)
           copy  == [fresh.data[p] EXCEPT !.content = Image[p].content, !.mtime = Image[p].mtime]
           whole == [fresh.data EXCEPT ![p] = copy]
<1>1. l[p].kind = "none" /\ Image[p].kind \in {"file", "dir"} /\ Parent(p) \in Paths
  BY ImageNodes, PathsClosed DEF IsBaseFile, Kinds
<1>2. Image[Parent(p)].kind = "dir"
  BY <1>1, ImageNodes
<1>3. up \in MapResult /\ fresh \in MapResult
  <2>1. up \in MapResult
    BY <1>1, MkdirAllType DEF Done, MapResult, Errs, Modes
  <2> HIDE DEF up
  <2> QED BY <2>1, CreateFileType DEF MapResult
<1>4. /\ Quiet(l, up.data)
      /\ up.err \in {"ok", "noent", "notdir"}
      /\ up.err = "ok" => up.data[Parent(p)].kind # "none"
      /\ Tidy(l) /\ up.err # "ok" => Alike(l, up.data)
      /\ up.err = "noent" => l[Root].kind = "none"
      /\ Tidy(l) /\ l[Root].kind = "none" => up.err # "ok"
  <2>1. CASE l[Parent(p)].kind = "none"
    <3>1. up = MkdirAll(l, Parent(p), "0777")
      BY <2>1
    <3> HIDE DEF up
    <3>2. Quiet(l, up.data)
      BY <3>1, <1>1, <1>2, ParentsQuiet
    <3> QED BY <3>1, <3>2, <1>1, MkdirAllDoes, PrefixOrder
  <2>2. CASE l[Parent(p)].kind # "none"
    <3>1. up.err = "ok" /\ up.data = l
      BY <2>2 DEF Done
    <3> HIDE DEF up
    <3>2. Tidy(l) => l[Root].kind # "none"
      BY <2>2, <1>1, PrefixOrder DEF Tidy, Rooted
    <3> QED BY <2>2, <3>1, <3>2, AttributesAlike, AlikeQuiet
  <2> QED BY <2>1, <2>2
<1>5. up.data[p].kind = "none"
  <2>1. CASE p = Root
    <3>1. l[Parent(p)].kind = "none"
      BY <2>1, <1>1, RootIs
    <3>2. up = MkdirAll(l, Parent(p), "0777")
      BY <3>1
    <3> HIDE DEF up
    <3>3. up.data[p] = [l[p] EXCEPT !.kids = @ \cup {k \in Made(l, Parent(p)) : Parent(k) = p}]
      BY <3>2, <2>1, <1>1, MadeIs DEF MkdirAll
    <3> QED BY <3>3, <1>1 DEF FsData, Node
  <2>2. CASE p # Root
    <3>1. p \notin Prefixes(Parent(p))
      BY <2>2, ParentIs
    <3> QED BY <3>1, <1>1, MkdirAllDoes DEF SameEntry, Done
  <2> QED BY <2>1, <2>2
<1> HIDE DEF up
<1>6. /\ fresh.err \in {"ok", "notdir", "isdir", "noent"}
      /\ up.err = "ok" => fresh.err # "noent"
      /\ fresh.err # "ok" => Quiet(l, fresh.data)
      /\ fresh.err = "ok" => /\ fresh.data[p].kind = "file"
                             /\ \A q \in Paths \ {p} : SameEntry(fresh.data[q], up.data[q])
                             /\ p # Root /\ up.data[Parent(p)].kind = "dir"
      /\ Tidy(up.data) => Tidy(fresh.data)
  <2>1. up.data \in FsData
    BY <1>3 DEF MapResult
  <2>2. /\ fresh.err # "ok" => Alike(up.data, fresh.data)
        /\ fresh.err = "ok" => /\ fresh.data[p].kind = "file"
                               /\ \A q \in Paths \ {p} : SameEntry(fresh.data[q], up.data[q])
                               /\ p # Root /\ up.data[Parent(p)].kind = "dir"
        /\ Tidy(up.data) => Tidy(fresh.data)
        /\ fresh.err \in {"ok", "noent", "notdir", "isdir"}
        /\ fresh.err = "noent" => up.data[Parent(p)].kind = "none"
    BY <2>1, <1>5, CreateFileDoes
  <2> HIDE DEF fresh
  <2> QED BY <2>2, <1>4, AlikeQuiet, QuietTwice
<1> HIDE DEF fresh
<1>7. fresh.data \in FsData
  BY <1>3 DEF MapResult
<1>8. CASE up.err # "ok"
  <2>1. r.layer = up.data /\ r.err = up.err
    BY <1>8 DEF CopyToLayer, Result, up
  <2> QED BY <2>1, <1>4, <1>8
<1>9. CASE up.err = "ok" /\ fresh.err # "ok"
  <2>1. r.layer = fresh.data /\ r.err = fresh.err
    BY <1>9 DEF CopyToLayer, Result, up, fresh
  <2> QED BY <2>1, <1>4, <1>6, <1>9
<1>10. CASE up.err = "ok" /\ fresh.err = "ok" /\ Image[p].kind = "dir"
  <2>1. r.layer = undo.data /\ r.err = "io"
    BY <1>10 DEF CopyToLayer, Result, up, fresh
  <2>2. fresh.data[p].kind # "none" /\ fresh.data[Parent(p)].kind = "dir"
    BY <1>1, <1>6, <1>10, ParentIs DEF SameEntry
  <2>3. /\ \A q \in Paths \ {p} : SameEntry(undo.data[q], fresh.data[q])
        /\ undo.data[p].kind = "none" /\ undo.data[p].content = Empty
    BY <1>7, <2>2, RemoveNodeDoes
  <2>4. \A q \in Paths : Kept(l, undo.data, q) /\ Stays(l, undo.data, q)
    <3>1. Kept(l, undo.data, p) /\ Stays(l, undo.data, p)
      BY <2>3, <1>1 DEF Kept, Stays, View, StatNode, SameEntry
    <3>2. \A q \in Paths \ {p} : SameEntry(undo.data[q], up.data[q])
      BY <2>3, <1>6, <1>10 DEF SameEntry
    <3> HIDE DEF undo
    <3> QED BY <3>1, <3>2, <1>4 DEF Quiet, Kept, Stays, View, StatNode, SameEntry
  <2>5. ASSUME KeepsDirs(l) PROVE KeepsDirs(undo.data)
    <3>1. KeepsDirs(up.data)
      BY <2>5, <1>4 DEF Quiet, Sound
    <3> HIDE DEF undo
    <3> QED BY <3>1, <2>3, <1>6, <1>10 DEF KeepsDirs, SameEntry
  <2>6. ASSUME KeepsDirs(l), Tidy(l) PROVE Tidy(undo.data)
    <3>1. Tidy(fresh.data) /\ KeepsDirs(up.data) /\ Tidy(up.data)
      BY <2>6, <1>4, <1>6 DEF Quiet, Sound
    <3>2. Children(fresh.data, p) = {}
      <4>1. ASSUME NEW k \in Paths \ {Root}, Parent(k) = p PROVE fresh.data[k].kind = "none"
        <5>1. p \in Prefixes(k) /\ p # k
          BY <4>1, ParentIs, PathsClosed, PrefixOrder
        <5> QED BY <5>1, <3>1, <1>6, <1>10, NothingBelow
      <4> QED BY <4>1 DEF Children
    <3> QED BY <3>1, <3>2, <2>2, <1>7, RemoveNodeDoes
  <2> QED BY <2>1, <2>4, <2>5, <2>6, <1>4, <1>10 DEF Quiet, Sound
<1>11. CASE up.err = "ok" /\ fresh.err = "ok" /\ Image[p].kind = "file"
  <2>1. r.layer = whole /\ r.err = "ok"
    BY <1>11 DEF CopyToLayer, Result, up, fresh
  <2>2. /\ whole[p].kind = "file" /\ whole[p].content = Image[p].content
        /\ whole[p].kids = fresh.data[p].kids /\ whole[p].stuck = fresh.data[p].stuck
        /\ \A q \in Paths \ {p} : whole[q] = fresh.data[q]
    BY <1>6, <1>7, <1>11 DEF FsData, Node
  <2> HIDE DEF whole
  <2>3. \A q \in Paths : Kept(l, whole, q) /\ Stays(l, whole, q)
    <3>1. Kept(l, whole, p) /\ Stays(l, whole, p)
      BY <2>2, <1>1, <1>11 DEF Kept, Stays, View, StatNode, SameEntry
    <3>2. \A q \in Paths \ {p} : SameEntry(whole[q], up.data[q])
      BY <2>2, <1>6, <1>11 DEF SameEntry
    <3> QED BY <3>1, <3>2, <1>4 DEF Quiet, Kept, Stays, View, StatNode, SameEntry
  <2>4. ASSUME KeepsDirs(l) PROVE KeepsDirs(whole)
    <3>1. KeepsDirs(up.data)
      BY <2>4, <1>4 DEF Quiet, Sound
    <3> QED BY <3>1, <2>2, <1>6, <1>11 DEF KeepsDirs, SameEntry
  <2>5. ASSUME KeepsDirs(l), Tidy(l) PROVE Tidy(whole)
    <3>1. Tidy(fresh.data)
      BY <2>5, <1>4, <1>6 DEF Quiet, Sound
    <3>2. \A q \in Paths : whole[q].kind = fresh.data[q].kind
      BY <2>2, <1>6, <1>11
    <3>3. Rooted(whole)
      BY <3>1, <3>2, PathsClosed DEF Tidy, Rooted
    <3>4. \A q : Children(whole, q) = Children(fresh.data, q)
      BY <3>2 DEF Children
    <3> QED BY <3>1, <3>3, <3>4, <2>2 DEF Tidy
  <2> QED BY <2>1, <2>2, <2>3, <2>4, <2>5, <1>4, <1>11 DEF Quiet, Sound
<1> QED BY <1>1, <1>8, <1>9, <1>10, <1>11

(***************************************************************************)
(* The copy-on-write operations                                            *)
(***************************************************************************)

\* chmod and chtimes of the union change nothing but attributes.  They miss a
\* name the image has only when the layer has no root, and then they change nothing.
LEMMA AttributesQuiet ==
    ASSUME NEW l \in FsData, NEW p \in Paths, NEW mode \in Modes, NEW r,
           r = Chtimes(Image, l, p) \/ r = Chmod(Image, l, p, mode)
    PROVE  /\ Quiet(l, r.layer)
           /\ r.err \notin {"panic", "hang"}
           /\ r.err = "noent" => l[p].kind = "none"
           /\ r.err = "noent" /\ Tidy(l) /\ Image[p].kind # "none" =>
                 l[Root].kind = "none" /\ Alike(l, r.layer)
<1> DEFINE u == CopyUp(Image, l, p)
<1>0. Image \in FsData
  BY ImageAssumption
<1>1. /\ u \in CowResult(Image) /\ u.layer \in FsData
      /\ Quiet(l, u.layer)
      /\ u.err \in {"ok", "noent", "notdir", "isdir", "io"}
      /\ u.err # "ok" => l[p].kind = "none"
      /\ Tidy(l) /\ u.err = "noent" => l[Root].kind = "none" /\ Alike(l, u.layer)
      /\ u.err = "ok" /\ Image[p].kind # "none" => u.layer[p].kind # "none"
      /\ u.err = "ok" /\ l[p].kind # "none" => u.layer[p].kind # "none"
  <2>1. u \in CowResult(Image)
    BY <1>0, CopyUpResult
  <2>2. CASE IsBaseFile(Image, l, p)
    <3>1. u = CopyToLayer(Image, l, p) /\ l[p].kind = "none"
      BY <2>2 DEF CopyUp, IsBaseFile
    <3> HIDE DEF u
    <3> QED BY <2>1, <2>2, <3>1, CopyToLayerDoes DEF CowResult
  <2>3. CASE ~IsBaseFile(Image, l, p)
    <3>1. u.layer = l /\ u.err = "ok"
      BY <2>3 DEF CopyUp, Result
    <3> HIDE DEF u
    <3> QED BY <2>1, <2>3, <3>1, AttributesAlike, AlikeQuiet DEF IsBaseFile
  <2> QED BY <2>2, <2>3
<1>2. CASE u.err # "ok"
  <2>1. r = u
    BY <1>2 DEF Chtimes, Chmod
  <2> HIDE DEF u
  <2> QED BY <2>1, <1>1, <1>2
<1>3. CASE u.err = "ok"
  <2>1. PICK s \in {SetTime(u.layer, p), SetMode(u.layer, p, mode)} :
            r.layer = s.data /\ r.err = s.err
    BY <1>3 DEF Chtimes, Chmod, InLayer, Result
  <2> HIDE DEF u
  <2>2. Alike(u.layer, s.data)
    BY <1>1, AttributesAlike
  <2>3. s.err \in {"ok", "noent"} /\ (s.err = "noent" => u.layer[p].kind = "none")
    BY DEF SetTime, SetMode, Done, Fail
  <2>4. Quiet(l, r.layer)
    BY <2>1, <2>2, <1>1, AlikeQuiet, QuietTwice
  <2> QED BY <2>1, <2>3, <2>4, <1>1, <1>3
<1> QED BY <1>2, <1>3

\* Reading changes nothing, and finds the file or does not.
LEMMA ReadFileDoes ==
    ASSUME NEW l \in FsData, NEW p \in Paths, NEW r, r = ReadFile(Image, l, p)
    PROVE  Quiet(l, r.layer) /\ r.err \in {"ok", "noent"}
<1>1. ~Exists(Image, l, p) \/ IsBaseFile(Image, l, p) \/ l[p].kind # "none"
  BY DEF Exists, IsBaseFile, StatNode
<1>2. r.err \in {"ok", "noent"} /\ r.layer \in {l, CloseFile(l, p, OpensReadOnly("rdonly"))}
  BY <1>1 DEF ReadFile, Result
<1> QED BY <1>2, AttributesAlike, AlikeQuiet

\* The layer m is l, with an empty file at p.
Emptied(l, m, p) ==
    /\ m[p].kind = "file" /\ m[p].content = Empty
    /\ \A q \in Paths \ {p} : Kept(l, m, q) /\ Stays(l, m, q)

\* Create of the union: an empty file at p and everything else as it was, or an
\* error and everything as it was.  It hides no directory of the image.
LEMMA CreateDoes ==
    ASSUME NEW l \in FsData, NEW p \in Paths, NEW r, r = Create(Image, l, p)
    PROVE  /\ Sound(l, r.layer)
           /\ r.err = "ok" => Emptied(l, r.layer, p)
           /\ r.err # "ok" => Quiet(l, r.layer)
           /\ r.err \notin {"panic", "hang"}
           /\ Tidy(l) /\ Image[p].kind # "none" /\ l[Root].kind = "none" => r.err # "ok"
<1>0. Parent(p) \in Paths /\ Image \in FsData
  BY PathsClosed, ImageAssumption
<1>1. ASSUME NEW m \in FsData, Quiet(l, m), NEW c, c = CreateFile(m, p),
             Image[p].kind # "dir" \/ m[p].kind # "none"
      PROVE  /\ Sound(l, c.data)
             /\ c.err = "ok" => Emptied(l, c.data, p)
             /\ c.err # "ok" => Quiet(l, c.data)
             /\ c.err \notin {"panic", "hang"}
  <2>1. /\ c.err # "ok" => Alike(m, c.data)
        /\ c.err = "ok" => /\ c.data[p].kind = "file" /\ c.data[p].content = Empty
                           /\ \A q \in Paths \ {p} : SameEntry(c.data[q], m[q])
        /\ Tidy(m) => Tidy(c.data)
        /\ c.err \in {"ok", "noent", "notdir", "isdir"}
    BY <1>1, CreateFileDoes
  <2>2. c.err # "ok" => Quiet(l, c.data)
    BY <2>1, <1>1, AlikeQuiet, QuietTwice
  <2>3. ASSUME c.err = "ok" PROVE Emptied(l, c.data, p)
    <3>1. ASSUME NEW q \in Paths \ {p} PROVE Kept(l, c.data, q) /\ Stays(l, c.data, q)
      <4>1. Kept(m, c.data, q) /\ Stays(m, c.data, q)
        BY <2>1, <2>3, SameKept
      <4> QED BY <4>1, <1>1 DEF Quiet, Kept, Stays, SameEntry
    <3> QED BY <3>1, <2>1, <2>3 DEF Emptied
  <2>4. ASSUME c.err = "ok", KeepsDirs(m) PROVE KeepsDirs(c.data)
    <3>1. Image[p].kind # "dir"
      <4> SUFFICES ASSUME Image[p].kind = "dir" PROVE FALSE
        OBVIOUS
      <4>1. m[p].kind \notin {"none", "file"}
        BY <1>1, <2>4 DEF KeepsDirs
      <4>2. m[p].kind = "dir"
        BY <4>1 DEF FsData, Node, Kinds
      <4> QED BY <4>2, <2>4, <1>1 DEF CreateFile, Fail
    <3> QED BY <3>1, <2>1, <2>4 DEF KeepsDirs, SameEntry
  <2> QED BY <2>1, <2>2, <2>3, <2>4, <1>1 DEF Quiet, Sound
<1>2. CASE IsBaseFile(Image, l, p)
  <2> DEFINE up == CopyToLayer(Image, l, p)
  <2>1. /\ Quiet(l, up.layer) /\ up.layer \in FsData
        /\ up.err \in {"ok", "noent", "notdir", "isdir", "io"}
        /\ up.err = "ok" => up.layer[p].kind = "file"
        /\ Tidy(l) /\ l[Root].kind = "none" => up.err # "ok"
    <3>1. up \in CowResult(Image)
      BY <1>0, CopyToLayerResult
    <3> HIDE DEF up
    <3>2. up.layer \in FsData
      BY <3>1 DEF CowResult
    <3> QED BY <3>2, <1>2, CopyToLayerDoes DEF up
  <2>2. CASE up.err # "ok"
    <3>1. r = up
      BY <1>2, <2>2 DEF Create
    <3> HIDE DEF up
    <3> QED BY <3>1, <2>1, <2>2 DEF Quiet
  <2>3. CASE up.err = "ok"
    <3>1. r.layer = CreateFile(up.layer, p).data /\ r.err = CreateFile(up.layer, p).err
      BY <1>2, <2>3 DEF Create, InLayer, Result
    <3> HIDE DEF up
    <3> QED BY <3>1, <2>1, <2>3, <1>1
  <2> QED BY <2>2, <2>3
<1>3. CASE ~IsBaseFile(Image, l, p) /\ Image[Parent(p)].kind = "dir"
  <2> DEFINE parent == MkdirAll(l, Parent(p), "0777")
  <2>1. /\ Quiet(l, parent.data) /\ parent.data \in FsData
        /\ parent.err \in {"ok", "noent", "notdir"}
        /\ l[Root].kind = "none" => parent.err # "ok"
    <3>1. parent \in MapResult
      BY <1>0, MkdirAllType DEF Modes
    <3>2. parent.data \in FsData
      <4> HIDE DEF parent
      <4> QED BY <3>1 DEF MapResult
    <3>3. Quiet(l, parent.data)
      BY <1>0, <1>3, ParentsQuiet
    <3>4. /\ parent.err \in {"ok", "noent", "notdir"}
          /\ l[Root].kind = "none" => parent.err # "ok"
      BY <1>0, MkdirAllDoes
    <3> QED BY <3>2, <3>3, <3>4
  <2>2. Image[p].kind # "dir" \/ parent.data[p].kind # "none"
    <3>1. Image[p].kind = "none" \/ l[p].kind # "none"
      BY <1>3 DEF IsBaseFile
    <3> HIDE DEF parent
    <3> QED BY <3>1, <2>1 DEF Quiet, Stays, SameEntry
  <2>3. CASE parent.err # "ok"
    <3>1. r.layer = parent.data /\ r.err = parent.err
      BY <1>3, <2>3 DEF Create, InLayer, Result
    <3> HIDE DEF parent
    <3> QED BY <3>1, <2>1, <2>3 DEF Quiet
  <2>4. CASE parent.err = "ok"
    <3>1. r.layer = CreateFile(parent.data, p).data /\ r.err = CreateFile(parent.data, p).err
      BY <1>3, <2>4 DEF Create, InLayer, Result
    <3> HIDE DEF parent
    <3> QED BY <3>1, <2>1, <2>2, <2>4, <1>1
  <2> QED BY <2>3, <2>4
<1>4. CASE ~IsBaseFile(Image, l, p) /\ Image[Parent(p)].kind # "dir"
  <2>1. l[Parent(p)].kind \in Kinds
    BY <1>0 DEF FsData, Node
  <2>2. \/ r.layer = l /\ r.err \in {"noent", "notdir"}
        \/ /\ r.layer = CreateFile(l, p).data /\ r.err = CreateFile(l, p).err
           /\ l[Parent(p)].kind = "dir"
    <3>1. CASE l[Parent(p)].kind = "none"
      <4>1. r = Result(Image, l, "noent")
        BY <1>4, <3>1 DEF Create
      <4> QED BY <4>1 DEF Result
    <3>2. CASE l[Parent(p)].kind = "file"
      <4>1. r = Result(Image, l, "notdir")
        BY <1>4, <3>2 DEF Create
      <4> QED BY <4>1 DEF Result
    <3>3. CASE l[Parent(p)].kind = "dir"
      <4>1. r = InLayer(Image, CreateFile(l, p))
        BY <1>4, <3>3 DEF Create
      <4> QED BY <4>1, <3>3 DEF InLayer, Result
    <3> QED BY <2>1, <3>1, <3>2, <3>3 DEF Kinds
  <2>3. Image[p].kind = "none"
    BY <1>4, ImageNodes
  <2>4. Quiet(l, l)
    BY AttributesAlike, AlikeQuiet
  <2> QED BY <2>2, <2>3, <2>4, <1>1 DEF Quiet
<1> QED BY <1>2, <1>3, <1>4

\* Mkdir of the union: directories on the way to p that were not in the layer,
\* and everything else as it was.
LEMMA MkdirDoes ==
    ASSUME NEW l \in FsData, NEW p \in Paths, NEW r, r = Mkdir(Image, l, p)
    PROVE  /\ Sound(l, r.layer)
           /\ \A q \in Paths : /\ Stays(l, r.layer, q)
                               /\ \/ Kept(l, r.layer, q)
                                  \/ /\ q \in Prefixes(p) /\ l[q].kind = "none"
                                     /\ r.layer[q].kind = "dir"
           /\ r.err \in {"ok", "exist", "noent", "notdir"}
           /\ Tidy(l) /\ r.err # "ok" => Quiet(l, r.layer)
<1>1. CASE Image[p].kind = "dir"
  <2>1. r.layer = l /\ r.err = "exist"
    BY <1>1 DEF Mkdir, Result
  <2> QED BY <2>1, AttributesAlike, AlikeQuiet DEF Quiet
<1>2. CASE Image[p].kind # "dir"
  <2> DEFINE u == MkdirAll(l, p, "0777")
  <2>1. r.layer = u.data /\ r.err = u.err
    BY <1>2 DEF Mkdir, InLayer, Result
  <2>2. /\ \A q \in Paths :
              \/ SameEntry(u.data[q], l[q])
              \/ /\ q \in Prefixes(p) /\ l[q].kind = "none" /\ u.data[q].kind = "dir"
        /\ u.err \in {"ok", "noent", "notdir"}
        /\ Tidy(l) => Tidy(u.data)
        /\ Tidy(l) /\ u.err # "ok" => Alike(l, u.data)
    BY MkdirAllDoes
  <2> HIDE DEF u
  <2>3. Sound(l, u.data)
    BY <2>2 DEF Sound, KeepsDirs, SameEntry
  <2>4. ASSUME NEW q \in Paths
        PROVE  /\ Stays(l, u.data, q)
               /\ \/ Kept(l, u.data, q)
                  \/ q \in Prefixes(p) /\ l[q].kind = "none" /\ u.data[q].kind = "dir"
    BY <2>2, SameKept DEF Stays
  <2> QED BY <2>1, <2>2, <2>3, <2>4, AlikeQuiet
<1> QED BY <1>1, <1>2

\* Remove of the union acts on the layer only.
LEMMA RemoveDoes ==
    ASSUME NEW l \in FsData, NEW p \in Paths, NEW r, r = Remove(Image, l, p)
    PROVE  /\ KeepsDirs(l) => KeepsDirs(r.layer)
           /\ \A q \in Paths \ {p} : SameEntry(r.layer[q], l[q])
           /\ r.err # "ok" => SameEntry(r.layer[p], l[p])
           /\ r.err = "ok" => r.layer[p].kind = "none" /\ r.layer[p].content = Empty
           /\ Tidy(l) /\ KeepsDirs(l) =>
                 /\ r.err \in {"ok", "noent"}
                 /\ Children(l, p) = {} => Tidy(r.layer)
<1> DEFINE u == RemoveNode(l, p)
<1>1. r.layer = u.data /\ r.err = u.err
  BY DEF Remove, InLayer, Result
<1>2. /\ \A q \in Paths \ {p} : SameEntry(u.data[q], l[q])
      /\ u.err = "ok" => u.data[p].kind = "none" /\ u.data[p].content = Empty
      /\ u.err # "ok" => SameEntry(u.data[p], l[p])
      /\ KeepsDirs(l) => KeepsDirs(u.data)
      /\ Tidy(l) /\ KeepsDirs(l) =>
            /\ u.err \in {"ok", "noent"}
            /\ Children(l, p) = {} => Tidy(u.data)
  BY RemoveNodeDoes
<1> HIDE DEF u
<1> QED BY <1>1, <1>2

(***************************************************************************)
(* The invariant, and commands that change no entry                        *)
(***************************************************************************)

\* An open redirection whose file is still there finds in it what it wrote.
RedirectionKept(t) ==
    file[t].open /\ file[t].attached =>
        /\ layer[t][file[t].path].kind = "file"
        /\ layer[t][file[t].path].content = file[t].wrote

\* What holds of every tenant.
TenantInv(t) ==
    /\ KeepsDirs(layer[t])
    /\ RedirectionKept(t)
    /\ ~Recursive => Tidy(layer[t])

\* The inductive invariant.
TreeInv ==
    /\ TypeOK
    /\ base = Image
    /\ \A t \in Tenants : TenantInv(t)

\* What a step of t reports and what it changed, in terms of the layers.
Outcome(t) ==
    /\ last'.who = t
    /\ last'.err # "ok" => \A q \in Paths : Kept(layer[t], layer'[t], q)
    /\ last'.op # "login" =>
          \A q \in Paths :
              \/ Kept(layer[t], layer'[t], q)
              \/ q = Target
              \/ /\ q \in Prefixes(Target) /\ layer[t][q].kind = "none"
                 /\ layer'[t][q].kind = "dir"
                 /\ last'.op \in {"mkdir", "mkdir -p"}
    /\ last'.op \in {"cat", "chmod", "touch"} =>
          \A q \in Paths : View(layer[t], q).kind # "none" => Kept(layer[t], layer'[t], q)
    /\ last'.op \in {"rm", "rmdir"} /\ last'.err = "ok" =>
          layer'[t][last'.path].kind = "none"
    /\ last'.err \in {"panic", "hang"} => last'.op = "touch"

\* A step of t as it should be.
Proper(t) == TenantInv(t)' /\ (~Recursive => Outcome(t))

\* A file that is still a file has the content it had.
FilesStay(l, m) ==
    \A q \in Paths : l[q].kind = "file" /\ m[q].kind = "file" => m[q].content = l[q].content

\* Where entries stay, the contents of files do.
LEMMA QuietStays ==
    ASSUME NEW l, NEW m, \A q \in Paths : Stays(l, m, q)
    PROVE  FilesStay(l, m)
BY DEF Stays, FilesStay, SameEntry

\* Without rm -r nothing is ever stuck, and a path resolves when it exists.
LEMMA TidySeen ==
    ASSUME TypeOK, base = Image, NEW t \in Tenants, Tidy(layer[t]), NEW p \in Paths
    PROVE  /\ Reachable(t, p) <=> View(layer[t], p).kind # "none"
           /\ SameEntry(Seen(t, p), View(layer[t], p))
           /\ ~StatNode(base, layer[t], p).stuck
           /\ ~Hangs(t, p)
           /\ ~layer[t][p].stuck
<1> DEFINE l == layer[t]
<1>1. ASSUME NEW q \in Prefixes(p), View(l, p).kind # "none"
      PROVE  Exists(base, l, q)
  <2>1. q \in Paths
    BY PathsClosed
  <2>2. CASE q = p
    BY <2>2, <1>1 DEF View, Exists
  <2>3. CASE q # p /\ l[p].kind # "none"
    BY <2>1, <2>3 DEF Tidy, Rooted, Exists, StatNode
  <2>4. CASE q # p /\ l[p].kind = "none"
    <3>1. Image[q].kind = "dir"
      BY <2>4, <1>1, ImageNodes DEF View, StatNode
    <3> QED BY <3>1 DEF Exists, StatNode
  <2> QED BY <2>2, <2>3, <2>4
<1>2. Reachable(t, p) <=> View(l, p).kind # "none"
  BY <1>1, PrefixOrder DEF Reachable, Exists, View
<1>3. SameEntry(Seen(t, p), View(l, p))
  <2>1. CASE Reachable(t, p)
    BY <2>1 DEF Seen, SameEntry, View
  <2>2. CASE ~Reachable(t, p)
    <3>1. View(l, p).kind = "none"
      BY <2>2, <1>2
    <3>2. View(l, p).content = Empty
      BY <3>1, ImageNodes DEF View, StatNode
    <3> QED BY <2>2, <3>1, <3>2 DEF Seen, SameEntry, NoNode
  <2> QED BY <2>1, <2>2
<1>4. \A q \in Paths : ~StatNode(base, l, q).stuck /\ ~l[q].stuck
  BY ImageAssumption DEF StatNode, Tidy
<1> QED BY <1>2, <1>3, <1>4, PathsClosed DEF Hangs

\* A command works on a path that resolves, or reports that there is none.
LEMMA ResolvedIs ==
    ASSUME NEW t, NEW q, NEW r
    PROVE  \/ Reachable(t, q) /\ Resolved(t, q, r) = r
           \/ ~Reachable(t, q) /\ Resolved(t, q, r) = Result(base, layer[t], "noent")
BY DEF Resolved

\* A command of t that does not hang.
Ends(t, op, p, r) == Effect(t, op, p, r) /\ Detach(t, r.layer)

\* The way Run leaves the tenant.
LEMMA RunLeaves ==
    ASSUME TreeInv, NEW t \in Tenants, NEW op, NEW p, NEW r,
           Hang(t, op, p) \/ Ends(t, op, p, r),
           KeepsDirs(r.layer), FilesStay(layer[t], r.layer), ~Recursive => Tidy(r.layer)
    PROVE  /\ TenantInv(t)'
           /\ Ends(t, op, p, r) =>
                 /\ layer'[t] = r.layer
                 /\ last' = [who |-> t, op |-> op, path |-> p, err |-> r.err]
<1>1. CASE ~Ends(t, op, p, r)
  <2>1. layer' = layer /\ file' = file
    BY <1>1 DEF Hang
  <2> QED BY <2>1, <1>1 DEF TreeInv, TenantInv, RedirectionKept
<1>2. CASE Ends(t, op, p, r)
  <2>1. /\ layer'[t] = r.layer
        /\ last' = [who |-> t, op |-> op, path |-> p, err |-> r.err]
    BY <1>2 DEF Ends, Effect, Report, TreeInv, TypeOK
  <2>2. file' = [file EXCEPT ![t].attached = @ /\ r.layer[file[t].path].kind = "file"]
    BY <1>2 DEF Ends, Detach
  <2>3. file[t] \in File
    BY DEF TreeInv, TypeOK
  <2>4. /\ file'[t].open = file[t].open /\ file'[t].path = file[t].path
        /\ file'[t].wrote = file[t].wrote
        /\ file'[t].attached => file[t].attached /\ r.layer[file[t].path].kind = "file"
    BY <2>2, <2>3 DEF TreeInv, TypeOK, File
  <2>5. RedirectionKept(t)'
    BY <2>1, <2>3, <2>4 DEF TreeInv, TenantInv, RedirectionKept, FilesStay, File
  <2> QED BY <2>1, <2>5 DEF TenantInv
<1> QED BY <1>1, <1>2

\* A step that changes no entry.
LEMMA QuietStep ==
    ASSUME TreeInv, NEW t \in Tenants, NEW op \in Ops \ {"login", "rm", "rmdir"}, NEW p,
           NEW r, Hang(t, op, p) \/ Ends(t, op, p, r), Quiet(layer[t], r.layer),
           ~Recursive => Ends(t, op, p, r), r.err \in {"panic", "hang"} => op = "touch"
    PROVE  Proper(t)
<1>1. /\ KeepsDirs(r.layer) /\ (~Recursive => Tidy(r.layer))
      /\ FilesStay(layer[t], r.layer)
  BY QuietStays DEF TreeInv, TenantInv, Quiet, Sound
<1>2. /\ TenantInv(t)'
      /\ Ends(t, op, p, r) =>
            /\ layer'[t] = r.layer
            /\ last' = [who |-> t, op |-> op, path |-> p, err |-> r.err]
  BY <1>1, RunLeaves
<1>3. ASSUME ~Recursive PROVE Outcome(t)
  <2>1. /\ layer'[t] = r.layer
        /\ last'.who = t /\ last'.op = op /\ last'.path = p /\ last'.err = r.err
    BY <1>2, <1>3
  <2>2. \A q \in Paths : Kept(layer[t], layer'[t], q)
    BY <2>1 DEF Quiet
  <2> QED BY <2>1, <2>2 DEF Outcome
<1> QED BY <1>2, <1>3 DEF Proper

\* cat changes nothing.
LEMMA CatProper ==
    ASSUME TreeInv, NEW t \in Tenants, NEW p \in Paths, Cat(t, p)
    PROVE  Proper(t)
<1> DEFINE r == Resolved(t, p, ReadFile(base, layer[t], p))
<1>1. layer[t] \in FsData /\ base = Image
  BY DEF TreeInv, TypeOK
<1>2. Quiet(layer[t], r.layer) /\ r.err \in {"ok", "noent"}
  BY SMTT(30), <1>1, ReadFileDoes, ResolvedIs, AttributesAlike, AlikeQuiet DEF Result
<1>3. ~Recursive => ~Hangs(t, p)
  BY TidySeen DEF TreeInv, TenantInv
<1>4. /\ Hang(t, "cat", p) \/ Ends(t, "cat", p, r)
      /\ ~Recursive => Ends(t, "cat", p, r)
  BY <1>3 DEF Cat, Run, Ends
<1> HIDE DEF r
<1> QED BY <1>2, <1>4, QuietStep DEF Ops

\* chmod changes a mode.
LEMMA ChangeModeProper ==
    ASSUME TreeInv, NEW t \in Tenants, NEW p \in Paths, NEW mode \in ChmodModes,
           ChangeMode(t, p, mode)
    PROVE  Proper(t)
<1> DEFINE r == Resolved(t, p, Chmod(base, layer[t], p, mode))
<1>1. layer[t] \in FsData /\ base = Image /\ mode \in Modes
  BY ModesAssumption DEF TreeInv, TypeOK
<1>2. Quiet(layer[t], r.layer) /\ r.err \notin {"panic", "hang"}
  BY <1>1, AttributesQuiet, ResolvedIs, AttributesAlike, AlikeQuiet DEF Result
<1>3. ~Recursive => ~Hangs(t, p)
  BY TidySeen DEF TreeInv, TenantInv
<1>4. /\ Hang(t, "chmod", p) \/ Ends(t, "chmod", p, r)
      /\ ~Recursive => Ends(t, "chmod", p, r)
  BY <1>3 DEF ChangeMode, Run, Ends
<1> HIDE DEF r
<1> QED BY <1>2, <1>4, QuietStep DEF Ops

\* touch changes a time, or makes an empty file where the session saw nothing.  It
\* may crash, and then changes nothing.
LEMMA TouchProper ==
    ASSUME TreeInv, NEW t \in Tenants, NEW p \in Paths, NEW noCreate \in BOOLEAN,
           Touch(t, p, noCreate)
    PROVE  Proper(t)
<1> DEFINE l       == layer[t]
           times   == Resolved(t, p, Chtimes(base, l, p))
           create  == Create(times.base, times.layer, p)
           created == Resolved(t, Parent(p), create)
           closed  == [created EXCEPT !.layer = CloseFile(created.layer, p, FALSE)]
           result  == CASE times.err # "noent" -> times
                        [] times.err = "noent" /\ noCreate -> [times EXCEPT !.err = "ok"]
                        [] times.err = "noent" /\ ~noCreate /\ created.err = "ok" -> closed
                        [] OTHER -> [created EXCEPT !.err = "panic"]
<1>1. l \in FsData /\ base = Image /\ Parent(p) \in Paths /\ Image \in FsData
      /\ (~Recursive => Tidy(l)) /\ KeepsDirs(l)
  BY PathsClosed, ImageAssumption DEF TreeInv, TypeOK, TenantInv
<1>2. /\ Hang(t, "touch", p) \/ Ends(t, "touch", p, result)
      /\ ~Recursive => Ends(t, "touch", p, result)
  <2>1. Run(t, "touch", p, Hangs(t, p), result)
    BY Zenon DEF Touch
  <2>2. ~Recursive => ~Hangs(t, p)
    BY TidySeen DEF TreeInv, TenantInv
  <2> HIDE DEF result
  <2> QED BY <2>1, <2>2 DEF Run, Ends
<1>4. times \in CowResult(Image)
  <2>1. Chtimes(base, l, p) \in CowResult(base)
    BY <1>1, AttributeResults DEF Modes
  <2>2. times \in CowResult(base)
    BY <2>1, ResolvedResult DEF TreeInv
  <2> QED BY <2>2, <1>1
<1>5. /\ Quiet(l, times.layer) /\ times.err \notin {"panic", "hang"}
      /\ times.err = "noent" /\ Reachable(t, p) =>
            /\ l[p].kind = "none"
            /\ Tidy(l) /\ Image[p].kind # "none" =>
                  l[Root].kind = "none" /\ Alike(l, times.layer)
  <2>1. CASE Reachable(t, p) /\ times = Chtimes(base, l, p)
    <3>1. times = Chtimes(Image, l, p) /\ "0644" \in Modes
      BY <2>1, <1>1 DEF Modes
    <3> HIDE DEF times
    <3> QED BY <2>1, <3>1, <1>1, AttributesQuiet
  <2>2. CASE ~Reachable(t, p) /\ times = Result(base, l, "noent")
    BY <2>2, AttributesAlike, AlikeQuiet, <1>1 DEF Result
  <2> QED BY <2>1, <2>2, ResolvedIs
<1>6. times.base = Image /\ times.layer \in FsData
  <2> HIDE DEF times
  <2> QED BY <1>4 DEF CowResult
<1>7. CASE times.err # "noent" \/ noCreate
  <2>1. result.layer = times.layer /\ result.err \in {times.err, "ok"}
    <3>1. result \in {times, [times EXCEPT !.err = "ok"]}
      BY <1>7
    <3> HIDE DEF times, result
    <3> QED BY <1>4, <3>1 DEF CowResult
  <2> HIDE DEF times, result
  <2> QED BY <1>2, <1>5, <2>1, QuietStep DEF Ops
<1>8. CASE times.err = "noent" /\ ~noCreate /\ created.err # "ok"
  <2>1. result = [created EXCEPT !.err = "panic"]
    BY <1>8
  <2>2. created \in CowResult(Image)
    <3>1. create \in CowResult(Image)
      <4> HIDE DEF times
      <4> QED BY <1>1, <1>6, CreateResult
    <3>2. Result(base, l, "noent") \in CowResult(Image)
      BY <1>1 DEF Result, CowResult, Errs
    <3> HIDE DEF create
    <3> QED BY <3>1, <3>2, ResolvedIs
  <2>3. result.layer = created.layer
    <3> HIDE DEF created, result
    <3> QED BY <2>1, <2>2 DEF CowResult
  <2>4. Quiet(l, created.layer)
    <3>1. CASE created = create
      <4>1. Quiet(times.layer, create.layer)
        <5> HIDE DEF times
        <5> QED BY <1>6, <1>8, <3>1, CreateDoes
      <4> QED BY <4>1, <3>1, <1>5, QuietTwice
    <3>2. CASE created = Result(base, l, "noent")
      BY <3>2, <1>1, AttributesAlike, AlikeQuiet DEF Result
    <3> QED BY <3>1, <3>2, ResolvedIs
  <2> HIDE DEF created, result, times
  <2> QED BY <1>2, <2>3, <2>4, QuietStep DEF Ops
<1>9. CASE times.err = "noent" /\ ~noCreate /\ created.err = "ok"
  <2>1. Reachable(t, Parent(p)) /\ created = create
    <3> HIDE DEF create
    <3> QED BY <1>9, ResolvedIs DEF Result
  <2>2. /\ Sound(times.layer, created.layer) /\ Emptied(times.layer, created.layer, p)
        /\ Tidy(times.layer) /\ Image[p].kind # "none" => times.layer[Root].kind # "none"
    <3> HIDE DEF times
    <3> QED BY <2>1, <1>6, <1>9, CreateDoes
  <2>3. created \in CowResult(Image)
    <3> HIDE DEF times
    <3> QED BY <1>1, <1>6, <2>1, CreateResult
  <2>4. result.layer = CloseFile(created.layer, p, FALSE) /\ result.err = "ok"
        /\ created.layer \in FsData
    <3>1. result = closed
      BY <1>9
    <3> HIDE DEF created, result
    <3> QED BY <1>9, <2>3, <3>1 DEF CowResult
  <2> HIDE DEF times, created, result
  <2> DEFINE m == result.layer
  <2>5. Alike(created.layer, m)
    BY <2>4, AttributesAlike
  <2>6. /\ Sound(l, m) /\ m[p].kind = "file"
        /\ \A q \in Paths \ {p} : Kept(l, m, q) /\ Stays(l, m, q)
    <3>1. Quiet(created.layer, m)
      BY <2>5, AlikeQuiet
    <3>2. Sound(l, m)
      BY <3>1, <2>2, <1>5 DEF Quiet, Sound
    <3>3. m[p].kind = "file"
      BY <2>2, <2>5 DEF Emptied, Alike, SameEntry
    <3> HIDE DEF m
    <3>4. ASSUME NEW q \in Paths \ {p} PROVE Kept(l, m, q) /\ Stays(l, m, q)
      BY <3>1, <2>2, <1>5 DEF Quiet, Emptied, Kept, Stays, SameEntry
    <3> QED BY <3>2, <3>3, <3>4
  <2>7. l[p].kind = "none" /\ (Tidy(l) => View(l, p).kind = "none")
    <3>1. CASE Reachable(t, p)
      <4>1. l[p].kind = "none"
        BY <3>1, <1>5, <1>9
      <4>2. ASSUME Tidy(l), Image[p].kind # "none" PROVE FALSE
        <5>1. l[Root].kind = "none" /\ Alike(l, times.layer)
          BY <3>1, <4>2, <1>5, <1>9
        <5>2. times.layer[Root].kind = "none" /\ Tidy(times.layer)
          BY <5>1, <4>2, AlikeSame, RootIs DEF SameEntry
        <5> QED BY <5>2, <4>2, <2>2
      <4> QED BY <4>1, <4>2 DEF View, StatNode
    <3>2. CASE ~Reachable(t, p)
      <4>1. p # Root
        BY <3>2, <2>1, RootIs
      <4>2. ~Exists(base, l, p)
        BY <3>2, <2>1, <4>1, ParentIs DEF Reachable
      <4> QED BY <4>2, <1>1 DEF Exists, StatNode, View
    <3> QED BY <3>1, <3>2
  <2>8. /\ KeepsDirs(m) /\ FilesStay(l, m) /\ (~Recursive => Tidy(m))
    BY <2>6, <2>7, <1>1 DEF Sound, Stays, FilesStay, SameEntry
  <2>9. /\ TenantInv(t)'
        /\ ~Recursive => /\ layer'[t] = m
                         /\ last' = [who |-> t, op |-> "touch", path |-> p, err |-> "ok"]
    BY <2>8, <2>4, <1>2, RunLeaves
  <2>10. ASSUME ~Recursive PROVE Outcome(t)
    <3>1. /\ layer'[t] = m
          /\ last'.who = t /\ last'.op = "touch" /\ last'.path = p /\ last'.err = "ok"
      BY <2>9, <2>10
    <3> HIDE DEF m
    <3>2. Target = p
      BY <3>1 DEF Target
    <3>3. View(l, p).kind = "none"
      BY <2>7, <2>10, <1>1
    <3> QED BY <3>1, <3>2, <3>3, <2>6 DEF Outcome
  <2> QED BY <2>9, <2>10 DEF Proper
<1> QED BY <1>7, <1>8, <1>9

(***************************************************************************)
(* Commands that make, remove and write                                    *)
(***************************************************************************)

\* The commands that make directories.
Makes(op) == op \in {"mkdir", "mkdir -p"}

\* The commands that remove.
Removes(op) == op \in {"rm", "rmdir"}

\* The path a step of t works on, which Target reads from its report.
TargetOf(t, op, p) == IF op = "mkdir -p" THEN cwd[t] \o p ELSE p

\* mkdir and mkdir -p: what both make of Mkdir.
LEMMA MkdirStep ==
    ASSUME TreeInv, NEW t \in Tenants, NEW op, Makes(op), NEW p,
           NEW target \in Paths, NEW q, NEW r, NEW err,
           Hang(t, op, p) \/ Ends(t, op, p, Resolved(t, q, r)),
           ~Recursive => Ends(t, op, p, Resolved(t, q, r)),
           r.layer = Mkdir(Image, layer[t], target).layer,
           r.err = "ok" \/ r.err = Mkdir(Image, layer[t], target).err,
           r.err = "ok" => Mkdir(Image, layer[t], target).err \in {"ok", "exist"},
           target = TargetOf(t, op, p)
    PROVE  Proper(t)
<1> DEFINE l == layer[t]
           s == Resolved(t, q, r)
           d == Mkdir(Image, l, target)
<1>1. l \in FsData /\ base = Image /\ KeepsDirs(l) /\ (~Recursive => Tidy(l))
  BY DEF TreeInv, TypeOK, TenantInv
<1>2. /\ Sound(l, d.layer)
      /\ \A x \in Paths : /\ Stays(l, d.layer, x)
                          /\ \/ Kept(l, d.layer, x)
                             \/ /\ x \in Prefixes(target) /\ l[x].kind = "none"
                                /\ d.layer[x].kind = "dir"
      /\ d.err \in {"ok", "exist", "noent", "notdir"}
      /\ Tidy(l) /\ d.err # "ok" => Quiet(l, d.layer)
  <2>1. d = Mkdir(Image, l, target)
    OBVIOUS
  <2> HIDE DEF d
  <2> QED BY <2>1, <1>1, MkdirDoes
<1>3. \/ s.layer = d.layer /\ s.err \in {"ok", "exist", "noent", "notdir"}
         /\ (s.err # "ok" => d.err # "ok")
      \/ s.layer = l /\ s.err = "noent"
  <2>1. s = r \/ s = Result(base, layer[t], "noent")
    BY ResolvedIs
  <2>2. /\ r.layer = d.layer
        /\ r.err = "ok" \/ r.err = d.err
        /\ r.err = "ok" => d.err \in {"ok", "exist"}
    OBVIOUS
  <2> HIDE DEF d, s
  <2> QED BY <2>1, <2>2, <1>2 DEF Result
<1>0. /\ Hang(t, op, p) \/ Ends(t, op, p, s)
      /\ ~Recursive => Ends(t, op, p, s)
  OBVIOUS
<1> HIDE DEF s, d
<1>4. Quiet(l, l)
  BY <1>1, AttributesAlike, AlikeQuiet
<1>5. /\ Sound(l, s.layer)
      /\ \A x \in Paths : /\ Stays(l, s.layer, x)
                          /\ \/ Kept(l, s.layer, x)
                             \/ /\ x \in Prefixes(target) /\ l[x].kind = "none"
                                /\ s.layer[x].kind = "dir"
      /\ Tidy(l) /\ s.err # "ok" => \A x \in Paths : Kept(l, s.layer, x)
  BY <1>2, <1>3, <1>4 DEF Quiet
<1>6. KeepsDirs(s.layer) /\ FilesStay(l, s.layer) /\ (~Recursive => Tidy(s.layer))
  BY <1>1, <1>5, QuietStays DEF Sound
<1>7. /\ TenantInv(t)'
      /\ Ends(t, op, p, s) => /\ layer'[t] = s.layer
                              /\ last' = [who |-> t, op |-> op, path |-> p, err |-> s.err]
  BY ZenonT(40), <1>0, <1>6, RunLeaves
<1>8. ASSUME ~Recursive PROVE Outcome(t)
  <2>1. /\ layer'[t] = s.layer
        /\ last'.who = t /\ last'.op = op /\ last'.path = p /\ last'.err = s.err
    BY <1>0, <1>7, <1>8
  <2>2. Target = target
    BY <2>1, Zenon DEF Target, TargetOf
  <2> QED BY <2>1, <2>2, <1>1, <1>3, <1>5, <1>8 DEF Outcome, Makes
<1> QED BY <1>7, <1>8 DEF Proper

\* mkdir makes directories on the way to its path.
LEMMA MakeDirProper ==
    ASSUME TreeInv, NEW t \in Tenants, NEW p \in Paths, MakeDir(t, p)
    PROVE  Proper(t)
<1> DEFINE r == Mkdir(base, layer[t], p)
<1>1. ~Recursive => ~Hangs(t, Parent(p))
  BY PathsClosed, TidySeen DEF TreeInv, TenantInv
<1>2. base = Image /\ layer[t] \in FsData
  BY DEF TreeInv, TypeOK
<1>3. /\ Hang(t, "mkdir", p) \/ Ends(t, "mkdir", p, Resolved(t, Parent(p), r))
      /\ ~Recursive => Ends(t, "mkdir", p, Resolved(t, Parent(p), r))
  BY <1>1 DEF MakeDir, Run, Ends
<1>4. r.err \in {"ok", "exist", "noent", "notdir"} /\ r = Mkdir(Image, layer[t], p)
  BY <1>2, MkdirDoes
<1> HIDE DEF r
<1> QED BY <1>3, <1>4, MkdirStep DEF Makes, TargetOf

\* mkdir -p makes them below the working directory, and does not mind a directory
\* that is there.
LEMMA MakeDirsProper ==
    ASSUME TreeInv, NEW t \in Tenants, NEW path \in Paths, MakeDirs(t, path)
    PROVE  Proper(t)
<1> DEFINE target == cwd[t] \o path
           r      == Mkdir(base, layer[t], target)
           quiet  == [r EXCEPT !.err = IF @ = "exist" THEN "ok" ELSE @]
           hangs  == \/ Hangs(t, cwd[t])
                     \/ /\ Reachable(t, cwd[t])
                        /\ \E q \in Prefixes(Parent(target)) : StatNode(base, layer[t], q).stuck
<1>1. target \in Paths /\ Run(t, "mkdir -p", path, hangs, Resolved(t, cwd[t], quiet))
  BY Zenon DEF MakeDirs
<1> HIDE DEF target
<1>2. base = Image /\ layer[t] \in FsData /\ cwd[t] \in Paths /\ Image \in FsData
  BY ImageAssumption DEF TreeInv, TypeOK
<1>3. ~Recursive => ~hangs
  <2>1. Prefixes(Parent(target)) \subseteq Paths
    BY <1>1, PathsClosed
  <2> QED BY <1>2, <2>1, TidySeen DEF TreeInv, TenantInv
<1>4. /\ Hang(t, "mkdir -p", path) \/ Ends(t, "mkdir -p", path, Resolved(t, cwd[t], quiet))
      /\ ~Recursive => Ends(t, "mkdir -p", path, Resolved(t, cwd[t], quiet))
  <2> HIDE DEF quiet
  <2> QED BY <1>1, <1>3 DEF Run, Ends
<1>5. r \in CowResult(Image) /\ r = Mkdir(Image, layer[t], target)
  BY <1>1, <1>2, DirectoryResults
<1>6. quiet.layer = r.layer /\ quiet.err = IF r.err = "exist" THEN "ok" ELSE r.err
  <2> HIDE DEF r
  <2> QED BY <1>5 DEF CowResult
<1> HIDE DEF r, quiet
<1>7. /\ quiet.layer = Mkdir(Image, layer[t], target).layer
      /\ quiet.err = "ok" \/ quiet.err = Mkdir(Image, layer[t], target).err
      /\ quiet.err = "ok" => Mkdir(Image, layer[t], target).err \in {"ok", "exist"}
  BY <1>5, <1>6
<1> QED BY <1>1, <1>4, <1>7, MkdirStep DEF target, Makes, TargetOf

\* rm and rmdir: removing what has nothing below it in the layer.
LEMMA RemoveStep ==
    ASSUME TreeInv, NEW t \in Tenants, NEW op, Removes(op), NEW p \in Paths,
           NEW r, NEW refusal \in {"isdir", "notdir", "notempty", "noent"},
           Hang(t, op, p) \/ Ends(t, op, p, r), ~Recursive => Ends(t, op, p, r),
           \/ r = Result(base, layer[t], refusal)
           \/ /\ r = Remove(base, layer[t], p)
              /\ ~Recursive => Children(layer[t], p) = {}
    PROVE  Proper(t)
<1> DEFINE l == layer[t]
<1>1. l \in FsData /\ base = Image /\ KeepsDirs(l) /\ (~Recursive => Tidy(l))
  BY DEF TreeInv, TypeOK, TenantInv
<1>2. /\ KeepsDirs(r.layer) /\ (~Recursive => Tidy(r.layer))
      /\ \A q \in Paths \ {p} : SameEntry(r.layer[q], l[q])
      /\ r.err # "ok" => SameEntry(r.layer[p], l[p])
      /\ r.err = "ok" => r.layer[p].kind = "none"
      /\ ~Recursive => r.err \notin {"panic", "hang"}
  <2>1. CASE r = Result(base, l, refusal)
    <3>1. r.layer = l /\ r.err = refusal
      BY <2>1 DEF Result
    <3> QED BY <3>1, <1>1 DEF SameEntry
  <2>2. CASE r = Remove(base, l, p) /\ (~Recursive => Children(l, p) = {})
    <3>1. r = Remove(Image, l, p)
      BY <2>2, <1>1
    <3> QED BY <2>2, <3>1, <1>1, RemoveDoes
  <2> QED BY <2>1, <2>2
<1>3. /\ KeepsDirs(r.layer) /\ (~Recursive => Tidy(r.layer))
      /\ FilesStay(layer[t], r.layer)
  BY <1>2 DEF FilesStay, SameEntry
<1>4. /\ TenantInv(t)'
      /\ Ends(t, op, p, r) => /\ layer'[t] = r.layer
                              /\ last' = [who |-> t, op |-> op, path |-> p, err |-> r.err]
  BY <1>3, RunLeaves
<1>5. ASSUME ~Recursive PROVE Outcome(t)
  <2>1. /\ layer'[t] = r.layer
        /\ last'.who = t /\ last'.op = op /\ last'.path = p /\ last'.err = r.err
    BY <1>4, <1>5
  <2>2. Target = p
    BY <2>1 DEF Target, Removes
  <2>3. \A q \in Paths \ {p} : Kept(l, r.layer, q)
    BY <1>2, SameKept
  <2>4. r.err # "ok" => Kept(l, r.layer, p)
    BY <1>2, SameKept
  <2> QED BY <2>1, <2>2, <2>3, <2>4, <1>2, <1>5 DEF Outcome, Removes
<1> QED BY <1>4, <1>5 DEF Proper

\* What is no directory has no children.
LEMMA NoChildren ==
    ASSUME NEW l, Tidy(l), NEW p \in Paths, l[p].kind # "dir"
    PROVE  Children(l, p) = {}
<1> SUFFICES ASSUME NEW k \in Paths \ {Root}, Parent(k) = p PROVE l[k].kind = "none"
  BY DEF Children
<1>1. p \in Prefixes(k) /\ p # k
  BY ParentIs, PathsClosed, PrefixOrder
<1> QED BY <1>1, NothingBelow

\* rm removes no directory unless it was given -r.
LEMMA RmProper ==
    ASSUME TreeInv, NEW t \in Tenants, NEW p \in Paths, Rm(t, p)
    PROVE  Proper(t)
<1> DEFINE r == IF Seen(t, p).kind = "dir" /\ ~Recursive
                THEN Result(base, layer[t], "isdir") ELSE Remove(base, layer[t], p)
           s == Resolved(t, p, r)
<1>1. ~Recursive => ~Hangs(t, p)
  BY TidySeen DEF TreeInv, TenantInv
<1>2. /\ Hang(t, "rm", p) \/ Ends(t, "rm", p, s)
      /\ ~Recursive => Ends(t, "rm", p, s)
  BY <1>1 DEF Rm, Run, Ends
<1>3. \E refusal \in {"isdir", "notdir", "notempty", "noent"} :
          \/ s = Result(base, layer[t], refusal)
          \/ /\ s = Remove(base, layer[t], p)
             /\ ~Recursive => Children(layer[t], p) = {}
  <2>1. CASE s = Result(base, layer[t], "noent")
    BY <2>1
  <2>2. CASE Reachable(t, p) /\ s = r /\ Seen(t, p).kind = "dir" /\ ~Recursive
    <3>1. s = Result(base, layer[t], "isdir")
      BY <2>2
    <3> QED BY <3>1
  <2>3. CASE Reachable(t, p) /\ s = r /\ ~(Seen(t, p).kind = "dir" /\ ~Recursive)
    <3>1. s = Remove(base, layer[t], p)
      BY <2>3
    <3>2. ASSUME ~Recursive PROVE Children(layer[t], p) = {}
      <4>1. Tidy(layer[t])
        BY <3>2 DEF TreeInv, TenantInv
      <4>2. layer[t][p].kind # "dir"
        BY <2>3, <3>2 DEF Seen, StatNode
      <4> QED BY <4>1, <4>2, NoChildren
    <3> QED BY <3>1, <3>2
  <2> HIDE DEF r
  <2> QED BY <2>1, <2>2, <2>3, ResolvedIs
<1> HIDE DEF r, s
<1> QED BY <1>2, <1>3, RemoveStep DEF Removes

\* rmdir removes a directory that lists nothing.
LEMMA RmdirProper ==
    ASSUME TreeInv, NEW t \in Tenants, NEW p \in Paths, Rmdir(t, p)
    PROVE  Proper(t)
<1> DEFINE r == CASE Seen(t, p).kind # "dir" -> Result(base, layer[t], "notdir")
                  [] Seen(t, p).kind = "dir" /\ Listed(t, p) # {} ->
                        Result(base, layer[t], "notempty")
                  [] OTHER -> Remove(base, layer[t], p)
           merging == layer[t][p].kind = "dir" /\ base[p].kind = "dir"
           hangs   == \/ Hangs(t, p)
                      \/ /\ Reachable(t, p) /\ merging
                         /\ \E k \in layer[t][p].kids : layer[t][k].stuck
           s == Resolved(t, p, r)
<1>1. Run(t, "rmdir", p, hangs, s)
  BY Zenon DEF Rmdir
<1>2. ~Recursive => ~hangs
  <2>1. layer[t][p].kids \subseteq Paths
    BY DEF TreeInv, TypeOK, FsData, Node
  <2> QED BY <2>1, TidySeen DEF TreeInv, TenantInv
<1>3. /\ Hang(t, "rmdir", p) \/ Ends(t, "rmdir", p, s)
      /\ ~Recursive => Ends(t, "rmdir", p, s)
  <2> HIDE DEF s
  <2> QED BY <1>1, <1>2 DEF Run, Ends
<1>4. \E refusal \in {"isdir", "notdir", "notempty", "noent"} :
          \/ s = Result(base, layer[t], refusal)
          \/ /\ s = Remove(base, layer[t], p)
             /\ ~Recursive => Children(layer[t], p) = {}
  <2>1. CASE s = Result(base, layer[t], "noent")
    BY <2>1
  <2>2. CASE s = r /\ Seen(t, p).kind # "dir"
    <3>1. s = Result(base, layer[t], "notdir")
      BY <2>2
    <3> QED BY <3>1
  <2>3. CASE s = r /\ Seen(t, p).kind = "dir" /\ Listed(t, p) # {}
    <3>1. s = Result(base, layer[t], "notempty")
      BY <2>3
    <3> QED BY <3>1
  <2>4. CASE s = r /\ Seen(t, p).kind = "dir" /\ Listed(t, p) = {}
    <3>1. s = Remove(base, layer[t], p)
      BY <2>4
    <3>2. ASSUME ~Recursive PROVE Children(layer[t], p) = {}
      <4>1. Tidy(layer[t])
        BY <3>2 DEF TreeInv, TenantInv
      <4>2. CASE layer[t][p].kind # "dir"
        BY <4>1, <4>2, NoChildren
      <4>3. CASE layer[t][p].kind = "dir"
        <5>1. layer[t][p].kids \subseteq Listed(t, p)
          BY <4>3 DEF Listed, ListDir
        <5> QED BY <2>4, <4>1, <5>1 DEF Tidy
      <4> QED BY <4>2, <4>3
    <3> QED BY <3>1, <3>2
  <2> HIDE DEF r
  <2> QED BY <2>1, <2>2, <2>3, <2>4, ResolvedIs
<1> HIDE DEF r, s
<1> QED BY <1>3, <1>4, RemoveStep DEF Removes

\* A step of t that leaves its layer alone.
LEMMA StillProper ==
    ASSUME TreeInv, NEW t \in Tenants, layer' = layer, file' = file,
           last'.who = t, last'.op \notin {"rm", "rmdir"},
           ~Recursive => last'.err \notin {"panic", "hang"}
    PROVE  Proper(t)
<1>1. TenantInv(t)'
  BY DEF TreeInv, TenantInv, RedirectionKept
<1>2. \A q \in Paths : Kept(layer[t], layer'[t], q)
  BY DEF Kept, SameEntry
<1> QED BY <1>1, <1>2 DEF Proper, Outcome

\* cd changes no file.
LEMMA ChangeDirProper ==
    ASSUME TreeInv, NEW t \in Tenants, NEW p \in Paths, ChangeDir(t, p)
    PROVE  Proper(t)
<1>1. ~Recursive => ~Hangs(t, p)
  BY TidySeen DEF TreeInv, TenantInv
<1>2. layer' = layer /\ file' = file /\ last'.who = t /\ last'.op = "cd"
      /\ (~Hangs(t, p) => last'.err \in {"ok", "notdir"})
  BY DEF ChangeDir, Hang, Report
<1> QED BY <1>1, <1>2, StillProper

\* `> file` empties or makes its file; the redirection has written nothing yet.
LEMMA OpenProper ==
    ASSUME TreeInv, NEW t \in Tenants, NEW p \in Paths, Open(t, p)
    PROVE  Proper(t)
<1> DEFINE l == layer[t]
           c == Create(base, l, p)
           r == Resolved(t, Parent(p), c)
           opened == [open |-> TRUE, path |-> p, attached |-> TRUE, wrote |-> Empty]
<1>1. l \in FsData /\ base = Image /\ KeepsDirs(l) /\ (~Recursive => Tidy(l))
  BY DEF TreeInv, TypeOK, TenantInv
<1>2. /\ \/ Hang(t, "open", p)
         \/ /\ Effect(t, "open", p, r)
            /\ file' = [file EXCEPT ![t] = IF r.err = "ok" THEN opened ELSE @]
      /\ ~file[t].open
  BY DEF Open
<1>3. Hang(t, "open", p) => Recursive
  <2>1. ~Recursive => ~Hangs(t, Parent(p)) /\ ~layer[t][p].stuck
    BY PathsClosed, TidySeen DEF TreeInv, TenantInv
  <2>2. ~Recursive => Effect(t, "open", p, r)
    BY <2>1 DEF Open
  <2>3. r.err # "hang"
    <3>1. c.err \notin {"panic", "hang"}
      BY <1>1, CreateDoes
    <3> HIDE DEF c
    <3> QED BY <3>1, ResolvedIs DEF Result
  <2> HIDE DEF r
  <2> QED BY <2>2, <2>3 DEF Hang, Effect, Report
<1>4. /\ Sound(l, r.layer)
      /\ r.err = "ok" => Emptied(l, r.layer, p)
      /\ r.err # "ok" => Quiet(l, r.layer)
      /\ r.err \notin {"panic", "hang"}
  <2>1. CASE r = c
    BY <2>1, <1>1, CreateDoes
  <2>2. CASE r = Result(base, l, "noent")
    BY <2>2, <1>1, AttributesAlike, AlikeQuiet DEF Result, Quiet
  <2> QED BY <2>1, <2>2, ResolvedIs
<1> HIDE DEF r
<1>5. CASE Hang(t, "open", p)
  BY <1>3, <1>5, StillProper DEF Hang, Report
<1>6. CASE ~Hang(t, "open", p)
  <2>1. /\ layer'[t] = r.layer
        /\ last' = [who |-> t, op |-> "open", path |-> p, err |-> r.err]
    BY <1>2, <1>6 DEF Effect, Report, TreeInv, TypeOK
  <2>2. file'[t] = IF r.err = "ok" THEN opened ELSE file[t]
    BY <1>2, <1>6 DEF TreeInv, TypeOK
  <2>3. RedirectionKept(t)'
    BY <1>2, <1>4, <2>1, <2>2 DEF RedirectionKept, Emptied
  <2>4. TenantInv(t)'
    BY <1>1, <1>4, <2>1, <2>3 DEF TenantInv, Sound
  <2>5. ASSUME ~Recursive PROVE Outcome(t)
    <3>1. last'.who = t /\ last'.op = "open" /\ last'.path = p /\ last'.err = r.err
      BY <2>1
    <3>2. Target = p
      BY <3>1 DEF Target
    <3> QED BY <1>4, <2>1, <3>1, <3>2 DEF Outcome, Quiet, Emptied
  <2> QED BY <2>4, <2>5 DEF Proper
<1> QED BY <1>5, <1>6

\* A write through the redirection reaches its file, or a file that was removed.
LEMMA WriteProper ==
    ASSUME TreeInv, NEW t \in Tenants, NEW content \in Contents \ {Empty}, Write(t, content)
    PROVE  Proper(t)
<1> DEFINE f == file[t]
           l == layer[t]
           m == IF f.attached THEN WriteFile(l, f.path, content) ELSE l
<1>1. /\ l \in FsData /\ KeepsDirs(l) /\ (~Recursive => Tidy(l))
      /\ f \in File /\ f.path \in Paths /\ f.open
      /\ f.attached => l[f.path].kind = "file"
  BY DEF TreeInv, TypeOK, TenantInv, File, RedirectionKept, Write
<1>2. /\ KeepsDirs(m) /\ (~Recursive => Tidy(m))
      /\ \A q \in Paths \ {f.path} : SameEntry(m[q], l[q])
      /\ f.attached => m[f.path].kind = "file" /\ m[f.path].content = content
  <2>1. CASE f.attached
    <3>1. m = WriteFile(l, f.path, content)
      BY <2>1
    <3> QED BY <2>1, <3>1, <1>1, WriteFileDoes
  <2>2. CASE ~f.attached
    BY <2>2, <1>1 DEF SameEntry
  <2> QED BY <2>1, <2>2
<1>3. \/ Hang(t, "write", f.path) /\ Recursive
      \/ /\ Effect(t, "write", f.path, Result(base, m, "ok"))
         /\ file' = [file EXCEPT ![t] = [f EXCEPT !.wrote = content]]
  BY <1>1 DEF Write, Tidy
<1>4. CASE Hang(t, "write", f.path) /\ Recursive
  BY <1>4, StillProper DEF Hang, Report
<1>5. CASE /\ Effect(t, "write", f.path, Result(base, m, "ok"))
           /\ file' = [file EXCEPT ![t] = [f EXCEPT !.wrote = content]]
  <2> HIDE DEF m
  <2>1. /\ layer'[t] = m
        /\ last' = [who |-> t, op |-> "write", path |-> f.path, err |-> "ok"]
        /\ file'[t] = [f EXCEPT !.wrote = content]
    BY <1>5 DEF Effect, Report, Result, TreeInv, TypeOK
  <2>2. RedirectionKept(t)'
    BY <1>1, <1>2, <2>1 DEF RedirectionKept, File
  <2>3. TenantInv(t)'
    BY <1>2, <2>1, <2>2 DEF TenantInv
  <2>4. Outcome(t)
    <3>1. last'.who = t /\ last'.op = "write" /\ last'.path = f.path /\ last'.err = "ok"
      BY <2>1
    <3>2. Target = f.path
      BY <3>1 DEF Target
    <3>3. \A q \in Paths \ {f.path} : Kept(l, m, q)
      BY <1>2, SameKept
    <3> QED BY <2>1, <3>1, <3>2, <3>3 DEF Outcome
  <2> QED BY <2>3, <2>4 DEF Proper
<1> QED BY <1>3, <1>4, <1>5

\* Closing the redirection changes a time.
LEMMA CloseProper ==
    ASSUME TreeInv, NEW t \in Tenants, Close(t)
    PROVE  Proper(t)
<1> DEFINE f == file[t]
           l == layer[t]
           m == IF f.attached THEN CloseFile(l, f.path, FALSE) ELSE l
<1>1. /\ l \in FsData /\ KeepsDirs(l) /\ (~Recursive => Tidy(l))
      /\ f \in File /\ f.path \in Paths
  BY DEF TreeInv, TypeOK, TenantInv, File
<1>2. Quiet(l, m)
  BY <1>1, AttributesAlike, AlikeQuiet
<1>3. \/ Hang(t, "close", f.path) /\ Recursive
      \/ /\ Effect(t, "close", f.path, Result(base, m, "ok"))
         /\ file' = [file EXCEPT ![t] = NoFile]
  BY <1>1 DEF Close, Tidy
<1>4. CASE Hang(t, "close", f.path) /\ Recursive
  BY <1>4, StillProper DEF Hang, Report
<1>5. CASE /\ Effect(t, "close", f.path, Result(base, m, "ok"))
           /\ file' = [file EXCEPT ![t] = NoFile]
  <2> HIDE DEF m
  <2>1. /\ layer'[t] = m
        /\ last' = [who |-> t, op |-> "close", path |-> f.path, err |-> "ok"]
        /\ file'[t] = NoFile
    BY <1>5 DEF Effect, Report, Result, TreeInv, TypeOK
  <2>2. TenantInv(t)'
    BY <1>1, <1>2, <2>1 DEF TenantInv, RedirectionKept, NoFile, Quiet, Sound
  <2>3. Outcome(t)
    BY <1>2, <2>1 DEF Outcome, Quiet
  <2> QED BY <2>2, <2>3 DEF Proper
<1> QED BY <1>3, <1>4, <1>5

\* The layer of a new session is tidy.
LEMMA FreshTidy == KeepsDirs(FreshFs) /\ Tidy(FreshFs)
BY FreshIsTidy DEF KeepsDirs

\* A login starts from a fresh layer.
LEMMA LoginProper ==
    ASSUME TreeInv, NEW t \in Tenants, Login(t)
    PROVE  Proper(t)
<1>1. layer'[t] = FreshFs /\ file'[t] = NoFile
      /\ last' = [who |-> t, op |-> "login", path |-> Root, err |-> "ok"]
  BY DEF Login, Report, TreeInv, TypeOK
<1>2. TenantInv(t)'
  BY <1>1, FreshTidy DEF TenantInv, RedirectionKept, NoFile
<1>3. Outcome(t)
  BY <1>1 DEF Outcome
<1> QED BY <1>2, <1>3 DEF Proper

(***************************************************************************)
(* The invariant holds, and what it says of every state                    *)
(***************************************************************************)

\* The actions of one tenant.
TenantNext(t) ==
    \/ Login(t)
    \/ \E p \in Paths : OnPath(t, p)
    \/ \E content \in Contents \ {Empty} : Write(t, content)
    \/ Close(t)

\* A redirection belongs to its session.
LEMMA OwnFile ==
    ASSUME TypeOK, NEW t \in Tenants, TenantNext(t), NEW u \in Tenants \ {t}
    PROVE  file'[u] = file[u]
<1>1. ASSUME NEW op, NEW p, NEW hangs, NEW r, Run(t, op, p, hangs, r)
      PROVE  file'[u] = file[u]
  BY <1>1 DEF Run, Hang, Detach, TypeOK
<1>2. CASE Login(t) \/ Close(t) \/ \E content \in Contents \ {Empty} : Write(t, content)
  BY <1>2 DEF Login, Close, Write, Hang, TypeOK
<1>3. ASSUME NEW p \in Paths, OnPath(t, p)
      PROVE  file'[u] = file[u]
  <2>1. CASE Open(t, p)
    BY <2>1 DEF Open, Hang, TypeOK
  <2>2. CASE ChangeDir(t, p)
    BY <2>2 DEF ChangeDir, Hang
  <2>3. CASE \/ Cat(t, p) \/ MakeDir(t, p) \/ Rm(t, p)
             \/ \E mode \in ChmodModes : ChangeMode(t, p, mode)
    BY <2>3, <1>1 DEF Cat, MakeDir, Rm, ChangeMode
  <2>4. CASE \E noCreate \in BOOLEAN : Touch(t, p, noCreate)
    BY <2>4, <1>1, Zenon DEF Touch
  <2>5. CASE MakeDirs(t, p)
    BY <2>5, <1>1, Zenon DEF MakeDirs
  <2>6. CASE Rmdir(t, p)
    BY <2>6, <1>1, Zenon DEF Rmdir
  <2> QED BY <1>3, <2>1, <2>2, <2>3, <2>4, <2>5, <2>6 DEF OnPath
<1> QED BY <1>2, <1>3 DEF TenantNext

\* Every step is a proper step of one tenant that leaves the others alone.
LEMMA NextProper ==
    ASSUME TreeInv, Next
    PROVE  TreeInv' /\ \E t \in Tenants : Local(t) /\ Proper(t)
<1>1. PICK t \in Tenants : TenantNext(t)
  BY DEF Next, TenantNext
<1>2. TypeOK /\ base = Image
  BY DEF TreeInv
<1>3. Local(t) /\ Proper(t)
  <2>1. CASE Login(t)
    BY <2>1, <1>2, LoginLocal, LoginProper
  <2>2. CASE Close(t)
    BY <2>2, <1>2, CloseLocal, CloseProper
  <2>3. ASSUME NEW content \in Contents \ {Empty}, Write(t, content)
        PROVE  Local(t) /\ Proper(t)
    BY <2>3, <1>2, WriteLocal, WriteProper
  <2>4. ASSUME NEW p \in Paths, OnPath(t, p)
        PROVE  Local(t) /\ Proper(t)
    <3>1. Local(t)
      BY <1>2, <2>4, CatLocal, TouchLocal, ChangeModeLocal, MakeDirLocal, MakeDirsLocal, RmLocal,
         RmdirLocal, ChangeDirLocal, OpenLocal DEF OnPath
    <3>2. Proper(t)
      BY <2>4, CatProper, TouchProper, ChangeModeProper, MakeDirProper, MakeDirsProper, RmProper,
         RmdirProper, ChangeDirProper, OpenProper DEF OnPath
    <3> QED BY <3>1, <3>2
  <2> QED BY <1>1, <2>1, <2>2, <2>3, <2>4 DEF TenantNext
<1>4. ASSUME NEW u \in Tenants \ {t} PROVE TenantInv(u)'
  <2>1. layer'[u] = layer[u] /\ file'[u] = file[u]
    BY <1>1, <1>2, <1>3, OwnFile DEF Local
  <2> QED BY <2>1 DEF TreeInv, TenantInv, RedirectionKept
<1>5. \A u \in Tenants : TenantInv(u)'
  BY <1>3, <1>4 DEF Proper
<1> QED BY <1>2, <1>3, <1>5 DEF TreeInv, Local

\* The invariant holds in every state.
LEMMA TreeInvHolds == Spec => []TreeInv
<1>1. Init => \A t \in Tenants : TenantInv(t)
  BY FreshTidy DEF Init, TenantInv, RedirectionKept, NoFile
<1>2. TypeOK /\ Init => TreeInv
  BY <1>1 DEF TreeInv, Init
<1>3. TreeInv /\ [Next]_vars => TreeInv'
  <2>1. TreeInv /\ UNCHANGED vars => TreeInv'
    BY DEF vars, TreeInv, TypeOK, TenantInv, RedirectionKept
  <2> QED BY <2>1, NextProper
<1> QED BY <1>2, <1>3, TypeCorrect, PTL DEF Spec

\* No command, rm -r included, ever puts a file where the image has a directory:
\* Create and copying up (copyOnWriteFs.go) look at the base first.
THEOREM LayerKeepsDirsHolds == Spec => []LayerKeepsDirs
<1>1. TreeInv => LayerKeepsDirs
  BY DEF TreeInv, TenantInv, KeepsDirs, LayerKeepsDirs
<1> QED BY <1>1, TreeInvHolds, PTL

\* Whatever else the session does while a redirection is open, rm -r included,
\* what the redirection wrote is what is read at its path, as long as the file is
\* the one that was opened.
THEOREM WrittenIsSeenHolds == Spec => []WrittenIsSeen
<1>1. TreeInv => WrittenIsSeen
  BY DEF TreeInv, TenantInv, RedirectionKept, WrittenIsSeen, Seen, StatNode
<1> QED BY <1>1, TreeInvHolds, PTL

\* Without rm -r what a session sees is what the layer over the image shows.
LEMMA KindsSeen ==
    ASSUME TreeInv, ~Recursive, NEW t \in Tenants
    PROVE  /\ Tidy(layer[t]) /\ KeepsDirs(layer[t])
           /\ \A p \in Paths :
                 /\ Seen(t, p).kind = View(layer[t], p).kind
                 /\ SameEntry(Seen(t, p), View(layer[t], p))
BY TidySeen DEF TreeInv, TenantInv, SameEntry

\* Every name a listing shows can be opened: UnionFile.Readdir merges the lists of
\* layer and image, which are kept apart from the map that open looks in.
THEOREM ListedIsSeenHolds ==
    ASSUME Recursive = FALSE
    PROVE  Spec => []ListedIsSeen
<1>1. TreeInv => ListedIsSeen
  <2> SUFFICES ASSUME TreeInv, NEW t \in Tenants, NEW p \in Paths, Seen(t, p).kind = "dir",
                      NEW k \in Listed(t, p)
               PROVE  Seen(t, k).kind # "none"
    BY DEF ListedIsSeen
  <2>1. Tidy(layer[t]) /\ base = Image /\ layer[t] \in FsData
    BY KindsSeen DEF TreeInv, TypeOK
  <2>2. k \in layer[t][p].kids \/ k \in Image[p].kids
    BY <2>1 DEF Listed, ListDir
  <2>3. k \in Paths /\ (layer[t][k].kind # "none" \/ Image[k].kind # "none")
    BY <2>1, <2>2, ImageAssumption DEF Tidy, Children
  <2> QED BY <2>3, KindsSeen DEF View, StatNode
<1> QED BY <1>1, TreeInvHolds, PTL

\* Everything that can be opened is in the listing of its directory.
THEOREM SeenIsListedHolds ==
    ASSUME Recursive = FALSE
    PROVE  Spec => []SeenIsListed
<1>1. TreeInv => SeenIsListed
  <2> SUFFICES ASSUME TreeInv, NEW t \in Tenants, NEW p \in Paths \ {Root},
                      Seen(t, p).kind # "none"
               PROVE  Seen(t, Parent(p)).kind = "dir" /\ p \in Listed(t, Parent(p))
    BY DEF SeenIsListed
  <2> DEFINE l == layer[t]
             d == Parent(p)
  <2>1. /\ Tidy(l) /\ KeepsDirs(l) /\ base = Image /\ l \in FsData /\ d \in Paths
        /\ d \in Prefixes(p) \ {p}
    BY KindsSeen, PathsClosed, ParentIs, PrefixOrder DEF TreeInv, TypeOK
  <2>2. CASE l[p].kind # "none"
    <3>1. l[d].kind = "dir" /\ p \in l[d].kids
      BY <2>1, <2>2 DEF Tidy, Rooted, Children
    <3>2. p \in Listed(t, d)
      BY <3>1 DEF Listed, ListDir
    <3>3. View(l, d).kind = "dir"
      BY <3>1 DEF View, StatNode
    <3> QED BY <3>2, <3>3, <2>1, KindsSeen
  <2>3. CASE l[p].kind = "none"
    <3>1. Image[p].kind # "none"
      BY <2>3, KindsSeen DEF View, StatNode
    <3>2. Image[d].kind = "dir" /\ p \in Image[d].kids
      BY <3>1, <2>1, ImageNodes, ImageAssumption
    <3>3. l[d].kind \in {"none", "dir"}
      BY <3>2, <2>1 DEF KeepsDirs, FsData, Node, Kinds
    <3>4. p \in Listed(t, d) /\ View(l, d).kind = "dir"
      BY <3>2, <3>3, <2>1 DEF Listed, ListDir, View, StatNode
    <3> QED BY <3>4, <2>1, KindsSeen
  <2> QED BY <2>2, <2>3
<1> QED BY <1>1, TreeInvHolds, PTL

\* A step of t, as the tenants see it.
SeenStep(t) ==
    /\ Outcome(t)
    /\ base' = Image
    /\ \A p \in Paths :
          /\ SameEntry(Seen(t, p), View(layer[t], p))
          /\ SameEntry(Seen(t, p)', View(layer'[t], p))
    /\ \A u \in Tenants \ {t} : \A p \in Paths : Seen(u, p)' = Seen(u, p)

\* Without rm -r every step is one of these.
LEMMA StepSeen ==
    ASSUME TreeInv, ~Recursive, Next
    PROVE  \E t \in Tenants : SeenStep(t)
<1>1. PICK t \in Tenants : Local(t) /\ Proper(t)
  BY NextProper
<1>2. TreeInv'
  BY NextProper
<1>3. \A p \in Paths : SameEntry(Seen(t, p), View(layer[t], p))
  BY KindsSeen
<1>4. ASSUME NEW p \in Paths PROVE SameEntry(Seen(t, p)', View(layer'[t], p))
  <2>1. TypeOK' /\ base' = Image /\ Tidy(layer'[t])
    BY <1>2 DEF TreeInv, TenantInv
  <2>2. (TypeOK /\ base = Image /\ Tidy(layer[t]))'
    BY <2>1
  <2>3. SameEntry(Seen(t, p), View(layer[t], p))'
    BY <2>2, TidySeen, PTL
  <2> QED BY <2>3 DEF SameEntry, View
<1>5. \A u \in Tenants \ {t} : \A p \in Paths : Seen(u, p)' = Seen(u, p)
  BY <1>1, OwnView DEF Local
<1> QED BY <1>1, <1>2, <1>3, <1>4, <1>5 DEF SeenStep, Proper, TreeInv

(***************************************************************************)
(* What a step may do                                                      *)
(***************************************************************************)

\* A command that reports an error has changed nothing any session sees, although
\* it may have made directories or copied a file up before it failed.
THEOREM ErrorsChangeNothingHolds ==
    ASSUME Recursive = FALSE
    PROVE  Spec => ErrorsChangeNothing
<1>1. TreeInv /\ [Next]_vars =>
        [ last'.err # "ok" =>
             \A t \in Tenants, p \in Paths : SameEntry(Seen(t, p)', Seen(t, p)) ]_vars
  <2> SUFFICES ASSUME TreeInv, Next, last'.err # "ok", NEW u \in Tenants, NEW p \in Paths
               PROVE  SameEntry(Seen(u, p)', Seen(u, p))
    OBVIOUS
  <2> PICK t \in Tenants : SeenStep(t)
    BY StepSeen
  <2> USE DEF SeenStep
  <2>1. CASE u = t
    BY <2>1 DEF Outcome, Kept, SameEntry
  <2>2. CASE u # t
    BY <2>2 DEF SameEntry
  <2> QED BY <2>1, <2>2
<1> QED BY <1>1, TreeInvHolds, PTL DEF Spec, ErrorsChangeNothing

\* A command changes the path it names and no other, except for directories mkdir
\* makes on the way to it.
THEOREM OnlyTargetChangesHolds ==
    ASSUME Recursive = FALSE
    PROVE  Spec => OnlyTargetChanges
<1>1. TreeInv /\ [Next]_vars =>
        [ last'.op # "login" =>
             \A t \in Tenants, p \in Paths :
                 \/ SameEntry(Seen(t, p)', Seen(t, p))
                 \/ p = Target
                 \/ /\ p \in Prefixes(Target)
                    /\ Seen(t, p)'.kind = "dir"
                    /\ \/ Seen(t, p).kind = "none"
                       \/ last'.op \in {"mkdir", "mkdir -p"} /\ layer[t][p].kind = "none" ]_vars
  <2> SUFFICES ASSUME TreeInv, Next, last'.op # "login", NEW u \in Tenants, NEW p \in Paths
               PROVE  \/ SameEntry(Seen(u, p)', Seen(u, p))
                      \/ p = Target
                      \/ /\ p \in Prefixes(Target)
                         /\ Seen(u, p)'.kind = "dir"
                         /\ last'.op \in {"mkdir", "mkdir -p"} /\ layer[u][p].kind = "none"
    OBVIOUS
  <2> PICK t \in Tenants : SeenStep(t)
    BY StepSeen
  <2> USE DEF SeenStep
  <2>1. CASE u = t
    <3>1. \/ Kept(layer[t], layer'[t], p)
          \/ p = Target
          \/ /\ p \in Prefixes(Target) /\ layer[t][p].kind = "none"
             /\ layer'[t][p].kind = "dir"
             /\ last'.op \in {"mkdir", "mkdir -p"}
      BY DEF Outcome
    <3>2. layer'[t][p].kind = "dir" => Seen(t, p)'.kind = "dir"
      BY DEF SameEntry, View, StatNode
    <3>3. Kept(layer[t], layer'[t], p) => SameEntry(Seen(t, p)', Seen(t, p))
      BY DEF Kept, SameEntry
    <3> QED BY <2>1, <3>1, <3>2, <3>3
  <2>2. CASE u # t
    BY <2>2 DEF SameEntry
  <2> QED BY <2>1, <2>2
<1> QED BY <1>1, TreeInvHolds, PTL DEF Spec, OnlyTargetChanges

\* cat, chmod and touch keep every file's content: copying up loses none of it.
THEOREM MetadataKeepsContentHolds ==
    ASSUME Recursive = FALSE
    PROVE  Spec => MetadataKeepsContent
<1>1. TreeInv /\ [Next]_vars =>
        [ last'.op \in {"cat", "chmod", "touch"} =>
             \A t \in Tenants, p \in Paths :
                 Seen(t, p).kind # "none" => SameEntry(Seen(t, p)', Seen(t, p)) ]_vars
  <2> SUFFICES ASSUME TreeInv, Next, last'.op \in {"cat", "chmod", "touch"},
                      NEW u \in Tenants, NEW p \in Paths, Seen(u, p).kind # "none"
               PROVE  SameEntry(Seen(u, p)', Seen(u, p))
    OBVIOUS
  <2> PICK t \in Tenants : SeenStep(t)
    BY StepSeen
  <2> USE DEF SeenStep
  <2>1. CASE u = t
    <3>1. View(layer[t], p).kind # "none" => Kept(layer[t], layer'[t], p)
      BY DEF Outcome
    <3> QED BY <2>1, <3>1 DEF Kept, SameEntry
  <2>2. CASE u # t
    BY <2>2 DEF SameEntry
  <2> QED BY <2>1, <2>2
<1> QED BY <1>1, TreeInvHolds, PTL DEF Spec, MetadataKeepsContent

\* Removing from the union removes from the layer: a file of the image comes back
\* as the image has it.
THEOREM RemoveRevealsHolds ==
    ASSUME Recursive = FALSE
    PROVE  Spec => RemoveReveals
<1>1. TreeInv /\ [Next]_vars =>
        [ last'.op \in {"rm", "rmdir"} /\ last'.err = "ok" =>
             \A t \in Tenants : t = last'.who =>
                 SameEntry(Seen(t, last.path)', base'[last'.path]) ]_vars
  <2> SUFFICES ASSUME TreeInv, Next, last'.op \in {"rm", "rmdir"}, last'.err = "ok",
                      NEW u \in Tenants, u = last'.who
               PROVE  SameEntry(Seen(u, last.path)', base'[last'.path])
    OBVIOUS
  <2>1. PICK p \in Paths : p = last'.path
    BY NextProper DEF TreeInv, TypeOK
  <2>2. Seen(u, last.path)' = Seen(u, p)'
    BY <2>1 DEF Seen, Reachable
  <2> PICK t \in Tenants : SeenStep(t)
    BY StepSeen
  <2> USE DEF SeenStep
  <2>3. u = t /\ layer'[t][p].kind = "none"
    BY <2>1 DEF Outcome
  <2>4. SameEntry(Seen(u, p)', Image[p])
    BY <2>3 DEF View, StatNode
  <2> QED BY <2>1, <2>2, <2>4
<1> QED BY <1>1, TreeInvHolds, PTL DEF Spec, RemoveReveals

\* No command but touch ends in a panic or hangs on a mutex.
THEOREM NoCrashHolds ==
    ASSUME Recursive = FALSE
    PROVE  Spec => NoCrash
<1>1. TreeInv /\ [Next]_vars => [last'.err \in {"panic", "hang"} => last'.op = "touch"]_vars
  BY StepSeen DEF SeenStep, Outcome
<1> QED BY <1>1, TreeInvHolds, PTL DEF Spec, NoCrash
=============================================================================
