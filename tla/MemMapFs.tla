------------------------------ MODULE MemMapFs ------------------------------
(***************************************************************************)
(* The in-memory filesystem of third_party/memmapfs, as operators on its   *)
(* `data` map.  MemMapFs.data maps a cleaned absolute path to a FileData   *)
(* and every directory FileData also keeps its own index of children       *)
(* (memDir), so the tree is stored twice: once by path and once by the     *)
(* kids of each directory.  The map is a total function on Paths here; a   *)
(* path that is not a key has kind "none".                                 *)
(*                                                                         *)
(* A path is the sequence of its components, the root being << >>.  An     *)
(* operation that can fail returns [data, err]: what it left behind and    *)
(* the error it reported.                                                  *)
(***************************************************************************)
EXTENDS Integers, Sequences

CONSTANTS
    Names,      \* path components
    Paths,      \* the paths operations may name, closed under Parent
    Contents,   \* what a regular file can hold
    Empty       \* the content of a truncated file

ASSUME PathsAssumption ==
    /\ Paths \subseteq Seq(Names)
    /\ \A p \in Paths : \A i \in 0 .. Len(p) : SubSeq(p, 1, i) \in Paths
    /\ << >> \in Paths

ASSUME ContentsAssumption == Empty \in Contents

Root == << >>

\* filepath.Dir of a cleaned absolute path; the parent of "/" is "/".
Parent(p) == IF p = Root THEN Root ELSE SubSeq(p, 1, Len(p) - 1)

\* "/", its child on the way to p, ..., p itself.
Prefixes(p) == {SubSeq(p, 1, i) : i \in 0 .. Len(p)}

Kinds == {"none", "file", "dir"}

\* The permission bits that occur: those the code asks for and those of an image.
Modes == {"none", "0644", "0755", "0666", "0777", "0600"}

\* When the node was last modified: as recorded in the image, or by a session.
Times == {"image", "session"}

Errs == {"ok", "noent", "exist", "notdir", "isdir", "io", "notempty", "panic", "hang"}

\* FileData: `kids` is memDir, `stuck` says that its mutex is held for ever.
Node == [kind: Kinds, mode: Modes, content: Contents, mtime: Times,
         kids: SUBSET Paths, stuck: BOOLEAN]

FsData == [Paths -> Node]

NoNode == [kind |-> "none", mode |-> "none", content |-> Empty,
           mtime |-> "image", kids |-> {}, stuck |-> FALSE]

NewFile == [NoNode EXCEPT !.kind = "file", !.mode = "0666", !.mtime = "session"]

NewDir(mode, kids) ==
    [NoNode EXCEPT !.kind = "dir", !.mode = mode, !.mtime = "session", !.kids = kids]

\* getData on first use: a filesystem that only holds its root.
FreshFs == [p \in Paths |-> IF p = Root THEN NewDir("0755", {}) ELSE NoNode]

Done(data) == [data |-> data, err |-> "ok"]
Fail(data, err) == [data |-> data, err |-> err]

\* Whether two nodes are the same file or directory, attributes aside.
SameEntry(m, n) == m.kind = n.kind /\ m.content = n.content

(***************************************************************************)
(* File handles                                                            *)
(***************************************************************************)

\* Mutant: no handle is read-only.
OpensReadOnlyNever(flag) == FALSE

\* OpenFile hands out a read-only handle for exactly this flag.
OpensReadOnly(flag) == flag = "rdonly"

\* File.Close stamps the file unless the handle is read-only.
CloseFile(data, p, readOnly) ==
    IF readOnly THEN data ELSE [data EXCEPT ![p].mtime = "session"]

\* File.Write and File.Truncate through a handle to the FileData at p.
WriteFile(data, p, content) ==
    [data EXCEPT ![p].content = content, ![p].mtime = "session"]

(***************************************************************************)
(* Operations                                                              *)
(***************************************************************************)

\* checkParentIsDir
ParentErr(data, p) ==
    CASE data[Parent(p)].kind = "none" -> "noent"
      [] data[Parent(p)].kind = "file" -> "notdir"
      [] data[Parent(p)].kind = "dir"  -> "ok"

\* Mutant: the parent's index is keyed by base name.
RegisterByName(data, p, node) ==
    [q \in Paths |-> CASE q = p -> node
                       [] q = Parent(p) /\ q # p ->
                             [data[q] EXCEPT !.kids = @ \cup {<< p[Len(p)] >>}]
                       [] OTHER -> data[q]]

\* The map with node stored at p and p registered with its parent.
Register(data, p, node) ==
    [q \in Paths |-> CASE q = p         -> node
                       [] q = Parent(p) /\ q # p -> [data[q] EXCEPT !.kids = @ \cup {p}]
                       [] OTHER         -> data[q]]

\* Create: OpenFile with O_RDWR|O_CREATE|O_TRUNC and permission 0666.
CreateFile(data, p) ==
    CASE data[p].kind = "file" -> Done(WriteFile(data, p, Empty))
      [] data[p].kind = "dir"  -> Fail(CloseFile(data, p, FALSE), "isdir")
      [] data[p].kind = "none" ->
            IF ParentErr(data, p) # "ok" THEN Fail(data, ParentErr(data, p))
            ELSE Done(Register(data, p, NewFile))

\* MkdirAll calls Mkdir on every prefix in turn and stops at the first error
\* other than "exists".  Mkdir of a missing prefix needs its parent to be a
\* directory, which a missing parent has just become.
Missing(data, p) == {q \in Prefixes(p) : data[q].kind = "none"}

Obstructed(data, q) == q = Root \/ data[Parent(q)].kind = "file"

Made(data, p) ==
    {q \in Missing(data, p) : \A r \in Missing(data, q) : ~Obstructed(data, r)}

\* Mutant: made directories are not registered with a parent that was there.
MkdirAllUnlisted(data, p, mode) ==
    LET made    == Made(data, p)
        kids(q) == {k \in made : Parent(k) = q}
    IN  [data |-> [q \in Paths |-> IF q \in made THEN NewDir(mode, kids(q)) ELSE data[q]],
         err  |-> IF made = Missing(data, p) THEN "ok" ELSE "notdir"]

\* Mutant: a plain file on the way is replaced by a directory.
MkdirAllReplacing(data, p, mode) ==
    LET made    == {q \in Prefixes(p) : data[q].kind # "dir"}
        kids(q) == {k \in made : Parent(k) = q}
    IN  Done([q \in Paths |-> IF q \in made THEN NewDir(mode, kids(q))
                              ELSE [data[q] EXCEPT !.kids = @ \cup kids(q)]])

MkdirAll(data, p, mode) ==
    LET made    == Made(data, p)
        kids(q) == {k \in made : Parent(k) = q}
    IN  [data |-> [q \in Paths |-> IF q \in made THEN NewDir(mode, kids(q))
                                   ELSE [data[q] EXCEPT !.kids = @ \cup kids(q)]],
         err  |-> CASE made = Missing(data, p)   -> "ok"
                    [] Root \in Missing(data, p) -> "noent"
                    [] OTHER                     -> "notdir"]

\* Mutants: the removed path stays in its parent's index, or in the map.
RemoveNodeListed(data, p) ==
    IF data[p].kind = "none" THEN Fail(data, "noent")
    ELSE Done([data EXCEPT ![p] = NoNode])

RemoveNodeKept(data, p) ==
    IF data[p].kind = "none" THEN Fail(data, "noent")
    ELSE Done([data EXCEPT ![Parent(p)].kids = @ \ {p}])

\* Remove neither looks at the children of p nor touches their map entries.
\* Without a parent entry it panics; with a parent that is a plain file
\* (no memDir) it panics holding the mutex of that parent.
RemoveNode(data, p) ==
    CASE data[p].kind = "none"         -> Fail(data, "noent")
      [] data[p].kind # "none" /\ data[Parent(p)].kind = "none" -> Fail(data, "panic")
      [] data[p].kind # "none" /\ data[Parent(p)].kind = "file" ->
            Fail([data EXCEPT ![Parent(p)].stuck = TRUE], "panic")
      [] data[p].kind # "none" /\ data[Parent(p)].kind = "dir" ->
            Done([q \in Paths |-> CASE q = p -> NoNode
                                    [] q = Parent(p) /\ q # p ->
                                          [data[q] EXCEPT !.kids = @ \ {p}]
                                    [] OTHER -> data[q]])

\* Chmod and Chtimes of an entry.
SetMode(data, p, mode) ==
    IF data[p].kind = "none" THEN Fail(data, "noent")
    ELSE Done([data EXCEPT ![p].mode = mode])

SetTime(data, p) ==
    IF data[p].kind = "none" THEN Fail(data, "noent")
    ELSE Done([data EXCEPT ![p].mtime = "session"])

=============================================================================
