------------------------------ MODULE TenantFs ------------------------------
(***************************************************************************)
(* The filesystem of a honeypot session (core/vos).  Every session is a    *)
(* tenant: NewTenantOS lays a fresh, private MemMapFs over the one image   *)
(* all sessions share, and every process of the session reaches it through *)
(* NewSymlinkResolvingRelativeFs, which resolves the path first.  Tenants  *)
(* run concurrently.  Within a session one process acts at a time, but a   *)
(* shell redirection keeps its file open while others run.                 *)
(*                                                                         *)
(* An action is one command applied to one path: cat, touch, chmod, mkdir, *)
(* mkdir -p, rm, rmdir, cd, and the open, write and close of `> file`.     *)
(* Images without symbolic links: a memmapfs strips the link bit anyway.   *)
(***************************************************************************)
EXTENDS CowFs

CONSTANTS
    Tenants,     \* concurrent sessions
    Image,       \* the image's files: SharedOS.mockFS once extracted
    ChmodModes,  \* the modes chmod is asked for
    Recursive    \* whether rm is given -r

VARIABLES
    base,    \* SharedOS.mockFS, shared by all tenants
    layer,   \* the private MemMapFs of each tenant
    cwd,     \* TenantProcOS.Dir of the tenant's shell
    file,    \* the file the tenant's shell redirects into
    hung,    \* the tenant's goroutine waits for a mutex nobody will release
    last     \* the last operation: who, what, on which path, with what result

vars == << base, layer, cwd, file, hung, last >>

\* An image: a tree whose two representations agree and that nobody has touched.
ASSUME ImageAssumption ==
    /\ Image \in FsData
    /\ Image[Root].kind = "dir"
    /\ \A p \in Paths :
          /\ Image[p].kind # "none" => \A q \in Prefixes(p) \ {p} : Image[q].kind = "dir"
          /\ Image[p].kind # "file" => Image[p].content = Empty
          /\ Image[p].kids = {k \in Paths \ {Root} : Parent(k) = p /\ Image[k].kind # "none"}
          /\ ~Image[p].stuck

ASSUME ModesAssumption == ChmodModes \subseteq Modes

ASSUME FlagAssumption == Recursive \in BOOLEAN

Ops == {"login", "cat", "touch", "chmod", "mkdir", "mkdir -p", "rm", "rmdir", "cd",
        "open", "write", "close"}

\* PathMappingFsFile of a redirection: `attached` while data still maps path to it.
File == [open: BOOLEAN, path: Paths, attached: BOOLEAN, wrote: Contents]

NoFile == [open |-> FALSE, path |-> Root, attached |-> FALSE, wrote |-> Empty]

(***************************************************************************)
(* Path resolution                                                         *)
(***************************************************************************)

\* Realpath succeeds when every component can be Lstat'ed, whatever its kind.
Reachable(t, p) == \A q \in Prefixes(p) : Exists(base, layer[t], q)

\* Lstat'ing a component that is reached takes its mutex to read its mode.
Hangs(t, p) == \E q \in Prefixes(p) : Reachable(t, q) /\ StatNode(base, layer[t], q).stuck

\* What t sees at p, or the kind "none" where p does not resolve.
Seen(t, p) == IF Reachable(t, p) THEN StatNode(base, layer[t], p) ELSE NoNode

Listed(t, p) == ListDir(base, layer[t], p)

\* Result r of an operation, provided that path q of t resolves.
Resolved(t, q, r) == IF Reachable(t, q) THEN r ELSE Result(base, layer[t], "noent")

(***************************************************************************)
(* Steps                                                                   *)
(***************************************************************************)

Report(t, op, p, err) == last' = [who |-> t, op |-> op, path |-> p, err |-> err]

\* Operation op of t leaves the filesystems of result r.
Effect(t, op, p, r) ==
    /\ base' = r.base
    /\ layer' = [layer EXCEPT ![t] = r.layer]
    /\ Report(t, op, p, r.err)
    /\ UNCHANGED << cwd, hung >>

\* The open file loses its name when its entry leaves the map.
Detach(t, newLayer) ==
    file' = [file EXCEPT ![t].attached = @ /\ newLayer[file[t].path].kind = "file"]

Hang(t, op, p) ==
    /\ hung' = [hung EXCEPT ![t] = TRUE]
    /\ Report(t, op, p, "hang")
    /\ UNCHANGED << base, layer, cwd, file >>

\* A command on path p either waits for a mutex or leaves result r.
Run(t, op, p, hangs, r) ==
    /\ ~hung[t]
    /\ IF hangs THEN Hang(t, op, p) ELSE Effect(t, op, p, r) /\ Detach(t, r.layer)

\* A session ends and the next one starts with a new layer (NewTenantOS).
Login(t) ==
    /\ ~hung[t]
    /\ layer' = [layer EXCEPT ![t] = FreshFs]
    /\ cwd' = [cwd EXCEPT ![t] = Root]
    /\ file' = [file EXCEPT ![t] = NoFile]
    /\ Report(t, "login", Root, "ok")
    /\ UNCHANGED << base, hung >>

\* cat
Cat(t, p) == Run(t, "cat", p, Hangs(t, p), Resolved(t, p, ReadFile(base, layer[t], p)))

\* chmod: Stat, then Chmod.
ChangeMode(t, p, mode) ==
    Run(t, "chmod", p, Hangs(t, p), Resolved(t, p, Chmod(base, layer[t], p, mode)))

\* touch: Chtimes; if the file is missing, Create and Close.  When Create
\* fails too, touch closes the nil file it got and panics.
Touch(t, p, noCreate) ==
    LET times   == Resolved(t, p, Chtimes(base, layer[t], p))
        created == Resolved(t, Parent(p), Create(times.base, times.layer, p))
    IN  Run(t, "touch", p, Hangs(t, p),
            CASE times.err # "noent" -> times
              [] times.err = "noent" /\ noCreate -> [times EXCEPT !.err = "ok"]
              [] times.err = "noent" /\ ~noCreate /\ created.err = "ok" ->
                    [created EXCEPT !.layer = CloseFile(created.layer, p, FALSE)]
              [] OTHER -> [created EXCEPT !.err = "panic"])

\* mkdir resolves the parent only.
MakeDir(t, p) ==
    Run(t, "mkdir", p, Hangs(t, Parent(p)),
        Resolved(t, Parent(p), Mkdir(base, layer[t], p)))

\* mkdir -p: PathMappingFs.MkdirAll drops the leading "/" of an absolute path,
\* so that every piece is made below the working directory; a piece that is a
\* base directory "exists" and is passed over.
MakeDirs(t, path) ==
    LET target == cwd[t] \o path
        r      == Mkdir(base, layer[t], target)
        hangs  == \/ Hangs(t, cwd[t])
                  \/ /\ Reachable(t, cwd[t])
                     /\ \E q \in Prefixes(Parent(target)) : StatNode(base, layer[t], q).stuck
    IN  /\ target \in Paths
        /\ Run(t, "mkdir -p", path, hangs,
               Resolved(t, cwd[t], [r EXCEPT !.err = IF @ = "exist" THEN "ok" ELSE @]))

\* rm: a directory needs -r, which removes that one entry.
Rm(t, p) ==
    Run(t, "rm", p, Hangs(t, p),
        Resolved(t, p, IF Seen(t, p).kind = "dir" /\ ~Recursive
                       THEN Result(base, layer[t], "isdir")
                       ELSE Remove(base, layer[t], p)))

\* Mutant: rmdir does not ask whether the directory is empty.
RmdirAnything(t, p) ==
    Run(t, "rmdir", p, Hangs(t, p),
        Resolved(t, p, IF Seen(t, p).kind = "dir" THEN Remove(base, layer[t], p)
                       ELSE Result(base, layer[t], "notdir")))

\* rmdir: a directory that lists as empty.  Merging two listings reads the
\* name, under its mutex, of every entry.
Rmdir(t, p) ==
    LET merging == layer[t][p].kind = "dir" /\ base[p].kind = "dir"
        hangs   == \/ Hangs(t, p)
                   \/ /\ Reachable(t, p) /\ merging
                      /\ \E k \in layer[t][p].kids : layer[t][k].stuck
    IN  Run(t, "rmdir", p, hangs,
            Resolved(t, p,
                CASE Seen(t, p).kind # "dir" -> Result(base, layer[t], "notdir")
                  [] Seen(t, p).kind = "dir" /\ Listed(t, p) # {} ->
                        Result(base, layer[t], "notempty")
                  [] OTHER -> Remove(base, layer[t], p)))

\* cd
ChangeDir(t, p) ==
    /\ ~hung[t]
    /\ \/ /\ Hangs(t, p)
          /\ Hang(t, "cd", p)
       \/ /\ ~Hangs(t, p)
          /\ Seen(t, p).kind = "dir"
          /\ cwd' = [cwd EXCEPT ![t] = p]
          /\ Report(t, "cd", p, "ok")
          /\ UNCHANGED << base, layer, file, hung >>
       \/ /\ ~Hangs(t, p)
          /\ Seen(t, p).kind # "dir"
          /\ Report(t, "cd", p, "notdir")
          /\ UNCHANGED << base, layer, cwd, file, hung >>

\* `> p`: Create, which resolves the parent only and then looks at p itself.
Open(t, p) ==
    LET r     == Resolved(t, Parent(p), Create(base, layer[t], p))
        hangs == \/ Hangs(t, Parent(p))
                 \/ Reachable(t, Parent(p)) /\ layer[t][p].stuck
    IN  /\ ~hung[t]
        /\ ~file[t].open
        /\ IF hangs THEN Hang(t, "open", p)
           ELSE /\ Effect(t, "open", p, r)
                /\ file' = [file EXCEPT ![t] =
                       IF r.err = "ok"
                       THEN [open |-> TRUE, path |-> p, attached |-> TRUE, wrote |-> Empty]
                       ELSE @]

\* The command writes to its standard output: to the FileData, named or not.
Write(t, content) ==
    LET f == file[t]
    IN  /\ ~hung[t]
        /\ f.open
        /\ IF f.attached /\ layer[t][f.path].stuck THEN Hang(t, "write", f.path)
           ELSE /\ Effect(t, "write", f.path,
                       Result(base, IF f.attached THEN WriteFile(layer[t], f.path, content)
                                    ELSE layer[t], "ok"))
                /\ file' = [file EXCEPT ![t].wrote = content]

\* The statement ends and closes its redirection.
Close(t) ==
    LET f == file[t]
    IN  /\ ~hung[t]
        /\ f.open
        /\ IF f.attached /\ layer[t][f.path].stuck THEN Hang(t, "close", f.path)
           ELSE /\ Effect(t, "close", f.path,
                       Result(base, IF f.attached THEN CloseFile(layer[t], f.path, FALSE)
                                    ELSE layer[t], "ok"))
                /\ file' = [file EXCEPT ![t] = NoFile]

Init ==
    /\ base = Image
    /\ layer = [t \in Tenants |-> FreshFs]
    /\ cwd = [t \in Tenants |-> Root]
    /\ file = [t \in Tenants |-> NoFile]
    /\ hung = [t \in Tenants |-> FALSE]
    /\ last \in [who: Tenants, op: {"login"}, path: {Root}, err: {"ok"}]

OnPath(t, p) ==
    \/ Cat(t, p)
    \/ \E noCreate \in BOOLEAN : Touch(t, p, noCreate)
    \/ \E mode \in ChmodModes : ChangeMode(t, p, mode)
    \/ MakeDir(t, p)
    \/ MakeDirs(t, p)
    \/ Rm(t, p)
    \/ Rmdir(t, p)
    \/ ChangeDir(t, p)
    \/ Open(t, p)

Next ==
    \E t \in Tenants :
        \/ Login(t)
        \/ \E p \in Paths : OnPath(t, p)
        \/ \E content \in Contents \ {Empty} : Write(t, content)
        \/ Close(t)

Spec == Init /\ [][Next]_vars

(***************************************************************************)
(* Properties                                                              *)
(***************************************************************************)

\* Types.
TypeOK ==
    /\ base \in FsData
    /\ layer \in [Tenants -> FsData]
    /\ cwd \in [Tenants -> Paths]
    /\ file \in [Tenants -> File]
    /\ hung \in [Tenants -> BOOLEAN]
    /\ last \in [who: Tenants, op: Ops, path: Paths, err: Errs]

\* Sandbox: whatever a session does, the shared image stays as it was extracted,
\* and no other session sees any difference: entry, attribute or listing.
\* (ReadOnlyFs, the read-only handles of memmapfs, the copy before each write.)
Sandbox ==
    [][ /\ base' = base
        /\ \A u \in Tenants \ {last'.who} : \A p \in Paths :
              /\ Seen(u, p)' = Seen(u, p)
              /\ Listed(u, p)' = Listed(u, p) ]_vars

\* A listing names nothing that cannot be opened: the index of children kept in
\* each directory, merged over both filesystems, agrees with the map by path.
ListedIsSeen ==
    \A t \in Tenants, p \in Paths :
        Seen(t, p).kind = "dir" => \A k \in Listed(t, p) : Seen(t, k).kind # "none"

\* Nothing can be opened that its directory does not list.  Without rm -r, which
\* leaves the entries below a directory in the map.
SeenIsListed ==
    \A t \in Tenants, p \in Paths \ {Root} :
        Seen(t, p).kind # "none" =>
            Seen(t, Parent(p)).kind = "dir" /\ p \in Listed(t, Parent(p))

\* A layer never replaces a directory of the image by a file: a whole subtree
\* would vanish behind it.
LayerKeepsDirs ==
    \A t \in Tenants, p \in Paths : Image[p].kind = "dir" => layer[t][p].kind # "file"

\* What the shell wrote into a redirection that still has its name is what a
\* reader of that path finds.
WrittenIsSeen ==
    \A t \in Tenants :
        file[t].open /\ file[t].attached /\ Reachable(t, file[t].path) =>
            /\ Seen(t, file[t].path).kind = "file"
            /\ Seen(t, file[t].path).content = file[t].wrote

\* The path the last operation worked on.
Target == IF last'.op = "mkdir -p" THEN cwd[last'.who] \o last'.path ELSE last'.path

\* An operation that reports an error leaves every file and directory as it was,
\* although copying up and making parents may have come before the error.
ErrorsChangeNothing ==
    [][ last'.err # "ok" =>
          \A t \in Tenants, p \in Paths : SameEntry(Seen(t, p)', Seen(t, p)) ]_vars

\* An operation changes entries at the path it names and, by making missing
\* parents, on the way there, where nothing that exists is touched.  Except that
\* mkdir below a plain file of the image hides that file behind a directory:
\* Cow.Mkdir makes the parents in the layer without a look at the base.
OnlyTargetChanges ==
    [][ last'.op # "login" =>
          \A t \in Tenants, p \in Paths :
              \/ SameEntry(Seen(t, p)', Seen(t, p))
              \/ p = Target
              \/ /\ p \in Prefixes(Target)
                 /\ Seen(t, p)'.kind = "dir"
                 /\ \/ Seen(t, p).kind = "none"
                    \/ last'.op \in {"mkdir", "mkdir -p"} /\ layer[t][p].kind = "none" ]_vars

\* Reading, chmod and touch change no file that exists, and turn nothing into
\* something else, whether or not the file had to be copied up first.
MetadataKeepsContent ==
    [][ last'.op \in {"cat", "chmod", "touch"} =>
          \A t \in Tenants, p \in Paths :
              Seen(t, p).kind # "none" => SameEntry(Seen(t, p)', Seen(t, p)) ]_vars

\* After rm or rmdir succeeded the path is as the image has it: only the
\* overlay's entry is removed.
RemoveReveals ==
    [][ last'.op \in {"rm", "rmdir"} /\ last'.err = "ok" =>
          \A t \in Tenants : t = last'.who =>
              SameEntry(Seen(t, last.path)', base'[last'.path]) ]_vars

\* No command but touch panics and none waits for ever.  Without rm -r.
NoCrash == [][last'.err \in {"panic", "hang"} => last'.op = "touch"]_vars

(***************************************************************************)
(* What documentation, tests and assertions say, and the code does not do  *)
(***************************************************************************)

\* rm -r: "remove directories and their contents recursively" (rm.go): nothing
\* below the removed path stays in the layer.
RecursiveRemovesContents ==
    [][ last'.op = "rm" /\ last'.err = "ok" =>
          \A p \in Paths : last'.path \in Prefixes(p) =>
              layer'[last'.who][p].kind = "none" ]_vars

\* mkdir -p of an absolute path "creates a directory path and all parents that
\* does not exist yet" (vos.go, MkdirAll): a path that was missing is a directory.
MkdirAllMakesThePath ==
    [][ last'.op = "mkdir -p" /\ last'.err = "ok" =>
          \A t \in Tenants, p \in Paths :
              t = last'.who /\ p = last'.path /\ Seen(t, p).kind = "none" =>
                  Seen(t, p)'.kind = "dir" ]_vars

=============================================================================
