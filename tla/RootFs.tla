------------------------------- MODULE RootFs -------------------------------
(***************************************************************************)
(* The way of a container image into the honeypot: img2fs writes the       *)
(* entries of the image's layers into one archive (cmd/img2fs.go), and     *)
(* ExtractTarToVFS (core/vos/fs.go) unpacks the archive into the in-memory *)
(* filesystem that all sessions share.                                     *)
(*                                                                         *)
(* An entry's path is the cleaned one: "a", "./a", "/a" and "a/" name the  *)
(* same file, since the extraction trims both slashes and the filesystem   *)
(* cleans what is left.  A layer is the sequence of its entries, an image  *)
(* the sequence of its layers, lowest first.                               *)
(***************************************************************************)
EXTENDS MemMapFs

Seqs == INSTANCE SequencesExt

\* Types of a tar header.  The content of a "link" is its target; a "hard"
\* link has the content of its target but carries no data; a "whiteout" is an
\* empty file whose name hides a path of the layers below.
EntryKinds == {"dir", "file", "link", "hard", "whiteout"}

Entries == [kind: EntryKinds, path: Paths, content: Contents, mode: Modes \ {"none"}]

\* What io.CopyN finds behind the header.
DataIn(e) == IF e.kind \in {"file", "link"} THEN e.content ELSE Empty

(***************************************************************************)
(* Extraction                                                              *)
(***************************************************************************)

\* MemMapFs.Mkdir, where "exists" is no error.
EnsureDir(data, p, mode) ==
    CASE data[p].kind # "none" -> Done(data)
      [] data[p].kind = "none" /\ ParentErr(data, p) # "ok" -> Fail(data, ParentErr(data, p))
      [] OTHER -> Done(Register(data, p, NewDir(mode, {})))

\* Both OpenFile with O_TRUNC followed by a copy of the data, and
\* SymlinkIfPossible, which writes the target into a plain file.
PutFile(data, p, content) ==
    LET created == CreateFile(data, p)
    IN  IF created.err = "ok" THEN Done(WriteFile(created.data, p, content)) ELSE created

\* Chmod, and Chtimes to the time in the header.
Finished(data, e) ==
    [SetMode(data, e.path, e.mode).data EXCEPT ![e.path].mtime = "image"]

\* Mutant: a file that is there already is left as it is, as a directory is.
ExtractEntryOnce(data, e) ==
    LET within == MkdirAll(data, Parent(e.path), "0777").data
        put    == IF e.kind = "dir" THEN EnsureDir(within, e.path, e.mode)
                  ELSE IF within[e.path].kind = "file" THEN Done(within)
                  ELSE PutFile(within, e.path, DataIn(e))
    IN  IF put.err = "ok" THEN Done(Finished(put.data, e)) ELSE put

\* One turn of the loop of ExtractTarToVFS; that the parents could not be made
\* only shows when the entry cannot be.
ExtractEntry(data, e) ==
    LET within == MkdirAll(data, Parent(e.path), "0777").data
        put    == IF e.kind = "dir" THEN EnsureDir(within, e.path, e.mode)
                  ELSE PutFile(within, e.path, DataIn(e))
    IN  IF put.err = "ok" THEN Done(Finished(put.data, e)) ELSE put

\* ExtractTarToVFS, entry after entry: the first error ends it.
Extractions(entries) ==
    LET unpacked[n \in 0 .. Len(entries)] ==
            IF n = 0 THEN Done(FreshFs)
            ELSE IF unpacked[n - 1].err = "ok" THEN ExtractEntry(unpacked[n - 1].data, entries[n])
            ELSE unpacked[n - 1]
    IN  unpacked

Extract(entries) == Extractions(entries)[Len(entries)]

(***************************************************************************)
(* What an image is                                                        *)
(***************************************************************************)

\* The entries of all layers, the lowest layer's first.
EntriesOf(image) == Seqs!FlattenSeq(image)

\* Where path p is among the entries, and the last entry of it, which is the
\* highest layer's.
At(entries, p) == {i \in DOMAIN entries : entries[i].path = p}

Top(entries, p) == entries[Seqs!Max(At(entries, p))]

Above(entries, p) == \E i \in DOMAIN entries : p \in Prefixes(entries[i].path) \ {entries[i].path}

OverlaidKind(entries, p) ==
    CASE At(entries, p) # {} -> IF Top(entries, p).kind = "dir" THEN "dir" ELSE "file"
      [] At(entries, p) = {} /\ (p = Root \/ Above(entries, p)) -> "dir"
      [] OTHER -> "none"

\* The union of the layers, each over those below it: the filesystem of a
\* container made from the image.  A directory no layer lists is made on the
\* way, at the time of the extraction.
Overlay(entries) ==
    [p \in Paths |->
        LET listed == At(entries, p) # {}
        IN  CASE OverlaidKind(entries, p) = "none" -> NoNode
              [] OverlaidKind(entries, p) = "dir" ->
                    [NewDir(IF listed THEN Top(entries, p).mode
                            ELSE IF p = Root THEN "0755" ELSE "0777",
                            {k \in Paths \ {Root} : Parent(k) = p
                                                    /\ OverlaidKind(entries, k) # "none"})
                     EXCEPT !.mtime = IF listed THEN "image" ELSE "session"]
              [] OTHER -> [NewFile EXCEPT !.mode = Top(entries, p).mode, !.mtime = "image",
                                          !.content = Top(entries, p).content]]

\* The images that survive the way: no whiteouts and no hard links, a path is
\* a directory in all layers or in none, and nothing is below a file.
Plain(entries) ==
    /\ \A i \in DOMAIN entries :
          /\ entries[i].kind \notin {"hard", "whiteout"}
          /\ \A q \in Prefixes(entries[i].path) \ {entries[i].path} : OverlaidKind(entries, q) = "dir"
    /\ \A i, j \in DOMAIN entries :
          entries[i].path = entries[j].path => (entries[i].kind = "dir") = (entries[j].kind = "dir")

\* What every session relies on, TenantFs.ImageAssumption: a tree whose map and
\* lists of children agree.
IsTree(data) ==
    /\ data[Root].kind = "dir"
    /\ \A p \in Paths :
          /\ data[p].kind # "none" => \A q \in Prefixes(p) \ {p} : data[q].kind = "dir"
          /\ data[p].kind # "file" => data[p].content = Empty
          /\ data[p].kids = {k \in Paths \ {Root} : Parent(k) = p /\ data[k].kind # "none"}
          /\ ~data[p].stuck

=============================================================================
