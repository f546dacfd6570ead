---------------------------- MODULE Installation ----------------------------
(***************************************************************************)
(* The configuration directory of a honeypot and the commands that work on *)
(* it: `honeyssh init` makes what is missing, `img2fs` replaces            *)
(* root_fs.tar.gz, the operator edits and removes files, and `serve` reads *)
(* all of it once, when it starts.  The operator runs one tool at a time,  *)
(* but the server may be starting or serving meanwhile.  Files are not     *)
(* written atomically: a tool that is killed, or meets a full disk, leaves *)
(* a part of one.                                                          *)
(*                                                                         *)
(* The extraction of the archive is one step: what it reads is what the    *)
(* file holds at that moment.  Serving itself is in Server and Session.    *)
(***************************************************************************)
EXTENDS RootFs, FiniteSets

CONSTANTS
    Images,      \* what img2fs is given, the embedded root filesystem first of all
    Embedded,    \* the image embedded in the program (default/root_fs.tar.gz)
    MaxCommands, \* bound: commands and edits by the operator
    MaxTrouble   \* bound: tools that are killed or whose input or output fails

ASSUME InstallationAssumption ==
    /\ Embedded \in Images /\ Images \subseteq Seq(Seq(Entries))
    /\ Plain(EntriesOf(Embedded)) /\ Extract(EntriesOf(Embedded)).err = "ok"
    /\ MaxCommands \in Nat /\ MaxTrouble \in Nat

VARIABLES
    files,     \* config.yaml, private_key and root_fs.tar.gz
    made,      \* what else is in the directory
    tool,      \* the tool the operator runs
    server,    \* the server process
    taken,     \* host keys servers took since private_key was last removed
    commands,  \* commands and edits so far
    troubles   \* failures so far

fileVars == << files, made >>
vars == << files, made, tool, server, taken, commands, troubles >>

\* In the order in which Initialize looks at them.
Steps == << "config", "key", "root", "downloads", "session_logs", "idle" >>

Files == {"config", "key", "root"}

Dirs == {"downloads", "session_logs"}

StepAfter(step) == Steps[1 + CHOOSE i \in 1 .. 5 : Steps[i] = step]

\* "empty" was created only, "part" lacks its end.
States == {"none", "empty", "part", "whole"}

Keys == 1 .. MaxCommands

\* What a server uses that could not parse its host key.
Ephemeral == 0

\* The archive of an image; `image` is that of a complete one.
Archive(entries, image) == [entries |-> entries, image |-> image]

NoArchive == Archive(<< >>, << >>)

File(state, what) == [state |-> state, what |-> what]

\* What Initialize writes; key is the one it generated.
Defaults(key) == [config |-> "default", key |-> key,
                   root |-> Archive(EntriesOf(Embedded), Embedded)]

\* What stands for the content of a file that is not there.
Blank == [config |-> "default", key |-> Ephemeral, root |-> NoArchive]

NoTool == [at |-> "idle", writing |-> FALSE, key |-> Ephemeral, image |-> << >>, left |-> << >>]

Down == [at |-> "down", data |-> FreshFs, image |-> << >>, key |-> Ephemeral]

Idle == tool = NoTool

Command == commands < MaxCommands /\ commands' = commands + 1

Trouble == troubles < MaxTrouble /\ troubles' = troubles + 1

Install(f, file) == files' = [files EXCEPT ![f] = file]

(***************************************************************************)
(* honeyssh init: Initialize                                               *)
(***************************************************************************)

\* The key is generated before anything is looked at.
RunInit ==
    /\ Idle
    /\ Command
    /\ tool' = [NoTool EXCEPT !.at = "config", !.key = commands + 1]
    /\ UNCHANGED << fileVars, server, taken, troubles >>

\* Mutant: files that exist are written anew.
LookAtFresh ==
    /\ tool.at \in Files /\ ~tool.writing
    /\ Install(tool.at, File("empty", Defaults(tool.key)[tool.at]))
    /\ tool' = [tool EXCEPT !.writing = TRUE]
    /\ UNCHANGED << made, server, taken, commands, troubles >>

\* A file that exists, whatever it holds, is skipped; another is created.
LookAt ==
    /\ tool.at \in Files /\ ~tool.writing
    /\ IF files[tool.at].state # "none"
       THEN /\ tool' = [tool EXCEPT !.at = StepAfter(tool.at)]
            /\ UNCHANGED files
       ELSE /\ Install(tool.at, File("empty", Defaults(tool.key)[tool.at]))
            /\ tool' = [tool EXCEPT !.writing = TRUE]
    /\ UNCHANGED << made, server, taken, commands, troubles >>

\* afero.WriteFile returns without an error.
WriteOut ==
    /\ tool.at \in Files /\ tool.writing
    /\ Install(tool.at, [files[tool.at] EXCEPT !.state = "whole"])
    /\ tool' = [tool EXCEPT !.at = StepAfter(tool.at), !.writing = FALSE]
    /\ UNCHANGED << made, server, taken, commands, troubles >>

MakeDir ==
    /\ tool.at \in Dirs
    /\ made' = made \cup {tool.at}
    /\ tool' = IF StepAfter(tool.at) = "idle" THEN NoTool
               ELSE [tool EXCEPT !.at = StepAfter(tool.at)]
    /\ UNCHANGED << files, server, taken, commands, troubles >>

\* Init is killed, or an error ends it: nothing is undone.
InitBreaks ==
    /\ tool.at \in Files \cup Dirs
    /\ Trouble
    /\ \/ UNCHANGED files
       \/ tool.writing /\ Install(tool.at, [files[tool.at] EXCEPT !.state = "part"])
    /\ tool' = NoTool
    /\ UNCHANGED << made, server, taken, commands >>

(***************************************************************************)
(* honeyssh img2fs                                                         *)
(***************************************************************************)

\* The output is truncated once the image's layers are known.
RunImg2fs(image) ==
    /\ Idle
    /\ Command
    /\ Install("root", File("empty", NoArchive))
    /\ tool' = [NoTool EXCEPT !.at = "walk", !.image = image, !.left = image]
    /\ UNCHANGED << made, server, taken, troubles >>

\* The loop of walkImgFs; a whiteout is remembered and written like any entry.
WalkEntry ==
    /\ tool.at = "walk" /\ tool.left # << >> /\ Head(tool.left) # << >>
    /\ LET layer == Head(tool.left)
       IN  /\ files' = [files EXCEPT !["root"].what.entries = Append(@, Head(layer))]
           /\ tool' = [tool EXCEPT !.left = << Tail(layer) >> \o Tail(@)]
    /\ UNCHANGED << made, server, taken, commands, troubles >>

NextLayer ==
    /\ tool.at = "walk" /\ tool.left # << >> /\ Head(tool.left) = << >>
    /\ tool' = [tool EXCEPT !.left = Tail(@)]
    /\ UNCHANGED << fileVars, server, taken, commands, troubles >>

\* The deferred calls close the archive.
WalkEnds ==
    /\ tool.at = "walk" /\ tool.left = << >>
    /\ Install("root", File("whole", Archive(files["root"].what.entries, tool.image)))
    /\ tool' = NoTool
    /\ UNCHANGED << made, server, taken, commands, troubles >>

\* A layer cannot be opened, or its next header not be read: the command fails,
\* but the deferred calls close the archive of what came before.
WalkFails ==
    /\ tool.at = "walk" /\ tool.left # << >>
    /\ Trouble
    /\ LET entries == files["root"].what.entries
       IN  Install("root", File("whole", Archive(entries, << entries >>)))
    /\ tool' = NoTool
    /\ UNCHANGED << made, server, taken, commands >>

\* The data of an entry is cut short, the archive cannot be written or closed,
\* or img2fs is killed.
WalkBreaks ==
    /\ tool.at = "walk"
    /\ Trouble
    /\ Install("root", File("part", NoArchive))
    /\ tool' = NoTool
    /\ UNCHANGED << made, server, taken, commands >>

(***************************************************************************)
(* The operator's editor and shell                                         *)
(***************************************************************************)

\* Validate and UnmarshalStrict refuse a "wrong" one.
EditConfig(what) ==
    /\ Idle
    /\ Command
    /\ files["config"].state # "none"
    /\ Install("config", File("whole", what))
    /\ UNCHANGED << made, tool, server, taken, troubles >>

RemoveFile(f) ==
    /\ Idle
    /\ Command
    /\ files[f].state # "none"
    /\ Install(f, [files[f] EXCEPT !.state = "none"])
    /\ taken' = IF f = "key" THEN {} ELSE taken
    /\ UNCHANGED << made, tool, server, troubles >>

(***************************************************************************)
(* honeyssh serve                                                          *)
(***************************************************************************)

Serve ==
    /\ server.at = "down"
    /\ Command
    /\ server' = [server EXCEPT !.at = "config"]
    /\ UNCHANGED << fileVars, tool, taken, troubles >>

\* Load: the end of the default config.yaml is its users, and what is before
\* them passes; an empty file lacks what Validate requires.
Loads(config) ==
    CASE config.state = "whole" -> config.what # "wrong"
      [] config.state = "part"  -> TRUE
      [] OTHER -> FALSE

\* The cut is anywhere: it loads only when it is behind the required settings.
LoadConfig ==
    /\ server.at = "config"
    /\ \/ /\ Loads(files["config"])
          /\ server' = [server EXCEPT !.at = "image"]
       \/ /\ ~Loads(files["config"]) \/ files["config"].state = "part"
          /\ server' = Down
    /\ UNCHANGED << fileVars, tool, taken, commands, troubles >>

\* NewVFSFromConfig
ReadImage ==
    /\ server.at = "image"
    /\ LET root == files["root"]
           r    == Extract(root.what.entries)
       IN  server' = IF root.state = "whole" /\ r.err = "ok"
                     THEN [server EXCEPT !.at = "log", !.data = r.data,
                                         !.image = root.what.image]
                     ELSE Down
    /\ UNCHANGED << fileVars, tool, taken, commands, troubles >>

\* OpenAppLog makes the log when it is missing.
OpenLog ==
    /\ server.at = "log"
    /\ \/ /\ made' = made \cup {"app.log"}
          /\ server' = [server EXCEPT !.at = "key"]
          /\ UNCHANGED troubles
       \/ /\ Trouble
          /\ server' = Down
          /\ UNCHANGED made
    /\ UNCHANGED << files, tool, taken, commands >>

\* PrivateKeyPem fails when there is no file.  NewHoneypot drops the error of
\* a key it cannot parse, and the server generates one.
ReadKey ==
    /\ server.at = "key"
    /\ LET key  == files["key"]
           used == IF key.state = "whole" THEN key.what ELSE Ephemeral
       IN  IF key.state = "none" THEN server' = Down /\ UNCHANGED taken
           ELSE /\ server' = [server EXCEPT !.at = "listen", !.key = used]
                /\ taken' = taken \cup {used}
    /\ UNCHANGED << fileVars, tool, commands, troubles >>

Listen ==
    /\ server.at = "listen"
    /\ server' = [server EXCEPT !.at = "up"]
    /\ UNCHANGED << fileVars, tool, taken, commands, troubles >>

\* A signal, or a port that is taken.
Stop ==
    /\ server.at \in {"listen", "up"}
    /\ server' = Down
    /\ UNCHANGED << fileVars, tool, taken, commands, troubles >>

Init ==
    /\ files = [f \in Files |-> File("none", Blank[f])]
    /\ made = {}
    /\ tool = NoTool
    /\ server = Down
    /\ taken = {}
    /\ commands = 0
    /\ troubles = 0

ToolStep ==
    \/ RunInit \/ LookAt \/ WriteOut \/ MakeDir \/ InitBreaks
    \/ \E image \in Images : RunImg2fs(image)
    \/ WalkEntry \/ NextLayer \/ WalkEnds \/ WalkFails \/ WalkBreaks

OperatorStep ==
    \/ \E what \in {"edited", "wrong"} : EditConfig(what)
    \/ \E f \in Files : RemoveFile(f)

ServerStep == Serve \/ LoadConfig \/ ReadImage \/ OpenLog \/ ReadKey \/ Listen \/ Stop

Next == ToolStep \/ OperatorStep \/ ServerStep

Spec == Init /\ [][Next]_vars

(***************************************************************************)
(* Properties                                                              *)
(***************************************************************************)

\* Type invariant.
TypeOK ==
    /\ files["config"] \in [state: States, what: {"default", "edited", "wrong"}]
    /\ files["key"] \in [state: States, what: {Ephemeral} \cup Keys]
    /\ files["root"].state \in States
    /\ files["root"].what.entries \in Seq(Entries)
    /\ files["root"].what.image \in Seq(Seq(Entries))
    /\ made \subseteq Dirs \cup {"app.log"}
    /\ tool.at \in Seqs!ToSet(Steps) \cup {"walk"}
    /\ tool.writing \in BOOLEAN
    /\ tool.key \in {Ephemeral} \cup Keys
    /\ tool.image \in Seq(Seq(Entries)) /\ tool.left \in Seq(Seq(Entries))
    /\ server.at \in {"down", "config", "image", "log", "key", "listen", "up"}
    /\ server.data \in FsData
    /\ server.image \in Seq(Seq(Entries))
    /\ server.key \in {Ephemeral} \cup Keys
    /\ taken \subseteq {Ephemeral} \cup Keys
    /\ commands \in 0 .. MaxCommands
    /\ troubles \in 0 .. MaxTrouble

\* Whatever archive it was started with, a server that accepts connections shows
\* its sessions a filesystem whose two representations agree, and, of an image
\* that survives the way, exactly the union of its layers: an archive that was
\* cut while it was written is either refused or stands for what is in it.
ServedImage ==
    server.at = "up" =>
        /\ IsTree(server.data)
        /\ LET entries == EntriesOf(server.image)
           IN  Plain(entries) => server.data = Overlay(entries)

\* However often init is run, killed and run again, and whenever servers are
\* started in between, they present one lasting host key until the operator
\* removes private_key, and it is the one in the file.
HostKeyLasts ==
    \A key \in taken \ {Ephemeral} : files["key"] = File("whole", key)

=============================================================================
