----------------------------- MODULE Downloads -----------------------------
(***************************************************************************)
(* What the honeypot keeps of its sessions: the event log, and the files   *)
(* under downloads/ that wget, curl and scp leave through                  *)
(* TenantProcOS.DownloadPath.  A session names itself and each download    *)
(* after the clock; a download is a metadata file and the data, created    *)
(* one after the other and logged last, and then the data of the network   *)
(* is written to it and to the session's own file.  Any step may fail, the *)
(* disk may take a part of an entry or of the metadata, and the process    *)
(* may be killed and started again over what is there.                     *)
(* What else a session may do and log, panics and faked commands among it, *)
(* is in Session.                                                          *)
(* The clock stands still for as long as the model wants: names that       *)
(* should differ are the same when it did not move between them.           *)
(***************************************************************************)
EXTENDS EventLog

CONSTANTS
    Sessions,   \* connections, each served once
    MaxWork,    \* bound: commands and arguments of a session
    MaxBytes,   \* bound: pieces of data of a download
    MaxTime,    \* bound: ticks of the clock
    MaxTrouble  \* bound: writes the disk fails, kills of the process, and refused logins

ASSUME DownloadsAssumption ==
    /\ MaxWork \in Nat /\ MaxBytes \in Nat /\ MaxTime \in Nat /\ MaxTrouble \in Nat
    /\ IsFiniteSet(Sessions) /\ Sessions \cap {"hole", "process"} = {}

VARIABLES
    log,     \* app.log, what each session and the process wrote to it
    faults,  \* writes that failed in part
    now,     \* the last reading of the clock
    up,      \* the process serves, or was killed
    kills,   \* times it was killed
    refused, \* logins that were refused
    pc,      \* where each session is
    id,      \* its identifier
    command, \* the download command it runs
    work,    \* commands and arguments it has had
    base,    \* the name of the download it is at
    pos,     \* how far it has written the download
    local,   \* the session's own file (or the screen) the download is copied to
    meta,    \* the metadata file of each name: missing, torn, or whom it names
    data,    \* the data file of each name: missing, or its pieces, each by whom it was written
    named    \* the sessions that have used a name, as often as they did

logVars     == << log, faults >>
processVars == << up, kills, refused >>
worldVars   == << now, processVars >>
fileVars    == << meta, data >>
fetchVars   == << base, pos, local >>
vars == << logVars, worldVars, pc, id, command, work, fetchVars, fileVars, named >>

Times == 0 .. MaxTime

Process == "process"

Writers == Sessions \cup {Process}

Tools == {"wget", "curl", "scp"}

Missing == << "missing" >>

TornMeta == << "torn" >>

MetaOf(s) == << "names", s >>

DataOf(pieces) == << "pieces", pieces >>

Troubles == faults + kills + refused

\* Where a session is: HandleConnection, the shell, and a download command.
Labels == {"new", "login", "tty", "start", "shell",
           "args", "local", "name", "meta", "tell", "data", "entry", "request", "save", "copy",
           "ended", "killed"}

\* Those at which it may be recording an entry.
Recording == {"login", "tty", "start", "shell", "args", "entry"}

Goto(s, label) == pc' = [pc EXCEPT ![s] = label]

\* Logger.Record: whoever records goes on whether the disk took the entry, all of
\* it but the end of the line, a part of it, or nothing.
RecordBy(writer, entry) ==
    \/ /\ log' = [log EXCEPT ![writer] = Append(@, Line(entry))]
       /\ UNCHANGED faults
    \/ /\ Troubles < MaxTrouble
       /\ faults' = faults + 1
       /\ \/ UNCHANGED log
          \/ \E rest \in {Line(entry), Torn} : log' = [log EXCEPT ![writer] = Append(@, rest)]

\* SessionLogger.Record of session s.
Record(s, kind, what) == RecordBy(s, Entry(kind, id[s], what))

\* Mutant: no two readings are the same.
ReadClockOnce(t) == t \in now .. MaxTime /\ now' = t + 1

\* The clock is read: it may have moved since it was read last.
ReadClock(t) == t \in now .. MaxTime /\ now' = t

(***************************************************************************)
(* The session around the commands                                         *)
(***************************************************************************)

\* PasswordHandler: a refused login is logged without a session.
Refuse ==
    /\ up
    /\ Troubles < MaxTrouble
    /\ refused' = refused + 1
    /\ RecordBy(Process, Entry("LoginAttempt", NoId, Word("failure")))
    /\ UNCHANGED << now, up, kills, pc, id, command, work, fetchVars, fileVars, named >>

\* HandleConnection: the session is named after the time.
Connect(s) ==
    /\ up
    /\ pc[s] = "new"
    /\ \E t \in Times : ReadClock(t) /\ id' = [id EXCEPT ![s] = t]
    /\ Goto(s, "login")
    /\ UNCHANGED << logVars, processVars, command, work, fetchVars, fileVars, named >>

Login(s) ==
    /\ pc[s] = "login"
    /\ Record(s, "LoginAttempt", Word("success"))
    /\ Goto(s, "tty")
    /\ UNCHANGED << worldVars, id, command, work, fetchVars, fileVars, named >>

\* The recording is announced, and created or not.
OpenTtyLog(s) ==
    /\ pc[s] = "tty"
    /\ Record(s, "OpenTtyLog", Word("recording"))
    /\ \E created \in BOOLEAN : Goto(s, IF created THEN "start" ELSE "ended")
    /\ UNCHANGED << worldVars, id, command, work, fetchVars, fileVars, named >>

\* Another line of the session, which counts as work.
Works(s) ==
    /\ work[s] < MaxWork
    /\ work' = [work EXCEPT ![s] = @ + 1]

\* StartProcess of the login shell.
StartShell(s) ==
    /\ pc[s] = "start"
    /\ Record(s, "RunCommand", Word("shell"))
    /\ Goto(s, "shell")
    /\ UNCHANGED << worldVars, id, command, work, fetchVars, fileVars, named >>

\* A command that StartProcess does not find.
UnknownCommand(s) ==
    /\ pc[s] = "shell"
    /\ Works(s)
    /\ Record(s, "UnknownCommand", Word("other"))
    /\ UNCHANGED << worldVars, pc, id, command, fetchVars, fileVars, named >>

RunTool(s, tool) ==
    /\ pc[s] = "shell"
    /\ Works(s)
    /\ Record(s, "RunCommand", Word(tool))
    /\ command' = [command EXCEPT ![s] = tool]
    /\ Goto(s, "args")
    /\ UNCHANGED << worldVars, id, fetchVars, fileVars, named >>

\* Of sessions that are over nothing but the evidence is left.
Discard(gone) ==
    /\ command' = [s \in Sessions |-> IF s \in gone THEN "scp" ELSE command[s]]
    /\ base' = [s \in Sessions |-> IF s \in gone THEN 0 ELSE base[s]]
    /\ pos' = [s \in Sessions |-> IF s \in gone THEN 0 ELSE pos[s]]
    /\ local' = [s \in Sessions |-> IF s \in gone THEN << >> ELSE local[s]]

\* The shell ends, or the client hangs up, and the deferred summary is logged.
EndSession(s) ==
    /\ pc[s] = "shell"
    /\ Record(s, "SessionEnded", Word("summary"))
    /\ Goto(s, "ended")
    /\ Discard({s})
    /\ UNCHANGED << worldVars, id, work, fileVars, named >>

(***************************************************************************)
(* wget, curl and scp: one argument after the other, and for each          *)
(* DownloadPath and the transfer.  An argument that fails is followed by   *)
(* the next.                                                               *)
(***************************************************************************)

\* Flags that cannot be parsed, and arguments that look like flags, are logged and passed over.
SkipFlag(s) ==
    /\ pc[s] = "args"
    /\ Works(s)
    /\ Record(s, "InvalidInvocation", Word(command[s]))
    /\ UNCHANGED << worldVars, pc, id, command, fetchVars, fileVars, named >>

\* curl opens the file it writes to before it asks for the download, wget when it has an answer.
NextArg(s) ==
    /\ pc[s] = "args"
    /\ Works(s)
    /\ local' = [local EXCEPT ![s] = << >>]
    /\ pos' = [pos EXCEPT ![s] = 0]
    /\ Goto(s, IF command[s] = "curl" THEN "local" ELSE "name")
    /\ UNCHANGED << logVars, worldVars, id, command, base, fileVars, named >>

\* wget and curl go on with the next argument, scp has only one.
NextOrShell(s) == IF command[s] = "scp" THEN "shell" ELSE "args"

NoMoreArgs(s) ==
    /\ pc[s] = "args"
    /\ Goto(s, "shell")
    /\ UNCHANGED << logVars, worldVars, id, command, work, fetchVars, fileVars, named >>

\* virtOS.Create of curl and wget; it fails on a directory, say.
OpenLocal(s) ==
    /\ pc[s] \in {"local", "save"}
    /\ \E opened \in BOOLEAN :
          Goto(s, IF ~opened THEN "args" ELSE IF pc[s] = "local" THEN "name" ELSE "copy")
    /\ UNCHANGED << logVars, worldVars, id, command, work, fetchVars, fileVars, named >>

\* DownloadPath begins: the download is named after the time.
NameDownload(s) ==
    /\ pc[s] = "name"
    /\ \E t \in Times :
          /\ ReadClock(t)
          /\ base' = [base EXCEPT ![s] = t]
          /\ named' = [named EXCEPT ![t] = Append(@, s)]
    /\ Goto(s, "meta")
    /\ UNCHANGED << logVars, processVars, id, command, work, pos, local, fileVars >>

\* Mutant: a download goes on without its metadata.
CreateMetaOrNot(s) ==
    /\ pc[s] = "meta"
    /\ \/ meta' = [meta EXCEPT ![base[s]] = TornMeta] /\ Goto(s, "tell")
       \/ UNCHANGED meta /\ Goto(s, "data")
    /\ UNCHANGED << logVars, worldVars, id, command, work, fetchVars, data, named >>

\* The metadata file is created, and emptied if there is one; without it there is no download.
CreateMeta(s) ==
    /\ pc[s] = "meta"
    /\ \/ meta' = [meta EXCEPT ![base[s]] = TornMeta] /\ Goto(s, "tell")
       \/ UNCHANGED meta /\ Goto(s, NextOrShell(s))
    /\ UNCHANGED << logVars, worldVars, id, command, work, fetchVars, data, named >>

\* The error of writing it is ignored.
WriteMeta(s) ==
    /\ pc[s] = "tell"
    /\ \/ meta' = [meta EXCEPT ![base[s]] = MetaOf(s)] /\ UNCHANGED faults
       \/ Troubles < MaxTrouble /\ faults' = faults + 1 /\ UNCHANGED meta
    /\ Goto(s, "data")
    /\ UNCHANGED << log, worldVars, id, command, work, fetchVars, data, named >>

CreateData(s) ==
    /\ pc[s] = "data"
    /\ \/ data' = [data EXCEPT ![base[s]] = DataOf(<< >>)] /\ Goto(s, "entry")
       \/ UNCHANGED data /\ Goto(s, NextOrShell(s))
    /\ UNCHANGED << logVars, worldVars, id, command, work, fetchVars, meta, named >>

LogDownload(s) ==
    /\ pc[s] = "entry"
    /\ Record(s, "Download", Name(base[s]))
    /\ Goto(s, IF command[s] = "scp" THEN "copy" ELSE "request")
    /\ UNCHANGED << worldVars, id, command, work, fetchVars, fileVars, named >>

\* The request is refused, or times out, or is answered.
Request(s) ==
    /\ pc[s] = "request"
    /\ \E answered \in BOOLEAN :
          Goto(s, IF ~answered THEN "args" ELSE IF command[s] = "wget" THEN "save" ELSE "copy")
    /\ UNCHANGED << logVars, worldVars, id, command, work, fetchVars, fileVars, named >>

\* A file after a write of one piece at an offset.
Written(pieces, offset, piece) ==
    [i \in 1 .. IF offset < Len(pieces) THEN Len(pieces) ELSE offset + 1 |->
        IF i = offset + 1 THEN piece ELSE IF i <= Len(pieces) THEN pieces[i] ELSE "hole"]

\* Mutant: the session's file is written first.
CopyLocalFirst(s) ==
    /\ pc[s] = "copy"
    /\ pos[s] < MaxBytes
    /\ \E stored, copied \in BOOLEAN :
          LET both == copied /\ stored IN
          /\ local' = IF copied THEN [local EXCEPT ![s] = Append(@, s)] ELSE local
          /\ data' = IF both
                     THEN [data EXCEPT ![base[s]] = DataOf(Written(@[2], pos[s], s))] ELSE data
          /\ pos' = IF both THEN [pos EXCEPT ![s] = @ + 1] ELSE pos
          /\ Goto(s, IF both THEN "copy" ELSE NextOrShell(s))
    /\ UNCHANGED << logVars, worldVars, id, command, work, base, meta, named >>

\* A piece of the body goes to the download and then to the session's file
\* (io.MultiWriter); where one of them fails the transfer ends.
Copy(s) ==
    /\ pc[s] = "copy"
    /\ pos[s] < MaxBytes
    /\ \E stored, copied \in BOOLEAN :
          LET both == stored /\ copied IN
          /\ data' = IF stored
                     THEN [data EXCEPT ![base[s]] = DataOf(Written(@[2], pos[s], s))] ELSE data
          /\ local' = IF both /\ command[s] # "scp" THEN [local EXCEPT ![s] = Append(@, s)] ELSE local
          /\ pos' = IF stored THEN [pos EXCEPT ![s] = @ + 1] ELSE pos
          /\ Goto(s, IF both THEN "copy" ELSE NextOrShell(s))
    /\ UNCHANGED << logVars, worldVars, id, command, work, base, meta, named >>

\* The body ends, or the connection is lost; scp does not tell the two apart.
CopyEnds(s) ==
    /\ pc[s] = "copy"
    /\ Goto(s, NextOrShell(s))
    /\ UNCHANGED << logVars, worldVars, id, command, work, fetchVars, fileVars, named >>

(***************************************************************************)
(* The process                                                             *)
(***************************************************************************)

\* It is killed, perhaps in the middle of a write to the log.
Kill ==
    /\ up
    /\ Troubles < MaxTrouble
    /\ kills' = kills + 1
    /\ up' = FALSE
    /\ pc' = [s \in Sessions |-> IF pc[s] \in {"new", "ended"} THEN pc[s] ELSE "killed"]
    /\ \/ UNCHANGED logVars
       \/ /\ \E s \in Sessions : pc[s] \in Recording
          /\ faults' = faults + 1
          /\ log' = [log EXCEPT ![Process] = Append(@, Torn)]
    /\ Discard({s \in Sessions : pc[s] # "new"})
    /\ UNCHANGED << now, refused, id, work, fileVars, named >>

\* Mutant: the log is started again.
StartOver ==
    /\ ~up
    /\ up' = TRUE
    /\ log' = [w \in Writers |-> << >>]
    /\ UNCHANGED << faults, now, kills, refused, pc, id, command, work, fetchVars, fileVars, named >>

\* It starts: the log is opened to be appended to, and ListenAndServe records it.
Start ==
    /\ ~up
    /\ up' = TRUE
    /\ RecordBy(Process, Entry("HoneypotEvent", NoId, Word("start")))
    /\ UNCHANGED << now, kills, refused, pc, id, command, work, fetchVars, fileVars, named >>

Init ==
    /\ log = [w \in Writers |-> << >>] /\ faults = 0
    /\ now = 0 /\ up = FALSE /\ kills = 0 /\ refused = 0
    /\ pc = [s \in Sessions |-> "new"]
    /\ id = [s \in Sessions |-> NoId]
    /\ command = [s \in Sessions |-> "scp"]
    /\ work = [s \in Sessions |-> 0]
    /\ base = [s \in Sessions |-> 0]
    /\ pos = [s \in Sessions |-> 0]
    /\ local = [s \in Sessions |-> << >>]
    /\ meta = [t \in Times |-> Missing]
    /\ data = [t \in Times |-> Missing]
    /\ named = [t \in Times |-> << >>]

Step(s) ==
    \/ Connect(s) \/ Login(s) \/ OpenTtyLog(s) \/ EndSession(s)
    \/ StartShell(s) \/ UnknownCommand(s)
    \/ \E tool \in Tools : RunTool(s, tool)
    \/ SkipFlag(s) \/ NextArg(s) \/ NoMoreArgs(s) \/ OpenLocal(s)
    \/ NameDownload(s) \/ CreateMeta(s) \/ WriteMeta(s) \/ CreateData(s) \/ LogDownload(s)
    \/ Request(s) \/ Copy(s) \/ CopyEnds(s)

Next ==
    \/ \E s \in Sessions : Step(s)
    \/ Refuse \/ Kill \/ Start

Spec == Init /\ [][Next]_vars

(***************************************************************************)
(* Properties                                                              *)
(***************************************************************************)

Sole(t) == Len(named[t]) = 1

Stored(file) == IF file = Missing THEN << >> ELSE file[2]

Whatever ==
    {Word(w) : w \in Tools \cup {"success", "failure", "start", "shell", "other", "recording", "summary"}}
        \cup {Name(t) : t \in Times}

TypeOK ==
    /\ \A w \in Writers : \A i \in DOMAIN log[w] :
          \/ log[w][i] = Torn
          \/ /\ log[w][i][1] = "line"
             /\ log[w][i][2] \in [kind : Kinds, id : Times \cup {NoId}, what : Whatever]
    /\ faults \in 0 .. MaxTrouble /\ now \in Times /\ up \in BOOLEAN /\ kills \in 0 .. MaxTrouble
    /\ refused \in 0 .. MaxTrouble
    /\ pc \in [Sessions -> Labels] /\ id \in [Sessions -> Times \cup {NoId}]
    /\ command \in [Sessions -> Tools] /\ work \in [Sessions -> 0 .. MaxWork]
    /\ base \in [Sessions -> Times] /\ pos \in [Sessions -> 0 .. MaxBytes]
    /\ \A s \in Sessions : local[s] \in Seq({s}) /\ Len(local[s]) <= MaxBytes
    /\ meta \in [Times -> {Missing, TornMeta} \cup {MetaOf(s) : s \in Sessions}]
    /\ \A t \in Times :
          data[t] # Missing => data[t][2] \in Seq(Sessions \cup {"hole"}) /\ Len(data[t][2]) <= MaxBytes
    /\ named \in [Times -> Seq(Sessions)]

\* The file; how the parts of those who wrote it are mixed is left open.
Log == LET order == SetToSeq(Writers) IN FlattenSeq([i \in DOMAIN order |-> log[order[i]]])

LogEntries == EntriesOf(Log)

\* Whatever stops a download or kills the process, and in whatever order other
\* sessions move: a download the log names exists, with a metadata file, and is
\* of the session that is named there and in the log; data never stands without
\* a metadata file, and, unless the disk failed, never without the log's word
\* for it (DownloadPath, tenantprocos.go:284-320).  Of names that two downloads
\* share nothing can be said.
TraceableDownloads ==
    \A t \in Times : Sole(t) =>
        LET s == named[t][1]
            Tells(chunk) == chunk # Torn /\ chunk[2].kind = "Download" /\ chunk[2].what = Name(t)
        IN  /\ \A w \in Writers : \A i \in DOMAIN log[w] :
                  Tells(log[w][i]) => log[w][i][2].id = id[s] /\ data[t] # Missing
            /\ data[t] # Missing => meta[t] # Missing /\ (faults = 0 => meta[t] = MetaOf(s))
            /\ \A i \in DOMAIN Stored(data[t]) : data[t][2][i] = s
            /\ Stored(data[t]) # << >> /\ faults = 0 => \E i \in DOMAIN log[s] : Tells(log[s][i])

\* What a session's own file received of a download the honeypot has too: the
\* attacker never has more than what is kept (io.MultiWriter, wget.go:208, curl.go:163).
CopiesAreKept ==
    \A s \in Sessions : Sole(base[s]) => IsPrefix(local[s], Stored(data[base[s]]))

\* No step, a restart included, takes back an entry, a session's metadata or
\* data that was stored, unless two downloads share the name.
EvidenceStays ==
    [][ /\ \A w \in Writers : IsPrefix(log[w], log'[w])
        /\ \A t \in Times : Len(named'[t]) <= 1 =>
              /\ meta[t] = Missing \/ meta[t] = TornMeta \/ meta'[t] = meta[t]
              /\ IsPrefix(Stored(data[t]), Stored(data'[t])) ]_vars

Alone(s) == \A r \in Sessions \ {s} : id[r] # id[s]

\* The entries of all the sessions that a report tells of.
CountedIn(sessions) ==
    LET entries(n) == IF n \in DOMAIN sessions THEN sessions[n].entries ELSE 0
        before[t \in 0 .. MaxTime + 1] ==
            IF t = 0 THEN entries(NoId) ELSE before[t - 1] + entries(t - 1)
    IN  before[MaxTime + 1]

\* The reports agree with what happened as long as the disk took every entry:
\* `events interactions` tells of each session that shares its identifier with no
\* other whether it came to its end, and of its downloads exactly those that are
\* on the disk and not just about to be logged; and with the refused logins and
\* the starts of the process, which are in no session, that is all there is for
\* `events summary` to count.
ReportsTell ==
    faults = 0 =>
        LET entries  == LogEntries
            sessions == Interactions(entries)
        IN  /\ Readable(Log)
            /\ \A s \in Sessions : Alone(s) /\ id[s] \in DOMAIN sessions =>
                  LET told == sessions[id[s]]
                  IN  /\ told.summed <=> pc[s] = "ended" /\ told.commands # << >>
                      /\ \A t \in Times : named[t] = << s >> =>
                            /\ Contains(told.downloads, Name(t)) => data[t] # Missing
                            /\ data[t] # Missing /\ pc[s] \notin {"entry", "killed"} =>
                                  Contains(told.downloads, Name(t))
            /\ Summary(entries).entries = Len(log[Process]) + CountedIn(sessions)
=============================================================================
