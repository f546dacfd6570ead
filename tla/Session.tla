------------------------------ MODULE Session ------------------------------
(***************************************************************************)
(* The life of SSH sessions in the honeypot: HandleConnection in           *)
(* core/honeypot.go with everything that runs beside it.  A session is     *)
(* five goroutines:                                                        *)
(*   - the request loop of gliderlabs/ssh, which serves pty-req,           *)
(*     window-change, shell and exec, and announces window sizes on the    *)
(*     channel winch (capacity 1);                                         *)
(*   - the handler, which logs, opens the recording, sets the tenant up    *)
(*     and runs the shell;                                                 *)
(*   - the watcher HandleConnection starts, which moves window sizes from  *)
(*     winch to the tenant;                                                *)
(*   - the two goroutines of the shell's readline: the terminal goroutine  *)
(*     reads keys once it is kicked and hands them to the operation        *)
(*     goroutine, which offers the shell a line, or why there is none.     *)
(* Sessions share only the event log, whose entries carry the session and  *)
(* are appended whole; `story` and `updates` are the part of each session, *)
(* kept apart because only scheduling orders one against the other.  What a *)
(* command does to the filesystem is TenantFs; here it runs, fails, panics *)
(* or hangs up.  Window sizes are numbered in the order the client         *)
(* announces them.                                                         *)
(***************************************************************************)
EXTENDS Integers, Sequences

CONSTANTS
    Sessions,      \* session channels
    MaxWindows,    \* bound: windows a client announces, the first with pty-req
    MaxLines,      \* bound: lines, and keys that end or break one, a client types
    MaxStatements, \* bound: statements on a line
    MaxInput       \* bound: windows, lines and further statements of a line together

ASSUME BoundsAssumption ==
    MaxWindows \in Nat /\ MaxLines \in Nat /\ MaxStatements \in Nat \ {0} /\ MaxInput \in Nat

VARIABLES
    loop,       \* the request loop: serving, updating sess.pty, sending on winch, ended
    pty,        \* sess.pty.Window, 0 while there is no pty
    winch,      \* the buffer of sess.winch, closed once the loop ended
    mode,       \* what the client asked for: shell or exec
    gone,       \* the client closed the channel or the connection is lost
    closed,     \* the client closed its input, the channel's other direction is open
    exited,     \* sess.exited
    status,     \* the exit status the client was sent
    typed,      \* how much the client has typed
    read,       \* how much of it has been read
    pc,         \* where the handler is
    shown,      \* the window the handler read from sess.pty
    left,       \* statements of the line the shell has still to execute
    quit,       \* Shell.Quit
    lastRet,    \* Shell.lastRet
    result,     \* what the shell's Run returned
    recording,  \* the session's recording file
    term,       \* TenantOS.pty
    watcher,    \* the watcher goroutine
    hand,       \* the window the watcher has received and not yet set
    terminal,   \* the terminal goroutine of the shell's readline
    kick,       \* kickChan (capacity 1) holds a kick
    operation,  \* the operation goroutine
    offered,    \* the operation goroutine offers a line on outchan (no capacity)
    failure,    \* what errchan (capacity 1) holds: "none", "interrupt" or "EOF"
    story,      \* the kinds of the session's entries in the event log, but for what
                \* commands log of themselves and
    updates     \* the windows of its TerminalUpdate entries

loopVars     == << loop, pty, mode >>
clientVars   == << gone, closed, typed >>
exitVars     == << exited, status >>
lineVars     == << left, quit, lastRet, result >>
readlineVars == << terminal, kick, operation, offered, failure >>
shellVars    == << read, readlineVars, lineVars >>
tenantVars   == << term, watcher, hand, shown >>
logVars      == << story, updates >>
vars == << loopVars, winch, clientVars, exitVars, shellVars, tenantVars, pc, recording, logVars >>

\* Reading a struct while another goroutine assigns it may mix both values.
Torn == MaxWindows + 1

Windows == 0 .. Torn

\* What winch may hold.
Buffers == {<< >>} \cup {<< w >> : w \in Windows}

Codes == {0, 1, 2}

NoStatus == 3

EntryKinds == {"LoginAttempt", "OpenTtyLog", "RunCommand", "UnknownCommand", "Panic", "SessionEnded"}

LoopStates == {"serving", "updating", "sending", "ended"}

WatcherStates == {"none", "waiting", "setting", "gone"}

TerminalStates == {"none", "parked", "reading", "gone"}

OperationStates == {"none", "running", "gone"}

Failures == {"none", "interrupt", "EOF"}

\* The handler: HandleConnection up to the shell, the shell, and the way back.
Labels == {"idle", "login", "ttylog", "create", "pty", "setpty", "start",
           "prompt", "wait", "execute", "running",
           "exit", "summary", "close", "return", "done"}

Record(s, entries) == story' = [story EXCEPT ![s] = @ \o entries]

Goto(s, label) == pc' = [pc EXCEPT ![s] = label]

(***************************************************************************)
(* The client                                                              *)
(***************************************************************************)

\* How much of MaxInput the client has used.
Used(s) == typed[s] + pty[s] + (IF loop[s] = "updating" THEN 1 ELSE 0)

Type(s) ==
    /\ ~gone[s] /\ ~closed[s]
    /\ typed[s] < MaxLines /\ Used(s) < MaxInput
    /\ typed' = [typed EXCEPT ![s] = @ + 1]
    /\ UNCHANGED << loopVars, winch, gone, closed, exitVars, shellVars, tenantVars, pc, recording, logVars >>

\* The client sends end of file, as one does whose input is a file.
CloseInput(s) ==
    /\ ~gone[s] /\ ~closed[s]
    /\ closed' = [closed EXCEPT ![s] = TRUE]
    /\ UNCHANGED << loopVars, winch, gone, typed, exitVars, shellVars, tenantVars, pc, recording, logVars >>

HangUp(s) ==
    /\ ~gone[s]
    /\ gone' = [gone EXCEPT ![s] = TRUE]
    /\ UNCHANGED << loopVars, winch, closed, typed, exitVars, shellVars, tenantVars, pc, recording, logVars >>

(***************************************************************************)
(* The request loop.  Requests sent before a hang-up are still served.     *)
(***************************************************************************)

\* pty-req, once and before the session is handled: winch is made holding the first size.
PtyRequest(s) ==
    /\ loop[s] = "serving"
    /\ pc[s] = "idle"
    /\ pty[s] = 0
    /\ MaxWindows > 0 /\ Used(s) < MaxInput
    /\ pty' = [pty EXCEPT ![s] = 1]
    /\ winch' = [winch EXCEPT ![s] = << 1 >>]
    /\ UNCHANGED << loop, mode, clientVars, exitVars, shellVars, tenantVars, pc, recording, logVars >>

\* shell or exec: the handler goroutine starts, once.
Handle(s, m) ==
    /\ loop[s] = "serving"
    /\ pc[s] = "idle"
    /\ mode' = [mode EXCEPT ![s] = m]
    /\ Goto(s, "login")
    /\ UNCHANGED << loop, pty, winch, clientVars, exitVars, shellVars, tenantVars, recording, logVars >>

\* window-change with a pty: the loop is about to assign sess.pty.Window.
WindowChange(s) ==
    /\ loop[s] = "serving"
    /\ pty[s] \in 1 .. MaxWindows - 1
    /\ Used(s) < MaxInput
    /\ loop' = [loop EXCEPT ![s] = "updating"]
    /\ UNCHANGED << pty, mode, winch, clientVars, exitVars, shellVars, tenantVars, pc, recording, logVars >>

AssignWindow(s) ==
    /\ loop[s] = "updating"
    /\ pty' = [pty EXCEPT ![s] = @ + 1]
    /\ loop' = [loop EXCEPT ![s] = "sending"]
    /\ UNCHANGED << mode, winch, clientVars, exitVars, shellVars, tenantVars, pc, recording, logVars >>

\* Mutants: the size is dropped, or replaces the one waiting, when winch is full.
SendOrDrop(s) ==
    /\ loop[s] = "sending"
    /\ winch' = IF winch[s] = << >> THEN [winch EXCEPT ![s] = << pty[s] >>] ELSE winch
    /\ loop' = [loop EXCEPT ![s] = "serving"]
    /\ UNCHANGED << pty, mode, clientVars, exitVars, shellVars, tenantVars, pc, recording, logVars >>

SendReplacing(s) ==
    /\ loop[s] = "sending"
    /\ winch' = [winch EXCEPT ![s] = << pty[s] >>]
    /\ loop' = [loop EXCEPT ![s] = "serving"]
    /\ UNCHANGED << pty, mode, clientVars, exitVars, shellVars, tenantVars, pc, recording, logVars >>

\* The loop sends the size on winch and waits while it is full.
SendWindow(s) ==
    /\ loop[s] = "sending"
    /\ winch[s] = << >>
    /\ winch' = [winch EXCEPT ![s] = << pty[s] >>]
    /\ loop' = [loop EXCEPT ![s] = "serving"]
    /\ UNCHANGED << pty, mode, clientVars, exitVars, shellVars, tenantVars, pc, recording, logVars >>

\* The channel's requests end with the channel; the loop closes winch, if there is one.
EndRequests(s) ==
    /\ loop[s] = "serving"
    /\ gone[s]
    /\ loop' = [loop EXCEPT ![s] = "ended"]
    /\ UNCHANGED << pty, mode, winch, clientVars, exitVars, shellVars, tenantVars, pc, recording, logVars >>

(***************************************************************************)
(* The watcher                                                             *)
(***************************************************************************)

\* SetPTY records the terminal and then sets it.
SetPTY(s, window) ==
    /\ updates' = [updates EXCEPT ![s] = Append(@, window)]
    /\ term' = [term EXCEPT ![s] = window]

ReceiveWindow(s) ==
    /\ watcher[s] = "waiting"
    /\ winch[s] # << >>
    /\ hand' = [hand EXCEPT ![s] = Head(winch[s])]
    /\ winch' = [winch EXCEPT ![s] = Tail(@)]
    /\ watcher' = [watcher EXCEPT ![s] = "setting"]
    /\ UNCHANGED << loopVars, clientVars, exitVars, shellVars, term, shown, pc, recording, logVars >>

\* Mutant: the watcher sets the size it was started with.
SetWindowShown(s) ==
    /\ watcher[s] = "setting"
    /\ SetPTY(s, shown[s])
    /\ hand' = [hand EXCEPT ![s] = 0]
    /\ watcher' = [watcher EXCEPT ![s] = "waiting"]
    /\ UNCHANGED << loopVars, winch, clientVars, exitVars, shellVars, shown, pc, recording, story >>

SetWindow(s) ==
    /\ watcher[s] = "setting"
    /\ SetPTY(s, hand[s])
    /\ hand' = [hand EXCEPT ![s] = 0]
    /\ watcher' = [watcher EXCEPT ![s] = "waiting"]
    /\ UNCHANGED << loopVars, winch, clientVars, exitVars, shellVars, shown, pc, recording, story >>

\* Mutant: the watcher goes on with zero windows when winch is closed.
WatchClosed(s) ==
    /\ watcher[s] = "waiting"
    /\ winch[s] = << >>
    /\ loop[s] = "ended" /\ pty[s] # 0
    /\ term' = [term EXCEPT ![s] = 0]
    /\ UNCHANGED << loopVars, winch, clientVars, exitVars, shellVars, hand, shown, watcher, pc,
                    recording, logVars >>

\* winch is closed and drained.  Without a pty winch is nil, and a receive from it blocks for ever.
EndWatcher(s) ==
    /\ watcher[s] = "waiting"
    /\ winch[s] = << >>
    /\ loop[s] = "ended" /\ pty[s] # 0
    /\ watcher' = [watcher EXCEPT ![s] = "gone"]
    /\ UNCHANGED << loopVars, winch, clientVars, exitVars, shellVars, term, hand, shown, pc,
                    recording, logVars >>

(***************************************************************************)
(* The handler: HandleConnection, then sess.Exit(0) by gliderlabs/ssh      *)
(***************************************************************************)

\* Mutant: a second call sends its status too.
SendExitAgain(s, code) ==
    /\ exited' = [exited EXCEPT ![s] = TRUE]
    /\ status' = [status EXCEPT ![s] = IF gone[s] THEN @ ELSE code]

\* session.Exit: the first call sends the status, if there is anyone to send it
\* to, and closes the channel; later calls only return an error.
SendExit(s, code) ==
    /\ exited' = [exited EXCEPT ![s] = TRUE]
    /\ status' = [status EXCEPT ![s] = IF exited[s] \/ gone[s] THEN @ ELSE code]

Login(s) ==
    /\ pc[s] = "login"
    /\ Record(s, << "LoginAttempt" >>)
    /\ Goto(s, "ttylog")
    /\ UNCHANGED << loopVars, winch, clientVars, exitVars, shellVars, tenantVars, recording, updates >>

AnnounceLog(s) ==
    /\ pc[s] = "ttylog"
    /\ Record(s, << "OpenTtyLog" >>)
    /\ Goto(s, "create")
    /\ UNCHANGED << loopVars, winch, clientVars, exitVars, shellVars, tenantVars, recording, updates >>

\* CreateSessionLog; when it fails HandleConnection returns.
CreateLog(s) ==
    /\ pc[s] = "create"
    /\ \/ /\ recording' = [recording EXCEPT ![s] = "open"]
          /\ Goto(s, "pty")
       \/ /\ recording' = recording
          /\ Goto(s, "return")
    /\ UNCHANGED << loopVars, winch, clientVars, exitVars, shellVars, tenantVars, logVars >>

\* s.Pty() copies sess.pty, which the request loop may be assigning.
ReadPty(s) ==
    /\ pc[s] = "pty"
    /\ \E window \in IF loop[s] = "updating" THEN {pty[s], pty[s] + 1, Torn} ELSE {pty[s]} :
          shown' = [shown EXCEPT ![s] = window]
    /\ Goto(s, "setpty")
    /\ UNCHANGED << loopVars, winch, clientVars, exitVars, shellVars, term, watcher, hand,
                    recording, logVars >>

\* A line has some statements.
TakeLine(s) ==
    \E n \in 1 .. MaxStatements :
        /\ n > 1 => Used(s) + n - 1 <= MaxInput
        /\ left' = [left EXCEPT ![s] = n]

\* SetPTY, then the watcher is started.
StartWatcher(s) ==
    /\ pc[s] = "setpty"
    /\ SetPTY(s, shown[s])
    /\ watcher' = [watcher EXCEPT ![s] = "waiting"]
    /\ Goto(s, "start")
    /\ UNCHANGED << loopVars, winch, clientVars, exitVars, shellVars, shown, hand, recording, story >>

\* NewShell starts readline's goroutines; `sh -c` has its line already.
RunShell(s) ==
    /\ Record(s, << "RunCommand" >>)
    /\ terminal' = [terminal EXCEPT ![s] = "parked"]
    /\ operation' = [operation EXCEPT ![s] = "running"]
    /\ IF mode[s] = "exec" THEN TakeLine(s) /\ Goto(s, "execute")
                           ELSE left' = left /\ Goto(s, "prompt")
    /\ UNCHANGED << kick, offered, failure, quit, lastRet, result >>

\* A default shell that only the image has runs as a segmentation fault.
FakeShell(s) ==
    /\ Record(s, << "UnknownCommand", "RunCommand" >>)
    /\ result' = [result EXCEPT ![s] = 1]
    /\ Goto(s, "exit")
    /\ UNCHANGED << readlineVars, left, quit, lastRet >>

\* Mutant: the summary is only deferred once there is a shell.
StartShellFirst(s) ==
    /\ pc[s] = "start"
    /\ \/ RunShell(s)
       \/ FakeShell(s)
       \/ /\ Record(s, << "UnknownCommand" >>)
          /\ Goto(s, "close")
          /\ UNCHANGED << readlineVars, lineVars >>
    /\ UNCHANGED << loopVars, winch, clientVars, exitVars, read, tenantVars, recording, updates >>

\* LoginProc().StartProcess of the default shell, which may not exist.
StartShell(s) ==
    /\ pc[s] = "start"
    /\ \/ RunShell(s)
       \/ FakeShell(s)
       \/ /\ Record(s, << "UnknownCommand" >>)
          /\ Goto(s, "summary")
          /\ UNCHANGED << readlineVars, lineVars >>
    /\ UNCHANGED << loopVars, winch, clientVars, exitVars, read, tenantVars, recording, updates >>

(***************************************************************************)
(* readline: the terminal goroutine, which reads, and the operation        *)
(* goroutine, which takes what it read and offers it to the shell.  A key  *)
(* that only edits the line changes nothing here.                          *)
(***************************************************************************)

\* The terminal goroutine waits for a kick before it reads.
TakeKick(s) ==
    /\ terminal[s] = "parked"
    /\ kick[s]
    /\ kick' = [kick EXCEPT ![s] = FALSE]
    /\ terminal' = [terminal EXCEPT ![s] = "reading"]
    /\ UNCHANGED << loopVars, winch, clientVars, exitVars, read, operation, offered, failure, lineVars,
                    tenantVars, pc, recording, logVars >>

\* The operation goroutine can take a key: it does not wait for the shell to take a line.
Attends(s) == operation[s] = "running" /\ ~offered[s]

\* The terminal goroutine hands a key over, and then parks or reads on.
HandOver(s, next) ==
    /\ terminal[s] = "reading"
    /\ Attends(s)
    /\ read[s] < typed[s]
    /\ read' = [read EXCEPT ![s] = @ + 1]
    /\ terminal' = [terminal EXCEPT ![s] = next]
    /\ UNCHANGED << loopVars, winch, clientVars, exitVars, lineVars, tenantVars, pc, recording, logVars >>

\* Enter ends a line.  So does a NUL after some text, but the terminal goroutine
\* does not know it for the end and reads on.
ReadLine(s) ==
    /\ \E next \in {"parked", "reading"} : HandOver(s, next)
    /\ offered' = [offered EXCEPT ![s] = TRUE]
    /\ UNCHANGED << kick, operation, failure >>

\* Ctrl-D after some text deletes, and Ctrl-C leaves a search: the terminal
\* goroutine has parked, and the operation goroutine kicks it.
ReadMore(s) ==
    /\ HandOver(s, "parked")
    /\ kick' = [kick EXCEPT ![s] = TRUE]
    /\ UNCHANGED << operation, offered, failure >>

\* Ctrl-C gives the line up, and Ctrl-D on an empty one means end of file.
ReadFailure(s) ==
    /\ HandOver(s, "parked")
    /\ failure[s] = "none"
    /\ \E why \in {"interrupt", "EOF"} : failure' = [failure EXCEPT ![s] = why]
    /\ UNCHANGED << kick, operation, offered >>

\* A NUL on an empty line is end of file to the operation goroutine, which ends;
\* the terminal goroutine reads on.
ReadNul(s) ==
    /\ HandOver(s, "reading")
    /\ failure[s] = "none"
    /\ failure' = [failure EXCEPT ![s] = "EOF"]
    /\ operation' = [operation EXCEPT ![s] = "gone"]
    /\ UNCHANGED << kick, offered >>

\* The input has ended, and the terminal goroutine with it.  Text that no Enter
\* followed is offered as a line.
ReadEof(s) ==
    /\ terminal[s] = "reading"
    /\ read[s] = typed[s]
    /\ gone[s] \/ closed[s]
    /\ terminal' = [terminal EXCEPT ![s] = "gone"]
    /\ \/ offered' = offered
       \/ Attends(s) /\ offered' = [offered EXCEPT ![s] = TRUE]
    /\ UNCHANGED << loopVars, winch, clientVars, exitVars, read, kick, operation, failure, lineVars,
                    tenantVars, pc, recording, logVars >>


\* The operation goroutine finds the terminal goroutine gone, reports it and ends.
ReportEof(s) ==
    /\ terminal[s] = "gone"
    /\ Attends(s)
    /\ failure[s] = "none"
    /\ failure' = [failure EXCEPT ![s] = "EOF"]
    /\ operation' = [operation EXCEPT ![s] = "gone"]
    /\ UNCHANGED << loopVars, winch, clientVars, exitVars, read, terminal, kick, offered, lineVars,
                    tenantVars, pc, recording, logVars >>

(***************************************************************************)
(* The shell                                                               *)
(***************************************************************************)

\* Mutant: kickChan has no capacity, and a kick is lost unless the terminal
\* goroutine is already waiting for it.
PromptUnheard(s) ==
    /\ pc[s] = "prompt"
    /\ \E heard \in BOOLEAN : kick' = [kick EXCEPT ![s] = @ \/ (heard /\ terminal[s] = "parked")]
    /\ Goto(s, "wait")
    /\ UNCHANGED << loopVars, winch, clientVars, exitVars, read, terminal, operation, offered, failure,
                    lineVars, tenantVars, recording, logVars >>

\* runInteractive asks readline for a line: a kick, unless there is one already.
Prompt(s) ==
    /\ pc[s] = "prompt"
    /\ kick' = [kick EXCEPT ![s] = TRUE]
    /\ Goto(s, "wait")
    /\ UNCHANGED << loopVars, winch, clientVars, exitVars, read, terminal, operation, offered, failure,
                    lineVars, tenantVars, recording, logVars >>

ReceiveLine(s) ==
    /\ pc[s] = "wait"
    /\ offered[s]
    /\ offered' = [offered EXCEPT ![s] = FALSE]
    /\ TakeLine(s)
    /\ Goto(s, "execute")
    /\ UNCHANGED << loopVars, winch, clientVars, exitVars, read, terminal, kick, operation, failure,
                    quit, lastRet, result, tenantVars, recording, logVars >>

\* runInteractive prompts again after Ctrl-C and returns 1 at end of file.
ReceiveFailure(s) ==
    /\ pc[s] = "wait"
    /\ failure[s] # "none"
    /\ failure' = [failure EXCEPT ![s] = "none"]
    /\ \/ failure[s] = "interrupt" /\ Goto(s, "prompt") /\ result' = result
       \/ failure[s] = "EOF" /\ Goto(s, "exit") /\ result' = [result EXCEPT ![s] = 1]
    /\ UNCHANGED << loopVars, winch, clientVars, exitVars, read, terminal, kick, operation, offered,
                    left, quit, lastRet, tenantVars, recording, logVars >>

\* The line is done, leaving code in lastRet: `sh -c` returns it, and an
\* interactive shell prompts again unless exit was on the line.
LineDone(s, code, quits) ==
    /\ left' = [left EXCEPT ![s] = 0]
    /\ quit' = [quit EXCEPT ![s] = quits]
    /\ lastRet' = [lastRet EXCEPT ![s] = code]
    /\ result' = [result EXCEPT ![s] = IF mode[s] = "exec" THEN code ELSE 0]
    /\ Goto(s, IF mode[s] = "exec" \/ quits THEN "exit" ELSE "prompt")

\* executeFile goes on with the next statement, even after exit.
StatementDone(s, code, quits) ==
    \/ /\ left[s] = 1
       /\ LineDone(s, code, quits)
    \/ /\ left[s] > 1
       /\ left' = [left EXCEPT ![s] = @ - 1]
       /\ quit' = [quit EXCEPT ![s] = quits]
       /\ lastRet' = [lastRet EXCEPT ![s] = code]
       /\ Goto(s, "execute")
       /\ UNCHANGED result

\* Nothing or no more is executed: an empty line, a syntax error, a redirection
\* that fails, or the rest of && and ||.
AbandonLine(s) ==
    /\ pc[s] = "execute"
    /\ LineDone(s, lastRet[s], quit[s])
    /\ UNCHANGED << loopVars, winch, clientVars, exitVars, read, readlineVars, tenantVars, recording, logVars >>

\* Only assignments, or a command that is not found: lastRet stays.
SkipStatement(s) ==
    /\ pc[s] = "execute"
    /\ \E entries \in {<< >>, << "UnknownCommand" >>} : Record(s, entries)
    /\ StatementDone(s, lastRet[s], quit[s])
    /\ UNCHANGED << loopVars, winch, clientVars, exitVars, read, readlineVars, tenantVars, recording, updates >>

\* A builtin: exit sets Quit and returns 0.
ExecuteBuiltin(s) ==
    /\ pc[s] = "execute"
    /\ \/ StatementDone(s, 0, TRUE)
       \/ \E code \in {0, 1} : StatementDone(s, code, quit[s])
    /\ UNCHANGED << loopVars, winch, clientVars, exitVars, read, readlineVars, tenantVars, recording, logVars >>

\* A command that only the image has is logged twice and looks like a crash.
ExecuteFake(s) ==
    /\ pc[s] = "execute"
    /\ Record(s, << "UnknownCommand", "RunCommand" >>)
    /\ StatementDone(s, 1, quit[s])
    /\ UNCHANGED << loopVars, winch, clientVars, exitVars, read, readlineVars, tenantVars, recording, updates >>

\* StartProcess of a command of the honeypot.
ExecuteCommand(s) ==
    /\ pc[s] = "execute"
    /\ Record(s, << "RunCommand" >>)
    /\ Goto(s, "running")
    /\ UNCHANGED << loopVars, winch, clientVars, exitVars, shellVars, tenantVars, recording, updates >>

\* Mutant: a command does not wait for input.
CommandReadsNothing(s) ==
    /\ pc[s] = "running"
    /\ read' = [read EXCEPT ![s] = @ + 1]
    /\ UNCHANGED << loopVars, winch, clientVars, exitVars, lineVars, readlineVars, tenantVars, pc,
                    recording, logVars >>

\* The command reads a line from the session's standard input.
CommandReads(s) ==
    /\ pc[s] = "running"
    /\ read[s] < typed[s]
    /\ read' = [read EXCEPT ![s] = @ + 1]
    /\ UNCHANGED << loopVars, winch, clientVars, exitVars, lineVars, readlineVars, tenantVars, pc,
                    recording, logVars >>

CommandReturns(s) ==
    /\ pc[s] = "running"
    /\ \E code \in {0, 1} : StatementDone(s, code, quit[s])
    /\ UNCHANGED << loopVars, winch, clientVars, exitVars, read, readlineVars, tenantVars, recording, logVars >>

\* A panic is recovered by the process's Run, logged, and looks like exit code 2.
CommandPanics(s) ==
    /\ pc[s] = "running"
    /\ Record(s, << "Panic" >>)
    /\ StatementDone(s, 2, quit[s])
    /\ UNCHANGED << loopVars, winch, clientVars, exitVars, read, readlineVars, tenantVars, recording, updates >>

\* reboot: SSHExit(0), and the shell goes on.
CommandReboots(s) ==
    /\ pc[s] = "running"
    /\ SendExit(s, 0)
    /\ StatementDone(s, 0, quit[s])
    /\ UNCHANGED << loopVars, winch, clientVars, read, readlineVars, tenantVars, recording, logVars >>

\* s.Exit(shellOS.Run())
ShellExits(s) ==
    /\ pc[s] = "exit"
    /\ SendExit(s, result[s])
    /\ Goto(s, "summary")
    /\ UNCHANGED << loopVars, winch, clientVars, shellVars, tenantVars, recording, logVars >>

\* The deferred calls, last one first.
Summarise(s) ==
    /\ pc[s] = "summary"
    /\ Record(s, << "SessionEnded" >>)
    /\ Goto(s, "close")
    /\ UNCHANGED << loopVars, winch, clientVars, exitVars, shellVars, tenantVars, recording, updates >>

CloseLog(s) ==
    /\ pc[s] = "close"
    /\ recording' = [recording EXCEPT ![s] = "closed"]
    /\ Goto(s, "return")
    /\ UNCHANGED << loopVars, winch, clientVars, exitVars, shellVars, tenantVars, logVars >>

\* HandleConnection has returned; gliderlabs/ssh calls Exit(0).
Return(s) ==
    /\ pc[s] = "return"
    /\ SendExit(s, 0)
    /\ Goto(s, "done")
    /\ UNCHANGED << loopVars, winch, clientVars, shellVars, tenantVars, recording, logVars >>

(***************************************************************************)
(* Specification                                                           *)
(***************************************************************************)

Init ==
    /\ loop = [s \in Sessions |-> "serving"]
    /\ pty = [s \in Sessions |-> 0]
    /\ winch = [s \in Sessions |-> << >>]
    /\ mode = [s \in Sessions |-> "none"]
    /\ gone = [s \in Sessions |-> FALSE]
    /\ closed = [s \in Sessions |-> FALSE]
    /\ exited = [s \in Sessions |-> FALSE]
    /\ status = [s \in Sessions |-> NoStatus]
    /\ typed = [s \in Sessions |-> 0]
    /\ read = [s \in Sessions |-> 0]
    /\ pc = [s \in Sessions |-> "idle"]
    /\ shown = [s \in Sessions |-> 0]
    /\ left = [s \in Sessions |-> 0]
    /\ quit = [s \in Sessions |-> FALSE]
    /\ lastRet = [s \in Sessions |-> 0]
    /\ result = [s \in Sessions |-> 0]
    /\ recording = [s \in Sessions |-> "none"]
    /\ term = [s \in Sessions |-> 0]
    /\ watcher = [s \in Sessions |-> "none"]
    /\ hand = [s \in Sessions |-> 0]
    /\ terminal = [s \in Sessions |-> "none"]
    /\ kick = [s \in Sessions |-> FALSE]
    /\ operation = [s \in Sessions |-> "none"]
    /\ offered = [s \in Sessions |-> FALSE]
    /\ failure = [s \in Sessions |-> "none"]
    /\ story = [s \in Sessions |-> << >>]
    /\ updates = [s \in Sessions |-> << >>]

Client(s) == Type(s) \/ CloseInput(s) \/ HangUp(s) \/ PtyRequest(s) \/ (\E m \in {"shell", "exec"} : Handle(s, m))
             \/ WindowChange(s)

RequestLoop(s) == AssignWindow(s) \/ SendWindow(s) \/ EndRequests(s)

Watcher(s) == ReceiveWindow(s) \/ SetWindow(s) \/ EndWatcher(s)

Setup(s) == Login(s) \/ AnnounceLog(s) \/ CreateLog(s) \/ ReadPty(s) \/ StartWatcher(s) \/ StartShell(s)

Terminal(s) == \/ TakeKick(s) \/ ReadLine(s) \/ ReadMore(s) \/ ReadFailure(s) \/ ReadNul(s)
               \/ ReadEof(s)

Shell(s) == \/ Prompt(s) \/ ReceiveLine(s) \/ ReceiveFailure(s)
            \/ AbandonLine(s) \/ SkipStatement(s) \/ ExecuteBuiltin(s) \/ ExecuteFake(s) \/ ExecuteCommand(s)
            \/ CommandReads(s) \/ CommandReturns(s) \/ CommandPanics(s) \/ CommandReboots(s)

Teardown(s) == ShellExits(s) \/ Summarise(s) \/ CloseLog(s) \/ Return(s)

Handler(s) == Setup(s) \/ Shell(s) \/ Teardown(s)

Readline(s) == Terminal(s) \/ ReportEof(s)

Next == \E s \in Sessions : Client(s) \/ RequestLoop(s) \/ Watcher(s) \/ Readline(s) \/ Handler(s)

\* The Go scheduler runs every goroutine that can go on.  Nothing makes a client
\* send anything, end its input or hang up.
Fairness == \A s \in Sessions :
    /\ WF_vars(RequestLoop(s)) /\ WF_vars(Watcher(s))
    /\ WF_vars(Terminal(s)) /\ WF_vars(ReportEof(s))
    /\ WF_vars(Handler(s))

Spec == Init /\ [][Next]_vars /\ Fairness

(***************************************************************************)
(* Properties                                                              *)
(***************************************************************************)

\* Types.
TypeOK ==
    /\ loop \in [Sessions -> LoopStates]
    /\ pty \in [Sessions -> 0 .. MaxWindows]
    /\ winch \in [Sessions -> Buffers]
    /\ mode \in [Sessions -> {"none", "shell", "exec"}]
    /\ gone \in [Sessions -> BOOLEAN] /\ closed \in [Sessions -> BOOLEAN]
    /\ exited \in [Sessions -> BOOLEAN]
    /\ status \in [Sessions -> Codes \cup {NoStatus}]
    /\ typed \in [Sessions -> 0 .. MaxLines] /\ read \in [Sessions -> 0 .. MaxLines]
    /\ pc \in [Sessions -> Labels]
    /\ shown \in [Sessions -> Windows] /\ term \in [Sessions -> Windows]
    /\ hand \in [Sessions -> Windows]
    /\ left \in [Sessions -> 0 .. MaxStatements] /\ quit \in [Sessions -> BOOLEAN]
    /\ lastRet \in [Sessions -> Codes] /\ result \in [Sessions -> Codes]
    /\ recording \in [Sessions -> {"none", "open", "closed"}]
    /\ watcher \in [Sessions -> WatcherStates]
    /\ terminal \in [Sessions -> TerminalStates] /\ operation \in [Sessions -> OperationStates]
    /\ kick \in [Sessions -> BOOLEAN] /\ offered \in [Sessions -> BOOLEAN]
    /\ failure \in [Sessions -> Failures]
    /\ story \in [Sessions -> Seq(EntryKinds)]
    /\ updates \in [Sessions -> Seq(Windows)]

\* A session reads well in the event log, whatever its commands did: login and
\* recording come first, a panic directly follows the command that had it, and
\* when the handler is done there is one summary, last of all but for window
\* sizes, unless the recording could not be created.
StoryComplete ==
    \A s \in Sessions :
        /\ \A i \in DOMAIN story[s] :
              /\ i = 1 <=> story[s][i] = "LoginAttempt"
              /\ i = 2 <=> story[s][i] = "OpenTtyLog"
              /\ story[s][i] = "SessionEnded" => i = Len(story[s])
              /\ story[s][i] = "Panic" => i > 4 /\ story[s][i - 1] = "RunCommand"
        /\ pc[s] = "done" =>
              /\ recording[s] \in {"none", "closed"}
              /\ recording[s] = "closed" <=> story[s][Len(story[s])] = "SessionEnded"

\* Every window the client announced reaches the log once and in order: those
\* the watcher set, the one it holds and the one in winch are all that were
\* sent.  (The first entry is the handler's own look at sess.pty.)
WindowsInOrder ==
    \A s \in Sessions :
        LET set  == IF updates[s] = << >> THEN << >> ELSE Tail(updates[s])
            held == IF watcher[s] = "setting" THEN << hand[s] >> ELSE << >>
            sent == IF loop[s] = "sending" THEN pty[s] - 1 ELSE pty[s]
        IN  set \o held \o winch[s] = [i \in 1 .. sent |-> i]

\* A shell that waits for a line is not forgotten: there is one for it, or a
\* reason why there is none, or a goroutine that reads, is about to read or is
\* about to say that the input has ended, whatever keys left the terminal
\* goroutine reading on or parked and whenever the kicks came.
NoLostKick ==
    \A s \in Sessions :
        pc[s] = "wait" =>
            \/ offered[s]
            \/ failure[s] # "none"
            \/ terminal[s] = "reading"
            \/ terminal[s] = "parked" /\ kick[s]
            \/ terminal[s] = "gone" /\ operation[s] = "running"

\* The client is sent one exit status: 0 if a command hung up or there was no
\* shell to run, otherwise what the shell returned.
StatusOnce ==
    [][ \A s \in Sessions :
          status'[s] # status[s] =>
              /\ status[s] = NoStatus
              /\ status'[s] = 0 \/ (pc[s] = "exit" /\ status'[s] = result[s]) ]_vars

\* Once the watcher runs, the tenant gets to know every window size.
WindowArrives ==
    \A s \in Sessions : \A w \in 1 .. MaxWindows :
        pty[s] = w /\ watcher[s] # "none" ~> term[s] = w \/ pty[s] > w


\* With a pty, the watcher and the request loop end too.
HangUpEndsWatcher ==
    \A s \in Sessions :
        gone[s] /\ watcher[s] # "none" /\ pty[s] # 0 ~> watcher[s] = "gone" /\ loop[s] = "ended"

\* The life of a session, as far as the rest of the honeypot sees it: in the
\* event log and the directory of recordings.
LifeOf(s) ==
    IF pc[s] \in {"return", "done"} THEN "over"
    ELSE IF recording[s] = "open"
         THEN IF story[s][Len(story[s])] = "SessionEnded" THEN "summarised" ELSE "recorded"
         ELSE IF story[s] = << >> THEN "idle" ELSE "begun"

lifeSeen == [s \in Sessions |-> LifeOf(s)]

Life == INSTANCE SessionLife WITH life <- lifeSeen

\* HandleConnection keeps what SessionLife promises.
ImplementsLife == Life!Spec

\* The goroutines that keep the tenant, and with it the session's filesystem, in memory.
Keepers(s) == {watcher[s], terminal[s], operation[s]} \ {"none", "gone"}

\* "All commands are simulated and run in a per-session sandbox that's destroyed
\* on disconnect" (README.md): when the session is over nothing holds its tenant.
SandboxDestroyed ==
    \A s \in Sessions : gone[s] /\ pc[s] = "done" ~> Keepers(s) = {}

=============================================================================
