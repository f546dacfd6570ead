---------------------------- MODULE SessionProofs ----------------------------
(***************************************************************************)
(* For any number of sessions, windows, lines and statements: types, the   *)
(* order of windows, that a session implements SessionLife, that its       *)
(* client gets one status, that a shell that waits is not forgotten, and   *)
(* that its entries in the event log tell its story.                       *)
(***************************************************************************)
EXTENDS Session, TLAPS, SequenceTheorems

(***************************************************************************)
(* Types                                                                   *)
(***************************************************************************)

\* A request loop that is about to assign a window has one left to assign.
RoomForWindow ==
    \A s \in Sessions : loop[s] = "updating" => pty[s] \in 1 .. MaxWindows - 1

TypeInv == TypeOK /\ RoomForWindow

\* What winch holds: nothing or one window.
LEMMA OneWindow ==
    /\ \A w \in Windows : << w >> \in Buffers /\ Head(<< w >>) = w /\ Tail(<< w >>) = << >>
    /\ \A b \in Buffers : b # << >> => \E w \in Windows : b = << w >>
    /\ << >> \in Buffers
BY DEF Buffers

\* What one step adds to the story, where there is a choice.
LEMMA Entries ==
    /\ << >> \in Seq(EntryKinds) /\ << "UnknownCommand" >> \in Seq(EntryKinds)
    /\ << "RunCommand" >> \in Seq(EntryKinds)
    /\ << "UnknownCommand", "RunCommand" >> \in Seq(EntryKinds)
BY DEF EntryKinds

\* What the end of a statement assigns.
LineTyped ==
    /\ left \in [Sessions -> 0 .. MaxStatements]
    /\ quit \in [Sessions -> BOOLEAN]
    /\ lastRet \in [Sessions -> Codes]
    /\ result \in [Sessions -> Codes]
    /\ pc \in [Sessions -> Labels]

\* The end of a line, and of a statement.
LEMMA LineDoneType ==
    ASSUME TypeOK, NEW s \in Sessions, NEW code \in Codes, NEW quits \in BOOLEAN,
           LineDone(s, code, quits)
    PROVE  LineTyped'
<1>1. left' \in [Sessions -> 0 .. MaxStatements]
  BY BoundsAssumption DEF LineDone, TypeOK
<1>2. quit' \in [Sessions -> BOOLEAN]
  BY DEF LineDone, TypeOK
<1>3. lastRet' \in [Sessions -> Codes] /\ result' \in [Sessions -> Codes]
  BY DEF LineDone, TypeOK, Codes
<1>4. pc' \in [Sessions -> Labels]
  BY DEF LineDone, TypeOK, Goto, Labels
<1> QED BY <1>1, <1>2, <1>3, <1>4 DEF LineTyped

LEMMA StatementDoneType ==
    ASSUME TypeOK, NEW s \in Sessions, NEW code \in Codes, NEW quits \in BOOLEAN,
           StatementDone(s, code, quits)
    PROVE  LineTyped'
<1>1. CASE left[s] = 1
  BY <1>1, LineDoneType DEF StatementDone
<1>2. CASE left[s] # 1
  <2>1. left[s] \in 1 .. MaxStatements
    BY <1>2, BoundsAssumption DEF StatementDone, LineDone, TypeOK
  <2>2. /\ left' = [left EXCEPT ![s] = left[s] - 1] /\ quit' = [quit EXCEPT ![s] = quits]
        /\ lastRet' = [lastRet EXCEPT ![s] = code] /\ Goto(s, "execute") /\ result' = result
    BY <1>2 DEF StatementDone
  <2>3. left' \in [Sessions -> 0 .. MaxStatements]
    BY <2>1, <2>2, BoundsAssumption DEF TypeOK
  <2>4. quit' \in [Sessions -> BOOLEAN] /\ lastRet' \in [Sessions -> Codes]
    BY <2>2 DEF TypeOK
  <2>5. pc' \in [Sessions -> Labels] /\ result' \in [Sessions -> Codes]
    BY <2>2 DEF TypeOK, Goto, Labels
  <2> QED BY <2>3, <2>4, <2>5 DEF LineTyped
<1> QED BY <1>1, <1>2 DEF StatementDone

\* Client.
LEMMA ClientType ==
    ASSUME TypeInv, NEW s \in Sessions, Client(s) PROVE TypeInv'
<1>1. CASE Type(s)
  <2>1. typed' \in [Sessions -> 0 .. MaxLines]
    BY <1>1, BoundsAssumption DEF Type, TypeInv, TypeOK
  <2> QED BY <1>1, <2>1 DEF Type, TypeInv, TypeOK, RoomForWindow, loopVars, clientVars, exitVars,
         lineVars, readlineVars, shellVars, tenantVars, logVars
<1>6. CASE CloseInput(s)
  <2>1. closed' \in [Sessions -> BOOLEAN]
    BY <1>6 DEF CloseInput, TypeInv, TypeOK
  <2> QED BY <1>6, <2>1 DEF CloseInput, TypeInv, TypeOK, RoomForWindow, loopVars, clientVars, exitVars,
         lineVars, readlineVars, shellVars, tenantVars, logVars
<1>2. CASE HangUp(s)
  <2>1. gone' \in [Sessions -> BOOLEAN]
    BY <1>2, BoundsAssumption DEF HangUp, TypeInv, TypeOK
  <2> QED BY <1>2, <2>1 DEF HangUp, TypeInv, TypeOK, RoomForWindow, loopVars, clientVars, exitVars,
         lineVars, readlineVars, shellVars, tenantVars, logVars
<1>3. CASE PtyRequest(s)
  <2>1. pty' \in [Sessions -> 0 .. MaxWindows]
    BY <1>3, BoundsAssumption DEF PtyRequest, TypeInv, TypeOK
  <2>2. winch' \in [Sessions -> Buffers]
    BY <1>3, OneWindow, BoundsAssumption DEF PtyRequest, TypeInv, TypeOK, Windows, Torn
  <2>3. RoomForWindow'
    BY <1>3, BoundsAssumption DEF PtyRequest, TypeInv, TypeOK, RoomForWindow, LoopStates, loopVars
  <2> QED BY <1>3, <2>1, <2>2, <2>3 DEF PtyRequest, TypeInv, TypeOK, loopVars, clientVars, exitVars,
         lineVars, readlineVars, shellVars, tenantVars, logVars
<1>4. CASE \E m \in {"shell", "exec"} : Handle(s, m)
  <2>1. mode' \in [Sessions -> {"none", "shell", "exec"}]
    BY <1>4, BoundsAssumption DEF Handle, TypeInv, TypeOK
  <2>2. pc' \in [Sessions -> Labels]
    BY <1>4, BoundsAssumption DEF Handle, TypeInv, TypeOK, Labels, Goto
  <2> QED BY <1>4, <2>1, <2>2 DEF Handle, TypeInv, TypeOK, RoomForWindow, loopVars, clientVars,
         exitVars, lineVars, readlineVars, shellVars, tenantVars, logVars
<1>5. CASE WindowChange(s)
  <2>1. loop' \in [Sessions -> LoopStates]
    BY <1>5, BoundsAssumption DEF WindowChange, TypeInv, TypeOK, LoopStates
  <2>2. RoomForWindow'
    BY <1>5, BoundsAssumption DEF WindowChange, TypeInv, TypeOK, RoomForWindow, LoopStates, loopVars
  <2> QED BY <1>5, <2>1, <2>2 DEF WindowChange, TypeInv, TypeOK, loopVars, clientVars, exitVars,
         lineVars, readlineVars, shellVars, tenantVars, logVars
<1> QED BY <1>1, <1>2, <1>3, <1>4, <1>5, <1>6 DEF Client

\* RequestLoop.
LEMMA RequestLoopType ==
    ASSUME TypeInv, NEW s \in Sessions, RequestLoop(s) PROVE TypeInv'
<1>1. CASE AssignWindow(s)
  <2>1. loop' \in [Sessions -> LoopStates]
    BY <1>1, BoundsAssumption DEF AssignWindow, TypeInv, TypeOK, LoopStates
  <2>2. pty' \in [Sessions -> 0 .. MaxWindows]
    BY <1>1, BoundsAssumption DEF AssignWindow, TypeInv, TypeOK, RoomForWindow
  <2>3. RoomForWindow'
    BY <1>1, BoundsAssumption DEF AssignWindow, TypeInv, TypeOK, RoomForWindow, LoopStates, loopVars
  <2> QED BY <1>1, <2>1, <2>2, <2>3 DEF AssignWindow, TypeInv, TypeOK, loopVars, clientVars,
         exitVars, lineVars, readlineVars, shellVars, tenantVars, logVars
<1>2. CASE SendWindow(s)
  <2>1. winch' \in [Sessions -> Buffers]
    BY <1>2, OneWindow, BoundsAssumption DEF SendWindow, TypeInv, TypeOK, Windows, Torn
  <2>2. loop' \in [Sessions -> LoopStates]
    BY <1>2, BoundsAssumption DEF SendWindow, TypeInv, TypeOK, LoopStates
  <2>3. RoomForWindow'
    BY <1>2, BoundsAssumption DEF SendWindow, TypeInv, TypeOK, RoomForWindow, LoopStates, loopVars
  <2> QED BY <1>2, <2>1, <2>2, <2>3 DEF SendWindow, TypeInv, TypeOK, loopVars, clientVars, exitVars,
         lineVars, readlineVars, shellVars, tenantVars, logVars
<1>3. CASE EndRequests(s)
  <2>1. loop' \in [Sessions -> LoopStates]
    BY <1>3, BoundsAssumption DEF EndRequests, TypeInv, TypeOK, LoopStates
  <2>2. RoomForWindow'
    BY <1>3, BoundsAssumption DEF EndRequests, TypeInv, TypeOK, RoomForWindow, LoopStates, loopVars
  <2> QED BY <1>3, <2>1, <2>2 DEF EndRequests, TypeInv, TypeOK, loopVars, clientVars, exitVars,
         lineVars, readlineVars, shellVars, tenantVars, logVars
<1> QED BY <1>1, <1>2, <1>3 DEF RequestLoop

\* Watcher.
LEMMA WatcherType ==
    ASSUME TypeInv, NEW s \in Sessions, Watcher(s) PROVE TypeInv'
<1>1. CASE ReceiveWindow(s)
  <2>1. hand' \in [Sessions -> Windows]
    <3> PICK w \in Windows : winch[s] = << w >>
      BY <1>1, OneWindow DEF ReceiveWindow, TypeInv, TypeOK
    <3>1. Head(winch[s]) \in Windows
      BY OneWindow
    <3> QED BY <1>1, <3>1 DEF ReceiveWindow, TypeInv, TypeOK
  <2>2. winch' \in [Sessions -> Buffers]
    <3> PICK w \in Windows : winch[s] = << w >>
      BY <1>1, OneWindow DEF ReceiveWindow, TypeInv, TypeOK
    <3>1. Tail(winch[s]) \in Buffers
      BY OneWindow
    <3> QED BY <1>1, <3>1 DEF ReceiveWindow, TypeInv, TypeOK
  <2>3. watcher' \in [Sessions -> WatcherStates]
    BY <1>1, BoundsAssumption DEF ReceiveWindow, TypeInv, TypeOK, WatcherStates
  <2> QED BY <1>1, <2>1, <2>2, <2>3 DEF ReceiveWindow, TypeInv, TypeOK, RoomForWindow, loopVars,
         clientVars, exitVars, lineVars, readlineVars, shellVars, tenantVars, logVars
<1>2. CASE SetWindow(s)
  <2>1. term' \in [Sessions -> Windows]
    BY <1>2, BoundsAssumption DEF SetWindow, SetPTY, TypeInv, TypeOK
  <2>2. updates' \in [Sessions -> Seq(Windows)]
    BY <1>2, BoundsAssumption DEF SetWindow, SetPTY, TypeInv, TypeOK, Windows, Torn
  <2>3. hand' \in [Sessions -> Windows]
    BY <1>2, BoundsAssumption DEF SetWindow, SetPTY, TypeInv, TypeOK, Windows, Torn
  <2>4. watcher' \in [Sessions -> WatcherStates]
    BY <1>2, BoundsAssumption DEF SetWindow, SetPTY, TypeInv, TypeOK, WatcherStates
  <2> QED BY <1>2, <2>1, <2>2, <2>3, <2>4 DEF SetWindow, SetPTY, TypeInv, TypeOK, RoomForWindow,
         loopVars, clientVars, exitVars, lineVars, readlineVars, shellVars, tenantVars, logVars
<1>3. CASE EndWatcher(s)
  <2>1. watcher' \in [Sessions -> WatcherStates]
    BY <1>3, BoundsAssumption DEF EndWatcher, TypeInv, TypeOK, WatcherStates
  <2> QED BY <1>3, <2>1 DEF EndWatcher, TypeInv, TypeOK, RoomForWindow, loopVars, clientVars,
         exitVars, lineVars, readlineVars, shellVars, tenantVars, logVars
<1> QED BY <1>1, <1>2, <1>3 DEF Watcher

\* The shell is started, looks like a crash, or is not there.
LEMMA StartShellType ==
    ASSUME TypeInv, NEW s \in Sessions, StartShell(s) PROVE TypeInv'
<1>1. PICK entries \in Seq(EntryKinds) : Record(s, entries)
  BY Entries DEF StartShell, RunShell, FakeShell
<1>2. PICK label \in Labels : Goto(s, label)
  BY DEF StartShell, RunShell, FakeShell, Labels
<1>3. story' \in [Sessions -> Seq(EntryKinds)]
  BY <1>1 DEF Record, TypeInv, TypeOK
<1>4. pc' \in [Sessions -> Labels]
  BY <1>2 DEF Goto, TypeInv, TypeOK
<1>5. /\ terminal' \in [Sessions -> TerminalStates] /\ operation' \in [Sessions -> OperationStates]
      /\ UNCHANGED << kick, offered, failure >>
  BY DEF StartShell, RunShell, FakeShell, TerminalStates, OperationStates, readlineVars, lineVars, TypeInv,
         TypeOK
<1>6. \/ left' = left
      \/ \E n \in 1 .. MaxStatements : left' = [left EXCEPT ![s] = n]
  BY DEF StartShell, RunShell, FakeShell, TakeLine, lineVars
<1>7. left' \in [Sessions -> 0 .. MaxStatements]
  <2>1. CASE left' = left
    BY <2>1 DEF TypeInv, TypeOK
  <2>2. CASE \E n \in 1 .. MaxStatements : left' = [left EXCEPT ![s] = n]
    <3> PICK n \in 1 .. MaxStatements : left' = [left EXCEPT ![s] = n]
      BY <2>2
    <3>1. n \in 0 .. MaxStatements
      BY BoundsAssumption
    <3> QED BY <3>1 DEF TypeInv, TypeOK
  <2> QED BY <1>6, <2>1, <2>2
<1>8. result' = result \/ result' = [result EXCEPT ![s] = 1]
  BY DEF StartShell, RunShell, FakeShell, lineVars
<1>9. result' \in [Sessions -> Codes]
  BY <1>8 DEF TypeInv, TypeOK, Codes
<1>10. quit' = quit /\ lastRet' = lastRet
  BY DEF StartShell, RunShell, FakeShell, lineVars
<1> QED BY <1>3, <1>4, <1>5, <1>7, <1>9, <1>10
        DEF StartShell, TypeInv, TypeOK, RoomForWindow, loopVars, clientVars, exitVars, tenantVars


\* Setup.
LEMMA SetupType ==
    ASSUME TypeInv, NEW s \in Sessions, Setup(s) PROVE TypeInv'
<1>1. CASE Login(s)
  <2>1. story' \in [Sessions -> Seq(EntryKinds)]
    BY <1>1, BoundsAssumption DEF Login, TypeInv, TypeOK, Record, EntryKinds
  <2>2. pc' \in [Sessions -> Labels]
    BY <1>1, BoundsAssumption DEF Login, TypeInv, TypeOK, Labels, Goto
  <2> QED BY <1>1, <2>1, <2>2 DEF Login, TypeInv, TypeOK, RoomForWindow, loopVars, clientVars,
         exitVars, lineVars, readlineVars, shellVars, tenantVars, logVars
<1>2. CASE AnnounceLog(s)
  <2>1. story' \in [Sessions -> Seq(EntryKinds)]
    BY <1>2, BoundsAssumption DEF AnnounceLog, TypeInv, TypeOK, Record, EntryKinds
  <2>2. pc' \in [Sessions -> Labels]
    BY <1>2, BoundsAssumption DEF AnnounceLog, TypeInv, TypeOK, Labels, Goto
  <2> QED BY <1>2, <2>1, <2>2 DEF AnnounceLog, TypeInv, TypeOK, RoomForWindow, loopVars, clientVars,
         exitVars, lineVars, readlineVars, shellVars, tenantVars, logVars
<1>3. CASE CreateLog(s)
  <2>1. recording' \in [Sessions -> {"none", "open", "closed"}]
    BY <1>3, BoundsAssumption DEF CreateLog, TypeInv, TypeOK
  <2>2. pc' \in [Sessions -> Labels]
    <3> PICK label \in Labels : Goto(s, label)
      BY <1>3 DEF CreateLog, Labels
    <3> QED BY DEF Goto, TypeInv, TypeOK
  <2> QED BY <1>3, <2>1, <2>2 DEF CreateLog, TypeInv, TypeOK, RoomForWindow, loopVars, clientVars,
         exitVars, lineVars, readlineVars, shellVars, tenantVars, logVars
<1>4. CASE ReadPty(s)
  <2>1. shown' \in [Sessions -> Windows]
    BY SMTT(30), <1>4, BoundsAssumption DEF ReadPty, TypeInv, TypeOK, Windows, Torn
  <2>2. pc' \in [Sessions -> Labels]
    BY <1>4, BoundsAssumption DEF ReadPty, TypeInv, TypeOK, Labels, Goto
  <2> QED BY <1>4, <2>1, <2>2 DEF ReadPty, TypeInv, TypeOK, RoomForWindow, loopVars, clientVars,
         exitVars, lineVars, readlineVars, shellVars, tenantVars, logVars
<1>5. CASE StartWatcher(s)
  <2>1. term' \in [Sessions -> Windows]
    BY <1>5, BoundsAssumption DEF StartWatcher, SetPTY, TypeInv, TypeOK
  <2>2. updates' \in [Sessions -> Seq(Windows)]
    BY <1>5, BoundsAssumption DEF StartWatcher, SetPTY, TypeInv, TypeOK, Windows, Torn
  <2>3. watcher' \in [Sessions -> WatcherStates]
    BY <1>5, BoundsAssumption DEF StartWatcher, SetPTY, TypeInv, TypeOK, WatcherStates
  <2>4. pc' \in [Sessions -> Labels]
    BY <1>5, BoundsAssumption DEF StartWatcher, SetPTY, TypeInv, TypeOK, Labels, Goto
  <2> QED BY <1>5, <2>1, <2>2, <2>3, <2>4 DEF StartWatcher, SetPTY, TypeInv, TypeOK, RoomForWindow,
         loopVars, clientVars, exitVars, lineVars, readlineVars, shellVars, tenantVars, logVars
<1>6. CASE StartShell(s)
  BY <1>6, StartShellType
<1> QED BY <1>1, <1>2, <1>3, <1>4, <1>5, <1>6 DEF Setup

\* The goroutines of readline touch what they share with each other and the shell.
Quiet == UNCHANGED << loopVars, winch, clientVars, exitVars, lineVars, tenantVars, pc, recording, logVars >>

LEMMA ReadlineQuiet ==
    ASSUME NEW s \in Sessions, Readline(s) PROVE Quiet
BY DEF Quiet, Readline, Terminal, TakeKick, HandOver, ReadLine, ReadMore, ReadFailure, ReadNul, ReadEof,
       ReportEof

\* Readline.
LEMMA ReadlineType ==
    ASSUME TypeInv, NEW s \in Sessions, Readline(s) PROVE TypeInv'
<1>1. Quiet
  BY ReadlineQuiet
<1>2. read' \in [Sessions -> 0 .. MaxLines]
  <2>1. read' = read \/ (read[s] < typed[s] /\ read' = [read EXCEPT ![s] = @ + 1])
    BY DEF Readline, Terminal, TakeKick, HandOver, ReadLine, ReadMore, ReadFailure, ReadNul, ReadEof,
           ReportEof
  <2>2. read \in [Sessions -> 0 .. MaxLines] /\ typed[s] \in 0 .. MaxLines
    BY DEF TypeInv, TypeOK
  <2>3. read[s] < typed[s] => read[s] + 1 \in 0 .. MaxLines
    BY <2>2, BoundsAssumption
  <2> QED BY <2>1, <2>2, <2>3
<1>3. \/ terminal' = terminal
      \/ \E next \in TerminalStates : terminal' = [terminal EXCEPT ![s] = next]
  BY DEF Readline, Terminal, TakeKick, HandOver, ReadLine, ReadMore, ReadFailure, ReadNul, ReadEof,
         ReportEof, TerminalStates
<1>4. \/ operation' = operation
      \/ operation' = [operation EXCEPT ![s] = "gone"]
  BY DEF Readline, Terminal, TakeKick, HandOver, ReadLine, ReadMore, ReadFailure, ReadNul, ReadEof,
         ReportEof
<1>5. kick' = kick \/ (\E b \in BOOLEAN : kick' = [kick EXCEPT ![s] = b])
  BY DEF Readline, Terminal, TakeKick, HandOver, ReadLine, ReadMore, ReadFailure, ReadNul, ReadEof,
         ReportEof
<1>6. offered' = offered \/ offered' = [offered EXCEPT ![s] = TRUE]
  BY DEF Readline, Terminal, TakeKick, HandOver, ReadLine, ReadMore, ReadFailure, ReadNul, ReadEof,
         ReportEof
<1>7. failure' = failure \/ (\E why \in Failures : failure' = [failure EXCEPT ![s] = why])
  BY DEF Readline, Terminal, TakeKick, HandOver, ReadLine, ReadMore, ReadFailure, ReadNul, ReadEof,
         ReportEof, Failures
<1>8. /\ terminal' \in [Sessions -> TerminalStates] /\ operation' \in [Sessions -> OperationStates]
      /\ kick' \in [Sessions -> BOOLEAN] /\ offered' \in [Sessions -> BOOLEAN]
      /\ failure' \in [Sessions -> Failures]
  <2>1. terminal' \in [Sessions -> TerminalStates]
    BY <1>3 DEF TypeInv, TypeOK
  <2>2. operation' \in [Sessions -> OperationStates]
    BY <1>4 DEF TypeInv, TypeOK, OperationStates
  <2>3. kick' \in [Sessions -> BOOLEAN]
    BY <1>5 DEF TypeInv, TypeOK
  <2>4. offered' \in [Sessions -> BOOLEAN]
    BY <1>6 DEF TypeInv, TypeOK
  <2>5. failure' \in [Sessions -> Failures]
    BY <1>7 DEF TypeInv, TypeOK
  <2> QED BY <2>1, <2>2, <2>3, <2>4, <2>5
<1> QED BY <1>1, <1>2, <1>8 DEF Quiet, TypeInv, TypeOK, RoomForWindow, loopVars, clientVars, exitVars,
        lineVars, tenantVars, logVars

\* Shell.
LEMMA ShellType ==
    ASSUME TypeInv, NEW s \in Sessions, Shell(s) PROVE TypeInv'
<1>1. CASE Prompt(s)
  <2>1. kick' \in [Sessions -> BOOLEAN]
    BY <1>1 DEF Prompt, TypeInv, TypeOK
  <2>2. pc' \in [Sessions -> Labels]
    BY <1>1 DEF Prompt, TypeInv, TypeOK, Labels, Goto
  <2> QED BY <1>1, <2>1, <2>2 DEF Prompt, TypeInv, TypeOK, RoomForWindow, loopVars, clientVars, exitVars,
         lineVars, readlineVars, shellVars, tenantVars, logVars
<1>2. CASE ReceiveLine(s)
  <2>1. offered' \in [Sessions -> BOOLEAN]
    BY <1>2 DEF ReceiveLine, TypeInv, TypeOK
  <2>2. left' \in [Sessions -> 0 .. MaxStatements]
    BY <1>2, BoundsAssumption DEF ReceiveLine, TakeLine, TypeInv, TypeOK
  <2>3. pc' \in [Sessions -> Labels]
    BY <1>2 DEF ReceiveLine, TypeInv, TypeOK, Labels, Goto
  <2> QED BY <1>2, <2>1, <2>2, <2>3 DEF ReceiveLine, TypeInv, TypeOK, RoomForWindow,
         loopVars, clientVars, exitVars, lineVars, readlineVars, shellVars, tenantVars, logVars
<1>3. CASE ReceiveFailure(s)
  <2>1. failure' \in [Sessions -> Failures]
    BY <1>3 DEF ReceiveFailure, TypeInv, TypeOK, Failures
  <2>2. result' \in [Sessions -> Codes]
    BY <1>3 DEF ReceiveFailure, TypeInv, TypeOK, Codes
  <2>3. pc' \in [Sessions -> Labels]
    <3> PICK label \in Labels : Goto(s, label)
      BY <1>3 DEF ReceiveFailure, Labels
    <3> QED BY DEF Goto, TypeInv, TypeOK
  <2> QED BY <1>3, <2>1, <2>2, <2>3 DEF ReceiveFailure, TypeInv, TypeOK, RoomForWindow, loopVars,
         clientVars, exitVars, lineVars, readlineVars, shellVars, tenantVars, logVars
<1>4. CASE AbandonLine(s)
  <2>1. LineTyped'
    BY ZenonT(40), <1>4, LineDoneType DEF AbandonLine, TypeInv, TypeOK, Codes
  <2> QED BY <1>4, <2>1 DEF AbandonLine, TypeInv, TypeOK, RoomForWindow, LineTyped, loopVars,
         clientVars, exitVars, lineVars, readlineVars, shellVars, tenantVars, logVars
<1>5. CASE SkipStatement(s)
  <2>1. LineTyped'
    BY ZenonT(40), <1>5, StatementDoneType DEF SkipStatement, TypeInv, TypeOK, Codes
  <2>2. story' \in [Sessions -> Seq(EntryKinds)]
    <3> PICK entries \in Seq(EntryKinds) : Record(s, entries)
      BY <1>5, Entries DEF SkipStatement
    <3> QED BY DEF Record, TypeInv, TypeOK
  <2> QED BY <1>5, <2>1, <2>2 DEF SkipStatement, TypeInv, TypeOK, RoomForWindow, LineTyped,
         loopVars, clientVars, exitVars, lineVars, readlineVars, shellVars, tenantVars, logVars
<1>6. CASE ExecuteBuiltin(s)
  <2>1. LineTyped'
    BY <1>6, StatementDoneType DEF ExecuteBuiltin, TypeInv, TypeOK, Codes
  <2> QED BY <1>6, <2>1 DEF ExecuteBuiltin, TypeInv, TypeOK, RoomForWindow, LineTyped, loopVars,
         clientVars, exitVars, lineVars, readlineVars, shellVars, tenantVars, logVars
<1>7. CASE ExecuteFake(s)
  <2>1. LineTyped'
    BY SMTT(30), <1>7, StatementDoneType DEF ExecuteFake, TypeInv, TypeOK, Codes
  <2>2. story' \in [Sessions -> Seq(EntryKinds)]
    BY <1>7, BoundsAssumption DEF ExecuteFake, TypeInv, TypeOK, Record, EntryKinds
  <2> QED BY <1>7, <2>1, <2>2 DEF ExecuteFake, TypeInv, TypeOK, RoomForWindow, LineTyped, loopVars,
         clientVars, exitVars, lineVars, readlineVars, shellVars, tenantVars, logVars
<1>8. CASE ExecuteCommand(s)
  <2>1. story' \in [Sessions -> Seq(EntryKinds)]
    BY <1>8, BoundsAssumption DEF ExecuteCommand, TypeInv, TypeOK, Record, EntryKinds
  <2>2. pc' \in [Sessions -> Labels]
    BY <1>8, BoundsAssumption DEF ExecuteCommand, TypeInv, TypeOK, Labels, Goto
  <2> QED BY <1>8, <2>1, <2>2 DEF ExecuteCommand, TypeInv, TypeOK, RoomForWindow, loopVars,
         clientVars, exitVars, lineVars, readlineVars, shellVars, tenantVars, logVars
<1>9. CASE CommandReads(s)
  <2>1. read' \in [Sessions -> 0 .. MaxLines]
    BY <1>9, BoundsAssumption DEF CommandReads, TypeInv, TypeOK
  <2> QED BY <1>9, <2>1 DEF CommandReads, TypeInv, TypeOK, RoomForWindow, loopVars, clientVars,
         exitVars, lineVars, readlineVars, shellVars, tenantVars, logVars
<1>10. CASE CommandReturns(s)
  <2>1. LineTyped'
    BY <1>10, StatementDoneType DEF CommandReturns, TypeInv, TypeOK, Codes
  <2> QED BY <1>10, <2>1 DEF CommandReturns, TypeInv, TypeOK, RoomForWindow, LineTyped, loopVars,
         clientVars, exitVars, lineVars, readlineVars, shellVars, tenantVars, logVars
<1>11. CASE CommandPanics(s)
  <2>1. LineTyped'
    BY SMTT(30), <1>11, StatementDoneType DEF CommandPanics, TypeInv, TypeOK, Codes
  <2>2. story' \in [Sessions -> Seq(EntryKinds)]
    BY <1>11, BoundsAssumption DEF CommandPanics, TypeInv, TypeOK, Record, EntryKinds
  <2> QED BY <1>11, <2>1, <2>2 DEF CommandPanics, TypeInv, TypeOK, RoomForWindow, LineTyped,
         loopVars, clientVars, exitVars, lineVars, readlineVars, shellVars, tenantVars, logVars
<1>12. CASE CommandReboots(s)
  <2>1. LineTyped'
    BY SMTT(30), <1>12, StatementDoneType DEF CommandReboots, TypeInv, TypeOK, Codes
  <2>2. exited' \in [Sessions -> BOOLEAN]
    BY <1>12, BoundsAssumption DEF CommandReboots, SendExit, TypeInv, TypeOK
  <2>3. status' \in [Sessions -> Codes \cup {NoStatus}]
    BY <1>12, BoundsAssumption DEF CommandReboots, SendExit, TypeInv, TypeOK, Codes, NoStatus
  <2> QED BY <1>12, <2>1, <2>2, <2>3 DEF CommandReboots, SendExit, TypeInv, TypeOK, RoomForWindow,
         LineTyped, loopVars, clientVars, exitVars, lineVars, readlineVars, shellVars, tenantVars, logVars
<1> QED BY <1>1, <1>2, <1>3, <1>4, <1>5, <1>6, <1>7, <1>8, <1>9, <1>10, <1>11, <1>12 DEF Shell

\* Teardown.
LEMMA TeardownType ==
    ASSUME TypeInv, NEW s \in Sessions, Teardown(s) PROVE TypeInv'
<1>1. CASE ShellExits(s)
  <2>1. exited' \in [Sessions -> BOOLEAN]
    BY <1>1, BoundsAssumption DEF ShellExits, SendExit, TypeInv, TypeOK
  <2>2. status' \in [Sessions -> Codes \cup {NoStatus}]
    BY <1>1, BoundsAssumption DEF ShellExits, SendExit, TypeInv, TypeOK, Codes, NoStatus
  <2>3. pc' \in [Sessions -> Labels]
    BY <1>1, BoundsAssumption DEF ShellExits, SendExit, TypeInv, TypeOK, Labels, Goto
  <2> QED BY <1>1, <2>1, <2>2, <2>3 DEF ShellExits, SendExit, TypeInv, TypeOK, RoomForWindow,
         loopVars, clientVars, exitVars, lineVars, readlineVars, shellVars, tenantVars, logVars
<1>2. CASE Summarise(s)
  <2>1. story' \in [Sessions -> Seq(EntryKinds)]
    BY <1>2, BoundsAssumption DEF Summarise, TypeInv, TypeOK, Record, EntryKinds
  <2>2. pc' \in [Sessions -> Labels]
    BY <1>2, BoundsAssumption DEF Summarise, TypeInv, TypeOK, Labels, Goto
  <2> QED BY <1>2, <2>1, <2>2 DEF Summarise, TypeInv, TypeOK, RoomForWindow, loopVars, clientVars,
         exitVars, lineVars, readlineVars, shellVars, tenantVars, logVars
<1>3. CASE CloseLog(s)
  <2>1. recording' \in [Sessions -> {"none", "open", "closed"}]
    BY <1>3, BoundsAssumption DEF CloseLog, TypeInv, TypeOK
  <2>2. pc' \in [Sessions -> Labels]
    BY <1>3, BoundsAssumption DEF CloseLog, TypeInv, TypeOK, Labels, Goto
  <2> QED BY <1>3, <2>1, <2>2 DEF CloseLog, TypeInv, TypeOK, RoomForWindow, loopVars, clientVars,
         exitVars, lineVars, readlineVars, shellVars, tenantVars, logVars
<1>4. CASE Return(s)
  <2>1. exited' \in [Sessions -> BOOLEAN]
    BY <1>4, BoundsAssumption DEF Return, SendExit, TypeInv, TypeOK
  <2>2. status' \in [Sessions -> Codes \cup {NoStatus}]
    BY <1>4, BoundsAssumption DEF Return, SendExit, TypeInv, TypeOK, Codes, NoStatus
  <2>3. pc' \in [Sessions -> Labels]
    BY <1>4, BoundsAssumption DEF Return, SendExit, TypeInv, TypeOK, Labels, Goto
  <2> QED BY <1>4, <2>1, <2>2, <2>3 DEF Return, SendExit, TypeInv, TypeOK, RoomForWindow, loopVars,
         clientVars, exitVars, lineVars, readlineVars, shellVars, tenantVars, logVars
<1> QED BY <1>1, <1>2, <1>3, <1>4 DEF Teardown

\* Every step keeps the types.
LEMMA TypeInvStep == TypeInv /\ [Next]_vars => TypeInv'
<1> SUFFICES ASSUME TypeInv, [Next]_vars PROVE TypeInv'
  OBVIOUS
<1>1. CASE Next
  <2> PICK s \in Sessions : Client(s) \/ RequestLoop(s) \/ Watcher(s) \/ Readline(s) \/ Handler(s)
    BY <1>1 DEF Next
  <2> QED BY ClientType, RequestLoopType, WatcherType, ReadlineType, SetupType, ShellType, TeardownType
         DEF Handler
<1>2. CASE UNCHANGED vars
  BY <1>2 DEF vars, loopVars, clientVars, exitVars, lineVars, readlineVars, shellVars, tenantVars, logVars,
              TypeInv, TypeOK, RoomForWindow
<1> QED BY <1>1, <1>2

LEMMA TypeInvInit == Init => TypeInv
<1> SUFFICES ASSUME Init PROVE TypeInv
  OBVIOUS
<1>1. RoomForWindow
  BY DEF Init, RoomForWindow
<1>2. << >> \in Buffers /\ << >> \in Seq(EntryKinds) /\ << >> \in Seq(Windows)
  BY DEF Buffers
<1>3. 0 \in Windows /\ 0 \in 0 .. MaxWindows /\ 0 \in 0 .. MaxLines /\ 0 \in 0 .. MaxStatements
  BY BoundsAssumption DEF Windows, Torn
<1>4. TypeOK
  BY <1>2, <1>3 DEF Init, TypeOK, LoopStates, Labels, WatcherStates, TerminalStates, OperationStates,
         Failures, Codes, NoStatus
<1> QED BY <1>1, <1>4 DEF TypeInv

LEMMA TypeInvHolds == Spec => []TypeInv
BY TypeInvInit, TypeInvStep, PTL DEF Spec

\* The types hold for every number of sessions, windows, lines and statements: a
\* window never exceeds its bound, winch never holds two, and each goroutine is
\* where the code puts it.
THEOREM TypeCorrect == Spec => []TypeOK
BY TypeInvHolds, PTL DEF TypeInv

(***************************************************************************)
(* The order of windows                                                    *)
(***************************************************************************)

\* The handler has not started the watcher.
Before == {"idle", "login", "ttylog", "create", "pty", "setpty"}

\* The parts of WindowsInOrder.
Set(s) == IF updates[s] = << >> THEN << >> ELSE Tail(updates[s])
Held(s) == IF watcher[s] = "setting" THEN << hand[s] >> ELSE << >>
Sent(s) == IF loop[s] = "sending" THEN pty[s] - 1 ELSE pty[s]
UpTo(n) == [i \in 1 .. n |-> i]
InOrder(s) == Set(s) \o Held(s) \o winch[s] = UpTo(Sent(s))

\* The first window logged is the handler's, just before it starts the watcher.
WatcherStarted(s) ==
    /\ watcher[s] = "none" <=> updates[s] = << >>
    /\ pc[s] \in Before => watcher[s] = "none"

\* A loop that is sending has just assigned what it sends.
Assigned(s) == loop[s] = "sending" => pty[s] \in 1 .. MaxWindows

WindowsInv == TypeInv /\ \A s \in Sessions : InOrder(s) /\ WatcherStarted(s) /\ Assigned(s)

\* A step that leaves the windows of session u where they are.
Still(u) ==
    /\ updates'[u] = updates[u] /\ winch'[u] = winch[u] /\ pty'[u] = pty[u]
    /\ hand'[u] = hand[u] /\ watcher'[u] = watcher[u]
    /\ loop'[u] = "sending" <=> loop[u] = "sending"
    /\ pc'[u] \in Before => pc[u] \in Before

LEMMA StillInOrder ==
    ASSUME NEW u \in Sessions, Still(u), InOrder(u), WatcherStarted(u), Assigned(u)
    PROVE  (InOrder(u) /\ WatcherStarted(u) /\ Assigned(u))'
<1>1. Set(u)' = Set(u) /\ Held(u)' = Held(u) /\ Sent(u)' = Sent(u)
  BY DEF Still, Set, Held, Sent
<1>2. InOrder(u)'
  BY <1>1 DEF InOrder, Still
<1>3. WatcherStarted(u)' /\ Assigned(u)'
  BY DEF WatcherStarted, Assigned, Still
<1> QED BY <1>2, <1>3

\* Steps of Client that move no window.
LEMMA ClientStill ==
    ASSUME TypeInv, NEW s \in Sessions, NEW u \in Sessions,
           Type(s) \/ CloseInput(s) \/ HangUp(s) \/ (\E m \in {"shell", "exec"} : Handle(s, m))
           \/ WindowChange(s)
    PROVE  Still(u)
<1>1. CASE Type(s)
  BY <1>1 DEF Type, Goto, Still, Before, TypeInv, TypeOK, loopVars, clientVars, exitVars, lineVars, readlineVars,
         shellVars, tenantVars, logVars
<1>2. CASE HangUp(s)
  BY <1>2 DEF HangUp, Goto, Still, Before, TypeInv, TypeOK, loopVars, clientVars, exitVars,
         lineVars, readlineVars, shellVars, tenantVars, logVars
<1>3. CASE \E m \in {"shell", "exec"} : Handle(s, m)
  BY <1>3 DEF Handle, Goto, Still, Before, TypeInv, TypeOK, loopVars, clientVars, exitVars,
         lineVars, readlineVars, shellVars, tenantVars, logVars
<1>4. CASE WindowChange(s)
  BY <1>4 DEF WindowChange, Goto, Still, Before, TypeInv, TypeOK, loopVars, clientVars, exitVars,
         lineVars, readlineVars, shellVars, tenantVars, logVars
<1>5. CASE CloseInput(s)
  BY <1>5 DEF CloseInput, Still, Before, TypeInv, TypeOK, loopVars, clientVars, exitVars,
         lineVars, readlineVars, shellVars, tenantVars, logVars
<1> QED BY <1>1, <1>2, <1>3, <1>4, <1>5

\* Steps of RequestLoop that move no window.
LEMMA RequestLoopStill ==
    ASSUME TypeInv, NEW s \in Sessions, NEW u \in Sessions,
           EndRequests(s)
    PROVE  Still(u)
<1>1. CASE EndRequests(s)
  BY <1>1 DEF EndRequests, Goto, Still, Before, TypeInv, TypeOK, loopVars, clientVars, exitVars,
         lineVars, readlineVars, shellVars, tenantVars, logVars
<1> QED BY <1>1

\* Readline moves no window.
LEMMA ReadlineStill ==
    ASSUME NEW s \in Sessions, NEW u \in Sessions, Readline(s) PROVE Still(u)
BY ReadlineQuiet DEF Quiet, Still, loopVars, tenantVars, logVars

\* Steps of Setup that move no window.
LEMMA SetupStill ==
    ASSUME TypeInv, NEW s \in Sessions, NEW u \in Sessions,
           Login(s) \/ AnnounceLog(s) \/ CreateLog(s) \/ ReadPty(s) \/ StartShell(s)
    PROVE  Still(u)
<1>1. CASE Login(s)
  BY <1>1 DEF Login, Goto, Still, Before, TypeInv, TypeOK, loopVars, clientVars, exitVars, lineVars, readlineVars,
         shellVars, tenantVars, logVars
<1>2. CASE AnnounceLog(s)
  BY <1>2 DEF AnnounceLog, Goto, Still, Before, TypeInv, TypeOK, loopVars, clientVars, exitVars,
         lineVars, readlineVars, shellVars, tenantVars, logVars
<1>3. CASE CreateLog(s)
  BY <1>3 DEF CreateLog, Goto, Still, Before, TypeInv, TypeOK, loopVars, clientVars, exitVars,
         lineVars, readlineVars, shellVars, tenantVars, logVars
<1>4. CASE ReadPty(s)
  BY <1>4 DEF ReadPty, Goto, Still, Before, TypeInv, TypeOK, loopVars, clientVars, exitVars,
         lineVars, readlineVars, shellVars, tenantVars, logVars
<1>5. CASE StartShell(s)
  BY SMTT(30), <1>5 DEF StartShell, RunShell, FakeShell, TakeLine, Goto, Still, Before, TypeInv, TypeOK,
         loopVars, clientVars, exitVars, lineVars, readlineVars, shellVars, tenantVars, logVars
<1> QED BY <1>1, <1>2, <1>3, <1>4, <1>5

\* Steps of Shell that move no window.
LEMMA ShellStill ==
    ASSUME TypeInv, NEW s \in Sessions, NEW u \in Sessions,
           Shell(s)
    PROVE  Still(u)
<1>1. CASE Prompt(s)
  BY <1>1 DEF Prompt, Goto, Still, Before, TypeInv, TypeOK, loopVars, clientVars, exitVars,
         lineVars, readlineVars, shellVars, tenantVars, logVars
<1>2. CASE ReceiveLine(s)
  BY <1>2 DEF ReceiveLine, TakeLine, Goto, Still, Before, TypeInv, TypeOK, loopVars, clientVars,
         exitVars, lineVars, readlineVars, shellVars, tenantVars, logVars
<1>3. CASE ReceiveFailure(s)
  BY <1>3 DEF ReceiveFailure, Goto, Still, Before, TypeInv, TypeOK, loopVars, clientVars, exitVars,
         lineVars, readlineVars, shellVars, tenantVars, logVars
<1>4. CASE AbandonLine(s)
  BY <1>4 DEF AbandonLine, LineDone, Goto, Still, Before, TypeInv, TypeOK, loopVars, clientVars,
         exitVars, lineVars, readlineVars, shellVars, tenantVars, logVars
<1>5. CASE SkipStatement(s)
  BY <1>5 DEF SkipStatement, StatementDone, LineDone, Goto, Still, Before, TypeInv, TypeOK,
         loopVars, clientVars, exitVars, lineVars, readlineVars, shellVars, tenantVars, logVars
<1>6. CASE ExecuteBuiltin(s)
  BY <1>6 DEF ExecuteBuiltin, StatementDone, LineDone, Goto, Still, Before, TypeInv, TypeOK,
         loopVars, clientVars, exitVars, lineVars, readlineVars, shellVars, tenantVars, logVars
<1>7. CASE ExecuteFake(s)
  BY <1>7 DEF ExecuteFake, StatementDone, LineDone, Goto, Still, Before, TypeInv, TypeOK, loopVars,
         clientVars, exitVars, lineVars, readlineVars, shellVars, tenantVars, logVars
<1>8. CASE ExecuteCommand(s)
  BY <1>8 DEF ExecuteCommand, Goto, Still, Before, TypeInv, TypeOK, loopVars, clientVars, exitVars,
         lineVars, readlineVars, shellVars, tenantVars, logVars
<1>9. CASE CommandReads(s)
  BY <1>9 DEF CommandReads, Goto, Still, Before, TypeInv, TypeOK, loopVars, clientVars, exitVars,
         lineVars, readlineVars, shellVars, tenantVars, logVars
<1>10. CASE CommandReturns(s)
  BY <1>10 DEF CommandReturns, StatementDone, LineDone, Goto, Still, Before, TypeInv, TypeOK,
         loopVars, clientVars, exitVars, lineVars, readlineVars, shellVars, tenantVars, logVars
<1>11. CASE CommandPanics(s)
  BY <1>11 DEF CommandPanics, StatementDone, LineDone, Goto, Still, Before, TypeInv, TypeOK,
         loopVars, clientVars, exitVars, lineVars, readlineVars, shellVars, tenantVars, logVars
<1>12. CASE CommandReboots(s)
  BY <1>12 DEF CommandReboots, SendExit, StatementDone, LineDone, Goto, Still, Before, TypeInv,
         TypeOK, loopVars, clientVars, exitVars, lineVars, readlineVars, shellVars, tenantVars, logVars
<1> QED BY <1>1, <1>2, <1>3, <1>4, <1>5, <1>6, <1>7, <1>8, <1>9, <1>10, <1>11, <1>12 DEF Shell

\* Steps of Teardown that move no window.
LEMMA TeardownStill ==
    ASSUME TypeInv, NEW s \in Sessions, NEW u \in Sessions,
           Teardown(s)
    PROVE  Still(u)
<1>1. CASE ShellExits(s)
  BY <1>1 DEF ShellExits, SendExit, Goto, Still, Before, TypeInv, TypeOK, loopVars, clientVars,
         exitVars, lineVars, readlineVars, shellVars, tenantVars, logVars
<1>2. CASE Summarise(s)
  BY <1>2 DEF Summarise, Goto, Still, Before, TypeInv, TypeOK, loopVars, clientVars, exitVars,
         lineVars, readlineVars, shellVars, tenantVars, logVars
<1>3. CASE CloseLog(s)
  BY <1>3 DEF CloseLog, Goto, Still, Before, TypeInv, TypeOK, loopVars, clientVars, exitVars,
         lineVars, readlineVars, shellVars, tenantVars, logVars
<1>4. CASE Return(s)
  BY <1>4 DEF Return, SendExit, Goto, Still, Before, TypeInv, TypeOK, loopVars, clientVars,
         exitVars, lineVars, readlineVars, shellVars, tenantVars, logVars
<1> QED BY <1>1, <1>2, <1>3, <1>4 DEF Teardown

\* Steps that move windows move those of their own session only.
LEMMA OthersStill ==
    ASSUME TypeInv, NEW s \in Sessions, NEW u \in Sessions, u # s,
           PtyRequest(s) \/ AssignWindow(s) \/ SendWindow(s) \/ Watcher(s) \/ StartWatcher(s)
    PROVE  Still(u)
<1>1. CASE PtyRequest(s)
  BY <1>1 DEF PtyRequest, Still, TypeInv, TypeOK, loopVars, clientVars, exitVars, lineVars, readlineVars,
     shellVars, tenantVars, logVars
<1>2. CASE AssignWindow(s)
  BY <1>2 DEF AssignWindow, Still, TypeInv, TypeOK, loopVars, clientVars, exitVars, lineVars, readlineVars,
     shellVars, tenantVars, logVars
<1>3. CASE SendWindow(s)
  BY <1>3 DEF SendWindow, Still, TypeInv, TypeOK, loopVars, clientVars, exitVars, lineVars, readlineVars,
     shellVars, tenantVars, logVars
<1>4. CASE ReceiveWindow(s)
  BY <1>4 DEF ReceiveWindow, Still, TypeInv, TypeOK, loopVars, clientVars, exitVars, lineVars, readlineVars,
     shellVars, tenantVars, logVars
<1>5. CASE SetWindow(s)
  BY <1>5 DEF SetWindow, SetPTY, Still, TypeInv, TypeOK, loopVars, clientVars, exitVars,
     lineVars, readlineVars, shellVars, tenantVars, logVars
<1>6. CASE EndWatcher(s)
  BY <1>6 DEF EndWatcher, Still, TypeInv, TypeOK, loopVars, clientVars, exitVars, lineVars, readlineVars,
     shellVars, tenantVars, logVars
<1>7. CASE StartWatcher(s)
  BY <1>7 DEF StartWatcher, SetPTY, Goto, Still, TypeInv, TypeOK, loopVars, clientVars,
     exitVars, lineVars, readlineVars, shellVars, tenantVars, logVars
<1> QED BY <1>1, <1>2, <1>3, <1>4, <1>5, <1>6, <1>7 DEF Watcher

LEMMA PartsAreSequences ==
    ASSUME TypeInv, NEW s \in Sessions
    PROVE  /\ updates[s] \in Seq(Windows) /\ winch[s] \in Seq(Windows)
           /\ Set(s) \in Seq(Windows) /\ Held(s) \in Seq(Windows)
<1>1. updates[s] \in Seq(Windows) /\ hand[s] \in Windows
  BY DEF TypeInv, TypeOK
<1>2. winch[s] \in Seq(Windows)
  <2>1. winch[s] \in Buffers
    BY DEF TypeInv, TypeOK
  <2>2. CASE winch[s] = << >>
    BY <2>2
  <2>3. CASE winch[s] # << >>
    <3>1. PICK w \in Windows : winch[s] = << w >>
      BY <2>1, <2>3, OneWindow
    <3> QED BY <3>1
  <2> QED BY <2>2, <2>3
<1>3. Set(s) \in Seq(Windows)
  BY <1>1 DEF Set
<1>4. Held(s) \in Seq(Windows)
  BY <1>1 DEF Held
<1> QED BY <1>1, <1>2, <1>3, <1>4

LEMMA NextWindow ==
    ASSUME NEW n \in Nat PROVE UpTo(n) \o << n + 1 >> = UpTo(n + 1)
BY DEF UpTo

\* What moves a window, moves it from one place to the next.
LEMMA PtyRequestInOrder ==
    ASSUME TypeInv, NEW s \in Sessions, InOrder(s), WatcherStarted(s), Assigned(s), PtyRequest(s)
    PROVE  (InOrder(s) /\ WatcherStarted(s) /\ Assigned(s))'
<1>1. watcher[s] = "none" /\ updates[s] = << >> /\ loop[s] = "serving"
  BY DEF PtyRequest, WatcherStarted, Before
<1>2. UNCHANGED << loop, watcher, updates, pc, hand >>
  BY DEF PtyRequest, loopVars, clientVars, exitVars, lineVars, readlineVars, shellVars, tenantVars, logVars
<1>3. pty'[s] = 1 /\ winch'[s] = << 1 >>
  BY DEF PtyRequest, TypeInv, TypeOK
<1>4. Set(s)' = << >> /\ Held(s)' = << >> /\ Sent(s)' = 1
  BY <1>1, <1>2, <1>3 DEF Set, Held, Sent
<1>5. UpTo(1) = << 1 >>
  BY DEF UpTo
<1>6. InOrder(s)'
  BY <1>3, <1>4, <1>5 DEF InOrder, UpTo
<1> QED BY <1>1, <1>2, <1>6 DEF WatcherStarted, Assigned

LEMMA AssignInOrder ==
    ASSUME TypeInv, NEW s \in Sessions, InOrder(s), WatcherStarted(s), Assigned(s), AssignWindow(s)
    PROVE  (InOrder(s) /\ WatcherStarted(s) /\ Assigned(s))'
<1>1. pty[s] \in 0 .. MaxWindows /\ MaxWindows \in Nat
  BY BoundsAssumption DEF TypeInv, TypeOK
<1>2. UNCHANGED << winch, watcher, updates, pc, hand >>
  BY DEF AssignWindow, loopVars, clientVars, exitVars, lineVars, readlineVars, shellVars, tenantVars, logVars
<1>3. loop[s] = "updating" /\ loop'[s] = "sending" /\ pty'[s] = pty[s] + 1
  BY DEF AssignWindow, TypeInv, TypeOK
<1>4. Sent(s)' = Sent(s)
  BY <1>1, <1>3 DEF Sent
<1>5. Set(s)' = Set(s) /\ Held(s)' = Held(s)
  BY <1>2 DEF Set, Held
<1>6. InOrder(s)'
  BY <1>2, <1>4, <1>5 DEF InOrder
<1>7. pty[s] < MaxWindows
  BY <1>1, <1>3 DEF TypeInv, RoomForWindow
<1> QED BY <1>1, <1>2, <1>3, <1>6, <1>7 DEF WatcherStarted, Assigned

LEMMA SendInOrder ==
    ASSUME TypeInv, NEW s \in Sessions, InOrder(s), WatcherStarted(s), Assigned(s), SendWindow(s)
    PROVE  (InOrder(s) /\ WatcherStarted(s) /\ Assigned(s))'
<1> DEFINE X == Set(s) \o Held(s)
<1>1. pty[s] \in 1 .. MaxWindows /\ MaxWindows \in Nat
  BY BoundsAssumption DEF SendWindow, Assigned
<1>2. UNCHANGED << pty, watcher, updates, pc, hand >>
  BY DEF SendWindow, loopVars, clientVars, exitVars, lineVars, readlineVars, shellVars, tenantVars, logVars
<1>3. loop[s] = "sending" /\ loop'[s] = "serving" /\ winch[s] = << >> /\ winch'[s] = << pty[s] >>
  BY DEF SendWindow, TypeInv, TypeOK
<1>4. Set(s)' = Set(s) /\ Held(s)' = Held(s)
  BY <1>2 DEF Set, Held
<1>5. Sent(s) = pty[s] - 1 /\ Sent(s)' = pty[s]
  BY <1>2, <1>3 DEF Sent
<1>6. X \in Seq(Windows)
  BY PartsAreSequences, ConcatProperties
<1>7. X = UpTo(pty[s] - 1)
  BY <1>3, <1>5, <1>6, ConcatEmptySeq DEF InOrder
<1>8. X \o << pty[s] >> = UpTo(pty[s])
  <2>1. pty[s] - 1 \in Nat /\ (pty[s] - 1) + 1 = pty[s]
    BY <1>1
  <2> HIDE DEF X
  <2> QED BY <1>7, <2>1, NextWindow
<1>9. InOrder(s)'
  BY <1>3, <1>4, <1>5, <1>8 DEF InOrder, UpTo
<1> QED BY <1>2, <1>3, <1>9 DEF WatcherStarted, Assigned

LEMMA ReceiveInOrder ==
    ASSUME TypeInv, NEW s \in Sessions, InOrder(s), WatcherStarted(s), Assigned(s), ReceiveWindow(s)
    PROVE  (InOrder(s) /\ WatcherStarted(s) /\ Assigned(s))'
<1>1. PICK w \in Windows : winch[s] = << w >>
  BY DEF ReceiveWindow, TypeInv, TypeOK, Buffers
<1>2. UNCHANGED << loop, pty, updates, pc >>
  BY DEF ReceiveWindow, loopVars, clientVars, exitVars, lineVars, readlineVars, shellVars, tenantVars, logVars
<1>3. watcher[s] = "waiting" /\ watcher'[s] = "setting" /\ hand'[s] = w /\ winch'[s] = << >>
  BY <1>1 DEF ReceiveWindow, TypeInv, TypeOK
<1>4. Set(s)' = Set(s) /\ Held(s) = << >> /\ Held(s)' = << w >> /\ Sent(s)' = Sent(s)
  BY <1>2, <1>3 DEF Set, Held, Sent
<1>5. (Set(s) \o << >>) \o << w >> = (Set(s) \o << w >>) \o << >>
  <2>1. Set(s) \in Seq(Windows) /\ << w >> \in Seq(Windows)
    BY PartsAreSequences
  <2>2. Set(s) \o << w >> \in Seq(Windows)
    BY <2>1, ConcatProperties
  <2> QED BY <2>1, <2>2, ConcatEmptySeq
<1>6. InOrder(s)'
  BY <1>1, <1>2, <1>3, <1>4, <1>5 DEF InOrder, UpTo
<1> QED BY <1>2, <1>3, <1>6 DEF WatcherStarted, Assigned

LEMMA SetInOrder ==
    ASSUME TypeInv, NEW s \in Sessions, InOrder(s), WatcherStarted(s), Assigned(s), SetWindow(s)
    PROVE  (InOrder(s) /\ WatcherStarted(s) /\ Assigned(s))'
<1> DEFINE h == hand[s]
<1>1. watcher[s] = "setting" /\ watcher'[s] = "waiting"
  BY DEF SetWindow, TypeInv, TypeOK
<1>2. UNCHANGED << loop, pty, winch, pc >> /\ updates'[s] = Append(updates[s], h)
  BY DEF SetWindow, SetPTY, TypeInv, TypeOK, loopVars, clientVars, exitVars, lineVars, readlineVars,
     shellVars, tenantVars, logVars
<1>3. updates[s] # << >> /\ updates[s] \in Seq(Windows) /\ h \in Windows
  BY <1>1, PartsAreSequences DEF WatcherStarted, TypeInv, TypeOK
<1>4. updates'[s] # << >>
  BY <1>2, <1>3
<1>5. Tail(Append(updates[s], h)) = Tail(updates[s]) \o << h >>
  BY <1>3, HeadTailAppend, HeadTailProperties, AppendIsConcat
<1>6. Set(s)' = Set(s) \o << h >> /\ Held(s) = << h >> /\ Held(s)' = << >> /\ Sent(s)' = Sent(s)
  BY <1>1, <1>2, <1>3, <1>4, <1>5 DEF Set, Held, Sent
<1>7. (Set(s) \o << h >>) \o << >> = Set(s) \o << h >>
  <2>1. Set(s) \in Seq(Windows) /\ << h >> \in Seq(Windows)
    BY <1>3, PartsAreSequences
  <2>2. Set(s) \o << h >> \in Seq(Windows)
    BY <2>1, ConcatProperties
  <2> QED BY <2>2, ConcatEmptySeq
<1>8. InOrder(s)'
  BY <1>2, <1>6, <1>7 DEF InOrder, UpTo
<1> QED BY <1>1, <1>2, <1>3, <1>4, <1>8 DEF WatcherStarted, Assigned

LEMMA EndInOrder ==
    ASSUME TypeInv, NEW s \in Sessions, InOrder(s), WatcherStarted(s), Assigned(s), EndWatcher(s)
    PROVE  (InOrder(s) /\ WatcherStarted(s) /\ Assigned(s))'
<1>1. watcher[s] = "waiting" /\ watcher'[s] = "gone"
  BY DEF EndWatcher, TypeInv, TypeOK
<1>2. UNCHANGED << loop, pty, winch, pc, updates, hand >>
  BY DEF EndWatcher, loopVars, clientVars, exitVars, lineVars, readlineVars, shellVars, tenantVars, logVars
<1>3. Set(s)' = Set(s) /\ Held(s)' = Held(s) /\ Sent(s)' = Sent(s)
  BY <1>1, <1>2 DEF Set, Held, Sent
<1> QED BY <1>1, <1>2, <1>3 DEF InOrder, WatcherStarted, Assigned

LEMMA StartInOrder ==
    ASSUME TypeInv, NEW s \in Sessions, InOrder(s), WatcherStarted(s), Assigned(s), StartWatcher(s)
    PROVE  (InOrder(s) /\ WatcherStarted(s) /\ Assigned(s))'
<1>1. watcher[s] = "none" /\ updates[s] = << >>
  BY DEF StartWatcher, WatcherStarted, Before
<1>2. watcher'[s] = "waiting" /\ updates'[s] = << shown[s] >> /\ pc'[s] = "start"
  BY <1>1 DEF StartWatcher, SetPTY, Goto, TypeInv, TypeOK
<1>3. UNCHANGED << loop, pty, winch >>
  BY DEF StartWatcher, loopVars, clientVars, exitVars, lineVars, readlineVars, shellVars, tenantVars, logVars
<1>4. Set(s)' = << >> /\ Set(s) = << >> /\ Held(s)' = << >> /\ Held(s) = << >> /\ Sent(s)' = Sent(s)
  BY <1>1, <1>2, <1>3 DEF Set, Held, Sent
<1>5. InOrder(s)'
  BY <1>3, <1>4 DEF InOrder
<1> QED BY <1>1, <1>2, <1>3, <1>5 DEF WatcherStarted, Assigned, Before

LEMMA WindowsInvInit == Init => WindowsInv
<1> SUFFICES ASSUME Init PROVE WindowsInv
  OBVIOUS
<1> SUFFICES ASSUME NEW s \in Sessions PROVE InOrder(s) /\ WatcherStarted(s) /\ Assigned(s)
  BY TypeInvInit DEF WindowsInv
<1>1. Set(s) = << >> /\ Held(s) = << >> /\ winch[s] = << >> /\ Sent(s) = 0
  BY DEF Init, Set, Held, Sent
<1>2. UpTo(0) = << >>
  BY DEF UpTo
<1>3. InOrder(s)
  BY <1>1, <1>2 DEF InOrder
<1> QED BY <1>3 DEF Init, WatcherStarted, Assigned, Before

\* One session's windows, over one step of any session.
LEMMA WindowsInvStep == WindowsInv /\ [Next]_vars => WindowsInv'
<1> SUFFICES ASSUME WindowsInv, [Next]_vars PROVE WindowsInv'
  OBVIOUS
<1>1. TypeInv'
  BY TypeInvStep DEF WindowsInv
<1> SUFFICES ASSUME NEW u \in Sessions PROVE (InOrder(u) /\ WatcherStarted(u) /\ Assigned(u))'
  BY <1>1 DEF WindowsInv
<1> USE DEF WindowsInv
<1>2. CASE UNCHANGED vars
  BY <1>2, StillInOrder DEF Still, vars, loopVars, clientVars, exitVars, lineVars, readlineVars, shellVars,
     tenantVars, logVars
<1>3. ASSUME NEW s \in Sessions, Client(s) \/ RequestLoop(s) \/ Watcher(s) \/ Readline(s) \/ Handler(s)
      PROVE  (InOrder(u) /\ WatcherStarted(u) /\ Assigned(u))'
  <2>1. CASE PtyRequest(s) \/ AssignWindow(s) \/ SendWindow(s) \/ Watcher(s) \/ StartWatcher(s)
    <3>1. CASE u # s
      BY <2>1, <3>1, OthersStill, StillInOrder
    <3>2. CASE u = s
      BY <2>1, <3>2, PtyRequestInOrder, AssignInOrder, SendInOrder, ReceiveInOrder, SetInOrder,
         EndInOrder, StartInOrder DEF Watcher
    <3> QED BY <3>1, <3>2
  <2>2. CASE Type(s) \/ CloseInput(s) \/ HangUp(s) \/ (\E m \in {"shell", "exec"} : Handle(s, m))
             \/ WindowChange(s)
    BY <2>2, ClientStill, StillInOrder
  <2>3. CASE EndRequests(s)
    BY <2>3, RequestLoopStill, StillInOrder
  <2>4. CASE Login(s) \/ AnnounceLog(s) \/ CreateLog(s) \/ ReadPty(s) \/ StartShell(s)
    BY <2>4, SetupStill, StillInOrder
  <2>5. CASE Shell(s) \/ Teardown(s) \/ Readline(s)
    BY <2>5, ShellStill, TeardownStill, ReadlineStill, StillInOrder
  <2> QED BY <1>3, <2>1, <2>2, <2>3, <2>4, <2>5 DEF Client, RequestLoop, Handler, Setup
<1> QED BY <1>2, <1>3 DEF Next

\* Every window a client announces reaches the tenant and the log once and in
\* order, whatever the number of sessions and windows and however the request
\* loop, the watcher and the handler interleave.
THEOREM WindowsArriveInOrder == Spec => []WindowsInOrder
<1>1. WindowsInv => WindowsInOrder
  BY DEF WindowsInv, WindowsInOrder, InOrder, Set, Held, Sent, UpTo
<1> QED BY <1>1, WindowsInvInit, WindowsInvStep, PTL DEF Spec

(***************************************************************************)
(* Session implements SessionLife                                          *)
(***************************************************************************)

\* Where the handler is, in terms of SessionLife.
Phase(label) ==
    CASE label \in {"idle", "login"} -> "idle"
      [] label \in {"ttylog", "create"} -> "begun"
      [] label = "close" -> "summarised"
      [] label \in {"return", "done"} -> "over"
      [] OTHER -> "recorded"

\* The session's latest entry in the event log.
LastEntry(u) == story[u][Len(story[u])]

\* The session's story has begun and not ended.
Told(u) == story[u] # << >> /\ LastEntry(u) # "SessionEnded"

\* What log and recording look like in each phase.
LifeInv(u) ==
    /\ Phase(pc[u]) = "idle" => story[u] = << >> /\ recording[u] = "none"
    /\ Phase(pc[u]) = "begun" => Told(u) /\ recording[u] = "none"
    /\ Phase(pc[u]) = "recorded" => Told(u) /\ recording[u] = "open"
    /\ Phase(pc[u]) = "summarised" =>
          story[u] # << >> /\ LastEntry(u) = "SessionEnded" /\ recording[u] = "open"

\* A step in which session u stays in its phase.
Steady(u) ==
    /\ Phase(pc'[u]) = Phase(pc[u])
    /\ recording'[u] = recording[u]
    /\ story'[u] = story[u] \/ (Phase(pc[u]) \in {"begun", "recorded"} /\ Told(u)')

\* LifeOf reads the phase off log and recording.
LEMMA PhaseIsLife ==
    ASSUME NEW u \in Sessions, LifeInv(u), pc[u] \in Labels
    PROVE  LifeOf(u) = Phase(pc[u])
<1>1. CASE Phase(pc[u]) = "over"
  BY <1>1 DEF LifeOf, Phase
<1>2. CASE Phase(pc[u]) = "idle"
  BY <1>2 DEF LifeInv, LifeOf, Phase
<1>3. CASE Phase(pc[u]) = "begun"
  BY <1>3 DEF LifeInv, LifeOf, Phase, Told
<1>4. CASE Phase(pc[u]) = "recorded"
  BY <1>4 DEF LifeInv, LifeOf, Phase, Told, LastEntry
<1>5. CASE Phase(pc[u]) = "summarised"
  BY <1>5 DEF LifeInv, LifeOf, Phase, LastEntry
<1> QED BY <1>1, <1>2, <1>3, <1>4, <1>5 DEF Phase

\* A steady step keeps what LifeInv says.
LEMMA SteadyLife ==
    ASSUME NEW u \in Sessions, LifeInv(u), Steady(u) PROVE LifeInv(u)'
BY DEF LifeInv, Steady, Told, LastEntry

\* What a handler logs between its first entry and its last.
Chapters == {<< "OpenTtyLog" >>, << "UnknownCommand" >>, << "RunCommand" >>,
             << "UnknownCommand", "RunCommand" >>, << "Panic" >>}

\* The last entry once one is added, or two.
LEMMA LastOfOne ==
    ASSUME NEW q \in Seq(EntryKinds), NEW x \in EntryKinds
    PROVE  q \o << x >> # << >> /\ (q \o << x >>)[Len(q \o << x >>)] = x
OBVIOUS

LEMMA LastOfTwo ==
    ASSUME NEW q \in Seq(EntryKinds), NEW x \in EntryKinds, NEW y \in EntryKinds
    PROVE  q \o << x, y >> # << >> /\ (q \o << x, y >>)[Len(q \o << x, y >>)] = y
OBVIOUS

\* Logging a chapter lets the story go on, and touches no other story.
LEMMA TellMore ==
    ASSUME TypeInv, NEW s \in Sessions, NEW entries \in Chapters, Record(s, entries)
    PROVE  Told(s)' /\ \A u \in Sessions : u # s => story'[u] = story[u]
<1>1. story[s] \in Seq(EntryKinds) /\ story'[s] = story[s] \o entries
  BY DEF Record, TypeInv, TypeOK
<1>2. \A x \in {"OpenTtyLog", "UnknownCommand", "RunCommand", "Panic"} :
          x \in EntryKinds /\ x # "SessionEnded"
  BY DEF EntryKinds
<1>3. \A u \in Sessions : u # s => story'[u] = story[u]
  BY DEF Record, TypeInv, TypeOK
<1>4. CASE entries = << "UnknownCommand", "RunCommand" >>
  BY <1>1, <1>2, <1>3, <1>4, LastOfTwo DEF Told, LastEntry
<1>5. CASE \E x \in {"OpenTtyLog", "UnknownCommand", "RunCommand", "Panic"} : entries = << x >>
  BY <1>1, <1>2, <1>3, <1>5, LastOfOne DEF Told, LastEntry
<1> QED BY <1>4, <1>5 DEF Chapters

\* Logging nothing changes nothing.
LEMMA TellNothing ==
    ASSUME TypeInv, NEW s \in Sessions, Record(s, << >>) PROVE story' = story
<1>1. story[s] \o << >> = story[s]
  BY ConcatEmptySeq DEF TypeInv, TypeOK
<1> QED BY <1>1 DEF Record, TypeInv, TypeOK

\* A request starts the handler, before its first entry.
LEMMA ClientSteady ==
    ASSUME TypeInv, NEW s \in Sessions, NEW u \in Sessions,
           Client(s)
    PROVE  Steady(u)
<1>1. CASE Type(s)
  BY <1>1 DEF Type, Phase, Steady, TypeInv, TypeOK, loopVars, clientVars, exitVars, lineVars, readlineVars,
         shellVars, tenantVars, logVars
<1>2. CASE HangUp(s)
  BY <1>2 DEF HangUp, Phase, Steady, TypeInv, TypeOK, loopVars, clientVars, exitVars, lineVars, readlineVars,
         shellVars, tenantVars, logVars
<1>3. CASE PtyRequest(s)
  BY <1>3 DEF PtyRequest, Phase, Steady, TypeInv, TypeOK, loopVars, clientVars, exitVars, lineVars, readlineVars,
         shellVars, tenantVars, logVars
<1>4. CASE \E m \in {"shell", "exec"} : Handle(s, m)
  BY <1>4 DEF Handle, Goto, Phase, Steady, TypeInv, TypeOK, loopVars, clientVars, exitVars,
         lineVars, readlineVars, shellVars, tenantVars, logVars
<1>5. CASE WindowChange(s)
  BY <1>5 DEF WindowChange, Phase, Steady, TypeInv, TypeOK, loopVars, clientVars, exitVars,
         lineVars, readlineVars, shellVars, tenantVars, logVars
<1>6. CASE CloseInput(s)
  BY <1>6 DEF CloseInput, Phase, Steady, TypeInv, TypeOK, loopVars, clientVars, exitVars, lineVars,
         readlineVars, shellVars, tenantVars, logVars
<1> QED BY <1>1, <1>2, <1>3, <1>4, <1>5, <1>6 DEF Client

\* The request loop logs nothing.
LEMMA RequestLoopSteady ==
    ASSUME TypeInv, NEW s \in Sessions, NEW u \in Sessions,
           RequestLoop(s)
    PROVE  Steady(u)
<1>1. CASE AssignWindow(s)
  BY <1>1 DEF AssignWindow, Phase, Steady, TypeInv, TypeOK, loopVars, clientVars, exitVars,
         lineVars, readlineVars, shellVars, tenantVars, logVars
<1>2. CASE SendWindow(s)
  BY <1>2 DEF SendWindow, Phase, Steady, TypeInv, TypeOK, loopVars, clientVars, exitVars, lineVars, readlineVars,
         shellVars, tenantVars, logVars
<1>3. CASE EndRequests(s)
  BY <1>3 DEF EndRequests, Phase, Steady, TypeInv, TypeOK, loopVars, clientVars, exitVars, lineVars, readlineVars,
         shellVars, tenantVars, logVars
<1> QED BY <1>1, <1>2, <1>3 DEF RequestLoop

\* The watcher's entries are not part of the story.
LEMMA WatcherSteady ==
    ASSUME TypeInv, NEW s \in Sessions, NEW u \in Sessions,
           Watcher(s)
    PROVE  Steady(u)
<1>1. CASE ReceiveWindow(s)
  BY <1>1 DEF ReceiveWindow, Phase, Steady, TypeInv, TypeOK, loopVars, clientVars, exitVars,
         lineVars, readlineVars, shellVars, tenantVars, logVars
<1>2. CASE SetWindow(s)
  BY <1>2 DEF SetWindow, Phase, Steady, TypeInv, TypeOK, loopVars, clientVars, exitVars, lineVars, readlineVars,
         shellVars, tenantVars, logVars
<1>3. CASE EndWatcher(s)
  BY <1>3 DEF EndWatcher, Phase, Steady, TypeInv, TypeOK, loopVars, clientVars, exitVars, lineVars, readlineVars,
         shellVars, tenantVars, logVars
<1> QED BY <1>1, <1>2, <1>3 DEF Watcher

\* Nor does readline.
LEMMA ReadlineSteady ==
    ASSUME NEW s \in Sessions, NEW u \in Sessions, Readline(s) PROVE Steady(u)
BY ReadlineQuiet DEF Quiet, Steady, logVars

\* What the handler does before the shell, except Login and CreateLog.
LEMMA SetupSteady ==
    ASSUME TypeInv, NEW s \in Sessions, NEW u \in Sessions,
           AnnounceLog(s) \/ ReadPty(s) \/ StartWatcher(s) \/ StartShell(s)
    PROVE  Steady(u)
<1>1. CASE AnnounceLog(s)
  <2>1. << "OpenTtyLog" >> \in Chapters /\ Record(s, << "OpenTtyLog" >>)
    BY <1>1 DEF AnnounceLog, Chapters
  <2>2. Told(s)' /\ \A v \in Sessions : v # s => story'[v] = story[v]
    BY <2>1, TellMore
  <2>3. Phase(pc'[u]) = Phase(pc[u]) /\ Phase(pc[s]) \in {"begun", "recorded"}
    BY <1>1 DEF AnnounceLog, Goto, Phase, TypeInv, TypeOK
  <2> QED BY <1>1, <2>2, <2>3 DEF AnnounceLog, Steady, loopVars, clientVars, exitVars, lineVars, readlineVars,
         shellVars, tenantVars, logVars
<1>2. CASE ReadPty(s)
  BY <1>2 DEF ReadPty, Goto, Phase, Steady, TypeInv, TypeOK, loopVars, clientVars, exitVars,
         lineVars, readlineVars, shellVars, tenantVars, logVars
<1>3. CASE StartWatcher(s)
  BY <1>3 DEF StartWatcher, Goto, Phase, Steady, TypeInv, TypeOK, loopVars, clientVars, exitVars,
         lineVars, readlineVars, shellVars, tenantVars, logVars
<1>4. CASE StartShell(s)
  <2>1. PICK entries \in Chapters : Record(s, entries)
    BY <1>4 DEF StartShell, RunShell, FakeShell, Chapters
  <2>2. Told(s)' /\ \A v \in Sessions : v # s => story'[v] = story[v]
    BY <2>1, TellMore
  <2>3. Phase(pc'[u]) = Phase(pc[u]) /\ Phase(pc[s]) \in {"begun", "recorded"}
    BY <1>4 DEF StartShell, Goto, RunShell, FakeShell, Phase, TypeInv, TypeOK
  <2> QED BY <1>4, <2>2, <2>3 DEF StartShell, Steady, loopVars, clientVars, exitVars, lineVars, readlineVars,
         shellVars, tenantVars, logVars
<1> QED BY <1>1, <1>2, <1>3, <1>4

\* The shell logs what it runs.
LEMMA ShellSteady ==
    ASSUME TypeInv, NEW s \in Sessions, NEW u \in Sessions,
           Shell(s)
    PROVE  Steady(u)
<1>1. CASE Prompt(s)
  BY <1>1 DEF Prompt, Goto, Phase, Steady, TypeInv, TypeOK, loopVars, clientVars, exitVars, lineVars, readlineVars,
         shellVars, tenantVars, logVars
<1>2. CASE ReceiveLine(s)
  BY <1>2 DEF ReceiveLine, Goto, Phase, Steady, TypeInv, TypeOK, loopVars, clientVars, exitVars,
         lineVars, readlineVars, shellVars, tenantVars, logVars
<1>3. CASE ReceiveFailure(s)
  BY <1>3 DEF ReceiveFailure, Goto, Phase, Steady, TypeInv, TypeOK, loopVars, clientVars, exitVars,
         lineVars, readlineVars, shellVars, tenantVars, logVars
<1>4. CASE AbandonLine(s)
  BY <1>4 DEF AbandonLine, Goto, LineDone, Phase, Steady, TypeInv, TypeOK, loopVars, clientVars,
         exitVars, lineVars, readlineVars, shellVars, tenantVars, logVars
<1>5. CASE SkipStatement(s)
  <2>1. Record(s, << >>) \/ Record(s, << "UnknownCommand" >>)
    BY <1>5 DEF SkipStatement
  <2>2. story' = story \/ (Told(s)' /\ \A v \in Sessions : v # s => story'[v] = story[v])
    BY <2>1, TellMore, TellNothing DEF Chapters
  <2>3. Phase(pc'[u]) = Phase(pc[u]) /\ Phase(pc[s]) \in {"begun", "recorded"}
    BY <1>5 DEF SkipStatement, Goto, StatementDone, LineDone, Phase, TypeInv, TypeOK
  <2> QED BY <1>5, <2>2, <2>3 DEF SkipStatement, Steady, loopVars, clientVars, exitVars, lineVars, readlineVars,
         shellVars, tenantVars, logVars
<1>6. CASE ExecuteBuiltin(s)
  BY <1>6 DEF ExecuteBuiltin, Goto, StatementDone, LineDone, Phase, Steady, TypeInv, TypeOK,
         loopVars, clientVars, exitVars, lineVars, readlineVars, shellVars, tenantVars, logVars
<1>7. CASE ExecuteFake(s)
  <2>1. << "UnknownCommand", "RunCommand" >> \in Chapters /\ Record(s, << "UnknownCommand", "RunCommand" >>)
    BY <1>7 DEF ExecuteFake, Chapters
  <2>2. Told(s)' /\ \A v \in Sessions : v # s => story'[v] = story[v]
    BY <2>1, TellMore
  <2>3. Phase(pc'[u]) = Phase(pc[u]) /\ Phase(pc[s]) \in {"begun", "recorded"}
    BY <1>7 DEF ExecuteFake, Goto, StatementDone, LineDone, Phase, TypeInv, TypeOK
  <2> QED BY <1>7, <2>2, <2>3 DEF ExecuteFake, Steady, loopVars, clientVars, exitVars, lineVars, readlineVars,
         shellVars, tenantVars, logVars
<1>8. CASE ExecuteCommand(s)
  <2>1. << "RunCommand" >> \in Chapters /\ Record(s, << "RunCommand" >>)
    BY <1>8 DEF ExecuteCommand, Chapters
  <2>2. Told(s)' /\ \A v \in Sessions : v # s => story'[v] = story[v]
    BY <2>1, TellMore
  <2>3. Phase(pc'[u]) = Phase(pc[u]) /\ Phase(pc[s]) \in {"begun", "recorded"}
    BY <1>8 DEF ExecuteCommand, Goto, Phase, TypeInv, TypeOK
  <2> QED BY <1>8, <2>2, <2>3 DEF ExecuteCommand, Steady, loopVars, clientVars, exitVars, lineVars, readlineVars,
         shellVars, tenantVars, logVars
<1>9. CASE CommandReads(s)
  BY <1>9 DEF CommandReads, Phase, Steady, TypeInv, TypeOK, loopVars, clientVars, exitVars,
         lineVars, readlineVars, shellVars, tenantVars, logVars
<1>10. CASE CommandReturns(s)
  BY <1>10 DEF CommandReturns, Goto, StatementDone, LineDone, Phase, Steady, TypeInv, TypeOK,
         loopVars, clientVars, exitVars, lineVars, readlineVars, shellVars, tenantVars, logVars
<1>11. CASE CommandPanics(s)
  <2>1. << "Panic" >> \in Chapters /\ Record(s, << "Panic" >>)
    BY <1>11 DEF CommandPanics, Chapters
  <2>2. Told(s)' /\ \A v \in Sessions : v # s => story'[v] = story[v]
    BY <2>1, TellMore
  <2>3. Phase(pc'[u]) = Phase(pc[u]) /\ Phase(pc[s]) \in {"begun", "recorded"}
    BY <1>11 DEF CommandPanics, Goto, StatementDone, LineDone, Phase, TypeInv, TypeOK
  <2> QED BY <1>11, <2>2, <2>3 DEF CommandPanics, Steady, loopVars, clientVars, exitVars, lineVars, readlineVars,
         shellVars, tenantVars, logVars
<1>12. CASE CommandReboots(s)
  BY <1>12 DEF CommandReboots, Goto, StatementDone, LineDone, Phase, Steady, TypeInv, TypeOK,
         loopVars, clientVars, exitVars, lineVars, readlineVars, shellVars, tenantVars, logVars
<1> QED BY <1>1, <1>2, <1>3, <1>4, <1>5, <1>6, <1>7, <1>8, <1>9, <1>10, <1>11, <1>12 DEF Shell

\* What the handler does after the shell, except Summarise and CloseLog.
LEMMA TeardownSteady ==
    ASSUME TypeInv, NEW s \in Sessions, NEW u \in Sessions,
           ShellExits(s) \/ Return(s)
    PROVE  Steady(u)
<1>1. CASE ShellExits(s)
  BY <1>1 DEF ShellExits, Goto, Phase, Steady, TypeInv, TypeOK, loopVars, clientVars, exitVars,
         lineVars, readlineVars, shellVars, tenantVars, logVars
<1>2. CASE Return(s)
  BY <1>2 DEF Return, Goto, Phase, Steady, TypeInv, TypeOK, loopVars, clientVars, exitVars,
         lineVars, readlineVars, shellVars, tenantVars, logVars
<1> QED BY <1>1, <1>2

\* A step of SessionLife for session s, in terms of phases.
PhaseStep(s) ==
    \/ Phase(pc[s]) = "idle" /\ Phase(pc'[s]) = "begun"
    \/ Phase(pc[s]) = "begun" /\ Phase(pc'[s]) \in {"recorded", "over"}
    \/ Phase(pc[s]) = "recorded" /\ Phase(pc'[s]) = "summarised"
    \/ Phase(pc[s]) = "summarised" /\ Phase(pc'[s]) = "over"

\* The four actions that move a session on.
LEMMA OthersSteady ==
    ASSUME TypeInv, NEW s \in Sessions, NEW u \in Sessions, u # s,
           Login(s) \/ CreateLog(s) \/ Summarise(s) \/ CloseLog(s)
    PROVE  Steady(u)
BY DEF Login, CreateLog, Summarise, CloseLog, Record, Goto, Steady, TypeInv, TypeOK, logVars

LEMMA LoginMoves ==
    ASSUME TypeInv, NEW s \in Sessions, LifeInv(s), Login(s) PROVE LifeInv(s)' /\ PhaseStep(s)
<1>1. story'[s] = story[s] \o << "LoginAttempt" >> /\ story[s] \in Seq(EntryKinds)
  BY DEF Login, Record, TypeInv, TypeOK
<1>2. Told(s)'
  BY <1>1, LastOfOne DEF EntryKinds, Told, LastEntry
<1>3. pc[s] = "login" /\ pc'[s] = "ttylog" /\ recording' = recording
  BY DEF Login, Goto, TypeInv, TypeOK
<1> QED BY <1>2, <1>3 DEF LifeInv, PhaseStep, Phase

LEMMA CreateMoves ==
    ASSUME TypeInv, NEW s \in Sessions, LifeInv(s), CreateLog(s) PROVE LifeInv(s)' /\ PhaseStep(s)
<1>1. pc[s] = "create" /\ story' = story
  BY DEF CreateLog, logVars
<1>2. \/ pc'[s] = "pty" /\ recording'[s] = "open"
      \/ pc'[s] = "return"
  BY DEF CreateLog, Goto, TypeInv, TypeOK
<1> QED BY <1>1, <1>2 DEF LifeInv, PhaseStep, Phase, Told, LastEntry

LEMMA SummariseMoves ==
    ASSUME TypeInv, NEW s \in Sessions, LifeInv(s), Summarise(s) PROVE LifeInv(s)' /\ PhaseStep(s)
<1>1. story'[s] = story[s] \o << "SessionEnded" >> /\ story[s] \in Seq(EntryKinds)
  BY DEF Summarise, Record, TypeInv, TypeOK
<1>2. story'[s] # << >> /\ LastEntry(s)' = "SessionEnded"
  BY <1>1, LastOfOne DEF EntryKinds, LastEntry
<1>3. pc[s] = "summary" /\ pc'[s] = "close" /\ recording' = recording
  BY DEF Summarise, Goto, TypeInv, TypeOK
<1> QED BY <1>2, <1>3 DEF LifeInv, PhaseStep, Phase

LEMMA CloseMoves ==
    ASSUME TypeInv, NEW s \in Sessions, LifeInv(s), CloseLog(s) PROVE LifeInv(s)' /\ PhaseStep(s)
BY DEF CloseLog, Goto, LifeInv, PhaseStep, Phase, TypeInv, TypeOK


\* One step of session s: s moves on or stays, the others stay.
LEMMA LifeStep ==
    ASSUME TypeInv, \A u \in Sessions : LifeInv(u), NEW s \in Sessions,
           Client(s) \/ RequestLoop(s) \/ Watcher(s) \/ Readline(s) \/ Handler(s)
    PROVE  /\ \A u \in Sessions : LifeInv(u)'
           /\ \A u \in Sessions : u # s => Phase(pc'[u]) = Phase(pc[u])
           /\ Phase(pc'[s]) = Phase(pc[s]) \/ PhaseStep(s)
<1>1. CASE Login(s) \/ CreateLog(s) \/ Summarise(s) \/ CloseLog(s)
  <2>1. \A u \in Sessions : u # s => Steady(u)
    BY <1>1, OthersSteady
  <2>2. LifeInv(s)' /\ PhaseStep(s)
    BY <1>1, LoginMoves, CreateMoves, SummariseMoves, CloseMoves
  <2> QED BY <2>1, <2>2, SteadyLife DEF Steady
<1>2. CASE \A u \in Sessions : Steady(u)
  BY <1>2, SteadyLife DEF Steady
<1>3. CASE AnnounceLog(s) \/ ReadPty(s) \/ StartWatcher(s) \/ StartShell(s)
  BY <1>2, <1>3, SetupSteady
<1>4. CASE ShellExits(s) \/ Return(s)
  BY <1>2, <1>4, TeardownSteady
<1>5. CASE Client(s) \/ RequestLoop(s) \/ Watcher(s) \/ Readline(s) \/ Shell(s)
  BY <1>2, <1>5, ClientSteady, RequestLoopSteady, WatcherSteady, ReadlineSteady, ShellSteady
<1> QED BY <1>1, <1>3, <1>4, <1>5 DEF Handler, Setup, Teardown

LifeInvAll == TypeInv /\ \A u \in Sessions : LifeInv(u)

LEMMA LifeInvInit == Init => LifeInvAll
BY TypeInvInit DEF Init, LifeInvAll, LifeInv, Phase

LEMMA LifeInvStep == LifeInvAll /\ [Next]_vars => LifeInvAll'
<1> SUFFICES ASSUME LifeInvAll, [Next]_vars PROVE LifeInvAll'
  OBVIOUS
<1>1. TypeInv'
  BY TypeInvStep DEF LifeInvAll
<1>2. CASE UNCHANGED vars
  BY <1>1, <1>2 DEF LifeInvAll, LifeInv, Told, LastEntry, vars, logVars
<1>3. CASE Next
  BY <1>1, <1>3, LifeStep DEF LifeInvAll, Next
<1> QED BY <1>2, <1>3

\* In states that satisfy the invariant the mapping is the phase.
Mapped == lifeSeen = [u \in Sessions |-> Phase(pc[u])]

LEMMA LifeIsMapped == LifeInvAll => Mapped
<1> SUFFICES ASSUME LifeInvAll, NEW u \in Sessions PROVE LifeOf(u) = Phase(pc[u])
  BY DEF Mapped, lifeSeen
<1>1. pc[u] \in Labels /\ LifeInv(u)
  BY DEF LifeInvAll, TypeInv, TypeOK
<1> QED BY <1>1, PhaseIsLife

LEMMA LifeIsMappedNext == LifeInvAll' => Mapped'
BY LifeIsMapped, PTL

LEMMA NextImplementsLife ==
    LifeInvAll /\ LifeInvAll' /\ [Next]_vars => [Life!Next]_lifeSeen
<1> SUFFICES ASSUME LifeInvAll, LifeInvAll', [Next]_vars
             PROVE  [Life!Next]_lifeSeen
  OBVIOUS
<1> DEFINE P == [u \in Sessions |-> Phase(pc[u])]
<1>1. lifeSeen = P /\ lifeSeen' = P'
  BY LifeIsMapped, LifeIsMappedNext DEF Mapped
<1>2. CASE UNCHANGED vars
  <2>1. P' = P
    BY <1>2 DEF vars
  <2> QED BY <1>1, <2>1
<1>3. CASE Next
  <2>1. PICK s \in Sessions : Client(s) \/ RequestLoop(s) \/ Watcher(s) \/ Readline(s) \/ Handler(s)
    BY <1>3 DEF Next
  <2>2. /\ \A u \in Sessions : u # s => P'[u] = P[u]
        /\ P'[s] = P[s] \/ PhaseStep(s)
    BY <2>1, LifeStep DEF LifeInvAll
  <2>3. CASE P'[s] = P[s]
    <3>1. P' = P
      BY <2>2, <2>3
    <3> QED BY <1>1, <3>1
  <2>4. CASE PhaseStep(s)
    <3>1. P' = [P EXCEPT ![s] = P'[s]]
      BY <2>2
    <3>2. \/ P[s] = "idle" /\ P'[s] = "begun"
          \/ P[s] = "begun" /\ P'[s] \in {"recorded", "over"}
          \/ P[s] = "recorded" /\ P'[s] = "summarised"
          \/ P[s] = "summarised" /\ P'[s] = "over"
      BY <2>4 DEF PhaseStep
    <3>3. lifeSeen' = [lifeSeen EXCEPT ![s] = P'[s]] /\ lifeSeen[s] = P[s]
      BY <1>1, <3>1
    <3> HIDE DEF P
    <3>4. Life!Step(s)
      BY <3>2, <3>3 DEF Life!Step, Life!Begin, Life!GiveUp, Life!OpenRecording, Life!Summarise,
         Life!Leave, Life!Advance
    <3> QED BY <3>4 DEF Life!Next
  <2> QED BY <2>2, <2>3, <2>4
<1> QED BY <1>2, <1>3

LEMMA InitImplementsLife == Init => Life!Init
BY LifeInvInit, LifeIsMapped DEF Init, Life!Init, Mapped, Phase

\* A session's handler, with all that runs beside it, keeps what SessionLife
\* promises the server: a login first, and one summary before it returns.
THEOREM SessionImplementsLife == Spec => ImplementsLife
<1>1. Spec => []LifeInvAll
  BY LifeInvInit, LifeInvStep, PTL DEF Spec
<1> QED BY <1>1, InitImplementsLife, NextImplementsLife, PTL DEF Spec, ImplementsLife, Life!Spec

(***************************************************************************)
(* The exit status                                                         *)
(***************************************************************************)

\* A status is only sent by a session that then counts as exited.
StatusInv(u) == status[u] # NoStatus => exited[u]

\* The inductive invariant.
EndInv == TypeInv /\ \A u \in Sessions : StatusInv(u)

\* A status is sent once, and is 0 or what the shell returned.
StatusStep(u) ==
    status'[u] # status[u] =>
        /\ status[u] = NoStatus
        /\ status'[u] = 0 \/ (pc[u] = "exit" /\ status'[u] = result[u])

\* A step of which both hold.
Kept(u) == StatusInv(u)' /\ StatusStep(u)

\* The client sends no status.
LEMMA ClientKept ==
    ASSUME EndInv, NEW s \in Sessions, NEW u \in Sessions, Client(s) PROVE Kept(u)
<1> USE DEF EndInv, TypeInv, TypeOK, Kept, StatusInv, StatusStep
<1>1. CASE Type(s)
  BY <1>1 DEF Type, loopVars, clientVars, exitVars, lineVars, readlineVars, shellVars, tenantVars, logVars
<1>2. CASE HangUp(s)
  BY <1>2 DEF HangUp, loopVars, clientVars, exitVars, lineVars, readlineVars, shellVars, tenantVars, logVars
<1>3. CASE PtyRequest(s)
  BY <1>3 DEF PtyRequest, loopVars, clientVars, exitVars, lineVars, readlineVars, shellVars, tenantVars, logVars
<1>4. CASE \E m \in {"shell", "exec"} : Handle(s, m)
  BY <1>4 DEF Handle, Goto, loopVars, clientVars, exitVars, lineVars, readlineVars, shellVars, tenantVars, logVars
<1>5. CASE WindowChange(s)
  BY <1>5 DEF WindowChange, loopVars, clientVars, exitVars, lineVars, readlineVars, shellVars, tenantVars, logVars
<1>6. CASE CloseInput(s)
  BY <1>6 DEF CloseInput, loopVars, clientVars, exitVars, lineVars, readlineVars, shellVars, tenantVars,
         logVars
<1> QED BY <1>1, <1>2, <1>3, <1>4, <1>5, <1>6 DEF Client

\* The request loop only moves windows.
LEMMA RequestLoopKept ==
    ASSUME EndInv, NEW s \in Sessions, NEW u \in Sessions, RequestLoop(s) PROVE Kept(u)
<1> USE DEF EndInv, TypeInv, TypeOK, Kept, StatusInv, StatusStep
<1>1. CASE AssignWindow(s)
  BY <1>1 DEF AssignWindow, loopVars, clientVars, exitVars, lineVars, readlineVars, shellVars, tenantVars, logVars
<1>2. CASE SendWindow(s)
  BY <1>2 DEF SendWindow, loopVars, clientVars, exitVars, lineVars, readlineVars, shellVars, tenantVars, logVars
<1>3. CASE EndRequests(s)
  BY <1>3 DEF EndRequests, loopVars, clientVars, exitVars, lineVars, readlineVars, shellVars, tenantVars, logVars
<1> QED BY <1>1, <1>2, <1>3 DEF RequestLoop

\* The watcher only moves windows.
LEMMA WatcherKept ==
    ASSUME EndInv, NEW s \in Sessions, NEW u \in Sessions, Watcher(s) PROVE Kept(u)
<1> USE DEF EndInv, TypeInv, TypeOK, Kept, StatusInv, StatusStep
<1>1. CASE ReceiveWindow(s)
  BY <1>1 DEF ReceiveWindow, loopVars, clientVars, exitVars, lineVars, readlineVars, shellVars, tenantVars,
         logVars
<1>2. CASE SetWindow(s)
  BY <1>2 DEF SetWindow, loopVars, clientVars, exitVars, lineVars, readlineVars, shellVars, tenantVars, logVars
<1>3. CASE EndWatcher(s)
  BY <1>3 DEF EndWatcher, loopVars, clientVars, exitVars, lineVars, readlineVars, shellVars, tenantVars, logVars
<1> QED BY <1>1, <1>2, <1>3 DEF Watcher

\* Nor does readline.
LEMMA ReadlineKept ==
    ASSUME EndInv, NEW s \in Sessions, NEW u \in Sessions, Readline(s) PROVE Kept(u)
BY ReadlineQuiet DEF Quiet, EndInv, Kept, StatusInv, StatusStep, exitVars

\* Setting the tenant up sends none.
LEMMA SetupKept ==
    ASSUME EndInv, NEW s \in Sessions, NEW u \in Sessions, Setup(s) PROVE Kept(u)
<1> USE DEF EndInv, TypeInv, TypeOK, Kept, StatusInv, StatusStep
<1>1. CASE Login(s)
  BY <1>1 DEF Login, Goto, loopVars, clientVars, exitVars, lineVars, readlineVars, shellVars, tenantVars, logVars
<1>2. CASE AnnounceLog(s)
  BY <1>2 DEF AnnounceLog, Goto, loopVars, clientVars, exitVars, lineVars, readlineVars, shellVars, tenantVars,
         logVars
<1>3. CASE CreateLog(s)
  BY <1>3 DEF CreateLog, Goto, loopVars, clientVars, exitVars, lineVars, readlineVars, shellVars, tenantVars,
         logVars
<1>4. CASE ReadPty(s)
  BY <1>4 DEF ReadPty, Goto, loopVars, clientVars, exitVars, lineVars, readlineVars, shellVars, tenantVars,
         logVars
<1>5. CASE StartWatcher(s)
  BY <1>5 DEF StartWatcher, Goto, loopVars, clientVars, exitVars, lineVars, readlineVars, shellVars, tenantVars,
         logVars
<1>6. CASE StartShell(s)
  BY <1>6 DEF StartShell, RunShell, FakeShell, Goto, loopVars, clientVars, exitVars, lineVars, readlineVars,
         shellVars, tenantVars, logVars
<1> QED BY <1>1, <1>2, <1>3, <1>4, <1>5, <1>6 DEF Setup

\* Of the shell's commands, reboot may send the status.
LEMMA ShellKept ==
    ASSUME EndInv, NEW s \in Sessions, NEW u \in Sessions, Shell(s) PROVE Kept(u)
<1> USE DEF EndInv, TypeInv, TypeOK, Kept, StatusInv, StatusStep
<1>1. CASE Prompt(s)
  BY <1>1 DEF Prompt, loopVars, clientVars, exitVars, lineVars, readlineVars, shellVars, tenantVars, logVars
<1>2. CASE ReceiveLine(s)
  BY <1>2 DEF ReceiveLine, Goto, loopVars, clientVars, exitVars, lineVars, readlineVars, shellVars, tenantVars,
         logVars
<1>3. CASE ReceiveFailure(s)
  BY <1>3 DEF ReceiveFailure, Goto, loopVars, clientVars, exitVars, lineVars, readlineVars, shellVars, tenantVars,
         logVars
<1>4. CASE AbandonLine(s)
  BY <1>4 DEF AbandonLine, Goto, LineDone, loopVars, clientVars, exitVars, lineVars, readlineVars, shellVars,
         tenantVars, logVars
<1>5. CASE SkipStatement(s)
  BY <1>5 DEF SkipStatement, Goto, StatementDone, LineDone, loopVars, clientVars, exitVars,
         lineVars, readlineVars, shellVars, tenantVars, logVars
<1>6. CASE ExecuteBuiltin(s)
  BY <1>6 DEF ExecuteBuiltin, Goto, StatementDone, LineDone, loopVars, clientVars, exitVars,
         lineVars, readlineVars, shellVars, tenantVars, logVars
<1>7. CASE ExecuteFake(s)
  BY <1>7 DEF ExecuteFake, Goto, StatementDone, LineDone, loopVars, clientVars, exitVars, lineVars, readlineVars,
         shellVars, tenantVars, logVars
<1>8. CASE ExecuteCommand(s)
  BY <1>8 DEF ExecuteCommand, Goto, loopVars, clientVars, exitVars, lineVars, readlineVars, shellVars, tenantVars,
         logVars
<1>9. CASE CommandReads(s)
  BY <1>9 DEF CommandReads, loopVars, clientVars, exitVars, lineVars, readlineVars, shellVars, tenantVars, logVars
<1>10. CASE CommandReturns(s)
  BY <1>10 DEF CommandReturns, Goto, StatementDone, LineDone, loopVars, clientVars, exitVars,
         lineVars, readlineVars, shellVars, tenantVars, logVars
<1>11. CASE CommandPanics(s)
  BY <1>11 DEF CommandPanics, Goto, StatementDone, LineDone, loopVars, clientVars, exitVars,
         lineVars, readlineVars, shellVars, tenantVars, logVars
<1>12. CASE CommandReboots(s)
  BY <1>12 DEF CommandReboots, SendExit, Goto, StatementDone, LineDone, loopVars, clientVars,
         exitVars, lineVars, readlineVars, shellVars, tenantVars, logVars
<1> QED BY <1>1, <1>2, <1>3, <1>4, <1>5, <1>6, <1>7, <1>8, <1>9, <1>10, <1>11, <1>12 DEF Shell

\* The handler sends the status, and the library again only if it was not sent.
LEMMA TeardownKept ==
    ASSUME EndInv, NEW s \in Sessions, NEW u \in Sessions, Teardown(s) PROVE Kept(u)
<1> USE DEF EndInv, TypeInv, TypeOK, Kept, StatusInv, StatusStep
<1>1. CASE ShellExits(s)
  BY <1>1 DEF ShellExits, SendExit, Goto, loopVars, clientVars, exitVars, lineVars, readlineVars, shellVars,
         tenantVars, logVars
<1>2. CASE Summarise(s)
  BY <1>2 DEF Summarise, Goto, loopVars, clientVars, exitVars, lineVars, readlineVars, shellVars, tenantVars,
         logVars
<1>3. CASE CloseLog(s)
  BY <1>3 DEF CloseLog, Goto, loopVars, clientVars, exitVars, lineVars, readlineVars, shellVars, tenantVars,
         logVars
<1>4. CASE Return(s)
  BY <1>4 DEF Return, SendExit, Goto, loopVars, clientVars, exitVars, lineVars, readlineVars, shellVars,
         tenantVars, logVars
<1> QED BY <1>1, <1>2, <1>3, <1>4 DEF Teardown

\* The invariant holds at first and is kept.
LEMMA EndInvInit == Init => EndInv
BY TypeInvInit DEF Init, EndInv, StatusInv

LEMMA EndInvStep == EndInv /\ [Next]_vars => EndInv' /\ \A u \in Sessions : StatusStep(u)
<1> SUFFICES ASSUME EndInv, [Next]_vars PROVE EndInv' /\ \A u \in Sessions : StatusStep(u)
  OBVIOUS
<1>1. TypeInv'
  BY TypeInvStep DEF EndInv
<1>2. ASSUME NEW u \in Sessions PROVE Kept(u)
  <2>1. CASE UNCHANGED vars
    BY <2>1 DEF EndInv, Kept, StatusInv, StatusStep, vars, loopVars, clientVars, exitVars, lineVars, readlineVars, shellVars, tenantVars, logVars
  <2>2. ASSUME NEW s \in Sessions, Client(s) \/ RequestLoop(s) \/ Watcher(s) \/ Readline(s) \/ Handler(s)
        PROVE  Kept(u)
    BY <2>2, ClientKept, RequestLoopKept, WatcherKept, ReadlineKept, SetupKept, ShellKept, TeardownKept
       DEF Handler
  <2> QED BY <2>1, <2>2 DEF Next
<1> QED BY <1>1, <1>2 DEF EndInv, Kept

LEMMA EndInvHolds == Spec => []EndInv
BY EndInvInit, EndInvStep, PTL DEF Spec

\* However often reboot and the handler call Exit, the client is sent one status.
THEOREM OneStatus == Spec => StatusOnce
<1>1. EndInv /\ [Next]_vars =>
      [ \A s \in Sessions :
          status'[s] # status[s] =>
              /\ status[s] = NoStatus
              /\ status'[s] = 0 \/ (pc[s] = "exit" /\ status'[s] = result[s]) ]_vars
  BY EndInvStep DEF StatusStep
<1> QED BY <1>1, EndInvHolds, PTL DEF Spec, StatusOnce

(***************************************************************************)
(* A shell that waits is not forgotten                                     *)
(***************************************************************************)

\* There is, or will be, something for a shell that waits.
Heard(u) ==
    \/ offered[u]
    \/ failure[u] # "none"
    \/ terminal[u] = "reading"
    \/ terminal[u] = "parked" /\ kick[u]
    \/ terminal[u] = "gone" /\ operation[u] = "running"

\* Where the shell runs.
InShell == {"prompt", "wait", "execute", "running"}

\* While the shell runs readline has its goroutines, and the operation goroutine
\* has ended only if the end of file it reported is still to be received.
Alive(u) ==
    /\ terminal[u] # "none"
    /\ operation[u] = "running" \/ failure[u] = "EOF"

KickInv(u) ==
    /\ pc[u] = "wait" => Heard(u)
    /\ pc[u] \in InShell => Alive(u)
    /\ operation[u] = "none" <=> terminal[u] = "none"

\* The inductive invariant.
KickInvAll == TypeInv /\ \A u \in Sessions : KickInv(u)

\* A step that leaves readline alone and does not take the handler to the shell.
Aside(u) ==
    /\ UNCHANGED << terminal[u], kick[u], operation[u], offered[u], failure[u] >>
    /\ pc'[u] \in InShell => pc[u] \in InShell
    /\ pc'[u] = "wait" => pc[u] = "wait"

LEMMA AsideKick ==
    ASSUME NEW u \in Sessions, KickInv(u), Aside(u) PROVE KickInv(u)'
BY DEF Aside, KickInv, Heard, Alive

\* Only readline, Prompt and what the shell receives touch readline, and only
\* RunShell leads to the shell.
LEMMA OthersAside ==
    ASSUME TypeInv, NEW s \in Sessions, NEW u \in Sessions,
           Client(s) \/ RequestLoop(s) \/ Watcher(s) \/ Login(s) \/ AnnounceLog(s) \/ CreateLog(s)
           \/ ReadPty(s) \/ StartWatcher(s) \/ Teardown(s)
    PROVE  Aside(u)
<1> USE DEF Aside, InShell, Goto, TypeInv, TypeOK, shellVars, readlineVars
<1>1. CASE Client(s)
  BY <1>1 DEF Client, Type, CloseInput, HangUp, PtyRequest, Handle, WindowChange
<1>2. CASE RequestLoop(s)
  BY <1>2 DEF RequestLoop, AssignWindow, SendWindow, EndRequests
<1>3. CASE Watcher(s)
  BY <1>3 DEF Watcher, ReceiveWindow, SetWindow, EndWatcher
<1>4. CASE Login(s) \/ AnnounceLog(s) \/ CreateLog(s) \/ ReadPty(s) \/ StartWatcher(s)
  BY <1>4 DEF Login, AnnounceLog, CreateLog, ReadPty, StartWatcher
<1>5. CASE Teardown(s)
  BY <1>5 DEF Teardown, ShellExits, Summarise, CloseLog, Return
<1> QED BY <1>1, <1>2, <1>3, <1>4, <1>5

LEMMA LineAside ==
    ASSUME TypeInv, NEW s \in Sessions, NEW u \in Sessions,
           AbandonLine(s) \/ SkipStatement(s) \/ ExecuteBuiltin(s) \/ ExecuteFake(s)
           \/ ExecuteCommand(s) \/ CommandReads(s) \/ CommandReturns(s) \/ CommandPanics(s)
           \/ CommandReboots(s)
    PROVE  Aside(u)
<1> USE DEF Aside, InShell, Goto, LineDone, StatementDone, TypeInv, TypeOK, shellVars, readlineVars
<1>1. CASE AbandonLine(s)
  BY <1>1 DEF AbandonLine
<1>2. CASE SkipStatement(s)
  BY <1>2 DEF SkipStatement
<1>3. CASE ExecuteBuiltin(s)
  BY <1>3 DEF ExecuteBuiltin
<1>4. CASE ExecuteFake(s)
  BY <1>4 DEF ExecuteFake
<1>5. CASE ExecuteCommand(s)
  BY <1>5 DEF ExecuteCommand
<1>6. CASE CommandReads(s)
  BY <1>6 DEF CommandReads
<1>7. CASE CommandReturns(s)
  BY <1>7 DEF CommandReturns
<1>8. CASE CommandPanics(s)
  BY <1>8 DEF CommandPanics
<1>9. CASE CommandReboots(s)
  BY <1>9 DEF CommandReboots
<1> QED BY <1>1, <1>2, <1>3, <1>4, <1>5, <1>6, <1>7, <1>8, <1>9

\* The shell's own session, when its readline takes a step: whatever is read is
\* offered, reported, or followed by a kick, unless reading goes on.
LEMMA ReadlineKick ==
    ASSUME TypeInv, NEW s \in Sessions, KickInv(s), Readline(s) PROVE KickInv(s)'
<1> USE DEF KickInv, Heard, Alive, TypeInv, TypeOK, TerminalStates, OperationStates, Failures
<1>0. pc' = pc
  BY ReadlineQuiet DEF Quiet
<1>1. CASE TakeKick(s)
  BY <1>0, <1>1 DEF TakeKick
<1>2. CASE ReadLine(s)
  BY <1>0, <1>2 DEF ReadLine, HandOver, Attends
<1>3. CASE ReadMore(s)
  BY <1>0, <1>3 DEF ReadMore, HandOver, Attends
<1>4. CASE ReadFailure(s)
  BY <1>0, <1>4 DEF ReadFailure, HandOver, Attends
<1>5. CASE ReadNul(s)
  BY <1>0, <1>5 DEF ReadNul, HandOver, Attends
<1>6. CASE ReadEof(s)
  BY <1>0, <1>6 DEF ReadEof, InShell
<1>7. CASE ReportEof(s)
  BY <1>0, <1>7 DEF ReportEof, Attends
<1> QED BY <1>1, <1>2, <1>3, <1>4, <1>5, <1>6, <1>7 DEF Readline, Terminal

\* The shell asks, and takes what it is given; a shell that is started has a
\* readline to ask.
LEMMA ShellKick ==
    ASSUME TypeInv, NEW s \in Sessions, KickInv(s),
           Prompt(s) \/ ReceiveLine(s) \/ ReceiveFailure(s) \/ StartShell(s)
    PROVE  KickInv(s)'
<1> USE DEF KickInv, Alive, TypeInv, TypeOK, TerminalStates, OperationStates, Failures, InShell, Goto
<1>1. CASE Prompt(s)
  BY <1>1 DEF Prompt, Heard
<1>2. CASE ReceiveLine(s)
  BY <1>2 DEF ReceiveLine
<1>3. CASE ReceiveFailure(s)
  BY <1>3 DEF ReceiveFailure
<1>4. CASE StartShell(s)
  BY <1>4 DEF StartShell, RunShell, FakeShell, readlineVars
<1> QED BY <1>1, <1>2, <1>3, <1>4

\* Of another session they touch nothing.
LEMMA OtherSessionAside ==
    ASSUME TypeInv, NEW s \in Sessions, NEW u \in Sessions, u # s,
           Readline(s) \/ Prompt(s) \/ ReceiveLine(s) \/ ReceiveFailure(s) \/ StartShell(s)
    PROVE  Aside(u)
<1> USE DEF Aside, Goto, TypeInv, TypeOK
<1>1. CASE Readline(s)
  <2>1. pc' = pc
    BY <1>1, ReadlineQuiet DEF Quiet
  <2> QED BY <1>1, <2>1 DEF Readline, Terminal, TakeKick, HandOver, ReadLine, ReadMore, ReadFailure,
             ReadNul, ReadEof, ReportEof
<1>2. CASE Prompt(s)
  BY <1>2 DEF Prompt
<1>3. CASE ReceiveLine(s)
  BY <1>3 DEF ReceiveLine
<1>4. CASE ReceiveFailure(s)
  BY <1>4 DEF ReceiveFailure
<1>5. CASE StartShell(s)
  BY <1>5 DEF StartShell, RunShell, FakeShell, readlineVars
<1> QED BY <1>1, <1>2, <1>3, <1>4, <1>5

LEMMA KickInvInit == Init => KickInvAll
BY TypeInvInit DEF Init, KickInvAll, KickInv, InShell

LEMMA KickInvStep == KickInvAll /\ [Next]_vars => KickInvAll'
<1> SUFFICES ASSUME KickInvAll, [Next]_vars PROVE KickInvAll'
  OBVIOUS
<1>1. TypeInv'
  BY TypeInvStep DEF KickInvAll
<1>2. ASSUME NEW u \in Sessions PROVE KickInv(u)'
  <2>0. TypeInv /\ KickInv(u)
    BY DEF KickInvAll
  <2>1. CASE UNCHANGED vars
    <3>1. Aside(u)
      BY <2>1 DEF Aside, vars, shellVars, readlineVars
    <3> QED BY <2>0, <3>1, AsideKick
  <2>2. ASSUME NEW s \in Sessions,
               Client(s) \/ RequestLoop(s) \/ Watcher(s) \/ Readline(s) \/ Handler(s)
        PROVE  KickInv(u)'
    <3>1. CASE Readline(s) \/ Prompt(s) \/ ReceiveLine(s) \/ ReceiveFailure(s) \/ StartShell(s)
      <4>1. CASE u = s
        BY <2>0, <3>1, <4>1, ReadlineKick, ShellKick
      <4>2. CASE u # s
        BY <2>0, <3>1, <4>2, OtherSessionAside, AsideKick
      <4> QED BY <4>1, <4>2
    <3>2. CASE Client(s) \/ RequestLoop(s) \/ Watcher(s) \/ Login(s) \/ AnnounceLog(s)
               \/ CreateLog(s) \/ ReadPty(s) \/ StartWatcher(s) \/ Teardown(s)
      BY <2>0, <3>2, OthersAside, AsideKick
    <3>3. CASE AbandonLine(s) \/ SkipStatement(s) \/ ExecuteBuiltin(s) \/ ExecuteFake(s)
               \/ ExecuteCommand(s) \/ CommandReads(s) \/ CommandReturns(s) \/ CommandPanics(s)
               \/ CommandReboots(s)
      BY <2>0, <3>3, LineAside, AsideKick
    <3> QED BY <2>2, <3>1, <3>2, <3>3 DEF Handler, Setup, Shell
  <2> QED BY <2>1, <2>2 DEF Next
<1> QED BY <1>1, <1>2 DEF KickInvAll

\* Whatever keys a client types, and however readline's goroutines and the shell
\* interleave, a shell that waits for a line is not forgotten.
THEOREM PromptsAreHeard == Spec => []NoLostKick
<1>1. KickInvAll => NoLostKick
  BY DEF KickInvAll, KickInv, Heard, NoLostKick
<1> QED BY <1>1, KickInvInit, KickInvStep, PTL DEF Spec

(***************************************************************************)
(* The story in the event log                                              *)
(***************************************************************************)

\* The entries come in the order StoryComplete asks for.
Ordered(q) ==
    \A i \in DOMAIN q :
        /\ i = 1 <=> q[i] = "LoginAttempt"
        /\ i = 2 <=> q[i] = "OpenTtyLog"
        /\ q[i] = "SessionEnded" => i = Len(q)
        /\ q[i] = "Panic" => i > 4 /\ q[i - 1] = "RunCommand"

\* Where there is a story to go on with.
Telling == {"prompt", "wait", "execute", "running", "exit", "summary"}

\* Where the tenant is set up.
Opened == {"pty", "setpty", "start"}

\* How far the story is at every place of the handler.
StoryInv(u) ==
    /\ Ordered(story[u])
    /\ pc[u] \in {"idle", "login"} => Len(story[u]) = 0
    /\ pc[u] = "ttylog" => Len(story[u]) = 1
    /\ pc[u] \in {"create"} \cup Opened => Len(story[u]) = 2
    /\ pc[u] \in Telling => Len(story[u]) > 2
    /\ pc[u] = "running" => Len(story[u]) > 3 /\ LastEntry(u) = "RunCommand"
    /\ pc[u] \in {"ttylog", "create"} \cup Opened \cup Telling => LastEntry(u) # "SessionEnded"
    /\ pc[u] \in {"idle", "login", "ttylog", "create"} => recording[u] = "none"
    /\ pc[u] = "close" => LastEntry(u) = "SessionEnded"
    /\ pc[u] \in {"return", "done"} =>
          /\ recording[u] \in {"none", "closed"}
          /\ recording[u] = "closed" <=> LastEntry(u) = "SessionEnded"

\* The inductive invariant.
StoryInvAll == TypeInv /\ \A u \in Sessions : StoryInv(u)

\* One more entry keeps the order, where it fits.
LEMMA OneMore ==
    ASSUME NEW q \in Seq(EntryKinds), Ordered(q), NEW x \in EntryKinds,
           x = "LoginAttempt" <=> Len(q) = 0,
           x = "OpenTtyLog" <=> Len(q) = 1,
           Len(q) > 0 => q[Len(q)] # "SessionEnded",
           x = "Panic" => Len(q) > 3 /\ q[Len(q)] = "RunCommand"
    PROVE  /\ Ordered(q \o << x >>)
           /\ Len(q \o << x >>) = Len(q) + 1
           /\ (q \o << x >>)[Len(q) + 1] = x
<1> DEFINE r == q \o << x >>
<1>1. /\ Len(q) \in Nat /\ Len(r) = Len(q) + 1 /\ DOMAIN r = 1 .. Len(q) + 1
      /\ DOMAIN q = 1 .. Len(q)
      /\ r[Len(q) + 1] = x /\ \A i \in 1 .. Len(q) : r[i] = q[i]
  OBVIOUS
<1> HIDE DEF r
<1>2. ASSUME NEW i \in DOMAIN r
      PROVE  /\ i = 1 <=> r[i] = "LoginAttempt"
             /\ i = 2 <=> r[i] = "OpenTtyLog"
             /\ r[i] = "SessionEnded" => i = Len(r)
             /\ r[i] = "Panic" => i > 4 /\ r[i - 1] = "RunCommand"
  <2>1. CASE i = Len(q) + 1
    BY <2>1, <1>1
  <2>2. CASE i \in 1 .. Len(q)
    <3>1. q[i] # "SessionEnded"
      BY <2>2, <1>1 DEF Ordered
    <3>2. q[i] = "Panic" => i > 4 /\ q[i - 1] = "RunCommand" /\ r[i - 1] = q[i - 1]
      BY <2>2, <1>1 DEF Ordered
    <3> QED BY <2>2, <3>1, <3>2, <1>1 DEF Ordered
  <2> QED BY <2>1, <2>2, <1>1
<1> QED BY <1>1, <1>2 DEF Ordered, r

\* The session's story has n more entries, the last of them x.
Grew(s, n, x) ==
    /\ Ordered(story'[s]) /\ Len(story'[s]) = Len(story[s]) + n
    /\ story'[s][Len(story'[s])] = x
    /\ \A u \in Sessions : u # s => story'[u] = story[u]

\* The same of a step that logs it.
LEMMA LogOne ==
    ASSUME TypeInv, NEW s \in Sessions, Ordered(story[s]), NEW x \in EntryKinds,
           Record(s, << x >>),
           x = "LoginAttempt" <=> Len(story[s]) = 0,
           x = "OpenTtyLog" <=> Len(story[s]) = 1,
           Len(story[s]) > 0 => LastEntry(s) # "SessionEnded",
           x = "Panic" => Len(story[s]) > 3 /\ LastEntry(s) = "RunCommand"
    PROVE  Grew(s, 1, x)
<1>1. story[s] \in Seq(EntryKinds) /\ story'[s] = story[s] \o << x >>
      /\ \A u \in Sessions : u # s => story'[u] = story[u]
  BY DEF Record, TypeInv, TypeOK
<1> QED BY <1>1, OneMore DEF LastEntry, Grew

\* Any entry but a panic may follow the first three.
LEMMA LogMore ==
    ASSUME TypeInv, NEW s \in Sessions, Ordered(story[s]), Len(story[s]) > 2,
           LastEntry(s) # "SessionEnded",
           NEW x \in {"RunCommand", "UnknownCommand", "SessionEnded"}, Record(s, << x >>)
    PROVE  Grew(s, 1, x)
<1>1. story[s] \in Seq(EntryKinds)
  BY DEF TypeInv, TypeOK
<1>2. Len(story[s]) \in Nat
  BY <1>1
<1>3. Len(story[s]) # 0 /\ Len(story[s]) # 1
  BY <1>2
<1>4. x \in EntryKinds /\ x \notin {"LoginAttempt", "OpenTtyLog", "Panic"}
  BY DEF EntryKinds
<1> QED BY <1>3, <1>4, LogOne

\* A panic follows the command that had it.
LEMMA LogPanic ==
    ASSUME TypeInv, NEW s \in Sessions, Ordered(story[s]), Len(story[s]) > 3,
           LastEntry(s) = "RunCommand", Record(s, << "Panic" >>)
    PROVE  Grew(s, 1, "Panic")
<1>1. story[s] \in Seq(EntryKinds)
  BY DEF TypeInv, TypeOK
<1>2. Len(story[s]) \in Nat
  BY <1>1
<1>3. Len(story[s]) # 0 /\ Len(story[s]) # 1
  <2>1. \A n \in Nat : n > 3 => n # 0 /\ n # 1
    OBVIOUS
  <2> QED BY <1>2, <2>1, Zenon
<1>4. "Panic" \in EntryKinds /\ LastEntry(s) # "SessionEnded"
      /\ "Panic" # "LoginAttempt" /\ "Panic" # "OpenTtyLog"
  BY DEF EntryKinds
<1> QED BY <1>3, <1>4, LogOne

\* The two entries of a command only the image has keep the order.
LEMMA TwoMore ==
    ASSUME NEW q \in Seq(EntryKinds), Ordered(q), Len(q) > 1, q[Len(q)] # "SessionEnded"
    PROVE  /\ Ordered(q \o << "UnknownCommand", "RunCommand" >>)
           /\ Len(q \o << "UnknownCommand", "RunCommand" >>) = Len(q) + 2
           /\ (q \o << "UnknownCommand", "RunCommand" >>)[Len(q) + 2] = "RunCommand"
<1> DEFINE r == q \o << "UnknownCommand", "RunCommand" >>
<1>1. /\ Len(q) \in Nat /\ Len(r) = Len(q) + 2 /\ DOMAIN r = 1 .. Len(q) + 2
      /\ DOMAIN q = 1 .. Len(q)
      /\ r[Len(q) + 1] = "UnknownCommand" /\ r[Len(q) + 2] = "RunCommand"
      /\ \A i \in 1 .. Len(q) : r[i] = q[i]
  OBVIOUS
<1> HIDE DEF r
<1>2. ASSUME NEW i \in DOMAIN r
      PROVE  /\ i = 1 <=> r[i] = "LoginAttempt"
             /\ i = 2 <=> r[i] = "OpenTtyLog"
             /\ r[i] = "SessionEnded" => i = Len(r)
             /\ r[i] = "Panic" => i > 4 /\ r[i - 1] = "RunCommand"
  <2>1. CASE i = Len(q) + 1
    BY <2>1, <1>1
  <2>2. CASE i = Len(q) + 2
    BY <2>2, <1>1
  <2>3. CASE i \in 1 .. Len(q)
    <3>1. q[i] # "SessionEnded"
      BY <2>3, <1>1 DEF Ordered
    <3>2. q[i] = "Panic" => i > 4 /\ q[i - 1] = "RunCommand" /\ r[i - 1] = q[i - 1]
      BY <2>3, <1>1 DEF Ordered
    <3> QED BY <2>3, <3>1, <3>2, <1>1 DEF Ordered
  <2> QED BY <2>1, <2>2, <2>3, <1>1
<1> QED BY <1>1, <1>2 DEF Ordered, r

\* The same of a step that logs them.
LEMMA LogTwo ==
    ASSUME TypeInv, NEW s \in Sessions, Ordered(story[s]),
           Record(s, << "UnknownCommand", "RunCommand" >>),
           Len(story[s]) > 1, LastEntry(s) # "SessionEnded"
    PROVE  Grew(s, 2, "RunCommand")
<1>1. /\ story[s] \in Seq(EntryKinds)
      /\ story'[s] = story[s] \o << "UnknownCommand", "RunCommand" >>
      /\ \A u \in Sessions : u # s => story'[u] = story[u]
  BY DEF Record, TypeInv, TypeOK
<1> QED BY <1>1, TwoMore DEF LastEntry, Grew

\* What the invariant says of one session.
LEMMA StoryOf ==
    ASSUME StoryInvAll, NEW s \in Sessions
    PROVE  TypeInv /\ StoryInv(s) /\ Len(story[s]) \in Nat
<1>1. TypeInv /\ StoryInv(s)
  BY DEF StoryInvAll
<1>2. story[s] \in Seq(EntryKinds)
  BY <1>1 DEF TypeInv, TypeOK
<1>3. Len(story[s]) \in Nat
  BY <1>2
<1> QED BY <1>1, <1>3

\* A step that logs nothing of u and keeps it where it may log the same.
Unwritten(u) ==
    /\ story'[u] = story[u] /\ recording'[u] = recording[u]
    /\ \/ pc'[u] = pc[u]
       \/ pc[u] = "idle" /\ pc'[u] = "login"
       \/ pc[u] \in Opened /\ pc'[u] \in Opened
       \/ pc[u] \in Telling /\ pc'[u] \in Telling \ {"running"}
       \/ pc[u] = "return" /\ pc'[u] = "done"

\* Such a step keeps the story.
LEMMA UnwrittenKept ==
    ASSUME StoryInvAll, NEW u \in Sessions, Unwritten(u)
    PROVE  StoryInv(u)'
BY StoryOf DEF StoryInv, Unwritten, LastEntry, Opened, Telling

\* A request starts a handler that has logged nothing.
LEMMA ClientStory ==
    ASSUME StoryInvAll, NEW s \in Sessions, NEW u \in Sessions, Client(s) PROVE StoryInv(u)'
<1>0. TypeInv
  BY DEF StoryInvAll
<1>1. CASE Type(s)
  <2>1. Unwritten(u)
    BY <1>0, <1>1 DEF Type, Unwritten, Opened, Telling, TypeInv, TypeOK, logVars
  <2> QED BY <2>1, UnwrittenKept
<1>2. CASE HangUp(s)
  <2>1. Unwritten(u)
    BY <1>0, <1>2 DEF HangUp, Unwritten, Opened, Telling, TypeInv, TypeOK, logVars
  <2> QED BY <2>1, UnwrittenKept
<1>3. CASE PtyRequest(s)
  <2>1. Unwritten(u)
    BY <1>0, <1>3 DEF PtyRequest, Unwritten, Opened, Telling, TypeInv, TypeOK, logVars
  <2> QED BY <2>1, UnwrittenKept
<1>4. CASE \E m \in {"shell", "exec"} : Handle(s, m)
  <2>1. Unwritten(u)
    BY <1>0, <1>4 DEF Handle, Goto, Unwritten, Opened, Telling, TypeInv, TypeOK, logVars
  <2> QED BY <2>1, UnwrittenKept
<1>5. CASE WindowChange(s)
  <2>1. Unwritten(u)
    BY <1>0, <1>5 DEF WindowChange, Unwritten, Opened, Telling, TypeInv, TypeOK, logVars
  <2> QED BY <2>1, UnwrittenKept
<1>6. CASE CloseInput(s)
  <2>1. Unwritten(u)
    BY <1>0, <1>6 DEF CloseInput, Unwritten, Opened, Telling, TypeInv, TypeOK, logVars
  <2> QED BY <2>1, UnwrittenKept
<1> QED BY <1>1, <1>2, <1>3, <1>4, <1>5, <1>6 DEF Client

\* The request loop logs nothing.
LEMMA RequestLoopStory ==
    ASSUME StoryInvAll, NEW s \in Sessions, NEW u \in Sessions, RequestLoop(s) PROVE StoryInv(u)'
<1>0. TypeInv
  BY DEF StoryInvAll
<1>1. CASE AssignWindow(s)
  <2>1. Unwritten(u)
    BY <1>0, <1>1 DEF AssignWindow, Unwritten, Opened, Telling, TypeInv, TypeOK, logVars
  <2> QED BY <2>1, UnwrittenKept
<1>2. CASE SendWindow(s)
  <2>1. Unwritten(u)
    BY <1>0, <1>2 DEF SendWindow, Unwritten, Opened, Telling, TypeInv, TypeOK, logVars
  <2> QED BY <2>1, UnwrittenKept
<1>3. CASE EndRequests(s)
  <2>1. Unwritten(u)
    BY <1>0, <1>3 DEF EndRequests, Unwritten, Opened, Telling, TypeInv, TypeOK, logVars
  <2> QED BY <2>1, UnwrittenKept
<1> QED BY <1>1, <1>2, <1>3 DEF RequestLoop

\* The watcher logs window sizes only.
LEMMA WatcherStory ==
    ASSUME StoryInvAll, NEW s \in Sessions, NEW u \in Sessions, Watcher(s) PROVE StoryInv(u)'
<1>0. TypeInv
  BY DEF StoryInvAll
<1>1. CASE ReceiveWindow(s)
  <2>1. Unwritten(u)
    BY <1>0, <1>1 DEF ReceiveWindow, Unwritten, Opened, Telling, TypeInv, TypeOK, logVars
  <2> QED BY <2>1, UnwrittenKept
<1>2. CASE SetWindow(s)
  <2>1. Unwritten(u)
    BY <1>0, <1>2 DEF SetWindow, Unwritten, Opened, Telling, TypeInv, TypeOK, logVars
  <2> QED BY <2>1, UnwrittenKept
<1>3. CASE EndWatcher(s)
  <2>1. Unwritten(u)
    BY <1>0, <1>3 DEF EndWatcher, Unwritten, Opened, Telling, TypeInv, TypeOK, logVars
  <2> QED BY <2>1, UnwrittenKept
<1> QED BY <1>1, <1>2, <1>3 DEF Watcher

\* Nor does readline.
LEMMA ReadlineStory ==
    ASSUME StoryInvAll, NEW s \in Sessions, NEW u \in Sessions, Readline(s) PROVE StoryInv(u)'
<1>1. Unwritten(u)
  BY ReadlineQuiet DEF Quiet, Unwritten, logVars
<1> QED BY <1>1, UnwrittenKept

\* The first three entries.
LEMMA SetupStory ==
    ASSUME StoryInvAll, NEW s \in Sessions, NEW u \in Sessions, Setup(s) PROVE StoryInv(u)'
<1>0. TypeInv
  BY DEF StoryInvAll
<1>1. CASE Login(s)
  <2>1. TypeInv /\ StoryInv(s) /\ StoryInv(u) /\ Len(story[s]) \in Nat
    BY StoryOf
  <2>2. /\ pc[s] = "login" /\ pc'[s] \in {"ttylog"} /\ recording' = recording
        /\ \A v \in Sessions : v # s => pc'[v] = pc[v]
    BY <1>1, <2>1 DEF Login, Goto, TypeInv, TypeOK
  <2>3. Ordered(story[s]) /\ Len(story[s]) = 0
    BY <2>1, <2>2 DEF StoryInv, Telling, Opened
  <2>4. Record(s, << "LoginAttempt" >>)
    BY <1>1 DEF Login
  <2>5. Grew(s, 1, "LoginAttempt")
    BY <2>1, <2>3, <2>4, LogOne DEF EntryKinds
  <2> QED BY <2>1, <2>2, <2>3, <2>5 DEF Grew, StoryInv, LastEntry, Telling, Opened
<1>2. CASE AnnounceLog(s)
  <2>1. TypeInv /\ StoryInv(s) /\ StoryInv(u) /\ Len(story[s]) \in Nat
    BY StoryOf
  <2>2. /\ pc[s] = "ttylog" /\ pc'[s] \in {"create"} /\ recording' = recording
        /\ \A v \in Sessions : v # s => pc'[v] = pc[v]
    BY <1>2, <2>1 DEF AnnounceLog, Goto, TypeInv, TypeOK
  <2>3. Ordered(story[s]) /\ Len(story[s]) = 1 /\ LastEntry(s) # "SessionEnded"
    BY <2>1, <2>2 DEF StoryInv, Telling, Opened
  <2>4. Record(s, << "OpenTtyLog" >>)
    BY <1>2 DEF AnnounceLog
  <2>5. Grew(s, 1, "OpenTtyLog")
    BY <2>1, <2>3, <2>4, LogOne DEF EntryKinds
  <2> QED BY <2>1, <2>2, <2>3, <2>5 DEF Grew, StoryInv, LastEntry, Telling, Opened
<1>3. CASE CreateLog(s)
  <2>1. TypeInv /\ StoryInv(s) /\ StoryInv(u)
    BY StoryOf
  <2>2. /\ pc[s] = "create" /\ story' = story
        /\ pc'[s] = "pty" \/ (pc'[s] = "return" /\ recording'[s] = recording[s])
        /\ \A v \in Sessions : v # s => pc'[v] = pc[v] /\ recording'[v] = recording[v]
    BY <1>3, <2>1 DEF CreateLog, Goto, logVars, TypeInv, TypeOK
  <2> QED BY <2>1, <2>2 DEF StoryInv, LastEntry, Telling, Opened
<1>4. CASE ReadPty(s)
  <2>1. Unwritten(u)
    BY <1>0, <1>4 DEF ReadPty, Goto, Unwritten, Opened, Telling, TypeInv, TypeOK, logVars
  <2> QED BY <2>1, UnwrittenKept
<1>5. CASE StartWatcher(s)
  <2>1. Unwritten(u)
    BY <1>0, <1>5 DEF StartWatcher, Goto, Unwritten, Opened, Telling, TypeInv, TypeOK, logVars
  <2> QED BY <2>1, UnwrittenKept
<1>6. CASE StartShell(s)
  <2>1. TypeInv /\ StoryInv(s) /\ StoryInv(u) /\ Len(story[s]) \in Nat
    BY StoryOf
  <2>2. /\ pc[s] = "start" /\ pc'[s] \in {"prompt", "execute", "exit", "summary"} /\ recording' = recording
        /\ \A v \in Sessions : v # s => pc'[v] = pc[v]
    BY <1>6, <2>1 DEF StartShell, RunShell, FakeShell, Goto, TypeInv, TypeOK
  <2>3. \/ Record(s, << "RunCommand" >>)
        \/ Record(s, << "UnknownCommand", "RunCommand" >>)
        \/ Record(s, << "UnknownCommand" >>)
    BY <1>6 DEF StartShell, RunShell, FakeShell
  <2>4. Len(story[s]) = 2 /\ Ordered(story[s]) /\ LastEntry(s) # "SessionEnded"
    BY <2>1, <2>2 DEF StoryInv, Opened
  <2>5. /\ Ordered(story'[s]) /\ Len(story'[s]) > 2
        /\ story'[s][Len(story'[s])] \in {"RunCommand", "UnknownCommand"}
        /\ \A v \in Sessions : v # s => story'[v] = story[v]
    <3>1. CASE Record(s, << "RunCommand" >>)
      BY SMTT(30), <2>1, <2>4, <3>1, LogOne DEF EntryKinds, Grew
    <3>2. CASE Record(s, << "UnknownCommand" >>)
      BY <2>1, <2>4, <3>2, LogOne DEF EntryKinds, Grew
    <3>3. CASE Record(s, << "UnknownCommand", "RunCommand" >>)
      BY SMTT(30), <2>1, <2>4, <3>3, LogTwo DEF Grew
    <3> QED BY <2>3, <3>1, <3>2, <3>3
  <2> QED BY <2>1, <2>2, <2>5 DEF StoryInv, LastEntry, Telling, Opened
<1> QED BY <1>1, <1>2, <1>3, <1>4, <1>5, <1>6 DEF Setup

\* What the shell and its commands log; a command is logged before it runs.
LEMMA ShellStory ==
    ASSUME StoryInvAll, NEW s \in Sessions, NEW u \in Sessions, Shell(s) PROVE StoryInv(u)'
<1>0. TypeInv
  BY DEF StoryInvAll
<1>1. CASE Prompt(s)
  <2>1. Unwritten(u)
    BY <1>0, <1>1 DEF Prompt, Goto, Unwritten, Opened, Telling, TypeInv, TypeOK, logVars
  <2> QED BY <2>1, UnwrittenKept
<1>2. CASE ReceiveLine(s)
  <2>1. Unwritten(u)
    BY <1>0, <1>2 DEF ReceiveLine, Goto, Unwritten, Opened, Telling, TypeInv, TypeOK, logVars
  <2> QED BY <2>1, UnwrittenKept
<1>3. CASE ReceiveFailure(s)
  <2>1. Unwritten(u)
    BY <1>0, <1>3 DEF ReceiveFailure, Goto, Unwritten, Opened, Telling, TypeInv, TypeOK, logVars
  <2> QED BY <2>1, UnwrittenKept
<1>4. CASE AbandonLine(s)
  <2>1. Unwritten(u)
    BY <1>0, <1>4 DEF AbandonLine, Goto, LineDone, Unwritten, Opened, Telling, TypeInv, TypeOK,
         logVars
  <2> QED BY <2>1, UnwrittenKept
<1>5. CASE SkipStatement(s)
  <2>1. TypeInv /\ StoryInv(s) /\ StoryInv(u) /\ Len(story[s]) \in Nat
    BY StoryOf
  <2>2. /\ pc[s] = "execute" /\ pc'[s] \in {"prompt", "execute", "exit"} /\ recording' = recording
        /\ \A v \in Sessions : v # s => pc'[v] = pc[v]
    BY <1>5, <2>1 DEF SkipStatement, StatementDone, LineDone, Goto, TypeInv, TypeOK
  <2>3. Record(s, << >>) \/ Record(s, << "UnknownCommand" >>)
    BY <1>5 DEF SkipStatement
  <2>4. /\ Len(story[s]) > 2
        /\ Ordered(story[s]) /\ LastEntry(s) # "SessionEnded"
    BY <2>1, <2>2 DEF StoryInv, Telling
  <2>5. /\ Ordered(story'[s]) /\ Len(story'[s]) > 2
        /\ story'[s][Len(story'[s])] # "SessionEnded"
        /\ \A v \in Sessions : v # s => story'[v] = story[v]
    <3>1. CASE Record(s, << >>)
      BY <2>1, <2>4, <3>1, TellNothing DEF LastEntry
    <3>2. CASE Record(s, << "UnknownCommand" >>)
      BY <2>1, <2>4, <3>2, LogMore DEF EntryKinds, Grew
    <3> QED BY <2>3, <3>1, <3>2
  <2> QED BY <2>1, <2>2, <2>5 DEF StoryInv, LastEntry, Telling, Opened
<1>6. CASE ExecuteBuiltin(s)
  <2>1. Unwritten(u)
    BY <1>0, <1>6 DEF ExecuteBuiltin, Goto, StatementDone, LineDone, Unwritten, Opened, Telling,
         TypeInv, TypeOK, logVars
  <2> QED BY <2>1, UnwrittenKept
<1>7. CASE ExecuteFake(s)
  <2>1. TypeInv /\ StoryInv(s) /\ StoryInv(u) /\ Len(story[s]) \in Nat
    BY StoryOf
  <2>2. /\ pc[s] = "execute" /\ pc'[s] \in {"prompt", "execute", "exit"} /\ recording' = recording
        /\ \A v \in Sessions : v # s => pc'[v] = pc[v]
    BY <1>7, <2>1 DEF ExecuteFake, Goto, StatementDone, LineDone, TypeInv, TypeOK
  <2>3. Ordered(story[s]) /\ Len(story[s]) > 2 /\ LastEntry(s) # "SessionEnded"
    BY <2>1, <2>2 DEF StoryInv, Telling, Opened
  <2>4. Record(s, << "UnknownCommand", "RunCommand" >>)
    BY <1>7 DEF ExecuteFake
  <2>5. Grew(s, 2, "RunCommand")
    BY <2>1, <2>3, <2>4, LogTwo DEF EntryKinds
  <2> QED BY <2>1, <2>2, <2>3, <2>5 DEF Grew, StoryInv, LastEntry, Telling, Opened
<1>8. CASE ExecuteCommand(s)
  <2>1. TypeInv /\ StoryInv(s) /\ StoryInv(u) /\ Len(story[s]) \in Nat
    BY StoryOf
  <2>2. /\ pc[s] = "execute" /\ pc'[s] \in {"running"} /\ recording' = recording
        /\ \A v \in Sessions : v # s => pc'[v] = pc[v]
    BY <1>8, <2>1 DEF ExecuteCommand, Goto, TypeInv, TypeOK
  <2>3. Ordered(story[s]) /\ Len(story[s]) > 2 /\ LastEntry(s) # "SessionEnded"
    BY <2>1, <2>2 DEF StoryInv, Telling, Opened
  <2>4. Record(s, << "RunCommand" >>)
    BY <1>8 DEF ExecuteCommand
  <2>5. Grew(s, 1, "RunCommand")
    BY <2>1, <2>3, <2>4, LogMore DEF EntryKinds
  <2> QED BY <2>1, <2>2, <2>3, <2>5 DEF Grew, StoryInv, LastEntry, Telling, Opened
<1>9. CASE CommandReads(s)
  <2>1. Unwritten(u)
    BY <1>0, <1>9 DEF CommandReads, Unwritten, Opened, Telling, TypeInv, TypeOK, logVars
  <2> QED BY <2>1, UnwrittenKept
<1>10. CASE CommandReturns(s)
  <2>1. Unwritten(u)
    BY <1>0, <1>10 DEF CommandReturns, Goto, StatementDone, LineDone, Unwritten, Opened, Telling,
         TypeInv, TypeOK, logVars
  <2> QED BY <2>1, UnwrittenKept
<1>11. CASE CommandPanics(s)
  <2>1. TypeInv /\ StoryInv(s) /\ StoryInv(u) /\ Len(story[s]) \in Nat
    BY StoryOf
  <2>2. /\ pc[s] = "running" /\ pc'[s] \in {"prompt", "execute", "exit"} /\ recording' = recording
        /\ \A v \in Sessions : v # s => pc'[v] = pc[v]
    BY <1>11, <2>1 DEF CommandPanics, Goto, StatementDone, LineDone, TypeInv, TypeOK
  <2>3. Ordered(story[s]) /\ Len(story[s]) > 3 /\ LastEntry(s) = "RunCommand"
    BY <2>1, <2>2 DEF StoryInv, Telling, Opened
  <2>4. Record(s, << "Panic" >>)
    BY <1>11 DEF CommandPanics
  <2>5. Grew(s, 1, "Panic")
    BY <2>1, <2>3, <2>4, LogPanic DEF EntryKinds
  <2> QED BY <2>1, <2>2, <2>3, <2>5 DEF Grew, StoryInv, LastEntry, Telling, Opened
<1>12. CASE CommandReboots(s)
  <2>1. Unwritten(u)
    BY <1>0, <1>12 DEF CommandReboots, Goto, StatementDone, LineDone, Unwritten, Opened, Telling,
         TypeInv, TypeOK, logVars
  <2> QED BY <2>1, UnwrittenKept
<1> QED BY <1>1, <1>2, <1>3, <1>4, <1>5, <1>6, <1>7, <1>8, <1>9, <1>10, <1>11, <1>12 DEF Shell

\* One summary, last of all.
LEMMA TeardownStory ==
    ASSUME StoryInvAll, NEW s \in Sessions, NEW u \in Sessions, Teardown(s) PROVE StoryInv(u)'
<1>0. TypeInv
  BY DEF StoryInvAll
<1>1. CASE ShellExits(s)
  <2>1. Unwritten(u)
    BY <1>0, <1>1 DEF ShellExits, Goto, Unwritten, Opened, Telling, TypeInv, TypeOK, logVars
  <2> QED BY <2>1, UnwrittenKept
<1>2. CASE Summarise(s)
  <2>1. TypeInv /\ StoryInv(s) /\ StoryInv(u) /\ Len(story[s]) \in Nat
    BY StoryOf
  <2>2. /\ pc[s] = "summary" /\ pc'[s] \in {"close"} /\ recording' = recording
        /\ \A v \in Sessions : v # s => pc'[v] = pc[v]
    BY <1>2, <2>1 DEF Summarise, Goto, TypeInv, TypeOK
  <2>3. Ordered(story[s]) /\ Len(story[s]) > 2 /\ LastEntry(s) # "SessionEnded"
    BY <2>1, <2>2 DEF StoryInv, Telling, Opened
  <2>4. Record(s, << "SessionEnded" >>)
    BY <1>2 DEF Summarise
  <2>5. Grew(s, 1, "SessionEnded")
    BY <2>1, <2>3, <2>4, LogMore DEF EntryKinds
  <2> QED BY <2>1, <2>2, <2>3, <2>5 DEF Grew, StoryInv, LastEntry, Telling, Opened
<1>3. CASE CloseLog(s)
  <2>1. StoryInv(s) /\ StoryInv(u)
    BY StoryOf
  <2>2. /\ pc[s] = "close" /\ pc'[s] = "return" /\ recording'[s] = "closed" /\ story' = story
        /\ \A v \in Sessions : v # s => pc'[v] = pc[v] /\ recording'[v] = recording[v]
    BY <1>0, <1>3 DEF CloseLog, Goto, logVars, TypeInv, TypeOK
  <2> QED BY <2>1, <2>2 DEF StoryInv, LastEntry, Telling, Opened
<1>4. CASE Return(s)
  <2>1. Unwritten(u)
    BY <1>0, <1>4 DEF Return, Goto, Unwritten, Opened, Telling, TypeInv, TypeOK, logVars
  <2> QED BY <2>1, UnwrittenKept
<1> QED BY <1>1, <1>2, <1>3, <1>4 DEF Teardown

\* The invariant holds at first and is kept.
LEMMA StoryInvInit == Init => StoryInvAll
BY TypeInvInit DEF Init, StoryInvAll, StoryInv, Ordered, Opened, Telling

LEMMA StoryInvStep == StoryInvAll /\ [Next]_vars => StoryInvAll'
<1> SUFFICES ASSUME StoryInvAll, [Next]_vars PROVE StoryInvAll'
  OBVIOUS
<1>1. TypeInv'
  BY TypeInvStep DEF StoryInvAll
<1>2. ASSUME NEW u \in Sessions PROVE StoryInv(u)'
  <2>1. CASE UNCHANGED vars
    <3>1. Unwritten(u)
      BY <2>1 DEF Unwritten, vars, logVars
    <3> QED BY <3>1, UnwrittenKept
  <2>2. ASSUME NEW s \in Sessions, Client(s) \/ RequestLoop(s) \/ Watcher(s) \/ Readline(s) \/ Handler(s)
        PROVE  StoryInv(u)'
    BY <2>2, ClientStory, RequestLoopStory, WatcherStory, ReadlineStory, SetupStory, ShellStory,
       TeardownStory DEF Handler
  <2> QED BY <2>1, <2>2 DEF Next
<1> QED BY <1>1, <1>2 DEF StoryInvAll

\* Every session's entries tell its story in order, however its commands end and
\* whatever the other sessions and the session's own goroutines do.
THEOREM StoryIsComplete == Spec => []StoryComplete
<1>1. StoryInvAll => StoryComplete
  <2> SUFFICES ASSUME NEW s \in Sessions, StoryInv(s)
               PROVE  /\ Ordered(story[s])
                      /\ pc[s] = "done" =>
                            /\ recording[s] \in {"none", "closed"}
                            /\ recording[s] = "closed" <=> LastEntry(s) = "SessionEnded"
    BY Zenon DEF StoryInvAll, StoryComplete, Ordered, LastEntry
  <2> QED BY DEF StoryInv
<1> QED BY <1>1, StoryInvInit, StoryInvStep, PTL DEF Spec

=============================================================================
