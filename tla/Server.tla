------------------------------- MODULE Server -------------------------------
(***************************************************************************)
(* The honeypot's process: `serve` in cmd/serve.go, ListenAndServe and     *)
(* Shutdown in core/honeypot.go, and the server of gliderlabs/ssh they     *)
(* drive.  Its goroutines are                                              *)
(*   - main, which waits for a signal, shuts the server down and returns;  *)
(*   - serve, which accepts connections and takes any error for fatal;     *)
(*   - the waiter Shutdown starts, which waits for the listener and the    *)
(*     connections;                                                        *)
(*   - one per connection, and one per session channel, which is not       *)
(*     waited for.  A connection has at most one session here; what the    *)
(*     session's handler does is SessionLife.                              *)
(* Any of them can end the process, and then all of them stop.             *)
(***************************************************************************)
EXTENDS Naturals, TLAPS

CONSTANT Conns \* connections

VARIABLES
    exit,      \* how the process ended, if it did
    signalled, \* the channel sigs holds a signal, or held one
    main,      \* where the main goroutine is
    outcome,   \* what sshServer.Shutdown returned
    serve,     \* where the serving goroutine is
    listener,  \* the TCP listener; tracked while it is in srv.listeners
    waiter,    \* where the waiter is
    conn,      \* connections; tracked while they are open or dropped
    asked,     \* connections that opened a session channel and asked for a shell
    life,      \* the handlers of those sessions
    log,       \* the entries in the application log
    logOpen,   \* the application log is open
    held       \* history: the connections Shutdown found tracked

mainVars    == << signalled, main, outcome, held >>
serverVars  == << serve, listener, waiter >>
sessionVars == << conn, asked, life >>
logVars     == << log, logOpen >>
vars == << exit, mainVars, serverVars, sessionVars, logVars >>

Handler == INSTANCE SessionLife WITH Sessions <- Conns

Entries == [who: Conns, kind: {"LoginAttempt", "SessionEnded"}]
           \cup [who: {"server"}, kind: {"START", "TERMINATE"}]

\* Record's error is ignored, so an entry for a closed log is lost.
Record(who, kind) == log' = IF logOpen THEN log \cup {[who |-> who, kind |-> kind]} ELSE log

Tracked == {c \in Conns : conn[c] \in {"open", "dropped"}}

Alive == exit = "no"

Exit(how) == Alive /\ exit' = how /\ UNCHANGED << mainVars, serverVars, sessionVars, logVars >>

(***************************************************************************)
(* The main goroutine                                                      *)
(***************************************************************************)

MainGoes(from, to) == Alive /\ main = from /\ main' = to

\* Until signal.Notify a signal ends the process.
Interrupt ==
    \/ main = "starting" /\ Exit("killed")
    \/ /\ Alive /\ main # "starting"
       /\ ~signalled
       /\ signalled' = TRUE
       /\ UNCHANGED << exit, main, outcome, held, serverVars, sessionVars, logVars >>

Notify ==
    /\ MainGoes("starting", "waiting")
    /\ UNCHANGED << exit, signalled, outcome, held, serverVars, sessionVars, logVars >>

\* Shutdown logs that it begins.
Announce ==
    /\ MainGoes("waiting", "closing")
    /\ signalled
    /\ Record("server", "TERMINATE")
    /\ UNCHANGED << exit, signalled, outcome, held, serverVars, sessionVars, logOpen >>

\* Under srv.mu Shutdown closes the listeners it has, then it starts the waiter.
CloseListeners ==
    /\ MainGoes("closing", "select")
    /\ listener' = IF listener = "tracked" THEN "closed" ELSE listener
    /\ waiter' = "listener"
    /\ held' = Tracked
    /\ UNCHANGED << exit, signalled, outcome, serve, sessionVars, logVars >>

\* Shutdown returns the error it had from closing its listener, if any.
Finished ==
    /\ MainGoes("select", "shut")
    /\ waiter = "finished"
    /\ \/ outcome' = "nil"
       \/ listener = "closed" /\ outcome' = "error"
    /\ UNCHANGED << exit, signalled, held, serverVars, sessionVars, logVars >>

\* Mutant: Shutdown is given a context without a deadline.
TimeoutNever == FALSE

\* The context's five seconds are over.
Timeout ==
    /\ MainGoes("select", "shut")
    /\ outcome' = "timeout"
    /\ UNCHANGED << exit, signalled, held, serverVars, sessionVars, logVars >>

\* Honeypot.Close, deferred by Honeypot.Shutdown, closes the application log.
CloseLog ==
    /\ MainGoes("shut", "closed")
    /\ logOpen' = FALSE
    /\ UNCHANGED << exit, signalled, outcome, held, serverVars, sessionVars, log >>

\* log.Fatalf, or main returns.
Finish == main = "closed" /\ Exit(IF outcome = "nil" THEN "ok" ELSE "failed")

(***************************************************************************)
(* The serving goroutine                                                   *)
(***************************************************************************)

ServeGoes(from, to) == Alive /\ serve = from /\ serve' = to

Start ==
    /\ ServeGoes("starting", "listening")
    /\ Record("server", "START")
    /\ UNCHANGED << exit, mainVars, listener, waiter, sessionVars, logOpen >>

\* net.Listen, which may fail.
Listen ==
    /\ \/ ServeGoes("listening", "tracking") /\ listener' = "open"
       \/ ServeGoes("listening", "fatal") /\ listener' = listener
    /\ UNCHANGED << exit, mainVars, waiter, sessionVars, logVars >>

\* trackListener, under srv.mu.
TrackListener ==
    /\ ServeGoes("tracking", "accepting")
    /\ listener' = "tracked"
    /\ UNCHANGED << exit, mainVars, waiter, sessionVars, logVars >>

Accept(c) ==
    /\ Alive
    /\ serve = "accepting"
    /\ listener = "tracked"
    /\ conn[c] = "none"
    /\ conn' = [conn EXCEPT ![c] = "handshake"]
    /\ UNCHANGED << exit, mainVars, serverVars, asked, life, logVars >>

\* Accept fails on the closed listener; Serve untracks it and returns, with
\* ErrServerClosed or the error itself.
StopServing ==
    /\ ServeGoes("accepting", "fatal")
    /\ listener = "closed"
    /\ UNCHANGED << exit, mainVars, listener, waiter, sessionVars, logVars >>

\* log.Fatal(err)
Fatal == serve = "fatal" /\ Exit("failed")

(***************************************************************************)
(* The waiter                                                              *)
(***************************************************************************)

\* Mutant: Shutdown waits for the listener only.
WaitForListener ==
    /\ Alive
    /\ waiter = "listener" /\ serve # "accepting"
    /\ waiter' = "finished"
    /\ UNCHANGED << exit, mainVars, serve, listener, sessionVars, logVars >>

\* listenerWg.Wait(), then connWg.Wait().
Wait ==
    /\ Alive
    /\ \/ waiter = "listener" /\ serve # "accepting" /\ waiter' = "conns"
       \/ waiter = "conns" /\ Tracked = {} /\ waiter' = "finished"
    /\ UNCHANGED << exit, mainVars, serve, listener, sessionVars, logVars >>

(***************************************************************************)
(* Connections and sessions                                                *)
(***************************************************************************)

ConnGoes(c, from, to) ==
    /\ Alive
    /\ conn[c] = from
    /\ conn' = [conn EXCEPT ![c] = to]
    /\ UNCHANGED << exit, mainVars, serverVars, asked, life, logVars >>

FailHandshake(c) == ConnGoes(c, "handshake", "ended")

TrackConn(c) == ConnGoes(c, "handshake", "open")

\* The client leaves; nothing in the honeypot closes a connection.
Drop(c) == ConnGoes(c, "open", "dropped")

\* HandleConn has seen its channels end.
UntrackConn(c) == ConnGoes(c, "dropped", "ended")

\* A session channel is accepted in a goroutine of its own.
AskShell(c) ==
    /\ Alive
    /\ conn[c] = "open"
    /\ ~asked[c]
    /\ asked' = [asked EXCEPT ![c] = TRUE]
    /\ UNCHANGED << exit, mainVars, serverVars, conn, life, logVars >>

\* Mutant: the login is logged without its session.
HandleSessionless(c) ==
    /\ Alive /\ asked[c] /\ Handler!Begin(c) /\ Record("server", "LoginAttempt")
    /\ UNCHANGED << exit, mainVars, serverVars, conn, asked, logOpen >>

\* The handler goes on whatever happens to its connection.
Handle(c) ==
    /\ Alive
    /\ \/ asked[c] /\ Handler!Begin(c) /\ Record(c, "LoginAttempt")
       \/ Handler!GiveUp(c) /\ log' = log
       \/ Handler!OpenRecording(c) /\ log' = log
       \/ Handler!Summarise(c) /\ Record(c, "SessionEnded")
       \/ Handler!Leave(c) /\ log' = log
    /\ UNCHANGED << exit, mainVars, serverVars, conn, asked, logOpen >>

(***************************************************************************)
(* Specification                                                           *)
(***************************************************************************)

Init ==
    /\ exit = "no" /\ signalled = FALSE /\ main = "starting" /\ outcome = "none" /\ held = {}
    /\ serve = "starting" /\ listener = "none" /\ waiter = "none"
    /\ conn = [c \in Conns |-> "none"]
    /\ asked = [c \in Conns |-> FALSE]
    /\ Handler!Init
    /\ log = {} /\ logOpen = TRUE

Main == Notify \/ Announce \/ CloseListeners \/ Finished \/ Timeout \/ CloseLog \/ Finish

Serve == Start \/ Listen \/ TrackListener \/ StopServing \/ Fatal

Connection(c) == \/ Accept(c) \/ FailHandshake(c) \/ TrackConn(c) \/ Drop(c) \/ UntrackConn(c)
                 \/ AskShell(c) \/ Handle(c)

Next == Interrupt \/ Main \/ Serve \/ Wait \/ \E c \in Conns : Connection(c)

\* The Go scheduler and the timer.  Clients may stay for ever.
Spec == Init /\ [][Next]_vars /\ WF_vars(Main) /\ WF_vars(Serve) /\ WF_vars(Wait)

(***************************************************************************)
(* Properties                                                              *)
(***************************************************************************)

\* Types.
TypeOK ==
    /\ exit \in {"no", "ok", "failed", "killed"}
    /\ signalled \in BOOLEAN
    /\ main \in {"starting", "waiting", "closing", "select", "shut", "closed"}
    /\ outcome \in {"none", "nil", "error", "timeout"}
    /\ held \subseteq Conns
    /\ serve \in {"starting", "listening", "tracking", "accepting", "fatal"}
    /\ listener \in {"none", "open", "tracked", "closed"}
    /\ waiter \in {"none", "listener", "conns", "finished"}
    /\ conn \in [Conns -> {"none", "handshake", "open", "dropped", "ended"}]
    /\ asked \in [Conns -> BOOLEAN]
    /\ life \in [Conns -> Handler!States]
    /\ log \subseteq Entries /\ logOpen \in BOOLEAN

\* The process reports success only after it waited for every connection that
\* was there when the shutdown began, and then its log says that it was shut down.
CleanExit ==
    exit = "ok" =>
        /\ \A c \in held : conn[c] = "ended"
        /\ [who |-> "server", kind |-> "TERMINATE"] \in log

\* A signal ends the process, even if the listener was not tracked yet when the
\* shutdown looked for it and nobody will ever close it.
SignalEnds == signalled ~> exit # "no"

\* "Shutdown gracefully shuts down the server without interrupting any active
\* connections" (server.go of gliderlabs/ssh), unless it times out.
GracefulShutdown ==
    exit # "no" /\ outcome # "timeout" => \A c \in held : conn[c] = "ended"

(***************************************************************************)
(* Proofs, for any number of connections                                   *)
(***************************************************************************)

\* The waiter is done only when the connections that Shutdown found have ended:
\* they never come back.  Shutdown returns nil only after that, and main
\* reports success only then.
WaitedFor ==
    /\ held # {} => waiter # "none"
    /\ \A c \in held : conn[c] \in {"open", "dropped", "ended"}
    /\ waiter = "finished" => \A c \in held : conn[c] = "ended"
    /\ outcome = "nil" => waiter = "finished"
    /\ main \in {"starting", "waiting", "closing"} <=> waiter = "none"

\* A shutdown that began is in the log, which is open until Shutdown returns.
Announced ==
    /\ main \in {"starting", "waiting"} => logOpen
    /\ main \notin {"starting", "waiting"} => [who |-> "server", kind |-> "TERMINATE"] \in log

ServerInv == TypeOK /\ WaitedFor /\ Announced /\ CleanExit

USE DEF Alive, TypeOK, WaitedFor, Announced, CleanExit, ServerInv, mainVars, serverVars, sessionVars, logVars

LEMMA ServerInvInit == Init => ServerInv
BY DEF Init, Handler!Init, Handler!States

LEMMA EntryTypes ==
    /\ \A kind \in {"START", "TERMINATE"} : [who |-> "server", kind |-> kind] \in Entries
    /\ \A c \in Conns : \A kind \in {"LoginAttempt", "SessionEnded"} :
          [who |-> c, kind |-> kind] \in Entries
BY DEF Entries

LEMMA MainStep == ASSUME ServerInv, Main PROVE ServerInv'
<1>1. CASE Notify
  BY <1>1 DEF Notify, MainGoes
<1>2. CASE Announce
  BY <1>2, EntryTypes DEF Announce, MainGoes, Record
<1>3. CASE CloseListeners
  BY <1>3 DEF CloseListeners, MainGoes, Tracked
<1>4. CASE Finished
  BY <1>4 DEF Finished, MainGoes
<1>5. CASE Timeout
  BY <1>5 DEF Timeout, MainGoes
<1>6. CASE CloseLog
  BY ZenonT(40), <1>6 DEF CloseLog, MainGoes
<1>7. CASE Finish
  BY <1>7 DEF Finish, Exit
<1> QED BY <1>1, <1>2, <1>3, <1>4, <1>5, <1>6, <1>7 DEF Main

LEMMA ServeStep == ASSUME ServerInv, Serve PROVE ServerInv'
<1>1. CASE Start
  BY <1>1, EntryTypes DEF Start, ServeGoes, Record
<1>2. CASE Listen
  BY <1>2 DEF Listen, ServeGoes
<1>3. CASE TrackListener
  BY <1>3 DEF TrackListener, ServeGoes
<1>4. CASE StopServing
  BY <1>4 DEF StopServing, ServeGoes
<1>5. CASE Fatal
  BY <1>5 DEF Fatal, Exit
<1> QED BY <1>1, <1>2, <1>3, <1>4, <1>5 DEF Serve

\* Tracked connections are dropped and untracked; others become tracked only on
\* their way up, and are not among those held.
LEMMA ConnectionStep == ASSUME ServerInv, NEW c \in Conns, Connection(c) PROVE ServerInv'
<1>1. CASE Accept(c)
  BY <1>1 DEF Accept
<1>2. CASE FailHandshake(c)
  BY <1>2 DEF FailHandshake, ConnGoes
<1>3. CASE TrackConn(c)
  BY <1>3 DEF TrackConn, ConnGoes
<1>4. CASE Drop(c)
  BY <1>4 DEF Drop, ConnGoes
<1>5. CASE UntrackConn(c)
  BY <1>5 DEF UntrackConn, ConnGoes
<1>6. CASE AskShell(c)
  BY <1>6 DEF AskShell
<1>7. CASE Handle(c)
  <2>1. life' \in [Conns -> Handler!States]
    BY <1>7 DEF Handle, Handler!Begin, Handler!GiveUp, Handler!OpenRecording, Handler!Summarise,
       Handler!Leave, Handler!Advance, Handler!States
  <2>2. log \subseteq log' /\ log' \subseteq Entries
    BY <1>7, EntryTypes DEF Handle, Record
  <2> QED BY <1>7, <2>1, <2>2 DEF Handle
<1> QED BY <1>1, <1>2, <1>3, <1>4, <1>5, <1>6, <1>7 DEF Connection

LEMMA ServerInvStep == ServerInv /\ [Next]_vars => ServerInv'
<1> SUFFICES ASSUME ServerInv, [Next]_vars PROVE ServerInv'
  OBVIOUS
<1>1. CASE Interrupt
  <2>1. CASE main = "starting" /\ Exit("killed")
    BY <2>1 DEF Exit
  <2>2. CASE signalled' = TRUE /\ UNCHANGED << exit, main, outcome, held, serverVars, sessionVars, logVars >>
    <3>1. signalled' \in BOOLEAN
      BY <2>2
    <3> QED BY <2>2, <3>1
  <2> QED BY <1>1, <2>1, <2>2 DEF Interrupt
<1>2. CASE Wait
  BY <1>2 DEF Wait, Tracked
<1>3. CASE UNCHANGED vars
  BY <1>3 DEF vars
<1> QED BY <1>1, <1>2, <1>3, MainStep, ServeStep, ConnectionStep DEF Next

LEMMA ServerInvHolds == Spec => []ServerInv
BY ServerInvInit, ServerInvStep, PTL DEF Spec

\* The variables of Server keep their types.
THEOREM TypeCorrect == Spec => []TypeOK
BY ServerInvHolds, PTL

\* However accepting, dropping and shutting down interleave, the process ends
\* with success only after every connection that Shutdown found has ended.
THEOREM CleanExitHolds == Spec => []CleanExit
BY ServerInvHolds, PTL

=============================================================================
