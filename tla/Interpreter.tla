---------------------------- MODULE Interpreter ----------------------------
(***************************************************************************)
(* What a line means to the shell of a session (commands/shell.go): its    *)
(* statements are executed in order, each with redirections, pipes, && and *)
(* ||, assignments, expansions, builtins and programs.  A line is executed *)
(* from end to end by the session's own goroutine, so it is one action;    *)
(* what lasts from line to line is the shell's environment, its working    *)
(* directory, its files and the status of the last command.                *)
(*                                                                         *)
(* A line is the syntax tree of mvdan.cc/sh: a sequence of statements, a   *)
(* statement being a call or a binary command.  A word is one part.  A     *)
(* program writes its name, to its standard output if it succeeds and to   *)
(* the standard error if it fails; what the shell itself prints, prompts   *)
(* and errors, is left out.                                                *)
(***************************************************************************)
EXTENDS Integers, SequencesExt

CONSTANTS
    Vars,      \* variables a line may name
    Texts,     \* literal words, "" among them
    Programs,  \* for each command name, who knows it: the honeypot, the filesystem
    FileNames, \* files a redirection may create
    Home, Dirs,\* the home directory, and all there are
    Environment,\* the variables the session's shell is given, "" for those it is not
    Scripts,   \* the lines that `sh -c` is given, by their text
    Lines,     \* the lines a client types
    MaxLines,  \* bound: lines typed
    MaxDepth   \* bound: operators and shells within one another

\* What evalWordPart and evalAssign tell apart.
Words ==
    [kind: {"lit", "quoted", "other"}, text: Texts] \cup [kind: {"param"}, text: Vars \cup {"?"}]

Redirections == [from: STRING, op: STRING, word: Words]

Calls ==
    [op: {"call"}, assigns: Seq([name: Vars, word: Words]), args: Seq(Words),
     redirs: Seq(Redirections), negated: BOOLEAN]

\* A subshell, a loop, and all else the shell has no use for.
Others == [op: {"other"}, redirs: Seq(Redirections)]

Operators == {"and", "or", "pipe"}

\* The syntax trees of each height.
Trees[n \in 0 .. MaxDepth] ==
    IF n = 0 THEN Calls \cup Others
    ELSE LET parts == Trees[n - 1] IN parts \cup [op: Operators, x: parts, y: parts]

Statements == Trees[MaxDepth]

ASSUME InterpreterAssumption ==
    /\ "?" \notin Vars /\ "" \in Texts
    /\ Environment \in [Vars -> Texts]
    /\ Home \in Dirs /\ MaxLines \in Nat /\ MaxDepth \in Nat
    /\ DOMAIN Programs \subseteq STRING
    /\ \A p \in DOMAIN Programs :
          Programs[p] \in [fake: BOOLEAN, real: {"found", "missing", "denied"}]
    /\ "sh" \in DOMAIN Programs => Programs["sh"].fake
    /\ \A t \in DOMAIN Scripts : Scripts[t] \in Seq(Statements)
    /\ \A line \in Lines : line \in Seq(Statements)

VARIABLES
    shell,  \* the shell of the session
    mode,   \* at its prompt, or ended with a status
    count,  \* lines typed
    ran,    \* the commands of the last line, in the order in which they ran
    last    \* the last line: the shell it met, the line, and how its programs end

vars == << shell, mode, count, ran, last >>

Tty == << "tty" >>

Named(f) == << "file", f >>

Pipe(i) == << "pipe", i >>

Terminal == [in |-> Tty, out |-> Tty, err |-> Tty]

Statuses == 0 .. 2

Only(v, t) == [x \in {v} |-> t]

\* One environment over another.
Over(f, g) == [x \in DOMAIN f \cup DOMAIN g |-> IF x \in DOMAIN f THEN f[x] ELSE g[x]]

\* `$?` shows the status as a uint8.
ASSUME StatusAssumption == \A n \in Statuses : ToString(n % 256) \in Texts

\* The environment of a shell, and one a statement is expanded in.
Envs == [Vars -> Texts]

CmdEnvs == [Vars \cup {"?"} -> Texts]

Writers == {Tty} \cup ({"file"} \X FileNames) \cup ({"pipe"} \X Nat)

Streams == [in: {Tty} \cup ({"pipe"} \X Nat), out: Writers, err: Writers]

\* What is in a file or a pipe: the names of those who wrote to it.
Contents == Seq(DOMAIN Programs)

\* A process, by what it is given.
Processes ==
    [args: Seq(Texts), env: Envs, dir: Dirs, read: Contents \cup {Tty},
     out: {Tty, << "pipe" >>} \cup ({"file"} \X FileNames),
     err: {Tty, << "pipe" >>} \cup ({"file"} \X FileNames)]

\* A shell at work: its own state, its standard streams, the pipes it made, the
\* processes it ran, and whether an error ends the line.
Shells ==
    [env: Envs, dir: Dirs, ret: Statuses, quit: BOOLEAN, files: [FileNames -> Contents],
     io: Streams, pipes: Seq(Contents), ran: Seq(Processes), err: BOOLEAN]

\* A statement to be executed, and with what (execContext).
Jobs == [s: Shells, io: Streams, env: CmdEnvs, stmt: Statements]

Fails(s) == [s EXCEPT !.err = TRUE]

(***************************************************************************)
(* Words                                                                   *)
(***************************************************************************)

\* evalWordPart: what is no literal, quotation or expansion is an error.
Value(env, word) == IF word.kind = "param" THEN env[word.text] ELSE word.text

BadWord(word) == word.kind = "other"

\* evalAssign knows no quotation.
BadValue(word) == word.kind \in {"other", "quoted"}

\* The variables assigned, each value seen by those behind it.
Assigned(env, assigns) ==
    LET out[n \in 0 .. Len(assigns)] ==
            IF n = 0 THEN << >>
            ELSE Over(Only(assigns[n].name, Value(Over(out[n - 1], env), assigns[n].word)), out[n - 1])
    IN  out[Len(assigns)]

\* cmdEnv: the environment and the last status, which `$?` shows as a uint8.
CmdEnv(s) == Over(Only("?", ToString(s.ret % 256)), s.env)

(***************************************************************************)
(* Redirections                                                            *)
(***************************************************************************)

\* The writer a `>&` or `>` sets.
Sink(redir) == IF redir.from = "2" THEN "err" ELSE "out"

Create(s, f) == [s EXCEPT !.files[f] = << >>]

\* Mutant: `>&1` and `>&2` name the writers the statement began with.
RedirectFromStart(r, redir) ==
    LET to == Value(r.env, redir.word)
        odd == \/ redir.op \notin {">", ">&"} \/ redir.from \notin {"", "1", "2"}
               \/ BadWord(redir.word) \/ to = ""
    IN  IF r.s.err THEN r
        ELSE IF odd THEN [r EXCEPT !.s.err = TRUE]
        ELSE IF redir.op = ">&" /\ to \in {"1", "2"}
             THEN [r EXCEPT !.io[Sink(redir)] = r.s.io[IF to = "2" THEN "err" ELSE "out"]]
        ELSE IF to \notin FileNames THEN [r EXCEPT !.s.err = TRUE]
        ELSE [r EXCEPT !.s = Create(@, to), !.io[Sink(redir)] = Named(to)]

\* One turn of the loop in Redirects; only > and >& of 1 and 2 are known.
Redirect(r, redir) ==
    LET to == Value(r.env, redir.word)
        odd == \/ redir.op \notin {">", ">&"} \/ redir.from \notin {"", "1", "2"}
               \/ BadWord(redir.word) \/ to = ""
    IN  IF r.s.err THEN r
        ELSE IF odd THEN [r EXCEPT !.s.err = TRUE]
        ELSE IF redir.op = ">&" /\ to \in {"1", "2"}
             THEN [r EXCEPT !.io[Sink(redir)] = r.io[IF to = "2" THEN "err" ELSE "out"]]
        ELSE IF to \notin FileNames THEN [r EXCEPT !.s.err = TRUE]
        ELSE [r EXCEPT !.s = Create(@, to), !.io[Sink(redir)] = Named(to)]

\* The loop over stmt.Redirs.
Redirects(s, io, env, redirs) ==
    LET after[n \in 0 .. Len(redirs)] ==
            IF n = 0 THEN [s |-> s, io |-> io, env |-> env] ELSE Redirect(after[n - 1], redirs[n])
    IN  after[Len(redirs)]

(***************************************************************************)
(* Commands                                                                *)
(***************************************************************************)

\* The part of the program's run that others see.
Write(s, to, text) ==
    CASE to[1] = "file" -> [s EXCEPT !.files[to[2]] = Append(@, text)]
      [] to[1] = "pipe" -> [s EXCEPT !.pipes[to[2]] = Append(@, text)]
      [] OTHER -> s

ReadFrom(s, from) ==
    CASE from = Tty -> Tty
      [] from # Tty /\ from[2] \in DOMAIN s.pipes -> s.pipes[from[2]]
      [] OTHER -> << >>

\* Which pipe it is shows in what is read from it.
Told(to) == IF to[1] = "pipe" THEN << "pipe" >> ELSE to

Ran(s, io, env, args) ==
    [s EXCEPT !.ran = Append(@, [args |-> args, env |-> env, dir |-> s.dir,
                                 read |-> ReadFrom(s, io.in),
                                 out |-> Told(io.out), err |-> Told(io.err)])]

\* The honeypot's commands, and what the session's filesystem has under the name.
FindHoneypotCommand(p) == p \in DOMAIN Programs /\ Programs[p].fake

LookPath(p) == IF p \in DOMAIN Programs THEN Programs[p].real ELSE "missing"

\* StartProcess; a file the honeypot has no command for is a segfault.
Starts(p) ==
    LookPath(p) # "denied" /\ (FindHoneypotCommand(p) \/ LookPath(p) = "found")

\* How program p ends: as outcome o says, or with the status of a segfault.
Ends(p, o) == IF FindHoneypotCommand(p) THEN o[p] ELSE 1

Prints(p, o, io) == IF FindHoneypotCommand(p) /\ o[p] # 0 THEN io.err ELSE io.out

\* proc.Run of a program other than a shell.
RunProgram(s, io, env, args, o) ==
    LET p == Head(args)
    IN  [Write(Ran(s, io, env, args), Prints(p, o, io), p) EXCEPT !.ret = Ends(p, o)]

\* cd, exit and logout, sudo, and those that do nothing.
Builtins == {"cd", "exit", "logout", "sudo", "unset", "set", "su", "export", "disown"}

Cd(s, args) ==
    LET to == IF Len(args) = 1 THEN Home ELSE args[2]
    IN  IF Len(args) <= 2 /\ to \in Dirs THEN [s EXCEPT !.dir = to, !.ret = 0]
                                        ELSE [s EXCEPT !.ret = 1]

Exit(s) == [s EXCEPT !.quit = TRUE, !.ret = 0]

\* What sudo parses: its arguments as they are, separated by blanks.
Reparsed(args) ==
    IF args = << >> THEN << >>
    ELSE << [op |-> "call", assigns |-> << >>, redirs |-> << >>, negated |-> FALSE,
             args |-> [i \in DOMAIN args |-> [kind |-> "lit", text |-> args[i]]]] >>

\* executeFile: every statement sees the environment as it is when it begins;
\* the first error ends the line.  `run` executes the statements.
ExecuteFile(run, s, line) ==
    LET after[n \in 0 .. Len(line)] ==
            IF n = 0 THEN s
            ELSE LET t == after[n - 1]
                 IN  IF t.err THEN t
                     ELSE run[[s |-> t, io |-> t.io, env |-> CmdEnv(t), stmt |-> line[n]]]
    IN  after[Len(line)]

\* runCommand prints the error that ended its line.
RunCommand(run, s, line) == [ExecuteFile(run, s, line) EXCEPT !.err = FALSE]

\* What is not among Scripts does not parse.
Script(text) == IF text \in DOMAIN Scripts THEN Scripts[text] ELSE << >>

HasScript(args) == Len(args) >= 3 /\ args[2] = "-c" /\ args[3] # ""

\* `sh -c`: a shell of its own over the files of the process; it goes home.  An
\* interactive one is at the end of its input.
RunShell(run, s, io, env, args) ==
    LET begun == [Ran(s, io, env, args) EXCEPT !.env = env, !.dir = Home, !.ret = 0,
                                               !.quit = FALSE, !.io = io]
        child == IF HasScript(args) THEN RunCommand(run, begun, Script(args[3]))
                                    ELSE [begun EXCEPT !.ret = 1]
    IN  [child EXCEPT !.env = s.env, !.dir = s.dir, !.quit = s.quit, !.io = s.io]

\* Mutant: the assignments of a command stay.
ExecuteLeaking(run, s, io, assigned, args, o) ==
    CASE args = << >> -> [s EXCEPT !.env = Over(assigned, @)]
      [] args # << >> /\ args[1] \in Builtins ->
            CASE args[1] = "cd" -> Cd(s, args)
              [] args[1] \in {"exit", "logout"} -> Exit(s)
              [] args[1] = "sudo" -> RunCommand(run, s, Reparsed(Tail(args)))
              [] OTHER -> [s EXCEPT !.ret = 0]
      [] args # << >> /\ args[1] \notin Builtins /\ ~Starts(args[1]) -> s
      [] OTHER -> LET t == [s EXCEPT !.env = Over(assigned, @)]
                  IN  IF args[1] = "sh" THEN RunShell(run, t, io, t.env, args)
                                        ELSE RunProgram(t, io, t.env, args, o)

\* executeProgramOrBuiltin: assignments without a command stay; what cannot be
\* started leaves the status as it was; no builtin heeds its redirections.
ExecuteProgramOrBuiltin(run, s, io, assigned, args, o) ==
    CASE args = << >> -> [s EXCEPT !.env = Over(assigned, @)]
      [] args # << >> /\ args[1] \in Builtins ->
            CASE args[1] = "cd" -> Cd(s, args)
              [] args[1] \in {"exit", "logout"} -> Exit(s)
              [] args[1] = "sudo" -> RunCommand(run, s, Reparsed(Tail(args)))
              [] OTHER -> [s EXCEPT !.ret = 0]
      [] args # << >> /\ args[1] \notin Builtins /\ ~Starts(args[1]) -> s
      [] OTHER -> IF args[1] = "sh" THEN RunShell(run, s, io, Over(assigned, s.env), args)
                                    ELSE RunProgram(s, io, Over(assigned, s.env), args, o)

\* The call of executeStatement; what a redirection created stays when a word
\* behind it is an error.
ExecuteCall(run, s, io, env, call, o) ==
    LET r    == Redirects(s, io, env, call.redirs)
        args == [i \in DOMAIN call.args |-> Value(env, call.args[i])]
    IN  IF \/ r.s.err
           \/ \E i \in DOMAIN call.assigns : BadValue(call.assigns[i].word)
           \/ \E i \in DOMAIN call.args : BadWord(call.args[i])
        THEN Fails(r.s)
        ELSE ExecuteProgramOrBuiltin(run, r.s, r.io, Assigned(env, call.assigns), args, o)

\* executeStatement: a pipe runs its left side to the end and hands what it
\* wrote to the right side; `!` and `&` are not looked at.  Redirections come
\* first, also of what cannot be executed.
ExecuteStatement(run, s, io, env, stmt, o) ==
    CASE stmt.op = "call" -> ExecuteCall(run, s, io, env, stmt, o)
      [] stmt.op \in {"and", "or"} ->
            LET x == run[[s |-> s, io |-> io, env |-> env, stmt |-> stmt.x]]
            IN  IF ~x.err /\ ((x.ret = 0) = (stmt.op = "and"))
                THEN run[[s |-> x, io |-> io, env |-> env, stmt |-> stmt.y]] ELSE x
      [] stmt.op = "pipe" ->
            LET pipe == Pipe(Len(s.pipes) + 1)
                x    == run[[s    |-> [s EXCEPT !.pipes = Append(@, << >>)],
                             io   |-> [io EXCEPT !.out = pipe],
                             env  |-> env,
                             stmt |-> stmt.x]]
            IN  IF x.err THEN x
                ELSE run[[s |-> x, io |-> [io EXCEPT !.in = pipe], env |-> env, stmt |-> stmt.y]]
      [] OTHER -> Fails(Redirects(s, io, env, stmt.redirs).s)

\* The interpreter: statements are executed by executing what is within them,
\* in the tree or in the script of a shell, up to MaxDepth.
Execution(o) ==
    LET executing(run) ==
            [job \in Jobs |-> ExecuteStatement(run, job.s, job.io, job.env, job.stmt, o)]
        upTo[n \in 0 .. MaxDepth] ==
            IF n = 0 THEN [job \in Jobs |-> job.s] ELSE executing(upTo[n - 1])
    IN  upTo[MaxDepth]

(***************************************************************************)
(* The session: runInteractive.  An interrupt, an empty line, one that does *)
(* not parse and an error of readline leave everything as it is.           *)
(***************************************************************************)

\* Mutant: the environment of expansions, pseudo variables and all, is written back.
LastingToo(s) ==
    [env |-> CmdEnv(s), dir |-> s.dir, ret |-> s.ret, quit |-> s.quit, files |-> s.files]

\* What lasts from line to line.
Lasting(s) == [env |-> s.env, dir |-> s.dir, ret |-> s.ret, quit |-> s.quit, files |-> s.files]

\* The shell at the beginning of a line.
AtWork(lasting) ==
    [env |-> lasting.env, dir |-> lasting.dir, ret |-> lasting.ret, quit |-> lasting.quit,
     files |-> lasting.files, io |-> Terminal, pipes |-> << >>, ran |-> << >>, err |-> FALSE]

Fake == {p \in DOMAIN Programs : Programs[p].fake /\ p # "sh"}

Outcomes == [Fake -> {0, 1}]

Prompt == [ended |-> FALSE, status |-> 0]

TypeLine(line, o) ==
    /\ mode = Prompt
    /\ ~shell.quit
    /\ count < MaxLines
    /\ count' = count + 1
    /\ LET s == RunCommand(Execution(o), AtWork(shell), line)
       IN  shell' = Lasting(s) /\ ran' = s.ran
    /\ last' = [before |-> shell, line |-> line, ends |-> o]
    /\ UNCHANGED mode

\* exit shows between two lines only, and the shell returns 0.
Leave ==
    /\ mode = Prompt
    /\ shell.quit
    /\ mode' = [ended |-> TRUE, status |-> 0]
    /\ UNCHANGED << shell, count, ran, last >>

EndOfInput ==
    /\ mode = Prompt
    /\ ~shell.quit
    /\ mode' = [ended |-> TRUE, status |-> 1]
    /\ UNCHANGED << shell, count, ran, last >>

\* What the client asked for and the shell is given; Shell.Init adds HOME and
\* the like, which are not among Vars.
FirstShell ==
    [env |-> Environment, dir |-> Home, ret |-> 0, quit |-> FALSE,
     files |-> [f \in FileNames |-> << >>]]

Init ==
    /\ shell = FirstShell
    /\ mode = Prompt
    /\ count = 0
    /\ ran = << >>
    /\ last = [before |-> FirstShell, line |-> << >>, ends |-> [p \in Fake |-> 0]]

Next ==
    \/ \E line \in Lines, o \in Outcomes : TypeLine(line, o)
    \/ Leave
    \/ EndOfInput

Spec == Init /\ [][Next]_vars

(***************************************************************************)
(* Properties                                                              *)
(***************************************************************************)

\* Type invariant; the pseudo variables never enter the environment.
TypeOK ==
    /\ shell.env \in Envs
    /\ shell.dir \in Dirs
    /\ shell.ret \in Statuses
    /\ shell.quit \in BOOLEAN
    /\ shell.files \in [FileNames -> Contents]
    /\ mode \in [ended: BOOLEAN, status: {0, 1}]
    /\ count \in 0 .. MaxLines

\* The calls of a statement that the shell itself executes.
CallsIn ==
    LET joined(calls) ==
            [stmt \in Statements |->
                IF stmt.op \in Operators THEN calls[stmt.x] \cup calls[stmt.y] ELSE {stmt} \cap Calls]
        upTo[n \in 0 .. MaxDepth] ==
            IF n = 0 THEN [stmt \in Statements |-> {stmt} \cap Calls] ELSE joined(upTo[n - 1])
    IN  upTo[MaxDepth]

CallsOf(line) == UNION {CallsIn[line[i]] : i \in DOMAIN line}

\* One of these is a word of the call, or what a variable in it may stand for.
Mentions(call, texts) ==
    \E i \in DOMAIN call.args : call.args[i].kind = "param" \/ call.args[i].text \in texts

\* Whatever a line holds, and wherever it fails, the assignments of a command
\* and all that a child shell does end with them: the shell's environment
\* changes by assignments that stand alone, its directory by cd, and only exit
\* ends it.
ChildrenLeaveNoTrace ==
    [][count' # count =>
        LET calls == CallsOf(last'.line)
        IN  /\ \A v \in Vars : shell'.env[v] # shell.env[v] =>
                  \E c \in calls : c.args = << >> /\ \E i \in DOMAIN c.assigns : c.assigns[i].name = v
            /\ shell'.dir # shell.dir => \E c \in calls : Mentions(c, {"cd"})
            /\ shell'.quit => \E c \in calls : Mentions(c, {"exit", "logout"})]_vars

=============================================================================
