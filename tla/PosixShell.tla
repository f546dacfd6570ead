----------------------------- MODULE PosixShell -----------------------------
(***************************************************************************)
(* What a POSIX shell makes of the same lines, said the way the standard   *)
(* says it: a list is a chain of pipelines, of which the next is run if    *)
(* the status of the last one run allows it; the commands of a pipeline    *)
(* are each in a subshell, between its own pipes; a command expands its    *)
(* words in the environment of that moment, where an expansion to nothing  *)
(* is no word, and resets what it redirects from left to right; a program  *)
(* is given the variables that are exported: those the shell was given     *)
(* itself and those assigned before the program's name.  `odd` is set once *)
(* a command is met for which the honeypot's shell is known to differ.     *)
(***************************************************************************)
EXTENDS Interpreter

\* The chain of && and ||, each pipeline with the operator before it.
RECURSIVE Chain(_)
Chain(stmt) ==
    IF stmt.op \in {"and", "or"} THEN Append(Chain(stmt.x), [op |-> stmt.op, pipeline |-> stmt.y])
    ELSE << [op |-> "first", pipeline |-> stmt] >>

RECURSIVE Pipeline(_)
Pipeline(stmt) == IF stmt.op = "pipe" THEN Append(Pipeline(stmt.x), stmt.y) ELSE << stmt >>

Odd(r) == [r EXCEPT !.odd = TRUE]

\* A descriptor after the redirections: the last that names it, the sources of
\* `>&` as they were before it.
RECURSIVE Descriptor(_, _, _, _)
Descriptor(io, redirs, fd, env) ==
    IF redirs = << >> THEN io[fd]
    ELSE LET redir == Last(redirs)
             to    == Value(env, redir.word)
         IN  CASE Sink(redir) # fd -> Descriptor(io, Front(redirs), fd, env)
               [] Sink(redir) = fd /\ redir.op = ">&" /\ to = "1" ->
                     Descriptor(io, Front(redirs), "out", env)
               [] Sink(redir) = fd /\ redir.op = ">&" /\ to = "2" ->
                     Descriptor(io, Front(redirs), "err", env)
               [] OTHER -> Named(to)

\* The files a command's redirections create or truncate.
Created(redirs, env) ==
    {f \in FileNames : \E i \in DOMAIN redirs :
        Value(env, redirs[i].word) = f /\ ~(redirs[i].op = ">&" /\ f \in {"1", "2"})}

WordsOf(call) ==
    {call.args[i] : i \in DOMAIN call.args}
        \cup {call.assigns[i].word : i \in DOMAIN call.assigns}
        \cup {call.redirs[i].word : i \in DOMAIN call.redirs}

\* An expansion of what the statement itself has changed is odd: the honeypot
\* expands in the environment the statement began with.
Stale(r, call) ==
    \E w \in WordsOf(call) : w.kind = "param" /\ r.start[w.text] # CmdEnv(r)[w.text]

\* Nor does the honeypot read, append to or duplicate anything else.
OddRedirs(redirs, env) ==
    \E i \in DOMAIN redirs :
        \/ redirs[i].op \notin {">", ">&"} \/ redirs[i].from \notin {"", "1", "2"}
        \/ BadWord(redirs[i].word)
        \/ Value(env, redirs[i].word) \notin FileNames
              /\ ~(redirs[i].op = ">&" /\ Value(env, redirs[i].word) \in {"1", "2"})

\* The words of a command: an expansion to nothing makes none.
Fields(env, words) ==
    LET kept == SelectSeq(words, LAMBDA w : w.kind # "param" \/ Value(env, w) # "")
    IN  [i \in DOMAIN kept |-> Value(env, kept[i])]

\* What a program is given of the variables, those assigned before it included.
Exports(r, assigned, call) ==
    LET names == r.exported \cup {call.assigns[i].name : i \in DOMAIN call.assigns}
    IN  [v \in Vars |-> IF v \in names THEN assigned[v] ELSE ""]

\* The honeypot keeps the empty words, and gives a program every variable.
Overdone(r, assigned, call, args) ==
    \/ Len(args) # Len(call.args)
    \/ args # << >> /\ args[1] \notin Builtins /\ Exports(r, assigned, call) # assigned

\* Of the builtins only cd is as it should be.  A command that cannot be
\* started, and an assignment, do not set the status.
OddCommand(r, call, args, piped) ==
    \/ call.negated
    \/ \E i \in DOMAIN call.args : BadWord(call.args[i])
    \/ \E i \in DOMAIN call.assigns : BadValue(call.assigns[i].word)
    \/ IF args = << >> THEN piped \/ r.ret # 0
       ELSE \/ args[1] \in Builtins /\ (piped \/ args[1] # "cd")
            \/ args[1] \notin Builtins /\ ~Starts(args[1])
            \/ args[1] = "sh" /\ (r.dir # Home \/ ~HasScript(args) \/ args[3] \notin DOMAIN Scripts)

RECURSIVE Posix(_, _, _)

\* One command with the descriptors its pipeline gives it.
PosixCommand(r, io, call, piped, o) ==
    LET env      == CmdEnv(r)
        args     == Fields(env, call.args)
        assigned == Over(Assigned(env, call.assigns), r.env)
        exports  == Exports(r, assigned, call)
        fds      == [in |-> io.in, out |-> Descriptor(io, call.redirs, "out", env),
                     err |-> Descriptor(io, call.redirs, "err", env)]
        ready    == [r EXCEPT !.files = [f \in FileNames |->
                        IF f \in Created(call.redirs, env) THEN << >> ELSE @[f]]]
        \* The script's own shell, in a process of its own.
        script   == Posix([Ran(ready, fds, exports, args) EXCEPT
                              !.env = exports, !.ret = 0, !.io = fds,
                              !.exported = @ \cup {call.assigns[i].name : i \in DOMAIN call.assigns}],
                          Script(args[3]), o)
    IN  CASE call.op # "call" \/ r.odd -> Odd(r)
          [] OTHER ->
             IF \/ Stale(r, call) \/ OddRedirs(call.redirs, env)
                \/ Overdone(r, assigned, call, args) \/ OddCommand(r, call, args, piped)
             THEN Odd(r)
             ELSE CASE args = << >> -> [ready EXCEPT !.env = assigned]
                    [] args # << >> /\ args[1] = "cd" -> Cd(ready, args)
                    [] args # << >> /\ args[1] = "sh" ->
                          [script EXCEPT !.env = r.env, !.dir = r.dir, !.io = r.io,
                                         !.start = r.start, !.exported = r.exported]
                    [] OTHER -> RunProgram(ready, fds, exports, args, o)

\* The i-th command reads the i-th of the pipeline's own pipes but for the
\* first, and writes the next one but for the last.
PosixPipeline(r, commands, o) ==
    LET n     == Len(commands)
        base  == Len(r.pipes)
        io(i) == [in  |-> IF i = 1 THEN r.io.in ELSE Pipe(base + i - 1),
                  out |-> IF i = n THEN r.io.out ELSE Pipe(base + i),
                  err |-> r.io.err]
    IN  FoldLeft(LAMBDA t, i : PosixCommand(t, io(i), commands[i], n > 1, o),
                 [r EXCEPT !.pipes = @ \o [i \in 1 .. n - 1 |-> << >>]],
                 [i \in 1 .. n |-> i])

PosixStatement(r, stmt, o) ==
    FoldLeft(LAMBDA t, link :
                IF (link.op = "and" /\ t.ret # 0) \/ (link.op = "or" /\ t.ret = 0) THEN t
                ELSE PosixPipeline(t, Pipeline(link.pipeline), o),
             [r EXCEPT !.start = CmdEnv(r)], Chain(stmt))

Posix(r, line, o) == FoldLeft(LAMBDA t, stmt : PosixStatement(t, stmt, o), r, line)

\* A line that meets nothing odd does what it does in a POSIX shell: the same
\* commands run with the same arguments, environment, directory, input and
\* output, and leave the same environment, status and files.
ActsAsPosixShell ==
    [][LET r == Posix([AtWork(last'.before) EXCEPT !.err = FALSE]
                          @@ [odd |-> FALSE, start |-> CmdEnv(last'.before),
                              exported |-> {v \in Vars : Environment[v] # ""}],
                      last'.line, last'.ends)
       IN  (count' # count /\ ~r.odd) => Lasting(r) = shell' /\ r.ran = ran']_vars

=============================================================================
