--------------------------- MODULE MCInterpreter ---------------------------
(***************************************************************************)
(* An instance of Interpreter for TLC: lines of up to three calls.  p and  *)
(* q are programs, `odd` is a file without a command, `no` is neither, and *)
(* `x` may not be executed.  The shell is given A; B it is not.            *)
(***************************************************************************)
EXTENDS PosixShell

MCVars == {"A", "B"}

MCEnvironment == [v \in MCVars |-> IF v = "A" THEN "w" ELSE ""]

MCTexts ==
    {"", "0", "1", "2", "A", "u", "v", "w", "f", "x", "p", "q", "no", "sh", "-c", "cd", "d", "sudo", "odd",
     "exit", "unset"}

MCPrograms ==
    [n \in {"p", "q", "sh", "odd", "x"} |->
        CASE n \in {"p", "sh"} -> [fake |-> TRUE, real |-> "found"]
          [] n = "q"           -> [fake |-> TRUE, real |-> "missing"]
          [] n = "odd"         -> [fake |-> FALSE, real |-> "found"]
          [] n = "x"           -> [fake |-> TRUE, real |-> "denied"]]

Lit(t) == [kind |-> "lit", text |-> t]
Param(v) == [kind |-> "param", text |-> v]
Quoted(t) == [kind |-> "quoted", text |-> t]
Other == [kind |-> "other", text |-> ""]

Assign(v, w) == [name |-> v, word |-> w]
Redir(from, op, w) == [from |-> from, op |-> op, word |-> w]

Full(assigns, args, redirs, negated) ==
    [op |-> "call", assigns |-> assigns, args |-> args, redirs |-> redirs, negated |-> negated]

Call(args) == Full(<< >>, args, << >>, FALSE)
Set(w) == Full(<< Assign("A", w) >>, << >>, << >>, FALSE)
To(args, redirs) == Full(<< >>, args, redirs, FALSE)

P == << Lit("p") >>

MCScripts ==
    [t \in {"u", "v"} |->
        IF t = "u" THEN << Set(Lit("w")), Call(<< Lit("p"), Param("A") >>) >>
        ELSE << [op |-> "and", x |-> Call(<< Lit("q") >>), y |-> Call(<< Lit("exit") >>)],
                Call(P) >>]

\* Calls that occur in every position.
Common ==
    {Call(P), Call(<< Lit("q"), Param("A") >>), Call(<< Quoted("p"), Param("?") >>),
     Set(Lit("u")), Call(<< Lit("no") >>),
     To(P, << Redir("", ">", Lit("f")), Redir("2", ">&", Lit("1")) >>),
     Call(<< Lit("sh"), Lit("-c"), Quoted("u") >>), Call(<< Lit("cd"), Lit("d") >>)}

Rare ==
    {Full(<< Assign("A", Lit("v")) >>, << Lit("q"), Param("A") >>, << >>, FALSE),
     Full(<< Assign("A", Lit("v")), Assign("A", Param("A")) >>, << >>, << >>, FALSE),
     Full(<< Assign("B", Lit("v")) >>, << Lit("q"), Param("A") >>, << >>, FALSE),
     Full(<< Assign("B", Lit("u")) >>, << >>, << >>, FALSE),
     Call(<< Lit("q"), Param("B") >>), Set(Lit("")),
     Set(Param("?")), Set(Quoted("u")), Set(Param("A")),
     To(P, << Redir("2", ">&", Lit("1")), Redir("", ">", Lit("f")) >>),
     To(P, << Redir("1", ">&", Lit("2")), Redir("2", ">", Lit("f")) >>),
     To(P, << Redir("", ">", Lit("f")), Redir("", ">", Param("A")) >>),
     To(P, << Redir("3", ">", Lit("f")) >>), To(P, << Redir("", "<", Lit("f")) >>),
     To(<< Lit("sudo"), Lit("p") >>, << Redir("", ">", Lit("f")) >>),
     To(<< Lit("p"), Other >>, << Redir("", ">", Lit("f")) >>),
     Full(<< >>, P, << >>, TRUE),
     Call(<< Lit("sh"), Lit("-c"), Lit("v") >>), Call(<< Lit("odd") >>), Call(<< Lit("x") >>),
     Call(<< Lit("cd") >>), Call(<< Lit("cd"), Lit("u") >>), Call(<< Lit("exit") >>),
     Call(<< Lit("sudo"), Lit("cd"), Lit("d") >>), Call(<< Lit("sudo") >>),
     Call(<< Lit("unset"), Lit("A") >>), Set(Lit("exit")), Call(<< Param("A") >>),
     Call(<< Lit("sh") >>), Call(<< Lit("sh"), Lit("-c"), Lit("no") >>)}

Binary(op, x, y) == [op |-> op, x |-> x, y |-> y]

Pairs ==
    {Binary(op, x, y) : op \in Operators, x \in Common, y \in Common \cup Rare}
        \cup {Binary(op, x, y) : op \in Operators, x \in Rare, y \in {Call(P)}}

Few == {Call(P), Call(<< Lit("q"), Param("?") >>),
        To(<< Lit("q") >>, << Redir("", ">", Lit("f")) >>)}

Unknown ==
    {[op |-> "other", redirs |-> redirs] :
        redirs \in {<< >>, << Redir("", ">", Lit("f")), Redir("2", ">", Param("A")) >>}}

\* As the parser groups them: | before && and ||, each to the left.
Triples ==
    {Binary(op, Binary(dp, x, y), z) : op, dp \in {"and", "or"}, x, y, z \in Few}
        \cup {Binary("pipe", Binary("pipe", x, y), z) : x, y, z \in Few}
        \cup {Binary(op, Binary("pipe", x, y), z) : op \in {"and", "or"}, x, y, z \in Few}
        \cup {Binary(op, x, Binary("pipe", y, z)) : op \in {"and", "or"}, x, y, z \in Few}

MCLines ==
    {<< s >> : s \in Common \cup Rare \cup Pairs \cup Triples \cup Unknown}
        \cup {<< s, t >> : s \in Common \cup Rare, t \in Common}

\* The last line matters to properties of the step it is executed in only.
MCView == << shell, mode, count >>

=============================================================================
