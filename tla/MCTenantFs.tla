----------------------------- MODULE MCTenantFs -----------------------------
(***************************************************************************)
(* Instances of TenantFs for TLC.  One image holds a directory /d with a   *)
(* file /d/f, the other a file /f.                                         *)
(***************************************************************************)
EXTENDS TenantFs, TLC

\* Tenants are interchangeable.
MCSymmetry == Permutations(Tenants)

\* A session may also make /n, and the directory /d/f with /d/f/n in place of
\* the file /d/f.
MCPaths == {<< >>, <<"d">>, <<"d", "f">>, <<"d", "f", "n">>, <<"n">>}

\* The file /f, which may become a directory.
MCPathsSmall == {<< >>, <<"f">>, <<"f", "n">>}

MCDir(kids) == [kind |-> "dir", mode |-> "0755", content |-> "", mtime |-> "image",
                kids |-> kids, stuck |-> FALSE]

MCFile == [kind |-> "file", mode |-> "0644", content |-> "text", mtime |-> "image",
           kids |-> {}, stuck |-> FALSE]

MCImage ==
    [p \in Paths |->
        CASE p = << >>        -> MCDir({<<"d">>})
          [] p = <<"d">>      -> MCDir({<<"d", "f">>})
          [] p = <<"d", "f">> -> MCFile
          [] OTHER            -> NoNode]

MCImageSmall ==
    [p \in Paths |->
        CASE p = << >>   -> MCDir({<<"f">>})
          [] p = <<"f">> -> MCFile
          [] OTHER       -> NoNode]

\* Bound of the run with two sessions: only one of them at a time redirects into
\* a file or has left the root directory.  They share nothing but `base`, which
\* neither of these is about.
MCInvolved(t) == file[t].open \/ cwd[t] # Root

MCOneInvolved == \A t, u \in Tenants : MCInvolved(t) /\ MCInvolved(u) => t = u

\* The state without the report of the operation that led to it: no step
\* depends on it, and action properties are checked on every step.
MCView == << base, layer, cwd, file, hung >>

=============================================================================
