--------------------------- MODULE MCInstallation ---------------------------
(***************************************************************************)
(* An instance of Installation for TLC: images of up to two layers over    *)
(* the directory /d, the file or hard link /d/f and the file or link /f,   *)
(* with a whiteout of /d/f.                                                *)
(***************************************************************************)
EXTENDS Installation

MCNames == {"d", "f", "wh"}

MCPaths == {<< >>, <<"d">>, <<"d", "f">>, <<"d", "wh">>, <<"f">>}

MCContents == {"", "text", "more"}

MCEntry(kind, path, content, mode) ==
    [kind |-> kind, path |-> path, content |-> content, mode |-> mode]

MCDir == MCEntry("dir", <<"d">>, "", "0755")

MCFile == MCEntry("file", <<"d", "f">>, "text", "0644")

MCUpper ==
    {MCDir, MCEntry("dir", <<"d">>, "", "0777"), MCEntry("dir", << >>, "", "0777"),
     MCFile, MCEntry("file", <<"d", "f">>, "more", "0600"),
     MCEntry("hard", <<"d", "f">>, "more", "0644"),
     MCEntry("whiteout", <<"d", "wh">>, "", "0644"),
     MCEntry("link", <<"f">>, "more", "0777"), MCEntry("file", <<"f">>, "", "0755"),
     MCEntry("dir", <<"f">>, "", "0755"), MCEntry("file", <<"d">>, "text", "0644")}

MCLower ==
    {MCFile, MCEntry("hard", <<"d", "f">>, "more", "0644"),
     MCEntry("link", <<"f">>, "more", "0777")}

\* A layer below and one above, and images that list no directories.
MCImages ==
    {<< << MCDir, MCFile >> >>}
        \cup {<< << MCDir, a >>, << b >> >> : a \in MCLower, b \in MCUpper}
        \cup {<< << a >>, << >> >> : a \in MCLower}

MCEmbedded == << << MCDir, MCFile >> >>

=============================================================================
