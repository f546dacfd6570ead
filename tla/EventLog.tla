----------------------------- MODULE EventLog -----------------------------
(***************************************************************************)
(* The event log of core/logger as a file and what the reports `events     *)
(* summary`, `events interactions` and `events bugs` make of it.  An entry *)
(* is one line of JSON, appended by one write.  What a write that stops    *)
(* early leaves is followed by the next entry on the same line.  The       *)
(* reports read a sequence of JSON values: a missing end of line does no   *)
(* harm, and a torn entry makes all of them fail.                          *)
(* Of an entry this module knows its kind, the session's identifier (NoId  *)
(* outside of sessions) and what it is about: a command, or the name of a  *)
(* download or recording.                                                  *)
(***************************************************************************)
EXTENDS Integers, Sequences, FiniteSets, SequencesExt

NoId == -1

\* The kinds of LogEntry the program records.
Kinds == {"LoginAttempt", "OpenTtyLog", "RunCommand", "UnknownCommand", "InvalidInvocation",
          "Download", "Panic", "HoneypotEvent", "SessionEnded"}

Entry(kind, id, what) == [kind |-> kind, id |-> id, what |-> what]

Word(w) == << "word", w >>

Name(t) == << "name", t >>

\* A line of the file; an entry without the end of its line reads the same.
Line(entry) == << "line", entry >>

Torn == << "torn" >>

\* ReadJSONLinesLog: the first torn entry is an error, and no report is printed.
Readable(log) == \A i \in DOMAIN log : log[i] # Torn

\* The elements of a sequence that are in a set, in their order.
Selected(q, kept) ==
    LET taken[n \in 0 .. Len(q)] ==
            IF n = 0 THEN << >>
            ELSE IF q[n] \in kept THEN Append(taken[n - 1], q[n]) ELSE taken[n - 1]
    IN  taken[Len(q)]

\* What is written, torn entries aside.
EntriesOf(log) ==
    LET whole == Selected(log, ToSet(log) \ {Torn}) IN [i \in DOMAIN whole |-> whole[i][2]]

Of(entries, id) == Selected(entries, {e \in ToSet(entries) : e.id = id})

Whats(entries, kinds) ==
    LET found == Selected(entries, {e \in ToSet(entries) : e.kind \in kinds})
    IN  [i \in DOMAIN found |-> found[i].what]

Count(entries, kinds) == Len(Whats(entries, kinds))

(***************************************************************************)
(* The reports                                                             *)
(***************************************************************************)

\* What Report.Update has a case for, and what it ignores on purpose.
Reported == {"LoginAttempt", "RunCommand", "Panic", "Download", "UnknownCommand", "InvalidInvocation"}

Ignored == {"TerminalUpdate", "HoneypotEvent", "OpenTtyLog"}

\* `events summary`; what has no case, SessionEnded among it, is counted as unknown.
Summary(entries) ==
    [entries  |-> Len(entries),
     counts   |-> [kind \in Reported |-> Count(entries, {kind})],
     unknown  |-> Count(entries, Kinds \ (Reported \cup Ignored))]

\* `events bugs`.
Bugs(entries) ==
    [entries  |-> Len(entries),
     unknown  |-> Whats(entries, {"UnknownCommand"}),
     invalid  |-> Whats(entries, {"InvalidInvocation"}),
     panics   |-> Count(entries, {"Panic"})]

LastOf(whats) == IF whats = << >> THEN << >> ELSE Last(whats)

\* Mutant: entries without a session are taken for a session of their own.
SessionsOfAll(entries) == {entries[i].id : i \in DOMAIN entries}

\* The keys of `events interactions`: blank identifiers are skipped.
SessionsOf(entries) == {entries[i].id : i \in DOMAIN entries} \ {NoId}

\* One InteractiveSession: commands and downloads are collected, fields keep the last value.
Interaction(entries) ==
    [entries   |-> Len(entries),
     login     |-> LastOf(Whats(entries, {"LoginAttempt"})),
     ttyLog    |-> LastOf(Whats(entries, {"OpenTtyLog"})),
     commands  |-> Whats(entries, {"RunCommand", "UnknownCommand"}),
     downloads |-> Whats(entries, {"Download"}),
     summed    |-> Count(entries, {"SessionEnded"}) > 0]

Interactions(entries) == [id \in SessionsOf(entries) |-> Interaction(Of(entries, id))]
=============================================================================
