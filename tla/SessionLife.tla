---------------------------- MODULE SessionLife ----------------------------
(***************************************************************************)
(* What a session's handler promises the rest of the honeypot: a login     *)
(* entry first, then either nothing more, because there is no recording,   *)
(* or a recording and in the end exactly one summary, before it returns.   *)
(* Session implements this; Server is built on it.                         *)
(***************************************************************************)
CONSTANT Sessions

VARIABLE life

States == {"idle", "begun", "recorded", "summarised", "over"}

Advance(s, from, to) == life[s] = from /\ life' = [life EXCEPT ![s] = to]

\* The login is logged.
Begin(s) == Advance(s, "idle", "begun")

\* The recording cannot be created.
GiveUp(s) == Advance(s, "begun", "over")

OpenRecording(s) == Advance(s, "begun", "recorded")

\* The end of the session is logged.
Summarise(s) == Advance(s, "recorded", "summarised")

\* The recording is closed and the handler returns.
Leave(s) == Advance(s, "summarised", "over")

Init == life = [s \in Sessions |-> "idle"]

Step(s) == Begin(s) \/ GiveUp(s) \/ OpenRecording(s) \/ Summarise(s) \/ Leave(s)

Next == \E s \in Sessions : Step(s)

Spec == Init /\ [][Next]_life

=============================================================================
