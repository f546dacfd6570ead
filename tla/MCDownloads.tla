---------------------------- MODULE MCDownloads ----------------------------
(* Two sessions with a download each, and one restart of the process. *)
EXTENDS Downloads

\* No property is about liveness or tells sessions apart.
MCSymmetry == Permutations(Sessions)
=============================================================================
