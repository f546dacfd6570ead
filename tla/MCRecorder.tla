---------------------------- MODULE MCRecorder ----------------------------
(* Two goroutines with three operations on the streams; the second writes bytes that are not text. *)
EXTENDS Recorder, TLC

MCBinary == {2}
MCInexact == {1}

\* No property is about liveness or tells goroutines apart.
MCSymmetry == Permutations(Threads)
=============================================================================
