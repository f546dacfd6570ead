------------------------------ MODULE MCServer ------------------------------
(***************************************************************************)
(* Instances of Server for TLC.  Connections are interchangeable, but the  *)
(* runs check liveness, where symmetry is not sound.                       *)
(***************************************************************************)
EXTENDS Server

=============================================================================
