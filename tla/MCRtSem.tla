------------------------------ MODULE MCRtSem ------------------------------
(* Instances of RtSem for TLC. *)
EXTENDS RtSem
=============================================================================
