----------------------------- MODULE MCRtTimer -----------------------------
(* Instances of RtTimer for TLC. *)
EXTENDS RtTimer
=============================================================================
