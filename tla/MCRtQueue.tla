----------------------------- MODULE MCRtQueue -----------------------------
(* Instances of RtQueue for TLC. *)
EXTENDS RtQueue

(* Who sends and who receives does not matter to the kernel, nor what. *)
Symmetry == Permutations(Senders) \cup Permutations(Receivers) \cup Permutations(Msgs)
=============================================================================
