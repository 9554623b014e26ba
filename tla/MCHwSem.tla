------------------------------ MODULE MCHwSem ------------------------------
(* Instances of HwSem for TLC. *)
EXTENDS HwSem

CONSTANT Bound      \* a thread bound to the second core

BoundAndRoaming ==
    [t \in Threads |-> IF t = Bound THEN {1} ELSE Cores(Side(t))]
=============================================================================
