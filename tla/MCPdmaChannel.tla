--------------------------- MODULE MCPdmaChannel ---------------------------
(* Instances of PdmaChannel for TLC. *)
EXTENDS PdmaChannel

CONSTANT LiveBound   \* descriptors on the heap in a run

(* Every re-allocation of a channel may forget a table; runs stop here. *)
BoundedHeap == live <= LiveBound
=============================================================================
