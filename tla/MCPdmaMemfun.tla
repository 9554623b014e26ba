--------------------------- MODULE MCPdmaMemfun ---------------------------
(* Instances of PdmaMemfun for TLC. *)
EXTENDS PdmaMemfun, TLC, Functions

CONSTANT TokenBound   \* tokens the actors' semaphores may hold in a run

(* Callers are interchangeable: nothing in the driver looks at who calls. *)
Symmetry == Permutations(Threads)

(* A flag served twice adds a token each time; runs stop counting here. *)
BoundedTokens == FoldFunction(+, 0, memSem) <= TokenBound
=============================================================================
