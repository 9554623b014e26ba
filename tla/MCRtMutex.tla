----------------------------- MODULE MCRtMutex -----------------------------
(* Instances of RtMutex for TLC: three threads of different priorities. *)
EXTENDS RtMutex

CONSTANTS high, middle, low, a, b   \* threads and mutexes

ThreeLevels == (high :> 1) @@ (middle :> 2) @@ (low :> 3)
CeilingOnB == (a :> NoPrio) @@ (b :> 1)
NoCeilings == [m \in Mutexes |-> NoPrio]

(* Owners do not wait for another mutex, and everything else happens. *)
Flat == [ceiling |-> CeilingOnB, timed |-> TRUE, nested |-> FALSE,
         sleeps |-> TRUE, deletes |-> TRUE, debug |-> TRUE]

(* Chains of owners that wait and may be deleted, RT_ASSERT compiled out. *)
Chain == [ceiling |-> NoCeilings, timed |-> FALSE, nested |-> TRUE,
          sleeps |-> FALSE, deletes |-> TRUE, debug |-> FALSE]

FlatOrChain == {Flat, Chain}

(* An owner waits for a second mutex, RT_ASSERT compiled in. *)
NestedOnly == {[Chain EXCEPT !.deletes = FALSE, !.debug = TRUE]}

(* Waits with a timeout, nothing else. *)
TimedOnly == {[Flat EXCEPT !.ceiling = NoCeilings, !.sleeps = FALSE, !.deletes = FALSE]}
=============================================================================
