---------------------------- MODULE CountingSem ----------------------------
(***************************************************************************)
(* What a counting semaphore promises its callers.  A release either adds  *)
(* a token or grants it to one waiter, never both; a wait that fails uses  *)
(* up no token; tokens come only from releases and from a reset, and       *)
(* nobody waits while there is one.                                        *)
(***************************************************************************)
EXTENDS Integers

CONSTANTS Threads, TokenMax
VARIABLES
    free,      \* tokens for the taking
    waiting,   \* threads whose take waits
    granted    \* threads that were given a token and have not returned yet

vars == <<free, waiting, granted>>

Init == free \in 0 .. TokenMax /\ waiting = {} /\ granted = {}

Take(t) ==
    /\ t \notin waiting \cup granted
    /\ \/ free > 0 /\ free' = free - 1 /\ UNCHANGED waiting
       \/ free = 0 /\ waiting' = waiting \cup {t} /\ UNCHANGED free
    /\ UNCHANGED granted

Fail(t) == t \in waiting /\ waiting' = waiting \ {t} /\ UNCHANGED <<free, granted>>

Return(t) == t \in granted /\ granted' = granted \ {t} /\ UNCHANGED <<free, waiting>>

Release ==
    \/ /\ waiting = {} /\ free < TokenMax
       /\ free' = free + 1
       /\ UNCHANGED <<waiting, granted>>
    \/ \E t \in waiting :
          /\ waiting' = waiting \ {t} /\ granted' = granted \cup {t}
          /\ UNCHANGED free

(* Everyone who waits fails; tokens on their way stay where they are. *)
Reset == free' \in 0 .. TokenMax /\ waiting' = {} /\ UNCHANGED granted

Next == \/ \E t \in Threads : Take(t) \/ Fail(t) \/ Return(t)
        \/ Release \/ Reset

Spec == Init /\ [][Next]_vars
=============================================================================
