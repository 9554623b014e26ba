------------------------------ MODULE IpcList ------------------------------
(***************************************************************************)
(* The list of suspended threads of a kernel object (ipc.c).  A list is    *)
(* the sequence of its threads, head first; a smaller number is a higher   *)
(* priority.                                                               *)
(***************************************************************************)
EXTENDS Integers, Sequences, SequencesExt

(* Mutation: equals are overtaken, newest first. *)
PrioPositionLifo(list, prio, p) ==
    LET i == SelectInSeq(list, LAMBDA u : p <= prio[u])
    IN  IF i = 0 THEN Len(list) + 1 ELSE i

(* Mutation: the comparison is the wrong way round. *)
PrioPositionReversed(list, prio, p) ==
    LET i == SelectInSeq(list, LAMBDA u : prio[u] < p)
    IN  IF i = 0 THEN Len(list) + 1 ELSE i

(* Where RT_IPC_FLAG_PRIO inserts a thread of priority p: before the first *)
(* thread that is less urgent, behind the ones that are equally urgent.    *)
PrioPosition(list, prio, p) ==
    LET i == SelectInSeq(list, LAMBDA u : p < prio[u])
    IN  IF i = 0 THEN Len(list) + 1 ELSE i

(* _ipc_list_suspend: the list part *)
ListInsert(list, t, prio, flag) ==
    IF flag = "FIFO" THEN Append(list, t)
    ELSE InsertAt(list, PrioPosition(list, prio, prio[t]), t)

(* rt_list_remove of the thread's tlist node *)
ListRemove(list, t) == RemoveFirst(list, t)

(* The order RT_IPC_FLAG_PRIO promises. *)
InPrioOrder(list, prio) ==
    \A i, j \in DOMAIN list : i < j => prio[list[i]] <= prio[list[j]]
=============================================================================
