------------------------------- MODULE RtSem -------------------------------
(***************************************************************************)
(* The kernel semaphore (ipc.c) with its waiters' timeouts (thread.c).     *)
(*                                                                         *)
(* rt_hw_interrupt_disable is rt_cpus_lock on this two-core system: what   *)
(* runs between it and rt_hw_interrupt_enable is one step, and other       *)
(* threads, the other core and the tick interrupt run between such steps.  *)
(* rt_sem_detach and rt_sem_delete wake the waiters without holding that   *)
(* lock around the loop.                                                   *)
(***************************************************************************)
EXTENDS Integers, Sequences, FiniteSets, IpcList

CONSTANTS
    Threads,     \* threads that take the semaphore
    Prios,       \* the priorities a thread may be given
    Flags,       \* the flags rt_sem_init is called with: "FIFO", "PRIO"
    ValueMax,    \* RT_SEM_VALUE_MAX
    Timeouts,    \* how takers wait: "ticks", "forever"
    Resets,      \* values rt_sem_control(RT_IPC_CMD_RESET) is given
    MayChangePrio, \* TRUE when priorities change while threads run
    MayDetach    \* TRUE when the semaphore may be detached or deleted

ASSUME SemAssumption ==
    /\ Prios \subseteq Nat /\ Prios # {}
    /\ Flags \subseteq {"FIFO", "PRIO"}
    /\ ValueMax \in Nat \ {0}
    /\ Timeouts \subseteq {"ticks", "forever"}
    /\ Resets \subseteq 0 .. ValueMax
    /\ MayChangePrio \in BOOLEAN /\ MayDetach \in BOOLEAN

VARIABLES
    flag,      \* sem->parent.parent.flag
    value,     \* sem->value
    list,      \* sem->parent.suspend_thread
    pc,        \* "idle", "wait" (suspended in rt_sem_take) or "ready" (resumed)
    error,     \* thread->error
    timer,     \* is thread_timer running
    prio,      \* thread->current_priority
    detach,    \* the detaching thread: "no", "check", "pop" or "done"
    stray,     \* did _ipc_list_resume_all resume something that is no waiter
    shuffled   \* (history) has a listed thread changed its priority since the
               \* list was empty

vars == <<flag, value, list, pc, error, timer, prio, detach, stray, shuffled>>

(* rt_sem_init, rt_sem_create *)
Init ==
    /\ flag \in Flags
    /\ value \in 0 .. ValueMax
    /\ list = <<>>
    /\ pc = [t \in Threads |-> "idle"]
    /\ error = [t \in Threads |-> "EOK"]
    /\ timer = [t \in Threads |-> FALSE]
    /\ prio \in [Threads -> Prios]
    /\ detach = "no"
    /\ stray = FALSE
    /\ shuffled = FALSE

-----------------------------------------------------------------------------
(* Mutation: the timer is left running. *)
ResumedTimerRuns(t) ==
    /\ list' = ListRemove(list, t)
    /\ pc' = [pc EXCEPT ![t] = "ready"]
    /\ shuffled' = (shuffled /\ list' # <<>>)
    /\ UNCHANGED timer

(* rt_thread_resume of the waiter t: off the list, timer stopped, ready *)
Resumed(t) ==
    /\ list' = ListRemove(list, t)
    /\ timer' = [timer EXCEPT ![t] = FALSE]
    /\ pc' = [pc EXCEPT ![t] = "ready"]
    /\ shuffled' = (shuffled /\ list' # <<>>)

(* rt_sem_take with a token left: RT_EOK at once *)
TakeNow(t) ==
    /\ pc[t] = "idle" /\ detach # "done"
    /\ value > 0
    /\ value' = value - 1
    /\ UNCHANGED <<flag, list, pc, error, timer, prio, detach, stray, shuffled>>

(* rt_sem_take with no token left: suspend, start the timer, schedule *)
TakeWait(t) ==
    /\ pc[t] = "idle" /\ detach # "done"
    /\ value = 0
    /\ \E timeout \in Timeouts :
          timer' = [timer EXCEPT ![t] = (timeout = "ticks")]
    /\ error' = [error EXCEPT ![t] = "EOK"]
    /\ list' = ListInsert(list, t, prio, flag)
    /\ pc' = [pc EXCEPT ![t] = "wait"]
    /\ UNCHANGED <<flag, value, prio, detach, stray, shuffled>>

(* rt_sem_trytake, or a timeout of 0: -RT_ETIMEOUT and nothing changed; a *)
(* stuttering step, so it is no action of its own.                        *)

(* back from rt_schedule: rt_sem_take returns thread->error *)
TakeReturn(t) ==
    /\ pc[t] = "ready"
    /\ pc' = [pc EXCEPT ![t] = "idle"]
    /\ UNCHANGED <<flag, value, list, error, timer, prio, detach, stray, shuffled>>

(* Mutation: the thread that timed out stays on the list. *)
TimeoutStaysListed(t) ==
    /\ timer[t]
    /\ error' = [error EXCEPT ![t] = "ETIMEOUT"]
    /\ timer' = [timer EXCEPT ![t] = FALSE]
    /\ pc' = [pc EXCEPT ![t] = "ready"]
    /\ UNCHANGED <<flag, value, list, prio, detach, stray, shuffled>>

(* _thread_timeout, from the tick interrupt *)
Timeout(t) ==
    /\ timer[t]
    /\ error' = [error EXCEPT ![t] = "ETIMEOUT"]
    /\ Resumed(t)
    /\ UNCHANGED <<flag, value, prio, detach, stray>>

(* Mutation: the value is raised for the waiter that is resumed as well. *)
ReleaseCountsTwice ==
    /\ detach # "done"
    /\ list # <<>>
    /\ Resumed(Head(list))
    /\ value' = IF value < ValueMax THEN value + 1 ELSE value
    /\ UNCHANGED <<flag, error, prio, detach, stray>>

(* rt_sem_release with waiters: the token goes straight to the first one *)
ReleaseHandOver ==
    /\ detach # "done"
    /\ list # <<>>
    /\ Resumed(Head(list))
    /\ UNCHANGED <<flag, value, error, prio, detach, stray>>

(* Mutation: the limit is checked after the increment. *)
ReleaseCountOverflow ==
    /\ detach # "done"
    /\ list = <<>>
    /\ value <= ValueMax
    /\ value' = value + 1
    /\ UNCHANGED <<flag, list, pc, error, timer, prio, detach, stray, shuffled>>

(* rt_sem_release without waiters; at RT_SEM_VALUE_MAX it is -RT_EFULL, a *)
(* stuttering step                                                        *)
ReleaseCount ==
    /\ detach # "done"
    /\ list = <<>>
    /\ value < ValueMax
    /\ value' = value + 1
    /\ UNCHANGED <<flag, list, pc, error, timer, prio, detach, stray, shuffled>>

(* rt_sem_control(RT_IPC_CMD_RESET): _ipc_list_resume_all under the lock *)
Reset(v) ==
    /\ detach # "done"
    /\ LET woken == ToSet(list) IN
       /\ pc' = [t \in Threads |-> IF t \in woken THEN "ready" ELSE pc[t]]
       /\ error' = [t \in Threads |-> IF t \in woken THEN "ERROR" ELSE error[t]]
       /\ timer' = [t \in Threads |-> timer[t] /\ t \notin woken]
    /\ list' = <<>>
    /\ shuffled' = FALSE
    /\ value' = v
    /\ UNCHANGED <<flag, prio, detach, stray>>

(* rt_thread_control(RT_THREAD_CTRL_CHANGE_PRIORITY), also what priority   *)
(* inheritance calls: a suspended thread keeps its place in the list       *)
ChangePriority(t, p) ==
    /\ MayChangePrio
    /\ p # prio[t]
    /\ prio' = [prio EXCEPT ![t] = p]
    /\ shuffled' = (shuffled \/ pc[t] = "wait")
    /\ UNCHANGED <<flag, value, list, pc, error, timer, detach, stray>>

(* rt_sem_detach, rt_sem_delete: while (!rt_list_isempty(list)) ... *)
DetachCheck ==
    /\ \/ MayDetach /\ detach = "no"
       \/ detach = "check"
    /\ detach' = IF list = <<>> THEN "done" ELSE "pop"
    /\ UNCHANGED <<flag, value, list, pc, error, timer, prio, stray, shuffled>>

(* ... { the lock is taken only now; list->next may be the list itself } *)
DetachPop ==
    /\ detach = "pop"
    /\ detach' = "check"
    /\ IF list # <<>>
       THEN /\ error' = [error EXCEPT ![Head(list)] = "ERROR"]
            /\ Resumed(Head(list))
            /\ UNCHANGED stray
       ELSE /\ stray' = TRUE
            /\ UNCHANGED <<list, pc, error, timer, shuffled>>
    /\ UNCHANGED <<flag, value, prio>>

(* Nothing is said of a kernel whose memory a stray resume has overwritten. *)
Next ==
    /\ ~stray
    /\ \/ \E t \in Threads : TakeNow(t) \/ TakeWait(t) \/ TakeReturn(t) \/ Timeout(t)
       \/ \E t \in Threads, p \in Prios : ChangePriority(t, p)
       \/ ReleaseHandOver \/ ReleaseCount
       \/ \E v \in Resets : Reset(v)
       \/ DetachCheck \/ DetachPop

Spec == Init /\ [][Next]_vars

(* The tick interrupt fires expired timers, resumed threads run, and the   *)
(* other side goes on releasing.                                           *)
Fairness ==
    /\ \A t \in Threads : WF_vars(Timeout(t)) /\ WF_vars(TakeReturn(t))
    /\ WF_vars(ReleaseHandOver)

FairSpec == Spec /\ Fairness

-----------------------------------------------------------------------------
TypeOK ==
    /\ flag \in {"FIFO", "PRIO"}
    /\ value \in 0 .. ValueMax
    /\ list \in Seq(Threads)
    /\ pc \in [Threads -> {"idle", "wait", "ready"}]
    /\ error \in [Threads -> {"EOK", "ETIMEOUT", "ERROR"}]
    /\ timer \in [Threads -> BOOLEAN]
    /\ prio \in [Threads -> Prios]
    /\ detach \in {"no", "check", "pop", "done"}
    /\ stray \in BOOLEAN /\ shuffled \in BOOLEAN

(* A thread is on the list exactly while it is suspended in rt_sem_take,   *)
(* and once: whoever ends its wait (a release, its timeout, a reset, a     *)
(* detach) also takes it off, so no token is handed to a thread that has   *)
(* already given up.                                                       *)
ListIsWaiters ==
    /\ \A t \in Threads : t \in ToSet(list) <=> pc[t] = "wait"
    /\ \A i, j \in DOMAIN list : list[i] = list[j] => i = j

(* The assertion of _thread_timeout: the timer of a thread that is no      *)
(* longer suspended never fires.                                           *)
TimerOnlyWhileSuspended == \A t \in Threads : timer[t] => pc[t] = "wait"

(* No lost wake-up: nobody waits while a token is there for the taking.    *)
NoWaitWithToken == list # <<>> => value = 0

(* Every token released is used up by exactly one successful take: the     *)
(* kernel semaphore implements the counting semaphore its callers rely on. *)
(* A resumed thread without an error has been granted a token, until its   *)
(* rt_sem_take returns.                                                    *)
Abstract == INSTANCE CountingSem WITH
                free <- value,
                waiting <- {t \in Threads : pc[t] = "wait"},
                granted <- {t \in Threads : pc[t] = "ready" /\ error[t] = "EOK"},
                TokenMax <- ValueMax
IsCountingSem == Abstract!Spec

(* RT_IPC_FLAG_PRIO: "The pending threads will queue in order of priority" *)
(* - as long as no priority changes: rt_thread_control and the inheritance *)
(* of mutexes leave a waiting thread where it is.                          *)
QueueInPrioOrder == flag = "PRIO" /\ ~shuffled => InPrioOrder(list, prio)

(* While somebody releases, a take of a FIFO semaphore returns, whatever   *)
(* is reset, detached or reprioritised meanwhile; and in order of priority *)
(* a most urgent waiter is overtaken by nobody, not even by its equals, as *)
(* long as priorities stay.                                                *)
TakeReturns ==
    \A t \in Threads :
        /\ flag = "FIFO" /\ pc[t] = "wait" ~> pc[t] = "idle" \/ stray
        /\ flag = "PRIO" /\ ~shuffled /\ pc[t] = "wait" /\ prio[t] = Min(Prios) ~>
               pc[t] = "idle" \/ shuffled \/ stray
=============================================================================
