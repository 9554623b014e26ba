------------------------------ MODULE RtMutex ------------------------------
(***************************************************************************)
(* The kernel mutex with priority inheritance (ipc.c) and what thread.c    *)
(* does to its waiters: timeouts, sleeping and deletion.                   *)
(*                                                                         *)
(* A step is what runs under rt_hw_interrupt_disable (rt_cpus_lock); a     *)
(* thread that has been resumed continues in a later step, after whatever  *)
(* the other core did meanwhile.  The priority part of the state that      *)
(* _thread_update_priority walks through is passed along as a record.      *)
(***************************************************************************)
EXTENDS Integers, Sequences, FiniteSets, IpcList

CONSTANTS
    Threads, Mutexes,
    InitPrio,    \* [Threads -> 0 .. NoPrio - 1], thread->init_priority
    NoPrio,      \* 0xff: no waiter, or no ceiling
    HoldMax,     \* RT_MUTEX_HOLD_MAX
    Setups,      \* the systems the mutexes are used in
    NoThread, NoMutex

(* What is fixed when a system is built and started *)
Setup == [ceiling : [Mutexes -> 0 .. NoPrio],  \* set by rt_mutex_setprioceiling
          timed : BOOLEAN,    \* is rt_mutex_take called with a timeout
          nested : BOOLEAN,   \* may a thread wait for a mutex while it owns one
          sleeps : BOOLEAN,   \* do threads also block elsewhere (rt_thread_delay)
          deletes : BOOLEAN,  \* may threads be deleted
          debug : BOOLEAN]    \* RT_DEBUG: RT_ASSERT is compiled in

ASSUME MutexAssumption ==
    /\ IsFiniteSet(Threads)
    /\ NoThread \notin Threads /\ NoMutex \notin Mutexes
    /\ NoPrio \in Nat /\ HoldMax \in Nat \ {0}
    /\ InitPrio \in [Threads -> 0 .. NoPrio - 1]
    /\ Setups \subseteq Setup

VARIABLES
    setup,    \* one of Setups, never changed
    owner, hold, mprio, list,   \* of each mutex; mprio is mutex->priority
    prio,     \* thread->current_priority
    taken,    \* thread->taken_object_list
    pending,  \* thread->pending_object
    pc,       \* "run", "wait", "back" (resumed in rt_mutex_take), "sleep", "dead"
    error,    \* thread->error
    timer,    \* is thread_timer running
    fault     \* "none", "assert" or "null": why the kernel stopped

mutexv == <<owner, hold, mprio, list>>
threadv == <<prio, taken, pending, pc, error, timer>>
vars == <<setup, mutexv, threadv, fault>>

Init ==
    /\ setup \in Setups
    /\ owner = [m \in Mutexes |-> NoThread]
    /\ hold = [m \in Mutexes |-> 0]
    /\ mprio = [m \in Mutexes |-> NoPrio]
    /\ list = [m \in Mutexes |-> <<>>]
    /\ prio = InitPrio
    /\ taken = [t \in Threads |-> {}]
    /\ pending = [t \in Threads |-> NoMutex]
    /\ pc = [t \in Threads |-> "run"]
    /\ error = [t \in Threads |-> "EOK"]
    /\ timer = [t \in Threads |-> FALSE]
    /\ fault = "none"

-----------------------------------------------------------------------------
(* The kernel state that _thread_update_priority walks through; susp are   *)
(* the suspended threads, who is the thread whose priority becomes to.     *)
Kernel == [owner |-> owner, list |-> list, mprio |-> mprio, prio |-> prio,
           taken |-> taken, pending |-> pending, fault |-> "none",
           susp |-> {t \in Threads : pc[t] \in {"wait", "sleep"}},
           who |-> NoThread, to |-> NoPrio]

Apply(k) ==
    /\ owner' = k.owner /\ list' = k.list /\ mprio' = k.mprio /\ prio' = k.prio
    /\ taken' = k.taken /\ pending' = k.pending /\ fault' = k.fault

(* _mutex_update_priority: the urgency of the first waiter *)
MutexPrio(k, m) == IF k.list[m] = <<>> THEN NoPrio ELSE k.prio[Head(k.list[m])]

(* _thread_get_mutex_priority *)
ThreadPrio(k, t) == Min({InitPrio[t]} \cup {k.mprio[m] : m \in k.taken[t]})

(* Mutation: the priority is passed on, but the thread keeps its place. *)
RequeueInPlace(k, t) ==
    LET m == k.pending[t]
        r == [k EXCEPT !.mprio[m] = MutexPrio(k, m)]
        o == r.owner[m]
    IN  IF setup.debug THEN [k EXCEPT !.fault = "assert"]
        ELSE IF o = NoThread THEN [r EXCEPT !.fault = "null"]
        ELSE IF ThreadPrio(r, o) = r.prio[o] THEN r
        ELSE [r EXCEPT !.who = o, !.to = ThreadPrio(r, o)]

(* Re-inserts the suspended thread t and recomputes its mutex and the      *)
(* mutex's owner.  _ipc_list_suspend calls rt_thread_suspend, which        *)
(* asserts that the thread is the running one; this one is suspended.      *)
Requeue(k, t) ==
    LET m == k.pending[t]
        l == [k EXCEPT !.list[m] = ListInsert(ListRemove(@, t), t, k.prio, "PRIO")]
        r == [l EXCEPT !.mprio[m] = MutexPrio(l, m)]
        o == r.owner[m]
    IN  IF setup.debug THEN [k EXCEPT !.fault = "assert"]
        ELSE IF o = NoThread THEN [r EXCEPT !.fault = "null"]
        ELSE IF ThreadPrio(r, o) = r.prio[o] THEN r
        ELSE [r EXCEPT !.who = o, !.to = ThreadPrio(r, o)]

(* One level of _thread_update_priority *)
UpdateLevel(k) ==
    LET t == k.who
        r == [k EXCEPT !.prio[t] = k.to, !.who = NoThread]
    IN  IF t = NoThread THEN k
        ELSE IF t \in k.susp /\ k.pending[t] # NoMutex THEN Requeue(r, t)
        ELSE r

(* _thread_update_priority.  Every level of the recursion moves one more   *)
(* thread of the chain of owners, so there are at most as many as threads. *)
UpdatePriority(k, t, p) ==
    LET level[n \in 0 .. Cardinality(Threads)] ==
            IF n = 0 THEN [k EXCEPT !.who = t, !.to = p] ELSE UpdateLevel(level[n-1])
    IN  level[Cardinality(Threads)]

-----------------------------------------------------------------------------
(* Mutation: the hold count may pass its maximum. *)
TakeAgainNoMax(t, m) ==
    /\ pc[t] = "run"
    /\ owner[m] = t
    /\ hold' = [hold EXCEPT ![m] = @ + 1]
    /\ error' = [error EXCEPT ![t] = "EOK"]
    /\ UNCHANGED <<owner, mprio, list, prio, taken, pending, pc, timer, fault>>

(* rt_mutex_take by the owner; at RT_MUTEX_HOLD_MAX it is -RT_EFULL *)
TakeAgain(t, m) ==
    /\ pc[t] = "run"
    /\ owner[m] = t
    /\ hold[m] < HoldMax
    /\ hold' = [hold EXCEPT ![m] = @ + 1]
    /\ error' = [error EXCEPT ![t] = "EOK"]
    /\ UNCHANGED <<owner, mprio, list, prio, taken, pending, pc, timer, fault>>

(* rt_mutex_take of a free mutex: a mutex with a ceiling raises its owner  *)
(* and is not put on the taken list                                        *)
TakeFree(t, m) ==
    /\ pc[t] = "run"
    /\ owner[m] = NoThread
    /\ hold' = [hold EXCEPT ![m] = 1]
    /\ error' = [error EXCEPT ![t] = "EOK"]
    /\ LET k == [Kernel EXCEPT !.owner[m] = t, !.mprio[m] = NoPrio] IN
       Apply(IF setup.ceiling[m] = NoPrio THEN [k EXCEPT !.taken[t] = @ \cup {m}]
             ELSE IF setup.ceiling[m] < prio[t] THEN UpdatePriority(k, t, setup.ceiling[m])
             ELSE k)
    /\ UNCHANGED <<pc, timer>>

(* Mutation: the owner is not raised to its waiter's priority. *)
InheritMutexOnly(k, t, m) ==
    IF prio[t] < mprio[m] THEN [k EXCEPT !.mprio[m] = prio[t]] ELSE k

(* The waiter t raises the mutex and, through it, the owner *)
Inherit(k, t, m) ==
    IF prio[t] >= mprio[m] THEN k
    ELSE LET r == [k EXCEPT !.mprio[m] = prio[t]] IN
         IF prio[t] < prio[owner[m]] THEN UpdatePriority(r, owner[m], prio[t]) ELSE r

(* rt_mutex_take of a mutex another thread owns, up to rt_schedule; with a *)
(* timeout of 0 it is -RT_ETIMEOUT instead                                 *)
TakeWait(t, m) ==
    /\ pc[t] = "run"
    /\ owner[m] \notin {t, NoThread}
    /\ setup.nested \/ \A n \in Mutexes : owner[n] # t
    /\ error' = [error EXCEPT ![t] = "EOK"]
    /\ pc' = [pc EXCEPT ![t] = "wait"]
    /\ \E ticks \in {FALSE, setup.timed} : timer' = [timer EXCEPT ![t] = ticks]
    /\ Apply(Inherit([Kernel EXCEPT !.list[m] = ListInsert(@, t, prio, "PRIO"),
                                    !.pending[t] = m, !.susp = @ \cup {t}], t, m))
    /\ UNCHANGED hold

(* Mutation: the thread stays on the list of the mutex. *)
TimeoutStaysListed(t) ==
    /\ timer[t]
    /\ timer' = [timer EXCEPT ![t] = FALSE]
    /\ error' = [error EXCEPT ![t] = "ETIMEOUT"]
    /\ pc' = [pc EXCEPT ![t] = "back"]
    /\ UNCHANGED <<owner, hold, mprio, list, prio, taken, pending, fault>>

(* _thread_timeout: the thread leaves the list, pending_object stays *)
Timeout(t) ==
    /\ timer[t]
    /\ timer' = [timer EXCEPT ![t] = FALSE]
    /\ error' = [error EXCEPT ![t] = "ETIMEOUT"]
    /\ list' = [list EXCEPT ![pending[t]] = ListRemove(@, t)]
    /\ pc' = [pc EXCEPT ![t] = "back"]
    /\ UNCHANGED <<owner, hold, mprio, prio, taken, pending, fault>>

(* rt_mutex_take after rt_schedule: the mutex was handed over *)
TakeGot(t) ==
    /\ pc[t] = "back"
    /\ error[t] = "EOK"
    /\ pc' = [pc EXCEPT ![t] = "run"]
    /\ UNCHANGED <<mutexv, prio, taken, pending, error, timer, fault>>

(* Mutation: the owner keeps the priority it inherited. *)
WaiterGoneKeepsBoost(k, t, m) == [k EXCEPT !.mprio[m] = MutexPrio(k, m)]

(* t waits for m no longer: mutex and owner fall back to what the waiters  *)
(* left over need.  mutex->owner is read without asking whether there is   *)
(* an owner.                                                               *)
WaiterGone(k, t, m) ==
    LET o == k.owner[m]
        r == [k EXCEPT !.mprio[m] = MutexPrio(k, m)]
    IN  IF o = NoThread THEN [k EXCEPT !.fault = "null"]
        ELSE IF k.prio[o] = k.prio[t] /\ ThreadPrio(r, o) # r.prio[o]
             THEN UpdatePriority(r, o, ThreadPrio(r, o))
             ELSE r

(* rt_mutex_take after rt_schedule: the wait ended with an error *)
TakeFailed(t) ==
    /\ pc[t] = "back"
    /\ error[t] # "EOK"
    /\ pc' = [pc EXCEPT ![t] = "run"]
    /\ Apply(WaiterGone(Kernel, t, pending[t]))
    /\ UNCHANGED <<hold, error, timer>>

(* rt_mutex_release that leaves the mutex held *)
ReleaseOne(t, m) ==
    /\ pc[t] = "run"
    /\ owner[m] = t
    /\ hold[m] > 1
    /\ hold' = [hold EXCEPT ![m] = @ - 1]
    /\ UNCHANGED <<owner, mprio, list, threadv, fault>>

(* The releaser t gives back what it inherited through m *)
Disinherit(k, t, m) ==
    IF setup.ceiling[m] # NoPrio \/ k.prio[t] = k.mprio[m]
    THEN [k EXCEPT !.prio[t] = ThreadPrio(k, t)]
    ELSE k

(* The last rt_mutex_release, nobody waiting *)
ReleaseFree(t, m) ==
    /\ pc[t] = "run"
    /\ owner[m] = t
    /\ hold[m] = 1
    /\ list[m] = <<>>
    /\ hold' = [hold EXCEPT ![m] = 0]
    /\ LET k == Disinherit([Kernel EXCEPT !.taken[t] = @ \ {m}], t, m)
       IN  Apply([k EXCEPT !.owner[m] = NoThread, !.mprio[m] = NoPrio])
    /\ UNCHANGED <<pc, error, timer>>

(* The last rt_mutex_release: the first waiter becomes the owner *)
ReleaseHandOver(t, m) ==
    /\ pc[t] = "run"
    /\ owner[m] = t
    /\ hold[m] = 1
    /\ list[m] # <<>>
    /\ LET next == Head(list[m])
           k == Disinherit([Kernel EXCEPT !.taken[t] = @ \ {m}], t, m)
           l == [k EXCEPT !.list[m] = Tail(@), !.owner[m] = next,
                          !.taken[next] = @ \cup {m}, !.pending[next] = NoMutex]
       IN  /\ Apply([l EXCEPT !.mprio[m] = MutexPrio(l, m)])
           /\ pc' = [pc EXCEPT ![next] = "back"]
           /\ timer' = [timer EXCEPT ![next] = FALSE]
    /\ UNCHANGED <<hold, error>>

(* rt_thread_sleep and its end: suspended, but on no mutex *)
Sleep(t) ==
    /\ setup.sleeps /\ pc[t] = "run"
    /\ pc' = [pc EXCEPT ![t] = "sleep"]
    /\ error' = [error EXCEPT ![t] = "EOK"]
    /\ UNCHANGED <<mutexv, prio, taken, pending, timer, fault>>

Wake(t) ==
    /\ pc[t] = "sleep"
    /\ pc' = [pc EXCEPT ![t] = "run"]
    /\ UNCHANGED <<mutexv, prio, taken, pending, error, timer, fault>>

(* rt_thread_delete, with rt_mutex_drop_thread for a pending mutex; the    *)
(* mutexes the thread owns stay its own                                    *)
Delete(t) ==
    /\ setup.deletes /\ pc[t] # "dead"
    /\ pc' = [pc EXCEPT ![t] = "dead"]
    /\ timer' = [timer EXCEPT ![t] = FALSE]
    /\ LET m == pending[t]
           k == [Kernel EXCEPT !.susp = @ \ {t}]
       IN  Apply(IF m = NoMutex THEN k
                 ELSE [WaiterGone([k EXCEPT !.list[m] = ListRemove(@, t)], t, m)
                          EXCEPT !.pending[t] = NoMutex])
    /\ UNCHANGED <<hold, error>>

(* A kernel that asserted or read through a null pointer goes no further. *)
Next ==
    /\ fault = "none"
    /\ UNCHANGED setup
    /\ \/ \E t \in Threads, m \in Mutexes :
            \/ TakeAgain(t, m) \/ TakeFree(t, m) \/ TakeWait(t, m)
            \/ ReleaseOne(t, m) \/ ReleaseFree(t, m) \/ ReleaseHandOver(t, m)
       \/ \E t \in Threads :
            \/ Timeout(t) \/ TakeGot(t) \/ TakeFailed(t)
            \/ Sleep(t) \/ Wake(t) \/ Delete(t)

Spec == Init /\ [][Next]_vars

-----------------------------------------------------------------------------
TypeOK ==
    /\ setup \in Setup
    /\ owner \in [Mutexes -> Threads \cup {NoThread}]
    /\ hold \in [Mutexes -> 0 .. HoldMax]
    /\ mprio \in [Mutexes -> 0 .. NoPrio]
    /\ list \in [Mutexes -> Seq(Threads)]
    /\ prio \in [Threads -> 0 .. NoPrio - 1]
    /\ taken \in [Threads -> SUBSET Mutexes]
    /\ pending \in [Threads -> Mutexes \cup {NoMutex}]
    /\ pc \in [Threads -> {"run", "wait", "back", "sleep", "dead"}]
    /\ error \in [Threads -> {"EOK", "ETIMEOUT"}]
    /\ timer \in [Threads -> BOOLEAN]
    /\ fault \in {"none", "assert", "null"}

NoCeiling == \A m \in Mutexes : setup.ceiling[m] = NoPrio

Owned(t) == {m \in Mutexes : owner[m] = t}

(* The suspended list of a mutex holds exactly the threads blocked on it,  *)
(* each once, and nobody is blocked on a mutex without an owner (who would *)
(* wake it?).                                                              *)
WaitersListed ==
    \A m \in Mutexes :
        /\ \A t \in Threads : t \in ToSet(list[m]) <=> pc[t] = "wait" /\ pending[t] = m
        /\ \A i, j \in DOMAIN list[m] : list[m][i] = list[m][j] => i = j
        /\ list[m] # <<>> => owner[m] # NoThread

(* The order in which a mutex is handed over is that of the priorities the *)
(* waiters have now, inherited ones included.                              *)
HandedToMostUrgent == \A m \in Mutexes : InPrioOrder(list[m], prio)

(* No unbounded priority inversion: the owner of a mutex is never less     *)
(* urgent than a thread that waits for it.  A mutex with a ceiling is left *)
(* out: rt_mutex_take does not put it on the owner's taken list, so its    *)
(* waiters are not counted when the owner's priority is computed anew.     *)
NoInversion ==
    \A m \in Mutexes, t \in Threads :
        setup.ceiling[m] = NoPrio /\ t \in ToSet(list[m]) => prio[owner[m]] <= prio[t]

(* Whatever a thread inherited goes back with the mutex it was inherited   *)
(* through, whichever way the waiter left: once no abandoned wait is left  *)
(* to be processed, a thread is exactly as urgent as itself and the        *)
(* waiters of its mutexes require.  Timeouts and ceilings are left out:     *)
(* with them a boost can stay behind.                                      *)
ExactInheritance ==
    ~setup.timed /\ NoCeiling /\ (\A u \in Threads : ~(pc[u] = "back" /\ error[u] # "EOK")) =>
        \A t \in Threads : pc[t] # "dead" => prio[t] =
            Min({InitPrio[t]} \cup {prio[u] : u \in
                    {v \in Threads : pc[v] = "wait" /\ pending[v] \in Owned(t)}})

(* rt_thread_suspend: RT_ASSERT(thread == rt_thread_self()) *)
SuspendsOnlyItself == fault # "assert"

(* rt_mutex_take: "should change the priority of mutex owner thread", so   *)
(* there is an owner when an abandoned wait is processed.                  *)
OwnerWhenWaitFails == fault # "null"
=============================================================================
