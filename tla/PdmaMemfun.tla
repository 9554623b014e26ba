---------------------------- MODULE PdmaMemfun ----------------------------
(***************************************************************************)
(* The memory-to-memory service of the PDMA driver (drv_pdma.c): a pool of *)
(* "actors", each owning one PDMA channel, shared by every thread that     *)
(* calls nu_pdma_memcpy or nu_pdma_mempush, and the interrupt handler that *)
(* tells a waiting thread that its channel has finished.                   *)
(*                                                                         *)
(* Threads run on two CPUs, so every access of nu_pdma_memfun_actor_mask   *)
(* outside the pool lock would race; the read-modify-writes of the mask    *)
(* are therefore a load and a store.  The handler reads INTSTS, ABTSTS and *)
(* TDSTS one after the other while the channels keep running.              *)
(*                                                                         *)
(* A semaphore is its value here (RtSem shows what rt_sem_take and         *)
(* rt_sem_release promise), the pool mutex its owner.                      *)
(***************************************************************************)
EXTENDS Integers, FiniteSets

CONSTANTS
    Threads,     \* callers of nu_pdma_memfun
    NumActors,   \* nu_pdma_memfun_actor_maxnum, at most NU_PDMA_MEMFUN_ACTOR_MAX
    Periph,      \* channels of the same PDMA module given to peripherals
    IdleTimed,   \* those started with a non-zero idle timeout (UART RX)
    Aborts,      \* TRUE when the bus may answer with a target abort
    Counts,      \* numbers of units asked for; 0 stands for a refused request
    MaxTxCnt,    \* NU_PDMA_MAX_TXCNT: units of one descriptor
    NoThread     \* the pool lock has no owner

Actors == 0 .. NumActors - 1
Channels == Actors \cup Periph

ASSUME PoolAssumption ==
    /\ IsFiniteSet(Threads)
    /\ NoThread \notin Threads
    /\ NumActors \in Nat \ {0}
    /\ Periph \subseteq Nat /\ Periph \cap Actors = {}
    /\ IdleTimed \subseteq Periph
    /\ Aborts \in BOOLEAN
    /\ Counts \subseteq Nat /\ MaxTxCnt \in Nat \ {0}

VARIABLES
    pc,        \* where each thread is in nu_pdma_memfun
    req,       \* u32TransferCnt of its call
    act,       \* idx: its actor, or -1
    shadow,    \* the mask it loaded for a read-modify-write
    ret,       \* the count the call will return
    mask,      \* nu_pdma_memfun_actor_mask: the bits that are 1
    poolSem,   \* value of nu_pdma_memfun_actor_pool_sem
    poolLock,  \* owner of nu_pdma_memfun_actor_pool_lock
    memSem,    \* value of each actor's m_psSemMemFun
    result,    \* each actor's m_u32Result
    handler,   \* channels whose m_sCB_Event is registered
    chan,      \* the hardware channel of each actor
    total, moved,               \* units it was started with, units it has moved
    abt, td, reqto,             \* ABTSTS, TDSTS and the REQTOFn bits of INTSTS
    isr, isrInt, isrAbt, isrTodo  \* nu_pdma_isr: its place and its locals

thread == <<pc, req, act, shadow, ret>>
pool == <<mask, poolSem, poolLock>>
engine == <<chan, total, moved>>
flags == <<abt, td, reqto>>
isrv == <<isr, isrInt, isrAbt, isrTodo>>
vars == <<thread, pool, memSem, result, handler, engine, flags, isrv>>

Sites == {"idle", "employ", "employLock", "find", "setBit", "employUnlock",
          "setup", "trigger", "wait", "collect",
          "fireLock", "load", "clearBit", "fireUnlock", "poolRelease"}
Events == {"ABORT", "TRANSFER_DONE"}

(* nu_pdma_memfun_actor_init: every bit of the mask above the actors is 1, *)
(* the pool semaphore starts at the number of actors, each actor's at 0.   *)
Init ==
    /\ pc = [t \in Threads |-> "idle"]
    /\ req \in [Threads -> Counts]
    /\ act = [t \in Threads |-> -1]
    /\ shadow = [t \in Threads |-> {}]
    /\ ret = [t \in Threads |-> 0]
    /\ mask = {}
    /\ poolSem = NumActors
    /\ poolLock = NoThread
    /\ memSem = [a \in Actors |-> 0]
    /\ result = [a \in Actors |-> {}]
    /\ handler = {}
    /\ chan = [a \in Actors |-> "idle"]
    /\ total = [a \in Actors |-> 0] /\ moved = [a \in Actors |-> 0]
    /\ abt = {} /\ td = {} /\ reqto = {}
    /\ isr = "off" /\ isrInt = {} /\ isrAbt = {} /\ isrTodo = <<{}, {}>>

Goto(t, to) == pc' = [pc EXCEPT ![t] = to]

-----------------------------------------------------------------------------
(* nu_pdma_memfun and nu_pdma_memfun_employ, in a thread.                  *)

Call(t) ==
    /\ pc[t] = "idle"
    /\ \E n \in Counts : req' = [req EXCEPT ![t] = n]
    /\ Goto(t, "employ")
    /\ UNCHANGED <<act, shadow, ret, pool, memSem, result, handler, engine, flags, isrv>>

(* Mutation: the result of rt_sem_take is not waited for. *)
EmployTakeNoWait(t) ==
    /\ pc[t] = "employ"
    /\ poolSem' = poolSem - 1
    /\ Goto(t, "employLock")
    /\ UNCHANGED <<req, act, shadow, ret, mask, poolLock, memSem, result, handler,
                   engine, flags, isrv>>

(* rt_sem_take(pool_sem, RT_WAITING_FOREVER) *)
EmployTake(t) ==
    /\ pc[t] = "employ"
    /\ poolSem > 0
    /\ poolSem' = poolSem - 1
    /\ Goto(t, "employLock")
    /\ UNCHANGED <<req, act, shadow, ret, mask, poolLock, memSem, result, handler,
                   engine, flags, isrv>>

(* Mutation: the pool lock is not waited for. *)
LockNoWait(t, from, to) ==
    /\ pc[t] = from
    /\ poolLock' = t
    /\ Goto(t, to)
    /\ UNCHANGED <<req, act, shadow, ret, mask, poolSem, memSem, result, handler,
                   engine, flags, isrv>>

(* rt_mutex_take(pool_lock, RT_WAITING_FOREVER), before employing and before firing *)
Lock(t, from, to) ==
    /\ pc[t] = from
    /\ poolLock = NoThread
    /\ poolLock' = t
    /\ Goto(t, to)
    /\ UNCHANGED <<req, act, shadow, ret, mask, poolSem, memSem, result, handler,
                   engine, flags, isrv>>

EmployLock(t) == Lock(t, "employLock", "find")

(* nu_cto: the position of the first 0 of the mask *)
FirstFree(a, m) == a \in Actors \ m /\ \A b \in Actors \ m : a <= b

EmployFind(t) ==
    /\ pc[t] = "find"
    /\ \/ \E a \in Actors : FirstFree(a, mask) /\ act' = [act EXCEPT ![t] = a]
       \/ Actors \subseteq mask /\ act' = [act EXCEPT ![t] = -1]
    /\ shadow' = [shadow EXCEPT ![t] = mask]
    /\ Goto(t, "setBit")
    /\ UNCHANGED <<req, ret, pool, memSem, result, handler, engine, flags, isrv>>

EmploySet(t) ==
    /\ pc[t] = "setBit"
    /\ mask' = IF act[t] = -1 THEN mask ELSE shadow[t] \cup {act[t]}
    /\ shadow' = [shadow EXCEPT ![t] = {}]
    /\ Goto(t, "employUnlock")
    /\ UNCHANGED <<req, act, ret, poolSem, poolLock, memSem, result, handler,
                   engine, flags, isrv>>

(* rt_mutex_release, RT_ASSERT(result == RT_EOK): only the owner may release *)
Unlock(t, from, to) ==
    /\ pc[t] = from
    /\ poolLock = t
    /\ poolLock' = NoThread
    /\ Goto(t, to)
    /\ UNCHANGED <<req, act, shadow, ret, mask, poolSem, memSem, result, handler,
                   engine, flags, isrv>>

(* while ((idx = nu_pdma_memfun_employ()) < 0); the token taken stays taken *)
EmployUnlock(t) ==
    Unlock(t, "employUnlock", IF act[t] = -1 THEN "employ" ELSE "setup")

(* memctrl, filter and callback of the channel, then m_u32Result = 0 *)
Setup(t) ==
    /\ pc[t] = "setup"
    /\ handler' = handler \cup {act[t]}
    /\ result' = [result EXCEPT ![act[t]] = {}]
    /\ Goto(t, "trigger")
    /\ UNCHANGED <<req, act, shadow, ret, pool, memSem, engine, flags, isrv>>

(* nu_pdma_transfer: its error is not looked at, the thread waits anyway.  *)
(* It refuses a count of 0, and nu_pdma_desc_setup a misaligned address.   *)
Trigger(t) ==
    /\ pc[t] = "trigger"
    /\ IF req[t] = 0 THEN UNCHANGED engine
       ELSE /\ chan' = [chan EXCEPT ![act[t]] = "busy"]
            /\ total' = [total EXCEPT ![act[t]] = req[t]]
            /\ moved' = [moved EXCEPT ![act[t]] = 0]
    /\ Goto(t, "wait")
    /\ UNCHANGED <<req, act, shadow, ret, pool, memSem, result, handler, flags, isrv>>

(* rt_sem_take(m_psSemMemFun, RT_WAITING_FOREVER) *)
WaitTake(t) ==
    /\ pc[t] = "wait"
    /\ memSem[act[t]] > 0
    /\ memSem' = [memSem EXCEPT ![act[t]] = @ - 1]
    /\ Goto(t, "collect")
    /\ UNCHANGED <<req, act, shadow, ret, pool, result, handler, engine, flags, isrv>>

(* What the engine moves of n units: above one descriptor a multiple of    *)
(* MaxTxCnt gets a last descriptor of 0 units, which wraps (PdmaChannel).  *)
Planned(n) == IF n > MaxTxCnt /\ n % MaxTxCnt = 0 THEN n + MaxTxCnt ELSE n

(* Mutation: the count read is taken for the number of units. *)
NonTransferCountField(n, m) ==
    IF m = Planned(n) THEN 0
    ELSE (IF n > MaxTxCnt /\ m < (n \div MaxTxCnt) * MaxTxCnt
          THEN MaxTxCnt - (m % MaxTxCnt)
          ELSE Planned(n) - m) - 1

(* nu_pdma_non_transfer_count_get when m of n units are moved: the field   *)
(* counts the units of the descriptor at hand, less one, down to 0.        *)
NonTransferCount(n, m) ==
    IF m = Planned(n) THEN 1
    ELSE IF n > MaxTxCnt /\ m < (n \div MaxTxCnt) * MaxTxCnt
         THEN MaxTxCnt - (m % MaxTxCnt)
         ELSE Planned(n) - m

(* The field is read of an engine that may still run.  (A negative number  *)
(* is a rt_size_t that wrapped around.)                                    *)
Moving(a) == IF chan[a] = "busy" THEN moved[a] .. Planned(total[a]) ELSE {moved[a]}

(* The count to report; an aborted channel is terminated *)
Collect(t) ==
    /\ pc[t] = "collect"
    /\ \/ /\ "TRANSFER_DONE" \in result[act[t]]
          /\ ret' = [ret EXCEPT ![t] = req[t]]
       \/ /\ "TRANSFER_DONE" \notin result[act[t]]
          /\ \E m \in Moving(act[t]) :
                ret' = [ret EXCEPT ![t] = req[t] - NonTransferCount(total[act[t]], m)]
    /\ chan' = IF "ABORT" \in result[act[t]]
               THEN [chan EXCEPT ![act[t]] = "idle"] ELSE chan
    /\ Goto(t, "fireLock")
    /\ UNCHANGED <<req, act, shadow, pool, memSem, result, handler, total, moved, flags, isrv>>

FireLock(t) == Lock(t, "fireLock", "load")

FireLoad(t) ==
    /\ pc[t] = "load"
    /\ shadow' = [shadow EXCEPT ![t] = mask]
    /\ Goto(t, "clearBit")
    /\ UNCHANGED <<req, act, ret, pool, memSem, result, handler, engine, flags, isrv>>

FireClear(t) ==
    /\ pc[t] = "clearBit"
    /\ mask' = shadow[t] \ {act[t]}
    /\ act' = [act EXCEPT ![t] = -1]
    /\ shadow' = [shadow EXCEPT ![t] = {}]
    /\ Goto(t, "fireUnlock")
    /\ UNCHANGED <<req, ret, poolSem, poolLock, memSem, result, handler,
                   engine, flags, isrv>>

FireUnlock(t) == Unlock(t, "fireUnlock", "poolRelease")

(* Mutation: the token is not given back. *)
PoolReleaseForgotten(t) ==
    /\ pc[t] = "poolRelease"
    /\ ret' = [ret EXCEPT ![t] = 0]
    /\ Goto(t, "idle")
    /\ UNCHANGED <<req, act, shadow, pool, memSem, result, handler, engine,
                   flags, isrv>>

(* Mutation: the token is given back twice. *)
PoolReleaseTwice(t) ==
    /\ pc[t] = "poolRelease"
    /\ poolSem' = poolSem + 2
    /\ ret' = [ret EXCEPT ![t] = 0]
    /\ Goto(t, "idle")
    /\ UNCHANGED <<req, act, shadow, mask, poolLock, memSem, result, handler,
                   engine, flags, isrv>>

(* rt_sem_release(pool_sem), then the call returns *)
PoolRelease(t) ==
    /\ pc[t] = "poolRelease"
    /\ poolSem' = poolSem + 1
    /\ ret' = [ret EXCEPT ![t] = 0]
    /\ Goto(t, "idle")
    /\ UNCHANGED <<req, act, shadow, mask, poolLock, memSem, result, handler,
                   engine, flags, isrv>>

-----------------------------------------------------------------------------
(* The PDMA hardware: a channel that runs finishes or is aborted, and the  *)
(* channels of peripherals finish or time out at any moment.               *)

HwDone(a) ==
    /\ chan[a] = "busy"
    /\ chan' = [chan EXCEPT ![a] = "done"]
    /\ moved' = [moved EXCEPT ![a] = Planned(total[a])]
    /\ td' = td \cup {a}
    /\ UNCHANGED <<total, thread, pool, memSem, result, handler, abt, reqto, isrv>>

HwAbort(a) ==
    /\ Aborts
    /\ chan[a] = "busy"
    /\ chan' = [chan EXCEPT ![a] = "aborted"]
    /\ \E m \in 0 .. Planned(total[a]) - 1 : moved' = [moved EXCEPT ![a] = m]
    /\ abt' = abt \cup {a}
    /\ UNCHANGED <<total, thread, pool, memSem, result, handler, td, reqto, isrv>>

HwPeriphDone(p) ==
    /\ p \notin td
    /\ td' = td \cup {p}
    /\ UNCHANGED <<thread, pool, memSem, result, handler, engine, abt, reqto, isrv>>

HwPeriphTimeout(p) ==
    /\ p \in IdleTimed
    /\ p \notin reqto
    /\ reqto' = reqto \cup {p}
    /\ UNCHANGED <<thread, pool, memSem, result, handler, engine, abt, td, isrv>>

-----------------------------------------------------------------------------
(* nu_pdma_isr.  INTSTS says which kinds of flag are up and which channels *)
(* timed out; ABTSTS and TDSTS are read after it.                          *)

IsrEnter ==
    /\ isr = "off"
    /\ abt \cup td \cup reqto # {}
    /\ isr' = "abtsts"
    /\ isrInt' = (IF abt # {} THEN {"ABTIF"} ELSE {}) \cup
                 (IF td # {} THEN {"TDIF"} ELSE {}) \cup
                 (IF reqto # {} THEN {"REQTOF"} ELSE {})
    /\ isrTodo' = <<reqto, {}>>
    /\ UNCHANGED <<thread, pool, memSem, result, handler, engine, flags, isrAbt>>

IsrReadAbt ==
    /\ isr = "abtsts"
    /\ isrAbt' = abt
    /\ isr' = "tdsts"
    /\ UNCHANGED <<thread, pool, memSem, result, handler, engine, flags, isrInt, isrTodo>>

(* Mutation: the transfer done flags are not cleared. *)
IsrReadTdNotCleared ==
    /\ isr = "tdsts"
    /\ isrTodo' = <<isrTodo[1] \cup isrAbt \cup td, td>>
    /\ abt' = IF "ABTIF" \in isrInt THEN abt \ isrAbt ELSE abt
    /\ reqto' = IF "REQTOF" \in isrInt THEN reqto \ isrTodo[1] ELSE reqto
    /\ isr' = "serve"
    /\ UNCHANGED <<thread, pool, memSem, result, handler, engine, td, isrInt, isrAbt>>

(* Reads TDSTS, then clears what INTSTS announced and was read.  The clears *)
(* write 1 to the bits read, so they commute with flags raised meanwhile.   *)
IsrReadTd ==
    /\ isr = "tdsts"
    /\ isrTodo' = <<isrTodo[1] \cup isrAbt \cup td, td>>
    /\ abt' = IF "ABTIF" \in isrInt THEN abt \ isrAbt ELSE abt
    /\ td' = IF "TDIF" \in isrInt THEN {} ELSE td
    /\ reqto' = IF "REQTOF" \in isrInt THEN reqto \ isrTodo[1] ELSE reqto
    /\ isr' = "serve"
    /\ UNCHANGED <<thread, pool, memSem, result, handler, engine, isrInt, isrAbt>>

ChannelEvents(c) ==
    (IF c \in isrAbt THEN {"ABORT"} ELSE {}) \cup
    (IF c \in isrTodo[2] THEN {"TRANSFER_DONE"} ELSE {})

(* One turn of the loop over the channels, lowest first (nu_ctz).  An actor's *)
(* callback is nu_pdma_memfun_cb and its filter passes both events; what a    *)
(* peripheral's callback does stays in its own driver.                        *)
IsrServe(c) ==
    /\ isr = "serve"
    /\ c \in isrTodo[1] /\ \A d \in isrTodo[1] : c <= d
    /\ isrTodo' = <<isrTodo[1] \ {c}, isrTodo[2]>>
    /\ IF c \in Actors /\ c \in handler /\ ChannelEvents(c) # {}
       THEN /\ result' = [result EXCEPT ![c] = ChannelEvents(c)]
            /\ memSem' = [memSem EXCEPT ![c] = @ + 1]
       ELSE UNCHANGED <<result, memSem>>
    /\ UNCHANGED <<thread, pool, handler, engine, flags, isr, isrInt, isrAbt>>

IsrExit ==
    /\ isr = "serve"
    /\ isrTodo[1] = {}
    /\ isr' = "off" /\ isrInt' = {} /\ isrAbt' = {} /\ isrTodo' = <<{}, {}>>
    /\ UNCHANGED <<thread, pool, memSem, result, handler, engine, flags>>

-----------------------------------------------------------------------------
Employ(t) == \/ EmployTake(t) \/ EmployLock(t) \/ EmployFind(t)
             \/ EmploySet(t) \/ EmployUnlock(t)
Transfer(t) == Setup(t) \/ Trigger(t) \/ WaitTake(t) \/ Collect(t)
Fire(t) == \/ FireLock(t) \/ FireLoad(t) \/ FireClear(t)
           \/ FireUnlock(t) \/ PoolRelease(t)
Memfun(t) == Employ(t) \/ Transfer(t) \/ Fire(t)

Hardware ==
    \/ \E a \in Actors : HwDone(a) \/ HwAbort(a)
    \/ \E p \in Periph : HwPeriphDone(p) \/ HwPeriphTimeout(p)

Isr ==
    \/ IsrEnter \/ IsrReadAbt \/ IsrReadTd \/ IsrExit
    \/ \E c \in Channels : IsrServe(c)

Next ==
    \/ \E t \in Threads : Call(t) \/ Memfun(t)
    \/ Hardware
    \/ Isr

Spec == Init /\ [][Next]_vars

(* Threads in the service are scheduled, a started channel ends, a pending *)
(* interrupt is taken; the wait queues of the pool semaphore and the pool  *)
(* lock hand over to a waiter instead of letting the releaser retake.      *)
Fairness ==
    /\ \A t \in Threads : /\ WF_vars(Memfun(t))
                          /\ SF_vars(EmployTake(t))
                          /\ SF_vars(EmployLock(t))
                          /\ SF_vars(FireLock(t))
    /\ \A a \in Actors : WF_vars(HwDone(a) \/ HwAbort(a))
    /\ WF_vars(Isr)

FairSpec == Spec /\ Fairness

-----------------------------------------------------------------------------
(* Properties. *)

TypeOK ==
    /\ pc \in [Threads -> Sites]
    /\ req \in [Threads -> Counts]
    /\ act \in [Threads -> Actors \cup {-1}]
    /\ shadow \in [Threads -> SUBSET Actors]
    /\ ret \in [Threads -> Int]
    /\ mask \in SUBSET Actors
    /\ poolSem \in Nat
    /\ poolLock \in Threads \cup {NoThread}
    /\ memSem \in [Actors -> Nat]
    /\ result \in [Actors -> SUBSET Events]
    /\ handler \in SUBSET Actors
    /\ chan \in [Actors -> {"idle", "busy", "done", "aborted"}]
    /\ total \in [Actors -> Nat] /\ moved \in [Actors -> Nat]
    /\ abt \in SUBSET Channels /\ td \in SUBSET Channels /\ reqto \in SUBSET Channels
    /\ isr \in {"off", "abtsts", "tdsts", "serve"}
    /\ isrInt \in SUBSET {"ABTIF", "TDIF", "REQTOF"}
    /\ isrAbt \in SUBSET Channels
    /\ isrTodo \in (SUBSET Channels) \X (SUBSET Channels)

(* Threads that own the actor act[t]: from the store that sets its bit to  *)
(* the store that clears it.                                               *)
Owning == {"employUnlock", "setup", "trigger", "wait", "collect",
           "fireLock", "load", "clearBit"}
Owner(t) == pc[t] \in Owning /\ act[t] # -1

(* Two calls of nu_pdma_memfun never drive the same channel: the actor a   *)
(* thread employed is its own until it fires it.                           *)
ActorExclusive ==
    \A t, u \in Threads : Owner(t) /\ Owner(u) /\ act[t] = act[u] => t = u

(* A thread that took a token of the pool semaphore finds a free actor:    *)
(* nu_cto never answers 32, so nu_pdma_memfun_employ never returns -1 and  *)
(* the caller's retry loop never swallows a token.                         *)
EmployFindsActor ==
    \A t \in Threads : pc[t] \in {"setBit", "employUnlock"} => act[t] # -1

(* "Wait it done": when rt_sem_take of the actor's semaphore returns, the  *)
(* transfer this call started has ended.                                   *)
WaitItDone ==
    \A t \in Threads : pc[t] = "collect" => chan[act[t]] \in {"done", "aborted"}

(* A call reports the whole count only if its own transfer completed: the  *)
(* result word it reads was written for this transfer, not a previous one. *)
(* And what it reports of a transfer of one descriptor is what the channel *)
(* moved, aborted or not.  (An aborted chain is reported as if all its     *)
(* descriptors but the one at hand had been moved.)                        *)
TruthfulCount ==
    \A t \in Threads : pc[t] = "fireLock" =>
        /\ ret[t] = req[t] <=> chan[act[t]] = "done"
        /\ req[t] <= MaxTxCnt => ret[t] = moved[act[t]]

(* As long as no request is refused every call returns, aborted transfers  *)
(* included.  (After a refusal the caller keeps its actor for ever.)       *)
MemfunReturns ==
    [](\A t \in Threads : req[t] # 0) =>
        \A t \in Threads : pc[t] = "employ" ~> pc[t] = "idle"

=============================================================================
