------------------------------ MODULE RtTimer ------------------------------
(***************************************************************************)
(* The kernel timers (timer.c): hard timers, whose callbacks the tick      *)
(* interrupt of either core runs, and soft timers, served by a thread that *)
(* sleeps on a hard timer of its own.  RT_TIMER_SKIP_LIST_LEVEL is 1, so a *)
(* list of timers is a plain ordered list.                                 *)
(*                                                                         *)
(* rt_hw_interrupt_disable is rt_cpus_lock: a locked region that runs no   *)
(* callback is one step, and lock says who holds it between the steps of   *)
(* a longer one.  Tick counts are modulo TickMod, as rt_tick_t is modulo   *)
(* 2^32; due is the time really left and is compared with what the code    *)
(* makes of the wrapped counts.  timeout_tick and due of a timer that is   *)
(* not running are never read and kept at 0.                               *)
(***************************************************************************)
EXTENDS Integers, Sequences, FiniteSets, SequencesExt

CONSTANTS
    Soft, Hard,  \* timers by RT_TIMER_FLAG_SOFT_TIMER
    Self,        \* thread_timer of the timer thread
    Periodic,    \* timers with RT_TIMER_FLAG_PERIODIC
    Times,       \* values of init_tick
    TickMod,     \* RT_TICK_MAX + 1
    LateMax,     \* how late a soft timer gets before the model stops the clock
    None

Half == (TickMod - 1) \div 2      \* RT_TICK_MAX / 2
Cores == {"cpu0", "cpu1"}
Timers == Soft \cup Hard \cup {Self}

ASSUME TimerAssumption ==
    /\ Soft \cap Hard = {} /\ Self \notin Soft \cup Hard
    /\ None \notin Timers /\ Periodic \subseteq Soft \cup Hard
    /\ TickMod \in Nat \ {0} /\ LateMax \in 0 .. Half - 1
    /\ Times \subseteq 1 .. Half - 1       \* RT_ASSERT(time < RT_TICK_MAX / 2), which
                                           \* 0 passes too: the caller must not use it

VARIABLES
    tick,            \* rt_cpu_index(0)->tick
    hard, soft,      \* _timer_list, _soft_timer_list
    active,          \* timers with RT_TIMER_FLAG_ACTIVATED
    init,            \* init_tick of the periodic timers
    timeout,         \* timeout_tick
    hserv, sserv,    \* the timer on the temporary list of each check
    lock,            \* "none", a core in rt_timer_check, or "thread"
    isr, now,        \* each core's tick interrupt and its current_tick
    thr, next,       \* the timer thread and its next_timeout
    due,             \* (history) ticks until a listed timer has to fire
    missed           \* (history) has a timer been started, or time passed,
                     \* between the thread's decision to sleep and its sleep

lists == <<hard, soft, active, timeout, hserv, sserv, due>>
vars == <<tick, lists, init, lock, isr, now, thr, next, missed>>

Init ==
    /\ tick \in 0 .. TickMod - 1
    /\ hard = <<>> /\ soft = <<>>
    /\ active = {}
    /\ init \in [Periodic -> Times]
    /\ timeout = [t \in Timers |-> 0]
    /\ hserv = None /\ sserv = None
    /\ lock = "none"
    /\ isr = [c \in Cores |-> "off"] /\ now = [c \in Cores |-> 0]
    /\ thr = "look" /\ next = 0
    /\ due = [t \in Timers |-> 0]
    /\ missed = FALSE

-----------------------------------------------------------------------------
Minus(a, b) == (a - b) % TickMod

Listed == ToSet(hard) \cup ToSet(soft)

Without(list, t) == RemoveFirst(list, t)

(* Mutation: timeouts are compared without regard to the wrap-around. *)
PositionNoWrap(list, at) ==
    LET i == SelectInSeq(list, LAMBDA t : timeout[t] > at)
    IN  IF i = 0 THEN Len(list) + 1 ELSE i

(* Before the first timer that is later; among equals the new one is last *)
Position(list, at) ==
    LET i == SelectInSeq(list, LAMBDA t :
                 timeout[t] # at /\ Minus(timeout[t], at) < Half)
    IN  IF i = 0 THEN Len(list) + 1 ELSE i

Insert(list, t, at) == InsertAt(list, Position(list, at), t)

(* A timer leaves every list and stops *)
Unlinked(t) ==
    /\ hard' = Without(hard, t) /\ soft' = Without(soft, t)
    /\ active' = active \ {t}
    /\ timeout' = [timeout EXCEPT ![t] = 0]
    /\ due' = [due EXCEPT ![t] = 0]
    /\ hserv' = IF hserv = t THEN None ELSE hserv
    /\ sserv' = IF sserv = t THEN None ELSE sserv

(* rt_timer_start of t, ticks from now: it leaves the list it is on; if it *)
(* wakes the timer thread, that thread's timer is stopped                  *)
Started(t, ticks, wakes) ==
    LET at == (tick + ticks) % TickMod
        gone == IF wakes THEN {t, Self} ELSE {t} IN
    /\ hard' = IF t \notin Soft THEN Insert(Without(hard, t), t, at)
               ELSE IF wakes THEN Without(hard, Self) ELSE hard
    /\ soft' = IF t \in Soft THEN Insert(Without(soft, t), t, at) ELSE soft
    /\ active' = (active \ gone) \cup {t}
    /\ timeout' = [u \in Timers |->
                     IF u = t THEN at ELSE IF u \in gone THEN 0 ELSE timeout[u]]
    /\ due' = [u \in Timers |->
                 IF u = t THEN ticks ELSE IF u \in gone THEN 0 ELSE due[u]]
    /\ hserv' = IF hserv \in gone THEN None ELSE hserv
    /\ sserv' = IF sserv \in gone THEN None ELSE sserv

-----------------------------------------------------------------------------
(* Calls from threads and from callbacks of soft timers, while nobody has  *)
(* the lock, and from the callback of a hard timer, which runs locked.     *)
MayCall == \/ lock = "none"
           \/ lock \in Cores /\ isr[lock] = "call" /\ hserv # Self

(* The time of a one-shot timer may be set anew before every start and is  *)
(* not read otherwise; a periodic one is started with its init_tick.       *)
StartTime(t, v) == t \in Periodic => v = init[t]

(* Mutation: the timer thread is not woken. *)
StartNoWake(t, v) ==
    /\ MayCall
    /\ StartTime(t, v)
    /\ Started(t, v, FALSE)
    /\ missed' = (missed \/ (t \in Soft /\ thr \in {"suspend", "delay", "sleep"}))
    /\ UNCHANGED <<tick, init, lock, isr, now, thr, next>>

(* Mutation: the timer thread is woken, but its own timer runs on. *)
StartTimerRuns(t, v) ==
    /\ MayCall
    /\ StartTime(t, v)
    /\ Started(t, v, FALSE)
    /\ thr' = IF t \in Soft /\ thr = "asleep" THEN "check" ELSE thr
    /\ missed' = (missed \/ (t \in Soft /\ thr \in {"suspend", "delay", "sleep"}))
    /\ UNCHANGED <<tick, init, lock, isr, now, next>>

(* rt_timer_start.  A soft timer wakes the timer thread, if it is          *)
(* suspended: _soft_timer_status is RT_SOFT_TIMER_IDLE whenever it is,     *)
(* callbacks of soft timers do not block.                                  *)
Start(t, v) ==
    /\ MayCall
    /\ StartTime(t, v)
    /\ LET wakes == t \in Soft /\ thr = "asleep" IN
       /\ Started(t, v, wakes)
       /\ thr' = IF wakes THEN "check" ELSE thr
    /\ missed' = (missed \/ (t \in Soft /\ thr \in {"suspend", "delay", "sleep"}))
    /\ UNCHANGED <<tick, init, lock, isr, now, next>>

(* rt_timer_stop reads the flag before it takes the lock, so a one-shot    *)
(* timer may meanwhile be on the temporary list                            *)
Stop(t) ==
    /\ MayCall
    /\ t \in active \cup {sserv}
    /\ Unlinked(t)
    /\ UNCHANGED <<tick, init, lock, isr, now, thr, next, missed>>

(* rt_timer_detach and rt_timer_delete; the timer may be initialized and   *)
(* started again                                                           *)
Detach(t) ==
    /\ MayCall
    /\ t \in active \cup {hserv, sserv}
    /\ Unlinked(t)
    /\ UNCHANGED <<tick, init, lock, isr, now, thr, next, missed>>

(* rt_timer_control(RT_TIMER_CTRL_SET_TIME) of a periodic timer *)
SetTime(t, v) ==
    /\ MayCall
    /\ t \in Periodic /\ v # init[t]
    /\ init' = [init EXCEPT ![t] = v]
    /\ UNCHANGED <<tick, lists, lock, isr, now, thr, next, missed>>

-----------------------------------------------------------------------------
(* The tick interrupt *)

(* The code "supposes that the new tick shall less than the half duration  *)
(* of tick max": a soft timer is served, the next timeout the timer thread *)
(* looked up is used, and the second core's check gets the lock, in time.  *)
InTime ==
    /\ \A i \in DOMAIN soft : due[soft[i]] > -LateMax
    /\ thr = "delay" => Minus(next, tick) < Half \/ Minus(tick, next) < LateMax
    /\ isr["cpu1"] = "lock" => Minus(tick, now["cpu1"]) < LateMax

(* Mutation: the tick counter has no wrap-around. *)
TickNoWrap ==
    /\ lock = "none" /\ isr["cpu0"] = "off"
    /\ InTime
    /\ tick' = tick + 1
    /\ due' = [t \in Timers |-> IF t \in Listed THEN due[t] - 1 ELSE due[t]]
    /\ isr' = [isr EXCEPT !["cpu0"] = "lock"]
    /\ now' = [now EXCEPT !["cpu0"] = tick']
    /\ missed' = (missed \/ thr = "sleep")
    /\ UNCHANGED <<hard, soft, active, timeout, hserv, sserv, init, lock, thr, next>>

(* rt_tick_increase and the start of rt_timer_check, which reads           *)
(* current_tick before it takes the lock; only the first core's tick is    *)
(* the system's                                                            *)
Tick ==
    /\ lock = "none" /\ isr["cpu0"] = "off"
    /\ InTime
    /\ tick' = (tick + 1) % TickMod
    /\ due' = [t \in Timers |-> IF t \in Listed THEN due[t] - 1 ELSE due[t]]
    /\ isr' = [isr EXCEPT !["cpu0"] = "lock"]
    /\ now' = [now EXCEPT !["cpu0"] = tick']
    /\ missed' = (missed \/ thr = "sleep")
    /\ UNCHANGED <<hard, soft, active, timeout, hserv, sserv, init, lock, thr, next>>

TickOther ==
    /\ lock = "none" /\ isr["cpu1"] = "off"
    /\ isr' = [isr EXCEPT !["cpu1"] = "lock"]
    /\ now' = [now EXCEPT !["cpu1"] = tick]
    /\ UNCHANGED <<tick, lists, init, lock, thr, next, missed>>

(* Mutation: a timer expires one tick late. *)
ExpiredLate(list, at) == list # <<>> /\ Minus(at, timeout[Head(list)]) \in 1 .. Half - 1

(* Mutation: the difference is taken the wrong way round. *)
ExpiredReversed(list, at) == list # <<>> /\ Minus(timeout[Head(list)], at) < Half

(* (current_tick - t->timeout_tick) < RT_TICK_MAX / 2 *)
Expired(list, at) == list # <<>> /\ Minus(at, timeout[Head(list)]) < Half

InLoop(c) == \/ isr[c] = "lock" /\ lock = "none"
             \/ isr[c] = "loop" /\ lock = c

(* Mutation: a one-shot timer stays active. *)
TakenStaysActive(t) ==
    /\ timeout' = [timeout EXCEPT ![t] = 0]
    /\ due' = [due EXCEPT ![t] = 0]
    /\ UNCHANGED active

(* The first timer of a list goes on the temporary one; a one-shot timer   *)
(* is no longer active                                                     *)
Taken(t) ==
    /\ active' = IF t \in Periodic THEN active ELSE active \ {t}
    /\ timeout' = [timeout EXCEPT ![t] = 0]
    /\ due' = [due EXCEPT ![t] = 0]

(* The loop of rt_timer_check takes an expired timer and calls it.  For    *)
(* the timer thread's own timer that is _thread_timeout.                   *)
CheckFire(c) ==
    /\ InLoop(c)
    /\ Expired(hard, now[c])
    /\ hard' = Tail(hard)
    /\ hserv' = Head(hard)
    /\ Taken(Head(hard))
    /\ thr' = IF Head(hard) = Self THEN "check" ELSE thr
    /\ lock' = c
    /\ isr' = [isr EXCEPT ![c] = "call"]
    /\ UNCHANGED <<tick, soft, sserv, init, now, next, missed>>

(* Back from the callback: a periodic timer that is still on the temporary *)
(* list and active is started again                                        *)
CheckAfter(c) ==
    /\ isr[c] = "call"
    /\ now' = [now EXCEPT ![c] = tick]
    /\ isr' = [isr EXCEPT ![c] = "loop"]
    /\ IF hserv \in active THEN Started(hserv, init[hserv], FALSE)
       ELSE /\ hserv' = None
            /\ UNCHANGED <<hard, soft, active, timeout, sserv, due>>
    /\ UNCHANGED <<tick, init, lock, thr, next, missed>>

CheckDone(c) ==
    /\ InLoop(c)
    /\ ~Expired(hard, now[c])
    /\ lock' = "none"
    /\ isr' = [isr EXCEPT ![c] = "off"]
    /\ now' = [now EXCEPT ![c] = 0]
    /\ UNCHANGED <<tick, lists, init, thr, next, missed>>

-----------------------------------------------------------------------------
(* _timer_thread_entry *)

ThreadAt(place) == thr = place /\ lock = "none"

(* _timer_list_next_timeout *)
Look ==
    /\ ThreadAt("look")
    /\ IF soft = <<>> THEN thr' = "suspend" /\ UNCHANGED next
       ELSE thr' = "delay" /\ next' = timeout[Head(soft)]
    /\ missed' = FALSE
    /\ UNCHANGED <<tick, lists, init, lock, isr, now>>

(* "no software timer exist, suspend self" *)
Suspend ==
    /\ ThreadAt("suspend")
    /\ thr' = "asleep"
    /\ UNCHANGED <<tick, lists, init, lock, isr, now, next, missed>>

(* current_tick is read, and the delay computed, without the lock;         *)
(* rt_thread_delay(0) returns at once                                      *)
Delay ==
    /\ thr = "delay"
    /\ LET delta == Minus(next, tick) IN
       IF delta < Half /\ delta # 0 THEN thr' = "sleep" /\ next' = delta
       ELSE thr' = "check" /\ next' = 0
    /\ UNCHANGED <<tick, lists, init, lock, isr, now, missed>>

(* rt_thread_sleep: suspended, its own timer started *)
Sleep ==
    /\ ThreadAt("sleep")
    /\ Started(Self, next, FALSE)
    /\ thr' = "asleep"
    /\ next' = 0
    /\ UNCHANGED <<tick, init, lock, isr, now, missed>>

InSoftLoop == \/ thr = "check" /\ lock = "none"
              \/ thr = "again" /\ lock = "thread"

(* rt_soft_timer_check takes an expired timer, then unlocks and calls it *)
SoftFire ==
    /\ InSoftLoop
    /\ Expired(soft, tick)
    /\ soft' = Tail(soft)
    /\ sserv' = Head(soft)
    /\ Taken(Head(soft))
    /\ thr' = "call"
    /\ lock' = "none"
    /\ UNCHANGED <<tick, hard, hserv, init, isr, now, next, missed>>

(* Back from the callback; the loop goes on under the same lock *)
SoftAfter ==
    /\ ThreadAt("call")
    /\ IF sserv \in active THEN Started(sserv, init[sserv], FALSE)
       ELSE /\ sserv' = None
            /\ UNCHANGED <<hard, soft, active, timeout, hserv, due>>
    /\ thr' = "again" /\ lock' = "thread"
    /\ UNCHANGED <<tick, init, isr, now, next, missed>>

SoftDone ==
    /\ InSoftLoop
    /\ ~Expired(soft, tick)
    /\ thr' = "look"
    /\ lock' = "none"
    /\ UNCHANGED <<tick, lists, init, isr, now, next, missed>>

Thread == Look \/ Suspend \/ Delay \/ Sleep \/ SoftFire \/ SoftAfter \/ SoftDone
Interrupt(c) == CheckFire(c) \/ CheckAfter(c) \/ CheckDone(c)

Next ==
    \/ \E t \in Soft \cup Hard, v \in Times : Start(t, v) \/ SetTime(t, v)
    \/ \E t \in Soft \cup Hard : Stop(t) \/ Detach(t)
    \/ Tick \/ TickOther
    \/ \E c \in Cores : Interrupt(c)
    \/ Thread

Spec == Init /\ [][Next]_vars

-----------------------------------------------------------------------------
TypeOK ==
    /\ tick \in 0 .. TickMod - 1
    /\ hard \in Seq(Hard \cup {Self}) /\ soft \in Seq(Soft)
    /\ active \subseteq Timers
    /\ init \in [Periodic -> Times]
    /\ timeout \in [Timers -> 0 .. TickMod - 1]
    /\ hserv \in Hard \cup {Self, None} /\ sserv \in Soft \cup {None}
    /\ lock \in Cores \cup {"none", "thread"}
    /\ isr \in [Cores -> {"off", "lock", "loop", "call"}]
    /\ now \in [Cores -> 0 .. TickMod - 1]
    /\ thr \in {"look", "suspend", "asleep", "delay", "sleep", "check", "call", "again"}
    /\ next \in 0 .. TickMod - 1
    /\ due \in [Timers -> -LateMax .. Half - 1]
    /\ missed \in BOOLEAN

(* A timer is never called before its time, whatever the wrapped tick      *)
(* counts look like.                                                       *)
NeverEarly ==
    [][\A t \in Timers :
          (hserv' = t /\ hserv # t) \/ (sserv' = t /\ sserv # t) => due[t] <= 0]_vars

(* A hard timer is called in the tick in which it expires: when the first  *)
(* core's interrupt is over none is due, although the other core's check   *)
(* may work with an older tick and callbacks start and stop timers.        *)
HardOnTime ==
    isr["cpu0"] = "off" => \A i \in DOMAIN hard : due[hard[i]] > 0

(* Both lists are in order of the time left, so that looking at the first  *)
(* timer is enough, also across the wrap-around and with timers that are   *)
(* already late.                                                           *)
InOrder ==
    /\ \A i, j \in DOMAIN hard : i < j => due[hard[i]] <= due[hard[j]]
    /\ \A i, j \in DOMAIN soft : i < j => due[soft[i]] <= due[soft[j]]

(* RT_TIMER_FLAG_ACTIVATED tells the truth: an active timer is on its list *)
(* exactly once, or periodic and being called, whoever stopped or started  *)
(* it during its own callback.                                             *)
ActiveIsListed ==
    /\ \A t \in Timers :
          t \in active <=> t \in Listed \/ (t \in Periodic /\ t \in {hserv, sserv})
    /\ \A i, j \in DOMAIN hard : hard[i] = hard[j] => i = j
    /\ \A i, j \in DOMAIN soft : soft[i] = soft[j] => i = j
    /\ Listed \cap {hserv, sserv} = {}

(* The assertion of _thread_timeout: the timer thread's own timer runs     *)
(* only while the thread is suspended.                                     *)
OwnTimerOnlyAsleep == Self \in active => thr = "asleep"

(* The timer thread does not oversleep: suspended, it has its own timer    *)
(* running, which expires no later than the first soft timer.  The         *)
(* exceptions are the ones in missed: a soft timer started after the       *)
(* thread looked at the list and before it sleeps wakes nobody ("no        *)
(* software timer exist, suspend self" is two steps), and a tick between   *)
(* the computation of the delay and the sleep is slept again.              *)
SleepsInTime ==
    thr = "asleep" /\ soft # <<>> /\ ~missed =>
        Self \in active /\ due[Self] <= due[Head(soft)]
=============================================================================
