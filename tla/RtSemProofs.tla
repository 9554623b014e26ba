---------------------------- MODULE RtSemProofs ----------------------------
(***************************************************************************)
(* Proofs about RtSem, for any set of threads, any priorities and any      *)
(* limit of the value: the safety of the kernel semaphore, and that it     *)
(* implements the counting semaphore CountingSem.                          *)
(***************************************************************************)
EXTENDS RtSem, IpcListProofs

(* Who waits has no error yet: the one a later step sets is the first. *)
WaitsWithoutError == \A t \in Threads : pc[t] = "wait" => error[t] = "EOK"

SemInv ==
    /\ TypeOK
    /\ ListIsWaiters
    /\ TimerOnlyWhileSuspended
    /\ NoWaitWithToken
    /\ QueueInPrioOrder
    /\ WaitsWithoutError

-----------------------------------------------------------------------------
(* The invariant holds after rt_sem_init. *)
LEMMA InitSemInv == Init => SemInv
  <1> SUFFICES ASSUME Init PROVE SemInv
    OBVIOUS
  <1>1. list = <<>> /\ ToSet(list) = {} /\ DOMAIN list = {}
    BY DEF Init, ToSet
  <1>2. TypeOK
    <2>1. flag \in {"FIFO", "PRIO"} /\ value \in 0 .. ValueMax /\ list \in Seq(Threads)
      BY SemAssumption DEF Init
    <2>2. timer \in [Threads -> BOOLEAN] /\ stray \in BOOLEAN /\ shuffled \in BOOLEAN
      BY Zenon DEF Init
    <2>3. /\ pc \in [Threads -> {"idle", "wait", "ready"}]
          /\ error \in [Threads -> {"EOK", "ETIMEOUT", "ERROR"}]
          /\ prio \in [Threads -> Prios]
          /\ detach \in {"no", "check", "pop", "done"}
      BY DEF Init
    <2> QED BY <2>1, <2>2, <2>3 DEF TypeOK
  <1>3. ListIsWaiters
    BY <1>1 DEF Init, ListIsWaiters
  <1>4. TimerOnlyWhileSuspended /\ WaitsWithoutError
    BY DEF Init, TimerOnlyWhileSuspended, WaitsWithoutError
  <1>5. NoWaitWithToken /\ QueueInPrioOrder
    BY <1>1 DEF NoWaitWithToken, QueueInPrioOrder, InPrioOrder
  <1> QED BY <1>2, <1>3, <1>4, <1>5 DEF SemInv

(* The part of ListIsWaiters about the list itself. *)
LEMMA ListDistinct == ListIsWaiters => Distinct(list)
  BY DEF ListIsWaiters, Distinct

(* rt_thread_resume of a waiter, whatever error it is given: the list, the *)
(* timer and the state of the thread stay in step.                         *)
LEMMA ResumedKeeps ==
    ASSUME SemInv, NEW t \in Threads, pc[t] = "wait", Resumed(t),
           UNCHANGED <<flag, value, prio>>
    PROVE  /\ list' \in Seq(Threads) /\ shuffled' \in BOOLEAN
           /\ pc' \in [Threads -> {"idle", "wait", "ready"}]
           /\ timer' \in [Threads -> BOOLEAN]
           /\ ListIsWaiters'
           /\ TimerOnlyWhileSuspended'
           /\ NoWaitWithToken'
           /\ QueueInPrioOrder'
  <1> USE DEF SemInv
  <1>1. Distinct(list) /\ list \in Seq(Threads)
    BY ListDistinct DEF TypeOK
  <1>2. /\ list' \in Seq(Threads)
        /\ Distinct(list')
        /\ ToSet(list') = ToSet(list) \ {t}
        /\ InPrioOrder(list, prio) => InPrioOrder(list', prio)
    BY <1>1, ListRemoveProperties DEF Resumed
  <1>3. /\ pc' = [pc EXCEPT ![t] = "ready"]
        /\ timer' = [timer EXCEPT ![t] = FALSE]
        /\ shuffled' = (shuffled /\ list' # <<>>)
    BY DEF Resumed
  <1>4. /\ pc' \in [Threads -> {"idle", "wait", "ready"}]
        /\ timer' \in [Threads -> BOOLEAN]
        /\ shuffled' \in BOOLEAN
    BY <1>3 DEF TypeOK
  <1>5. ListIsWaiters'
    <2>1. \A u \in Threads : u \in ToSet(list') <=> pc'[u] = "wait"
      BY <1>2, <1>3 DEF TypeOK, ListIsWaiters
    <2>2. \A i, j \in DOMAIN list' : list'[i] = list'[j] => i = j
      BY <1>2 DEF Distinct
    <2> QED BY <2>1, <2>2 DEF ListIsWaiters
  <1>6. TimerOnlyWhileSuspended'
    BY <1>3 DEF TypeOK, TimerOnlyWhileSuspended
  <1>7. NoWaitWithToken'
    <2>1. list # <<>>
      <3>1. t \in ToSet(list)
        BY DEF ListIsWaiters
      <3> QED BY <3>1, <1>1, ListedIn
    <2> QED BY <2>1 DEF NoWaitWithToken
  <1>8. QueueInPrioOrder'
    <2>1. list' = <<>> => InPrioOrder(list', prio)
      BY DEF InPrioOrder
    <2> QED BY <2>1, <1>2, <1>3 DEF QueueInPrioOrder, TypeOK
  <1> QED BY <1>2, <1>4, <1>5, <1>6, <1>7, <1>8

(* The first waiter is one. *)
LEMMA HeadWaits ==
    ASSUME SemInv, list # <<>>
    PROVE  Head(list) \in Threads /\ pc[Head(list)] = "wait"
  <1>1. Head(list) \in ToSet(list) /\ Head(list) \in Threads
    BY HeadListed DEF SemInv, TypeOK
  <1> QED BY <1>1 DEF SemInv, ListIsWaiters

(* Every step keeps the invariant. *)
LEMMA NextSemInv == SemInv /\ [Next]_vars => SemInv'
  <1> SUFFICES ASSUME SemInv, [Next]_vars PROVE SemInv'
    OBVIOUS
  <1> USE SemAssumption
  <1>0. /\ TypeOK /\ ListIsWaiters /\ TimerOnlyWhileSuspended
        /\ NoWaitWithToken /\ QueueInPrioOrder /\ WaitsWithoutError
    BY DEF SemInv
  <1>1. ASSUME NEW t \in Threads, TakeNow(t) PROVE SemInv'
    <2>1. TypeOK'
      BY <1>0, <1>1 DEF TakeNow, TypeOK
    <2>2. /\ ListIsWaiters' /\ TimerOnlyWhileSuspended'
          /\ QueueInPrioOrder' /\ WaitsWithoutError'
      BY <1>0, <1>1 DEF TakeNow, ListIsWaiters, TimerOnlyWhileSuspended,
                        QueueInPrioOrder, WaitsWithoutError
    <2>3. NoWaitWithToken'
      BY <1>0, <1>1 DEF TakeNow, NoWaitWithToken, TypeOK
    <2> QED BY <2>1, <2>2, <2>3 DEF SemInv
  <1>2. ASSUME NEW t \in Threads, TakeWait(t) PROVE SemInv'
    <2>1. t \notin ToSet(list) /\ Distinct(list)
      BY <1>0, <1>2, ListDistinct DEF TakeWait, ListIsWaiters
    <2>2. /\ list \in Seq(Threads) /\ prio \in [Threads -> Nat]
      BY <1>0 DEF TypeOK
    <2>3. /\ list' \in Seq(Threads)
          /\ Distinct(list')
          /\ ToSet(list') = ToSet(list) \cup {t}
          /\ flag # "FIFO" /\ InPrioOrder(list, prio) => InPrioOrder(list', prio)
      BY <1>2, <2>1, <2>2, ListInsertProperties DEF TakeWait
    <2>4. TypeOK'
      BY <1>0, <1>2, <2>3 DEF TakeWait, TypeOK
    <2>5. ListIsWaiters'
      <3>1. \A u \in Threads : u \in ToSet(list') <=> pc'[u] = "wait"
        BY <1>0, <1>2, <2>3 DEF TakeWait, TypeOK, ListIsWaiters
      <3>2. \A i, j \in DOMAIN list' : list'[i] = list'[j] => i = j
        BY <2>3 DEF Distinct
      <3> QED BY <3>1, <3>2 DEF ListIsWaiters
    <2>6. TimerOnlyWhileSuspended' /\ WaitsWithoutError'
      BY <1>0, <1>2 DEF TakeWait, TypeOK, TimerOnlyWhileSuspended, WaitsWithoutError
    <2>7. NoWaitWithToken'
      BY <1>2 DEF TakeWait, NoWaitWithToken
    <2>8. QueueInPrioOrder'
      BY <1>0, <1>2, <2>3 DEF TakeWait, QueueInPrioOrder
    <2> QED BY <2>4, <2>5, <2>6, <2>7, <2>8 DEF SemInv
  <1>3. ASSUME NEW t \in Threads, TakeReturn(t) PROVE SemInv'
    <2>1. TypeOK'
      BY <1>0, <1>3 DEF TakeReturn, TypeOK
    <2>2. /\ ListIsWaiters' /\ TimerOnlyWhileSuspended' /\ WaitsWithoutError'
      BY <1>0, <1>3 DEF TakeReturn, TypeOK, ListIsWaiters, TimerOnlyWhileSuspended,
                        WaitsWithoutError
    <2>3. NoWaitWithToken' /\ QueueInPrioOrder'
      BY <1>0, <1>3 DEF TakeReturn, NoWaitWithToken, QueueInPrioOrder
    <2> QED BY <2>1, <2>2, <2>3 DEF SemInv
  <1>4. ASSUME NEW t \in Threads, Timeout(t) PROVE SemInv'
    <2>1. pc[t] = "wait"
      BY <1>0, <1>4 DEF Timeout, TimerOnlyWhileSuspended
    <2>2. Resumed(t) /\ UNCHANGED <<flag, value, prio, detach, stray>>
      BY <1>4 DEF Timeout
    <2>3. /\ list' \in Seq(Threads) /\ shuffled' \in BOOLEAN
          /\ pc' \in [Threads -> {"idle", "wait", "ready"}]
          /\ timer' \in [Threads -> BOOLEAN]
          /\ ListIsWaiters' /\ TimerOnlyWhileSuspended'
          /\ NoWaitWithToken' /\ QueueInPrioOrder'
      BY <2>1, <2>2, ResumedKeeps
    <2>4. TypeOK'
      BY <1>0, <1>4, <2>2, <2>3 DEF Timeout, TypeOK
    <2>5. WaitsWithoutError'
      BY <1>0, <1>4, <2>2 DEF Timeout, Resumed, TypeOK, WaitsWithoutError
    <2> QED BY <2>3, <2>4, <2>5 DEF SemInv
  <1>5. CASE ReleaseHandOver
    <2> DEFINE t == Head(list)
    <2>1. t \in Threads /\ pc[t] = "wait"
      BY <1>5, HeadWaits DEF ReleaseHandOver
    <2>2. Resumed(t) /\ UNCHANGED <<flag, value, error, prio, detach, stray>>
      BY <1>5 DEF ReleaseHandOver
    <2> HIDE DEF t
    <2>3. /\ list' \in Seq(Threads) /\ shuffled' \in BOOLEAN
          /\ pc' \in [Threads -> {"idle", "wait", "ready"}]
          /\ timer' \in [Threads -> BOOLEAN]
          /\ ListIsWaiters' /\ TimerOnlyWhileSuspended'
          /\ NoWaitWithToken' /\ QueueInPrioOrder'
      BY <2>1, <2>2, ResumedKeeps
    <2>4. TypeOK'
      BY <1>0, <2>2, <2>3 DEF TypeOK
    <2>5. WaitsWithoutError'
      BY <1>0, <2>1, <2>2 DEF Resumed, TypeOK, WaitsWithoutError
    <2> QED BY <2>3, <2>4, <2>5 DEF SemInv
  <1>6. CASE ReleaseCount
    <2>1. TypeOK'
      BY <1>0, <1>6 DEF ReleaseCount, TypeOK
    <2>2. /\ ListIsWaiters' /\ TimerOnlyWhileSuspended'
          /\ QueueInPrioOrder' /\ WaitsWithoutError'
      BY <1>0, <1>6 DEF ReleaseCount, ListIsWaiters, TimerOnlyWhileSuspended,
                        QueueInPrioOrder, WaitsWithoutError
    <2>3. NoWaitWithToken'
      BY <1>6 DEF ReleaseCount, NoWaitWithToken
    <2> QED BY <2>1, <2>2, <2>3 DEF SemInv
  <1>7. ASSUME NEW v \in Resets, Reset(v) PROVE SemInv'
    <2>1. list' = <<>> /\ ToSet(list') = {} /\ DOMAIN list' = {}
      BY <1>7 DEF Reset, ToSet
    <2>2. TypeOK'
      <3>1. /\ timer' = [u \in Threads |-> timer[u] /\ u \notin ToSet(list)]
            /\ shuffled' = FALSE
        BY <1>7 DEF Reset
      <3>2. timer' \in [Threads -> BOOLEAN] /\ shuffled' \in BOOLEAN
        BY <3>1, Zenon
      <3>3. /\ pc' \in [Threads -> {"idle", "wait", "ready"}]
            /\ error' \in [Threads -> {"EOK", "ETIMEOUT", "ERROR"}]
            /\ value' \in 0 .. ValueMax
            /\ list' \in Seq(Threads)
        BY <1>0, <1>7 DEF Reset, TypeOK
      <3> QED BY <1>0, <1>7, <3>2, <3>3 DEF Reset, TypeOK
    <2>3. \A u \in Threads : pc'[u] # "wait"
      BY <1>0, <1>7 DEF Reset, TypeOK, ListIsWaiters
    <2>4. ListIsWaiters' /\ WaitsWithoutError'
      BY <2>1, <2>3 DEF ListIsWaiters, WaitsWithoutError
    <2>5. TimerOnlyWhileSuspended'
      BY <1>0, <1>7 DEF Reset, TypeOK, ListIsWaiters, TimerOnlyWhileSuspended
    <2>6. NoWaitWithToken' /\ QueueInPrioOrder'
      BY <2>1 DEF NoWaitWithToken, QueueInPrioOrder, InPrioOrder
    <2> QED BY <2>2, <2>4, <2>5, <2>6 DEF SemInv
  <1>8. ASSUME NEW t \in Threads, NEW p \in Prios, ChangePriority(t, p) PROVE SemInv'
    <2>1. TypeOK'
      BY <1>0, <1>8 DEF ChangePriority, TypeOK
    <2>2. /\ ListIsWaiters' /\ TimerOnlyWhileSuspended'
          /\ NoWaitWithToken' /\ WaitsWithoutError'
      BY <1>0, <1>8 DEF ChangePriority, ListIsWaiters, TimerOnlyWhileSuspended,
                        NoWaitWithToken, WaitsWithoutError
    (* A thread that does not wait is not listed; its priority orders nothing. *)
    <2>3. QueueInPrioOrder'
      <3> SUFFICES ASSUME flag' = "PRIO", ~shuffled'
                   PROVE  InPrioOrder(list', prio')
        BY DEF QueueInPrioOrder
      <3>1. InPrioOrder(list, prio) /\ pc[t] # "wait"
        BY <1>0, <1>8 DEF ChangePriority, QueueInPrioOrder
      <3>2. list' = list /\ \A i \in DOMAIN list : list[i] # t /\ list[i] \in Threads
        BY <1>0, <1>8, <3>1 DEF ChangePriority, ListIsWaiters, TypeOK, ToSet
      <3>3. \A i \in DOMAIN list : prio'[list[i]] = prio[list[i]]
        BY <1>0, <1>8, <3>2 DEF ChangePriority, TypeOK
      <3> QED BY <3>1, <3>2, <3>3 DEF InPrioOrder
    <2> QED BY <2>1, <2>2, <2>3 DEF SemInv
  <1>9. CASE DetachCheck
    <2>1. TypeOK'
      BY <1>0, <1>9 DEF DetachCheck, TypeOK
    <2>2. /\ ListIsWaiters' /\ TimerOnlyWhileSuspended' /\ NoWaitWithToken'
          /\ QueueInPrioOrder' /\ WaitsWithoutError'
      BY <1>0, <1>9 DEF DetachCheck, ListIsWaiters, TimerOnlyWhileSuspended,
                        NoWaitWithToken, QueueInPrioOrder, WaitsWithoutError
    <2> QED BY <2>1, <2>2 DEF SemInv
  <1>10. CASE DetachPop
    <2>1. CASE list # <<>>
      <3> DEFINE t == Head(list)
      <3>1. t \in Threads /\ pc[t] = "wait"
        BY <2>1, HeadWaits
      <3>2. /\ Resumed(t) /\ error' = [error EXCEPT ![t] = "ERROR"]
            /\ detach' = "check"
            /\ UNCHANGED <<flag, value, prio, stray>>
        BY <1>10, <2>1 DEF DetachPop
      <3> HIDE DEF t
      <3>3. /\ list' \in Seq(Threads) /\ shuffled' \in BOOLEAN
            /\ pc' \in [Threads -> {"idle", "wait", "ready"}]
            /\ timer' \in [Threads -> BOOLEAN]
            /\ ListIsWaiters' /\ TimerOnlyWhileSuspended'
            /\ NoWaitWithToken' /\ QueueInPrioOrder'
        BY <3>1, <3>2, ResumedKeeps
      <3>4. TypeOK'
        BY <1>0, <3>2, <3>3 DEF TypeOK
      <3>5. WaitsWithoutError'
        BY <1>0, <3>1, <3>2 DEF Resumed, TypeOK, WaitsWithoutError
      <3> QED BY <3>3, <3>4, <3>5 DEF SemInv
    <2>2. CASE list = <<>>
      <3>1. /\ detach' = "check" /\ stray' = TRUE
            /\ UNCHANGED <<flag, value, prio, list, pc, error, timer, shuffled>>
        BY <1>10, <2>2 DEF DetachPop
      <3>2. TypeOK'
        BY <1>0, <3>1 DEF TypeOK
      <3>3. /\ ListIsWaiters' /\ TimerOnlyWhileSuspended' /\ NoWaitWithToken'
            /\ QueueInPrioOrder' /\ WaitsWithoutError'
        BY <1>0, <3>1 DEF ListIsWaiters, TimerOnlyWhileSuspended, NoWaitWithToken,
                          QueueInPrioOrder, WaitsWithoutError
      <3> QED BY <3>2, <3>3 DEF SemInv
    <2> QED BY <2>1, <2>2
  <1>11. CASE UNCHANGED vars
    BY <1>0, <1>11 DEF vars, SemInv, TypeOK, ListIsWaiters, TimerOnlyWhileSuspended,
                       NoWaitWithToken, QueueInPrioOrder, WaitsWithoutError
  <1> QED
    BY <1>1, <1>2, <1>3, <1>4, <1>5, <1>6, <1>7, <1>8, <1>9, <1>10, <1>11 DEF Next

(* Whatever is taken, released, timed out, reset, detached or given        *)
(* another priority, in any order: the inductive invariant holds.          *)
THEOREM SemInvariant == Spec => []SemInv
  <1>1. Init => SemInv
    BY InitSemInv
  <1>2. SemInv /\ [Next]_vars => SemInv'
    BY NextSemInv
  <1> QED BY <1>1, <1>2, PTL DEF Spec

(* The types of the semaphore's state; the value never leaves              *)
(* 0 .. RT_SEM_VALUE_MAX.                                                  *)
THEOREM SemTypeOK == Spec => []TypeOK
  <1>1. SemInv => TypeOK
    BY DEF SemInv
  <1> QED BY <1>1, SemInvariant, PTL

(* The list of the semaphore is exactly its suspended threads, each once.  *)
THEOREM SemListIsWaiters == Spec => []ListIsWaiters
  <1>1. SemInv => ListIsWaiters
    BY DEF SemInv
  <1> QED BY <1>1, SemInvariant, PTL

(* The assertion of _thread_timeout never fails: the timer of a thread     *)
(* runs only while it is suspended.                                        *)
THEOREM SemTimerOnlyWhileSuspended == Spec => []TimerOnlyWhileSuspended
  <1>1. SemInv => TimerOnlyWhileSuspended
    BY DEF SemInv
  <1> QED BY <1>1, SemInvariant, PTL

(* Nobody is suspended while the semaphore has a token. *)
THEOREM SemNoWaitWithToken == Spec => []NoWaitWithToken
  <1>1. SemInv => NoWaitWithToken
    BY DEF SemInv
  <1> QED BY <1>1, SemInvariant, PTL

(* RT_IPC_FLAG_PRIO keeps the list in order of priority while no listed    *)
(* thread is given another one.                                            *)
THEOREM SemQueueInPrioOrder == Spec => []QueueInPrioOrder
  <1>1. SemInv => QueueInPrioOrder
    BY DEF SemInv
  <1> QED BY <1>1, SemInvariant, PTL

-----------------------------------------------------------------------------
(* The refinement.  What the counting semaphore sees of the threads. *)
Waiting == {t \in Threads : pc[t] = "wait"}
Granted == {t \in Threads : pc[t] = "ready" /\ error[t] = "EOK"}

(* rt_sem_init is the initial state of a counting semaphore. *)
LEMMA InitRefines == Init => Abstract!Init
  BY DEF Init, Abstract!Init

(* A resumed waiter that is given an error has failed: it uses no token.   *)
LEMMA FailRefines ==
    ASSUME SemInv, NEW t \in Threads, pc[t] = "wait", Resumed(t), value' = value,
           NEW e \in {"ETIMEOUT", "ERROR"}, error' = [error EXCEPT ![t] = e]
    PROVE  Abstract!Next
  <1>1. Waiting' = Waiting \ {t}
    BY DEF Waiting, SemInv, TypeOK, Resumed
  <1>2. Granted' = Granted
    BY DEF Granted, SemInv, TypeOK, Resumed
  <1>3. t \in Waiting
    BY DEF Waiting
  <1>4. Abstract!Fail(t)
    BY <1>1, <1>2, <1>3 DEF Abstract!Fail, Waiting, Granted
  <1> QED BY <1>4 DEF Abstract!Next

(* A step of the kernel that leaves the value and the threads alone is no  *)
(* step of the counting semaphore.                                         *)
LEMMA StutterRefines ==
    ASSUME UNCHANGED <<value, pc, error>>
    PROVE  UNCHANGED Abstract!vars
  BY DEF Abstract!vars

(* Every step of the kernel is a step of the counting semaphore or changes *)
(* nothing that its callers see.                                           *)
LEMMA NextRefines == SemInv /\ [Next]_vars => [Abstract!Next]_(Abstract!vars)
  <1> SUFFICES ASSUME SemInv, [Next]_vars PROVE [Abstract!Next]_(Abstract!vars)
    OBVIOUS
  <1> USE SemAssumption
  <1>0. TypeOK /\ ListIsWaiters /\ TimerOnlyWhileSuspended /\ WaitsWithoutError
    BY DEF SemInv
  <1>1. ASSUME NEW t \in Threads, TakeNow(t) PROVE Abstract!Next
    <2>1. t \notin Waiting \cup Granted
      BY <1>1 DEF TakeNow, Waiting, Granted
    <2>2. Waiting' = Waiting /\ Granted' = Granted
      BY <1>1 DEF TakeNow, Waiting, Granted
    <2>3. Abstract!Take(t)
      BY <1>1, <2>1, <2>2 DEF TakeNow, Abstract!Take, Waiting, Granted
    <2> QED BY <2>3 DEF Abstract!Next
  <1>2. ASSUME NEW t \in Threads, TakeWait(t) PROVE Abstract!Next
    <2>1. t \notin Waiting \cup Granted
      BY <1>2 DEF TakeWait, Waiting, Granted
    <2>2. Waiting' = Waiting \cup {t}
      BY <1>0, <1>2 DEF TakeWait, TypeOK, Waiting
    <2>3. Granted' = Granted
      BY <1>0, <1>2 DEF TakeWait, TypeOK, Granted
    <2>4. Abstract!Take(t)
      BY <1>2, <2>1, <2>2, <2>3 DEF TakeWait, Abstract!Take, Waiting, Granted
    <2> QED BY <2>4 DEF Abstract!Next
  <1>3. ASSUME NEW t \in Threads, TakeReturn(t) PROVE [Abstract!Next]_(Abstract!vars)
    <2>1. Waiting' = Waiting /\ value' = value
      BY <1>0, <1>3 DEF TakeReturn, TypeOK, Waiting
    <2>2. Granted' = Granted \ {t}
      BY <1>0, <1>3 DEF TakeReturn, TypeOK, Granted
    <2>3. CASE t \in Granted
      <3>1. Abstract!Return(t)
        BY <2>1, <2>2, <2>3 DEF Abstract!Return, Waiting, Granted
      <3> QED BY <3>1 DEF Abstract!Next
    <2>4. CASE t \notin Granted
      BY <2>1, <2>2, <2>4 DEF Abstract!vars, Waiting, Granted
    <2> QED BY <2>3, <2>4
  <1>4. ASSUME NEW t \in Threads, Timeout(t) PROVE Abstract!Next
    <2>1. pc[t] = "wait"
      BY <1>0, <1>4 DEF Timeout, TimerOnlyWhileSuspended
    <2>2. Resumed(t) /\ value' = value /\ error' = [error EXCEPT ![t] = "ETIMEOUT"]
      BY <1>4 DEF Timeout
    <2> QED BY <2>1, <2>2, FailRefines
  <1>5. CASE ReleaseHandOver
    <2> DEFINE t == Head(list)
    <2>1. t \in Threads /\ pc[t] = "wait" /\ error[t] = "EOK"
      BY <1>0, <1>5, HeadWaits DEF ReleaseHandOver, WaitsWithoutError
    <2>2. /\ pc' = [pc EXCEPT ![t] = "ready"]
          /\ value' = value /\ error' = error
      BY <1>5 DEF ReleaseHandOver, Resumed
    <2> HIDE DEF t
    <2>3. t \in Waiting /\ Waiting' = Waiting \ {t}
      BY <1>0, <2>1, <2>2 DEF TypeOK, Waiting
    <2>4. Granted' = Granted \cup {t}
      BY <1>0, <2>1, <2>2 DEF TypeOK, Granted
    <2>5. Abstract!Release
      BY <2>2, <2>3, <2>4 DEF Abstract!Release, Waiting, Granted
    <2> QED BY <2>5 DEF Abstract!Next
  <1>6. CASE ReleaseCount
    <2>1. Waiting = {}
      <3>1. ToSet(list) = {}
        BY <1>6 DEF ReleaseCount, ToSet
      <3> QED BY <1>0, <3>1 DEF ListIsWaiters, Waiting
    <2>2. Waiting' = Waiting /\ Granted' = Granted
      BY <1>6 DEF ReleaseCount, Waiting, Granted
    <2>3. Abstract!Release
      BY <1>6, <2>1, <2>2 DEF ReleaseCount, Abstract!Release, Waiting, Granted
    <2> QED BY <2>3 DEF Abstract!Next
  <1>7. ASSUME NEW v \in Resets, Reset(v) PROVE Abstract!Next
    <2>1. Waiting' = {}
      BY <1>0, <1>7 DEF Reset, TypeOK, ListIsWaiters, Waiting
    <2>2. Granted' = Granted
      BY <1>0, <1>7 DEF Reset, TypeOK, ListIsWaiters, Granted
    <2>3. value' \in 0 .. ValueMax
      BY <1>7 DEF Reset
    <2>4. Abstract!Reset
      BY <2>1, <2>2, <2>3 DEF Abstract!Reset, Waiting, Granted
    <2> QED BY <2>4 DEF Abstract!Next
  <1>8. ASSUME NEW t \in Threads, NEW p \in Prios, ChangePriority(t, p)
        PROVE  UNCHANGED Abstract!vars
    BY <1>8, StutterRefines DEF ChangePriority
  <1>9. CASE DetachCheck
    BY <1>9, StutterRefines DEF DetachCheck
  <1>10. CASE DetachPop
    <2>1. CASE list # <<>>
      <3>1. Head(list) \in Threads /\ pc[Head(list)] = "wait"
        BY <2>1, HeadWaits
      <3>2. /\ Resumed(Head(list)) /\ value' = value
            /\ error' = [error EXCEPT ![Head(list)] = "ERROR"]
        BY <1>10, <2>1 DEF DetachPop
      <3> QED BY <3>1, <3>2, FailRefines
    <2>2. CASE list = <<>>
      BY <1>10, <2>2, StutterRefines DEF DetachPop
    <2> QED BY <2>1, <2>2
  <1>11. CASE UNCHANGED vars
    BY <1>11, StutterRefines DEF vars
  <1> QED
    BY <1>1, <1>2, <1>3, <1>4, <1>5, <1>6, <1>7, <1>8, <1>9, <1>10, <1>11 DEF Next

(* The kernel semaphore implements the counting semaphore: every token     *)
(* released is used up by exactly one successful take, whatever times out, *)
(* is reset or detached meanwhile.                                         *)
THEOREM SemRefines == Spec => IsCountingSem
  <1>1. Init => Abstract!Init
    BY InitRefines
  <1>2. SemInv /\ [Next]_vars => [Abstract!Next]_(Abstract!vars)
    BY NextRefines
  <1> QED BY <1>1, <1>2, SemInvariant, PTL DEF Spec, IsCountingSem, Abstract!Spec
=============================================================================
