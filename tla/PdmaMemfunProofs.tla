------------------------- MODULE PdmaMemfunProofs -------------------------
(***************************************************************************)
(* Proofs about PdmaMemfun, for any set of callers, any number of actors   *)
(* and any other channels on the module.                                   *)
(*                                                                         *)
(* The pool: a thread that passed the pool semaphore holds one of          *)
(* NumActors tokens (TokenCount); the bits of the mask are exactly the     *)
(* actors of the threads that own one (MaskExact), which are some of the   *)
(* token holders; so a token holder without an actor finds a free bit.     *)
(***************************************************************************)
EXTENDS PdmaMemfun, FiniteSetTheorems, TLAPS

(* Places between taking a token of the pool semaphore and giving it back. *)
Tokened == Sites \ {"idle", "employ"}
TokenHolders == {t \in Threads : pc[t] \in Tokened}

(* Places inside the pool lock. *)
Locked == {"find", "setBit", "employUnlock", "load", "clearBit", "fireUnlock"}

TokenCount == poolSem + Cardinality(TokenHolders) = NumActors

LockHeld == \A t \in Threads : pc[t] \in Locked => poolLock = t

(* What a thread loaded for a read-modify-write is still the mask. *)
ShadowFresh ==
    \A t \in Threads : pc[t] \in {"setBit", "clearBit"} => shadow[t] = mask

Chosen == \A t \in Threads : pc[t] = "setBit" => act[t] \in Actors \ mask

MaskExact ==
    /\ \A t \in Threads : pc[t] \in Owning => act[t] \in mask
    /\ \A a \in mask : \E t \in Threads : pc[t] \in Owning /\ act[t] = a

OwnersDiffer ==
    \A t, u \in Threads :
        pc[t] \in Owning /\ pc[u] \in Owning /\ act[t] = act[u] => t = u

PoolInv ==
    /\ TypeOK
    /\ TokenCount
    /\ LockHeld
    /\ ShadowFresh
    /\ Chosen
    /\ MaskExact
    /\ OwnersDiffer

-----------------------------------------------------------------------------
(* The type invariant holds initially. *)
LEMMA InitType == Init => TypeOK
  BY PoolAssumption DEF Init, TypeOK, Sites, Actors, Events

(* The engine moves at least the units asked for, and just those of a     *)
(* transfer of one descriptor.                                            *)
LEMMA PlannedType ==
    ASSUME NEW n \in Nat
    PROVE  Planned(n) \in Nat /\ Planned(n) >= n /\ (n <= MaxTxCnt => Planned(n) = n)
  BY PoolAssumption DEF Planned

LEMMA CountType ==
    ASSUME NEW n \in Nat, NEW m \in Nat
    PROVE  NonTransferCount(n, m) \in Int
  <1>1. Planned(n) \in Nat
    BY PlannedType
  <1>2. m % MaxTxCnt \in Int
    BY PoolAssumption
  <1> QED BY <1>1, <1>2, PoolAssumption DEF NonTransferCount

(* Every step of a caller of nu_pdma_memfun keeps the types. *)
LEMMA MemfunType ==
    ASSUME TypeOK, NEW t \in Threads, Call(t) \/ Memfun(t),
           pc[t] \in {"setup", "wait", "trigger", "collect"} => act[t] \in Actors
    PROVE  TypeOK'
  <1> USE PoolAssumption DEF TypeOK, Goto, thread, pool, engine, flags, isrv, Sites
  <1>1. CASE Call(t)
    BY <1>1 DEF Call
  <1>2. CASE Employ(t)
    <2>1. CASE EmployTake(t)
      BY <2>1 DEF EmployTake
    <2>2. CASE EmployLock(t)
      BY <2>2 DEF EmployLock, Lock
    <2>3. CASE EmployFind(t)
      BY <2>3 DEF EmployFind
    <2>4. CASE EmploySet(t)
      BY <2>4 DEF EmploySet
    <2>5. CASE EmployUnlock(t)
      BY <2>5 DEF EmployUnlock, Unlock
    <2> QED BY <1>2, <2>1, <2>2, <2>3, <2>4, <2>5 DEF Employ
  <1>3. CASE Transfer(t)
    <2>1. CASE Setup(t)
      BY <2>1 DEF Setup
    <2>2. CASE Trigger(t)
      <3>1. req[t] \in Nat /\ act[t] \in Actors
        BY <2>2 DEF Trigger
      <3> QED BY <2>2, <3>1 DEF Trigger
    <2>3. CASE WaitTake(t)
      BY <2>3 DEF WaitTake
    <2>4. CASE Collect(t)
      <3>1. act[t] \in Actors /\ req[t] \in Nat /\ total[act[t]] \in Nat
        BY <2>4 DEF Collect
      <3>2. \A m \in Moving(act[t]) : m \in Nat
        BY <3>1, PlannedType DEF Moving
      <3>3. \A m \in Moving(act[t]) : NonTransferCount(total[act[t]], m) \in Int
        BY <3>1, <3>2, CountType
      <3>4. ret' \in [Threads -> Int]
        BY <2>4, <3>1, <3>3 DEF Collect
      <3> QED BY <2>4, <3>1, <3>4 DEF Collect
    <2> QED BY <1>3, <2>1, <2>2, <2>3, <2>4 DEF Transfer
  <1>4. CASE Fire(t)
    <2>1. CASE FireLock(t)
      BY <2>1 DEF FireLock, Lock
    <2>2. CASE FireLoad(t)
      BY <2>2 DEF FireLoad
    <2>3. CASE FireClear(t)
      BY <2>3 DEF FireClear
    <2>4. CASE FireUnlock(t)
      BY <2>4 DEF FireUnlock, Unlock
    <2>5. CASE PoolRelease(t)
      BY <2>5 DEF PoolRelease
    <2> QED BY <1>4, <2>1, <2>2, <2>3, <2>4, <2>5 DEF Fire
  <1> QED BY <1>1, <1>2, <1>3, <1>4 DEF Memfun

(* Hardware and interrupt handler keep the types. *)
LEMMA MachineType ==
    ASSUME TypeOK, Hardware \/ Isr
    PROVE  TypeOK'
  <1> USE PoolAssumption DEF TypeOK, thread, pool, engine, flags, isrv, Channels
  <1>1. ASSUME NEW a \in Actors, HwDone(a) PROVE TypeOK'
    BY <1>1, PlannedType DEF HwDone
  <1>2. ASSUME NEW a \in Actors, HwAbort(a) PROVE TypeOK'
    BY <1>2, PlannedType DEF HwAbort
  <1>3. ASSUME NEW p \in Periph, HwPeriphDone(p) PROVE TypeOK'
    BY <1>3 DEF HwPeriphDone
  <1>4. ASSUME NEW p \in Periph, HwPeriphTimeout(p) PROVE TypeOK'
    BY <1>4 DEF HwPeriphTimeout
  <1>5. CASE IsrEnter
    BY <1>5 DEF IsrEnter
  <1>6. CASE IsrReadAbt
    BY <1>6 DEF IsrReadAbt
  <1>7. CASE IsrReadTd
    BY <1>7 DEF IsrReadTd
  <1>8. CASE IsrExit
    BY <1>8 DEF IsrExit
  <1>9. ASSUME NEW c \in Channels, IsrServe(c) PROVE TypeOK'
    <2>1. ChannelEvents(c) \in SUBSET Events
      BY DEF ChannelEvents, Events
    <2> QED BY <1>9, <2>1 DEF IsrServe
  <1> QED BY <1>1, <1>2, <1>3, <1>4, <1>5, <1>6, <1>7, <1>8, <1>9
          DEF Hardware, Isr

-----------------------------------------------------------------------------
(* A thread at the search of nu_pdma_memfun_employ holds a token but no    *)
(* actor, so the owners are fewer than the actors and a bit is 0.          *)
LEMMA FreeActorExists ==
    ASSUME PoolInv, NEW t \in Threads, pc[t] = "find"
    PROVE  ~(Actors \subseteq mask)
  <1> DEFINE H == {u \in Threads : pc[u] \in Owning}
             f == [u \in H |-> act[u]]
  <1>1. IsFiniteSet(TokenHolders) /\ IsFiniteSet(TokenHolders \ {t})
    BY FS_Subset, FS_RemoveElement, PoolAssumption DEF TokenHolders
  <1>2. H \subseteq TokenHolders \ {t}
    BY DEF TokenHolders, Tokened, Sites, Owning, PoolInv
  <1>3. Cardinality(TokenHolders \ {t}) = Cardinality(TokenHolders) - 1
    BY <1>1, FS_RemoveElement DEF TokenHolders, Tokened, Sites
  <1>4. IsFiniteSet(H) /\ Cardinality(H) <= Cardinality(TokenHolders) - 1
    BY <1>1, <1>2, <1>3, FS_Subset
  <1>5. Cardinality(TokenHolders) \in Nat /\ Cardinality(H) \in Nat
    BY <1>1, <1>4, FS_CardinalityType
  <1>6. Cardinality(TokenHolders) <= NumActors
    BY <1>5, PoolAssumption DEF PoolInv, TokenCount, TypeOK
  <1>7. Cardinality(Actors) = NumActors
    BY FS_Interval, PoolAssumption DEF Actors
  <1>8. SUFFICES ASSUME Actors \subseteq mask PROVE FALSE
    OBVIOUS
  <1>9. f \in Surjection(H, Actors)
    <2>1. \A u \in H : act[u] \in Actors
      BY DEF PoolInv, MaskExact, TypeOK
    <2>2. \A a \in Actors : \E u \in H : f[u] = a
      BY <1>8 DEF PoolInv, MaskExact
    <2> QED BY <2>1, <2>2 DEF Surjection
  <1>10. Cardinality(Actors) <= Cardinality(H)
    BY <1>9, <1>4, FS_Surjection
  <1> QED BY <1>4, <1>5, <1>6, <1>7, <1>10, PoolAssumption

(* How the token holders change when one thread moves. *)
LEMMA TokenStep ==
    ASSUME TypeOK, TokenCount, NEW t \in Threads, NEW to \in Sites,
           Goto(t, to),
           poolSem' = IF pc[t] \in Tokened
                      THEN IF to \in Tokened THEN poolSem ELSE poolSem + 1
                      ELSE IF to \in Tokened THEN poolSem - 1 ELSE poolSem
    PROVE  TokenCount'
  <1> DEFINE T == TokenHolders
  <1>0. IsFiniteSet(T) /\ Cardinality(T) \in Nat
    BY FS_Subset, FS_CardinalityType, PoolAssumption DEF TokenHolders
  <1>1. T' = IF to \in Tokened THEN T \cup {t} ELSE T \ {t}
    BY DEF TokenHolders, Goto, TypeOK
  <1>2. t \in T <=> pc[t] \in Tokened
    BY DEF TokenHolders
  <1>3. to \in Tokened => Cardinality(T \cup {t}) =
                              IF t \in T THEN Cardinality(T) ELSE Cardinality(T) + 1
    BY <1>0, FS_AddElement
  <1>4. to \notin Tokened => Cardinality(T \ {t}) =
                              IF t \in T THEN Cardinality(T) - 1 ELSE Cardinality(T)
    BY <1>0, FS_RemoveElement
  <1>5. TokenCount' <=> poolSem' + Cardinality(T') = NumActors
    BY PoolAssumption DEF TokenCount
  <1>6. poolSem \in Nat /\ NumActors \in Nat
    BY PoolAssumption DEF TypeOK
  <1> QED BY <1>0, <1>1, <1>2, <1>3, <1>4, <1>5, <1>6 DEF TokenCount

-----------------------------------------------------------------------------
(* The conjuncts of PoolInv that speak of the lock, the mask and the owners. *)
OwnerInv == LockHeld /\ ShadowFresh /\ Chosen /\ MaskExact /\ OwnersDiffer

(* The steps of a caller keep OwnerInv: the mask changes only under the    *)
(* lock, by the thread whose shadow is fresh, for an actor nobody owns or  *)
(* for the one the thread owns.                                            *)
LEMMA OwnerStep ==
    ASSUME PoolInv, NEW t \in Threads, Call(t) \/ Memfun(t)
    PROVE  OwnerInv'
  <1> USE PoolAssumption DEF PoolInv, TypeOK, OwnerInv, LockHeld, ShadowFresh, Chosen,
          MaskExact, OwnersDiffer, Locked, Owning, Goto, pool
  <1>0. CASE Call(t)
    BY <1>0 DEF Call
  <1>1. CASE EmployTake(t)
    BY <1>1 DEF EmployTake
  <1>2. CASE EmployLock(t)
    BY <1>2 DEF EmployLock, Lock
  <1>3. CASE EmployFind(t)
    <2>1. pc[t] = "find"
      BY <1>3 DEF EmployFind
    <2>2. ~(Actors \subseteq mask)
      BY <2>1, FreeActorExists
    <2>3. PICK a \in Actors : FirstFree(a, mask) /\ act' = [act EXCEPT ![t] = a]
      BY <1>3, <2>2 DEF EmployFind
    <2> QED BY <1>3, <2>3 DEF EmployFind, FirstFree
  <1>4. CASE EmploySet(t)
    <2>1. /\ pc[t] = "setBit" /\ act[t] \in Actors \ mask /\ shadow[t] = mask
          /\ pc' = [pc EXCEPT ![t] = "employUnlock"]
          /\ act' = act /\ poolLock' = poolLock
          /\ shadow' = [shadow EXCEPT ![t] = {}]
      BY <1>4 DEF EmploySet
    <2>2. act[t] # -1
      BY <2>1 DEF Actors
    <2>3. mask' = mask \cup {act[t]}
      BY <1>4, <2>1, <2>2 DEF EmploySet
    <2>4. LockHeld' /\ ShadowFresh' /\ Chosen'
      BY <2>1, <2>3
    <2>5. MaskExact'
      BY <2>1, <2>3
    <2>6. OwnersDiffer'
      BY <2>1, <2>3
    <2> QED BY <2>4, <2>5, <2>6
  <1>5. CASE EmployUnlock(t)
    <2>1. act[t] # -1
      BY <1>5 DEF EmployUnlock, Unlock, Actors
    <2> QED BY <1>5, <2>1 DEF EmployUnlock, Unlock
  <1>6. CASE Setup(t)
    BY <1>6 DEF Setup
  <1>7. CASE Trigger(t)
    BY <1>7 DEF Trigger
  <1>8. CASE WaitTake(t)
    BY <1>8 DEF WaitTake
  <1>9. CASE Collect(t)
    BY <1>9 DEF Collect
  <1>10. CASE FireLock(t)
    BY <1>10 DEF FireLock, Lock
  <1>11. CASE FireLoad(t)
    BY <1>11 DEF FireLoad
  <1>12. CASE FireClear(t)
    BY <1>12 DEF FireClear
  <1>13. CASE FireUnlock(t)
    BY <1>13 DEF FireUnlock, Unlock
  <1>14. CASE PoolRelease(t)
    BY <1>14 DEF PoolRelease
  <1> QED BY <1>0, <1>1, <1>2, <1>3, <1>4, <1>5, <1>6, <1>7, <1>8, <1>9, <1>10, <1>11, <1>12, <1>13, <1>14
          DEF Memfun, Employ, Transfer, Fire

(* The steps of a caller keep the token count. *)
LEMMA TokenMemfun ==
    ASSUME PoolInv, NEW t \in Threads, Call(t) \/ Memfun(t)
    PROVE  TokenCount'
  <1> USE DEF PoolInv, Tokened, Sites, pool
  <1>0. CASE Call(t)
    BY <1>0, TokenStep DEF Call
  <1>1. CASE EmployTake(t)
    BY <1>1, TokenStep DEF EmployTake
  <1>2. CASE EmployLock(t)
    BY <1>2, TokenStep DEF EmployLock, Lock
  <1>3. CASE EmployFind(t)
    BY <1>3, TokenStep DEF EmployFind
  <1>4. CASE EmploySet(t)
    BY <1>4, TokenStep DEF EmploySet
  <1>5. CASE EmployUnlock(t)
    <2>1. Goto(t, "setup")
      BY <1>5 DEF EmployUnlock, Unlock, MaskExact, Owning, TypeOK, Actors
    <2> QED BY <1>5, <2>1, TokenStep DEF EmployUnlock, Unlock
  <1>6. CASE Setup(t)
    BY <1>6, TokenStep DEF Setup
  <1>7. CASE Trigger(t)
    BY <1>7, TokenStep DEF Trigger
  <1>8. CASE WaitTake(t)
    BY <1>8, TokenStep DEF WaitTake
  <1>9. CASE Collect(t)
    BY <1>9, TokenStep DEF Collect
  <1>10. CASE FireLock(t)
    BY <1>10, TokenStep DEF FireLock, Lock
  <1>11. CASE FireLoad(t)
    BY <1>11, TokenStep DEF FireLoad
  <1>12. CASE FireClear(t)
    BY <1>12, TokenStep DEF FireClear
  <1>13. CASE FireUnlock(t)
    BY <1>13, TokenStep DEF FireUnlock, Unlock
  <1>14. CASE PoolRelease(t)
    BY <1>14, TokenStep DEF PoolRelease
  <1> QED BY <1>0, <1>1, <1>2, <1>3, <1>4, <1>5, <1>6, <1>7, <1>8, <1>9, <1>10, <1>11, <1>12, <1>13, <1>14
          DEF Memfun, Employ, Transfer, Fire

(* Hardware and handler do not touch the pool. *)
LEMMA MachinePool ==
    ASSUME Hardware \/ Isr
    PROVE  UNCHANGED <<pc, act, shadow, mask, poolSem, poolLock>>
  BY DEF Hardware, HwDone, HwAbort, HwPeriphDone, HwPeriphTimeout,
         Isr, IsrEnter, IsrReadAbt, IsrReadTd, IsrServe, IsrExit, thread, pool

LEMMA PoolUnchanged ==
    ASSUME PoolInv, TypeOK', UNCHANGED <<pc, act, shadow, mask, poolSem, poolLock>>
    PROVE  PoolInv'
  BY DEF PoolInv, TokenCount, TokenHolders, LockHeld, ShadowFresh, Chosen,
         MaskExact, OwnersDiffer

-----------------------------------------------------------------------------
(* PoolInv is an inductive invariant of nu_pdma_memfun, its callers and    *)
(* the interrupt handler.                                                  *)
THEOREM PoolInvariant == Spec => []PoolInv
  <1>1. Init => PoolInv
    <2> SUFFICES ASSUME Init PROVE PoolInv
      OBVIOUS
    <2>1. TokenHolders = {}
      BY DEF TokenHolders, Tokened, Init
    <2>2. TokenCount
      BY <2>1, FS_EmptySet, PoolAssumption DEF TokenCount, Init
    <2> QED BY <2>2, InitType DEF PoolInv, Init, LockHeld, ShadowFresh, Chosen,
               MaskExact, OwnersDiffer, Locked, Owning
  <1>2. PoolInv /\ [Next]_vars => PoolInv'
    <2> SUFFICES ASSUME PoolInv, [Next]_vars PROVE PoolInv'
      OBVIOUS
    <2>1. ASSUME NEW t \in Threads, Call(t) \/ Memfun(t) PROVE PoolInv'
      <3>1. pc[t] \in {"setup", "wait", "trigger", "collect"} => act[t] \in Actors
        BY DEF PoolInv, MaskExact, Owning, TypeOK
      <3>2. TypeOK'
        BY <2>1, <3>1, MemfunType DEF PoolInv
      <3> QED BY <2>1, <3>2, OwnerStep, TokenMemfun DEF PoolInv, OwnerInv
    <2>2. CASE Hardware \/ Isr
      BY <2>2, MachineType, MachinePool, PoolUnchanged DEF PoolInv
    <2>3. CASE UNCHANGED vars
      <3>1. TypeOK'
        BY <2>3 DEF PoolInv, TypeOK, vars, thread, pool, engine, flags, isrv
      <3> QED BY <2>3, <3>1, PoolUnchanged DEF vars, thread, pool
    <2> QED BY <2>1, <2>2, <2>3 DEF Next
  <1> QED BY <1>1, <1>2, PTL DEF Spec

(* The variables of nu_pdma_memfun, its pool and the handler keep their    *)
(* types.                                                                  *)
THEOREM MemfunTypeOK == Spec => []TypeOK
  <1>1. PoolInv => TypeOK
    BY DEF PoolInv
  <1> QED BY <1>1, PoolInvariant, PTL

(* No two calls of nu_pdma_memfun drive the same PDMA channel. *)
THEOREM ActorsExclusive == Spec => []ActorExclusive
  <1>1. PoolInv => ActorExclusive
    BY DEF PoolInv, OwnersDiffer, ActorExclusive, Owner
  <1> QED BY <1>1, PoolInvariant, PTL

(* nu_pdma_memfun_employ never fails once the pool semaphore let it in. *)
THEOREM EmploySucceeds == Spec => []EmployFindsActor
  <1>1. PoolInv => EmployFindsActor
    BY PoolAssumption DEF PoolInv, Chosen, MaskExact, Owning, EmployFindsActor,
       TypeOK, Actors
  <1> QED BY <1>1, PoolInvariant, PTL
-----------------------------------------------------------------------------
(* Only transfer-done flags can be raised: no channel has an idle timeout  *)
(* and the bus never aborts.                                               *)
QuietModule == IdleTimed = {} /\ ~Aborts

(* The actor has the module to itself; its transfers may be aborted. *)
LoneModule == Periph = {} /\ NumActors = 1

(* On both, the INTSTS the handler read announces every flag it reads      *)
(* later: on the first INTSTS shows TDIF whenever the handler runs, on the *)
(* second no flag is raised before the one announced was served.           *)
ClearsAll == QuietModule \/ LoneModule

Announced ==
    /\ reqto = {} /\ (QuietModule => abt = {})
    /\ isr \in {"abtsts", "tdsts"} => /\ td \cup abt # {}
                                      /\ td # {} => "TDIF" \in isrInt
                                      /\ abt # {} => "ABTIF" \in isrInt

(* What the handler holds in its hands *)
InHand ==
    /\ isr # "serve" => isrTodo[1] = {}
    /\ isr = "tdsts" => isrAbt = abt
    /\ QuietModule => isrAbt = {}
    /\ isrTodo[1] \subseteq isrTodo[2] \cup isrAbt

Waiter(a) == \E t \in Threads : pc[t] = "wait" /\ act[t] = a

Ended == {"done", "aborted"}
EventsOf(s) == IF s = "done" THEN {"TRANSFER_DONE"} ELSE {"ABORT"}

(* The end of a transfer is in exactly one place on its way to the waiter: *)
(* still to come, in TDSTS or ABTSTS, in the handler's hands, or in the    *)
(* semaphore.                                                              *)
OneReport ==
    \A a \in Actors :
        /\ chan[a] = "busy" => Waiter(a)
        /\ a \in td => chan[a] = "done" /\ Waiter(a) /\ a \notin isrTodo[1]
        /\ a \in abt => chan[a] = "aborted" /\ Waiter(a) /\ a \notin isrTodo[1]
        /\ a \in isrTodo[1] => /\ chan[a] \in Ended /\ Waiter(a)
                               /\ a \in isrTodo[2] <=> chan[a] = "done"
                               /\ a \in isrAbt <=> chan[a] = "aborted"
        /\ memSem[a] > 0 => /\ chan[a] \in Ended /\ Waiter(a)
                            /\ memSem[a] = 1
                            /\ a \notin td /\ a \notin abt /\ a \notin isrTodo[1]
                            /\ result[a] = EventsOf(chan[a])

Reported ==
    \A t \in Threads :
        /\ pc[t] = "collect" => /\ chan[act[t]] \in Ended
                                /\ result[act[t]] = EventsOf(chan[act[t]])
        /\ pc[t] = "fireLock" => chan[act[t]] \in {"done", "idle"}

DoneInv == Announced /\ InHand /\ OneReport /\ Reported

(* Owners of an actor are unique, and every place after the search owns one. *)
LEMMA SoleOwner ==
    ASSUME PoolInv, NEW t \in Threads, NEW u \in Threads,
           pc[t] \in Owning, pc[u] \in Owning, act[t] = act[u]
    PROVE  t = u /\ act[t] \in Actors
  BY DEF PoolInv, OwnersDiffer, MaskExact, TypeOK

(* Steps of a caller that move it between places outside the wait for its  *)
(* channel change nothing DoneInv speaks of.                               *)
LEMMA DoneElsewhere ==
    ASSUME PoolInv, DoneInv, NEW t \in Threads, NEW to \in Sites, Goto(t, to),
           pc[t] \notin {"wait", "collect"}, to \notin {"collect", "fireLock"},
           \A u \in Threads \ {t} : act'[u] = act[u],
           UNCHANGED <<memSem, result, chan, flags, isrv>>
    PROVE  DoneInv'
  <1> USE DEF DoneInv, PoolInv, TypeOK, Goto, flags, isrv
  <1>1. \A a \in Actors : Waiter(a) => Waiter(a)'
    BY DEF Waiter
  <1>2. Announced' /\ InHand'
    BY DEF Announced, InHand
  <1>3. OneReport'
    BY <1>1 DEF OneReport
  <1>4. Reported'
    BY DEF Reported
  <1> QED BY <1>2, <1>3, <1>4

(* Every step of a caller keeps DoneInv. *)
LEMMA DoneMemfun ==
    ASSUME PoolInv, DoneInv, NEW t \in Threads, Call(t) \/ Memfun(t)
    PROVE  DoneInv'
  <1> USE DEF pool, engine, flags, isrv
  <1>1. CASE Call(t)
    BY <1>1, DoneElsewhere DEF Call, Goto, Sites
  <1>2. CASE EmployTake(t)
    BY <1>2, DoneElsewhere DEF EmployTake, Goto, Sites
  <1>3. CASE EmployLock(t)
    BY <1>3, DoneElsewhere DEF EmployLock, Lock, Goto, Sites
  <1>4. CASE EmployFind(t)
    <2>1. \A u \in Threads \ {t} : act'[u] = act[u]
      BY <1>4 DEF EmployFind, PoolInv, TypeOK
    <2> QED BY <1>4, <2>1, DoneElsewhere DEF EmployFind, Goto, Sites
  <1>5. CASE EmploySet(t)
    BY <1>5, DoneElsewhere DEF EmploySet, Goto, Sites
  <1>6. CASE EmployUnlock(t)
    BY <1>6, DoneElsewhere DEF EmployUnlock, Unlock, Goto, Sites
  <1>7. CASE FireLock(t)
    BY <1>7, DoneElsewhere DEF FireLock, Lock, Goto, Sites
  <1>8. CASE FireLoad(t)
    BY <1>8, DoneElsewhere DEF FireLoad, Goto, Sites
  <1>9. CASE FireClear(t)
    <2>1. \A u \in Threads \ {t} : act'[u] = act[u]
      BY <1>9 DEF FireClear, PoolInv, TypeOK
    <2> QED BY <1>9, <2>1, DoneElsewhere DEF FireClear, Goto, Sites
  <1>10. CASE FireUnlock(t)
    BY <1>10, DoneElsewhere DEF FireUnlock, Unlock, Goto, Sites
  <1>11. CASE PoolRelease(t)
    <2> USE <1>11 DEF PoolRelease, PoolInv, TypeOK, Goto, DoneInv
    <2>1. \A a \in Actors : Waiter(a) => Waiter(a)'
      BY DEF Waiter
    <2>2. Announced' /\ InHand' /\ OneReport'
      BY <2>1 DEF Announced, InHand, OneReport
    <2>3. Reported'
      BY DEF Reported
    <2> QED BY <2>2, <2>3
  <1>12. CASE Setup(t)
    <2> DEFINE a == act[t]
    <2>1. pc[t] \in Owning /\ a \in Actors
      BY <1>12, SoleOwner DEF Setup, Owning
    <2>2. ~Waiter(a)
      BY <1>12, <2>1, SoleOwner DEF Setup, Owning, Waiter
    <2>3. \A u \in Threads : pc[u] = "collect" => act[u] # a
      BY <1>12, <2>1, SoleOwner DEF Setup, Owning
    <2>4. \A b \in Actors : Waiter(b) => Waiter(b)'
      BY <1>12 DEF Waiter, Setup, Goto, PoolInv, TypeOK
    <2>5. Announced' /\ InHand'
      BY <1>12 DEF DoneInv, Announced, InHand, Setup
    <2>6. OneReport'
      BY <1>12, <2>2, <2>4 DEF DoneInv, OneReport, Setup, PoolInv, TypeOK
    <2>7. Reported'
      BY <1>12, <2>1, <2>3 DEF DoneInv, Reported, Setup, Goto, PoolInv, TypeOK, Owning, MaskExact
    <2> QED BY <2>5, <2>6, <2>7 DEF DoneInv
  <1>13. CASE Trigger(t)
    <2> DEFINE a == act[t]
    <2>1. pc[t] \in Owning /\ a \in Actors
      BY <1>13, SoleOwner DEF Trigger, Owning
    <2>2. ~Waiter(a)
      BY <1>13, <2>1, SoleOwner DEF Trigger, Owning, Waiter
    <2>3. \A u \in Threads : pc[u] \in {"collect", "fireLock"} => act[u] # a
      BY <1>13, <2>1, SoleOwner DEF Trigger, Owning
    <2>4. Waiter(a)' /\ \A b \in Actors : Waiter(b) => Waiter(b)'
      BY <1>13 DEF Waiter, Trigger, Goto, PoolInv, TypeOK
    <2>5. Announced' /\ InHand'
      BY <1>13 DEF DoneInv, Announced, InHand, Trigger
    <2>6. OneReport'
      BY <1>13, <2>1, <2>2, <2>4 DEF DoneInv, OneReport, Trigger, PoolInv, TypeOK
    <2>7. Reported'
      BY <1>13, <2>1, <2>3 DEF DoneInv, Reported, Trigger, Goto, PoolInv, TypeOK, Owning, MaskExact
    <2> QED BY <2>5, <2>6, <2>7 DEF DoneInv
  <1>14. CASE WaitTake(t)
    <2> DEFINE a == act[t]
    <2>1. pc[t] \in Owning /\ a \in Actors
      BY <1>14, SoleOwner DEF WaitTake, Owning
    <2>2. \A b \in Actors \ {a} : Waiter(b) => Waiter(b)'
      BY <1>14 DEF Waiter, WaitTake, Goto, PoolInv, TypeOK
    <2>3. /\ chan[a] \in Ended /\ memSem[a] = 1
          /\ a \notin td /\ a \notin abt /\ a \notin isrTodo[1]
          /\ result[a] = EventsOf(chan[a])
      BY <1>14, <2>1 DEF WaitTake, DoneInv, OneReport
    <2>4. Announced' /\ InHand'
      BY <1>14 DEF DoneInv, Announced, InHand, WaitTake
    <2>5. OneReport'
      <3>1. memSem \in [Actors -> Nat] /\ memSem' = [memSem EXCEPT ![a] = @ - 1]
        BY <1>14 DEF WaitTake, PoolInv, TypeOK
      <3>2. memSem'[a] = 0 /\ \A b \in Actors \ {a} : memSem'[b] = memSem[b]
        BY <2>1, <2>3, <3>1
      <3>3. UNCHANGED <<chan, td, abt, isrTodo, isrAbt, result>>
        BY <1>14 DEF WaitTake
      <3>4. chan[a] # "busy"
        BY <2>3 DEF Ended
      <3> QED BY <2>1, <2>2, <2>3, <3>2, <3>3, <3>4 DEF DoneInv, OneReport
    <2>6. Reported'
      BY <1>14, <2>3 DEF DoneInv, Reported, WaitTake, Goto, PoolInv, TypeOK
    <2> QED BY <2>4, <2>5, <2>6 DEF DoneInv
  <1>15. CASE Collect(t)
    <2>1. PICK a : a = act[t]
      OBVIOUS
    <2>2. a \in Actors /\ chan[a] \in Ended /\ result[a] = EventsOf(chan[a])
      <3>1. pc[t] = "collect"
        BY <1>15 DEF Collect
      <3>2. a \in Actors
        BY <2>1, <3>1, SoleOwner DEF Owning
      <3> QED BY <2>1, <3>1, <3>2 DEF DoneInv, Reported
    <2>3. ~Waiter(a) /\ \A u \in Threads : pc[u] = "collect" /\ u # t => act[u] # a
      BY <1>15, <2>1, SoleOwner DEF Collect, Owning, Waiter
    <2>4. \A b \in Actors : Waiter(b) => Waiter(b)'
      BY <1>15 DEF Waiter, Collect, Goto, PoolInv, TypeOK
    <2>5. /\ chan[a] = "done" => chan'[a] = "done"
          /\ chan[a] = "aborted" => chan'[a] = "idle"
          /\ \A b \in Actors : b # a => chan'[b] = chan[b]
      <3>1. chan \in [Actors -> {"idle", "busy", "done", "aborted"}]
        BY DEF PoolInv, TypeOK
      <3>3. CASE chan[a] = "done"
        <4>1. result[a] = {"TRANSFER_DONE"} /\ "ABORT" \notin result[a]
          BY <2>2, <3>3 DEF EventsOf
        <4> QED BY <1>15, <2>1, <2>2, <3>1, <3>3, <4>1 DEF Collect
      <3>4. CASE chan[a] = "aborted"
        <4>1. result[a] = {"ABORT"} /\ "TRANSFER_DONE" \notin result[a]
          BY <2>2, <3>4 DEF EventsOf
        <4> QED BY <1>15, <2>1, <2>2, <3>1, <3>4, <4>1 DEF Collect
      <3> QED BY <2>2, <3>3, <3>4 DEF Ended
    <2>6. Announced' /\ InHand'
      BY <1>15 DEF DoneInv, Announced, InHand, Collect
    <2>7. OneReport'
      <3> SUFFICES ASSUME NEW b \in Actors
                   PROVE  /\ chan'[b] = "busy" => Waiter(b)'
                          /\ b \in td' => chan'[b] = "done" /\ Waiter(b)' /\ b \notin isrTodo'[1]
                          /\ b \in abt' => chan'[b] = "aborted" /\ Waiter(b)' /\ b \notin isrTodo'[1]
                          /\ b \in isrTodo'[1] => /\ chan'[b] \in Ended /\ Waiter(b)'
                                                  /\ b \in isrTodo'[2] <=> chan'[b] = "done"
                                                  /\ b \in isrAbt' <=> chan'[b] = "aborted"
                          /\ memSem'[b] > 0 =>
                                /\ chan'[b] \in Ended /\ Waiter(b)'
                                /\ memSem'[b] = 1
                                /\ b \notin td' /\ b \notin abt' /\ b \notin isrTodo'[1]
                                /\ result'[b] = EventsOf(chan'[b])
        BY DEF OneReport, EventsOf, Ended
      <3>1. CASE b = a
        BY <1>15, <2>2, <2>3, <2>5, <3>1 DEF DoneInv, OneReport, Collect, Ended
      <3>2. CASE b # a
        BY <1>15, <2>4, <2>5, <3>2 DEF DoneInv, OneReport, Collect
      <3> QED BY <3>1, <3>2
    <2>8. Reported'
      <3> SUFFICES ASSUME NEW u \in Threads
                   PROVE  /\ pc'[u] = "collect" => /\ chan'[act'[u]] \in Ended
                                                   /\ result'[act'[u]] = EventsOf(chan'[act'[u]])
                          /\ pc'[u] = "fireLock" => chan'[act'[u]] \in {"done", "idle"}
        BY DEF Reported, EventsOf, Ended
      <3>1. CASE u = t
        BY <1>15, <2>1, <2>2, <2>5, <3>1 DEF Collect, Goto, PoolInv, TypeOK, Ended
      <3>2. CASE u # t
        <4>1. pc'[u] = pc[u] /\ act'[u] = act[u] /\ result' = result
          BY <1>15, <3>2 DEF Collect, Goto, PoolInv, TypeOK
        <4>2. pc[u] \in {"collect", "fireLock"} => act[u] \in Actors /\ act[u] # a
          BY <1>15, <2>1, <3>2, SoleOwner DEF Owning, Collect
        <4> QED BY <2>5, <4>1, <4>2 DEF DoneInv, Reported
      <3> QED BY <3>1, <3>2
    <2> QED BY <2>6, <2>7, <2>8 DEF DoneInv
  <1> QED BY <1>1, <1>2, <1>3, <1>4, <1>5, <1>6, <1>7, <1>8, <1>9, <1>10, <1>11,
             <1>12, <1>13, <1>14, <1>15 DEF Memfun, Employ, Transfer, Fire

(* While the handler reads the flags a module of one actor raises no more. *)
LEMMA NoneRaised ==
    ASSUME LoneModule, PoolInv, DoneInv, NEW a \in Actors, chan[a] = "busy"
    PROVE  isr \notin {"abtsts", "tdsts"}
  <1>1. Actors = {0} /\ Channels = {0}
    BY DEF LoneModule, Actors, Channels
  <1>2. td \subseteq {0} /\ abt \subseteq {0} /\ a = 0
    BY <1>1 DEF PoolInv, TypeOK
  <1>3. a \notin td /\ a \notin abt
    BY DEF DoneInv, OneReport
  <1> QED BY <1>2, <1>3 DEF DoneInv, Announced

LEMMA DoneMachine ==
    ASSUME ClearsAll, PoolInv, DoneInv, Hardware \/ Isr
    PROVE  DoneInv'
  <1> USE DEF thread, engine
  <1>0. \A a \in Actors : Waiter(a) <=> Waiter(a)'
    BY MachinePool DEF Waiter
  <1>1. ASSUME NEW a \in Actors, HwDone(a) PROVE DoneInv'
    <2>1. \A t \in Threads : pc[t] \in {"collect", "fireLock"} => act[t] # a
      BY <1>1 DEF HwDone, DoneInv, Reported, Ended
    <2>2. Waiter(a) /\ memSem[a] = 0 /\ a \notin isrTodo[1] /\ a \notin abt
      BY <1>1 DEF HwDone, DoneInv, OneReport, PoolInv, TypeOK, Ended
    <2>3. Announced' /\ InHand'
      <3>1. isr \in {"abtsts", "tdsts"} => "TDIF" \in isrInt
        BY <1>1, NoneRaised DEF HwDone, DoneInv, Announced, ClearsAll
      <3> QED BY <1>1, <3>1 DEF HwDone, DoneInv, Announced, InHand, isrv
    <2>4. OneReport'
      BY <1>0, <1>1, <2>2 DEF HwDone, DoneInv, OneReport, PoolInv, TypeOK, isrv
    <2>5. Reported'
      BY <1>1, <2>1 DEF HwDone, DoneInv, Reported, PoolInv, TypeOK, MaskExact, Owning
    <2> QED BY <2>3, <2>4, <2>5 DEF DoneInv
  <1>2. ASSUME NEW a \in Actors, HwAbort(a) PROVE DoneInv'
    <2>1. \A t \in Threads : pc[t] \in {"collect", "fireLock"} => act[t] # a
      BY <1>2 DEF HwAbort, DoneInv, Reported, Ended
    <2>2. Waiter(a) /\ memSem[a] = 0 /\ a \notin isrTodo[1] /\ a \notin td
      BY <1>2 DEF HwAbort, DoneInv, OneReport, PoolInv, TypeOK, Ended
    <2>3. Announced' /\ InHand'
      <3>1. ~QuietModule /\ LoneModule
        BY <1>2 DEF HwAbort, ClearsAll, QuietModule
      <3>2. isr \notin {"abtsts", "tdsts"}
        BY <1>2, <3>1, NoneRaised DEF HwAbort
      <3> QED BY <1>2, <3>1, <3>2 DEF HwAbort, DoneInv, Announced, InHand, isrv
    <2>4. OneReport'
      BY <1>0, <1>2, <2>2 DEF HwAbort, DoneInv, OneReport, PoolInv, TypeOK, isrv
    <2>5. Reported'
      BY <1>2, <2>1 DEF HwAbort, DoneInv, Reported, PoolInv, TypeOK, MaskExact, Owning
    <2> QED BY <2>3, <2>4, <2>5 DEF DoneInv
  <1>3. ASSUME NEW p \in Periph, HwPeriphDone(p) PROVE DoneInv'
    <2>1. p \notin Actors
      BY PoolAssumption
    <2>2. QuietModule
      BY DEF ClearsAll, LoneModule
    <2>3. Announced' /\ InHand'
      BY <1>3, <2>2 DEF HwPeriphDone, DoneInv, Announced, InHand, isrv
    <2>4. OneReport'
      BY <1>0, <1>3, <2>1 DEF HwPeriphDone, DoneInv, OneReport, isrv
    <2>5. Reported'
      BY <1>3 DEF HwPeriphDone, DoneInv, Reported
    <2> QED BY <2>3, <2>4, <2>5 DEF DoneInv
  <1>4. ASSUME NEW p \in Periph, HwPeriphTimeout(p) PROVE DoneInv'
    BY <1>4 DEF HwPeriphTimeout, ClearsAll, QuietModule, LoneModule
  <1>5. CASE IsrEnter
    <2>1. Announced'
      BY <1>5 DEF IsrEnter, DoneInv, Announced, flags
    <2>2. InHand'
      BY <1>5 DEF IsrEnter, DoneInv, Announced, InHand, flags
    <2>3. OneReport'
      BY <1>0, <1>5 DEF IsrEnter, DoneInv, Announced, OneReport, flags
    <2>4. Reported'
      BY <1>5 DEF IsrEnter, DoneInv, Reported
    <2> QED BY <2>1, <2>2, <2>3, <2>4 DEF DoneInv
  <1>6. CASE IsrReadAbt
    <2>1. isrTodo[1] = {}
      BY <1>6 DEF IsrReadAbt, DoneInv, InHand
    <2>2. Announced' /\ InHand'
      BY <1>6, <2>1 DEF IsrReadAbt, DoneInv, Announced, InHand, flags
    <2>3. OneReport'
      BY <1>0, <1>6, <2>1 DEF IsrReadAbt, DoneInv, OneReport, flags
    <2>4. Reported'
      BY <1>6 DEF IsrReadAbt, DoneInv, Reported
    <2> QED BY <2>2, <2>3, <2>4 DEF DoneInv
  <1>7. CASE IsrReadTd
    <2>1. isrTodo[1] = {} /\ isrAbt = abt /\ reqto = {}
      BY <1>7 DEF IsrReadTd, DoneInv, Announced, InHand
    <2>2. td' = {} /\ abt' = {} /\ reqto' = {}
      BY <1>7, <2>1 DEF IsrReadTd, DoneInv, Announced
    <2>3. isrTodo'[1] = abt \cup td /\ isrTodo'[2] = td /\ isrAbt' = abt /\ isr' = "serve"
      BY <1>7, <2>1 DEF IsrReadTd
    <2>4. Announced' /\ InHand'
      BY <2>1, <2>2, <2>3 DEF DoneInv, Announced, InHand
    <2>5. OneReport'
      <3>1. \A a \in Actors :
               /\ a \in td => chan[a] = "done" /\ Waiter(a)
               /\ a \in abt => chan[a] = "aborted" /\ Waiter(a)
        BY DEF DoneInv, OneReport
      <3>2. chan' = chan /\ memSem' = memSem /\ result' = result
        BY <1>7 DEF IsrReadTd
      <3> QED BY <1>0, <2>2, <2>3, <3>1, <3>2 DEF DoneInv, OneReport, Ended
    <2>6. Reported'
      BY <1>7 DEF IsrReadTd, DoneInv, Reported
    <2> QED BY <2>4, <2>5, <2>6 DEF DoneInv
  <1>8. CASE IsrExit
    <2>1. Announced' /\ InHand'
      BY <1>8 DEF IsrExit, DoneInv, Announced, InHand, flags
    <2>2. OneReport'
      BY <1>0, <1>8 DEF IsrExit, DoneInv, OneReport, flags
    <2>3. Reported'
      BY <1>8 DEF IsrExit, DoneInv, Reported
    <2> QED BY <2>1, <2>2, <2>3 DEF DoneInv
  <1>9. ASSUME NEW c \in Channels, IsrServe(c) PROVE DoneInv'
    <2>1. c \in Actors => /\ chan[c] \in Ended /\ Waiter(c) /\ memSem[c] = 0
                          /\ c \notin td /\ c \notin abt
                          /\ ChannelEvents(c) = EventsOf(chan[c])
      <3>1. c \in isrTodo[1]
        BY <1>9 DEF IsrServe
      <3>2. c \in Actors => /\ chan[c] \in Ended /\ Waiter(c)
                            /\ c \in isrTodo[2] <=> chan[c] = "done"
                            /\ c \in isrAbt <=> chan[c] = "aborted"
                            /\ c \notin td /\ c \notin abt /\ ~(memSem[c] > 0)
        BY <3>1 DEF DoneInv, OneReport
      <3>3. c \in Actors => memSem[c] \in Nat
        BY DEF PoolInv, TypeOK
      <3> QED BY <3>2, <3>3 DEF ChannelEvents, EventsOf, Ended
    <2>2. isrTodo'[1] = isrTodo[1] \ {c} /\ isrTodo'[2] = isrTodo[2]
          /\ td' = td /\ abt' = abt /\ reqto' = reqto /\ chan' = chan
          /\ isr' = isr /\ isrAbt' = isrAbt /\ isrInt' = isrInt
      BY <1>9 DEF IsrServe, flags
    <2>3. Announced' /\ InHand'
      BY <1>9, <2>2 DEF IsrServe, DoneInv, Announced, InHand
    <2>4. /\ \A a \in Actors \ {c} : result'[a] = result[a] /\ memSem'[a] = memSem[a]
          /\ c \in Actors =>
               \/ result'[c] = EventsOf(chan[c]) /\ memSem'[c] = 1
               \/ result'[c] = result[c] /\ memSem'[c] = 0
      <3>1. memSem \in [Actors -> Nat] /\ result \in [Actors -> SUBSET Events]
        BY DEF PoolInv, TypeOK
      <3>2. CASE c \in Actors /\ c \in handler
        BY <1>9, <2>1, <3>1, <3>2 DEF IsrServe
      <3>3. CASE ~(c \in Actors /\ c \in handler)
        BY <1>9, <2>1, <3>3 DEF IsrServe
      <3> QED BY <3>2, <3>3
    <2>5. OneReport'
      BY <1>0, <2>1, <2>2, <2>4 DEF DoneInv, OneReport
    <2>6. Reported'
      <3>1. \A t \in Threads : pc[t] = "collect" => act[t] \in Actors
        BY SoleOwner DEF Owning
      <3>2. \A t \in Threads : pc[t] = "collect" /\ c \in Actors => act[t] # c
        BY <2>1, SoleOwner DEF Waiter, Owning
      <3> QED BY <1>9, <2>2, <2>4, <3>1, <3>2 DEF IsrServe, DoneInv, Reported
    <2> QED BY <2>3, <2>5, <2>6 DEF DoneInv
  <1> QED BY <1>1, <1>2, <1>3, <1>4, <1>5, <1>6, <1>7, <1>8, <1>9 DEF Hardware, Isr

(* On a module where INTSTS announces every flag the handler reads, the    *)
(* end of each transfer, an abort included, is reported exactly once.      *)
THEOREM DoneInvariant == ASSUME ClearsAll PROVE Spec => []DoneInv
  <1>1. Init => DoneInv
    BY DEF Init, DoneInv, Announced, InHand, OneReport, Reported
  <1>2. PoolInv /\ DoneInv /\ [Next]_vars => DoneInv'
    <2> SUFFICES ASSUME PoolInv, DoneInv, [Next]_vars PROVE DoneInv'
      OBVIOUS
    <2>1. CASE UNCHANGED vars
      BY <2>1 DEF vars, thread, engine, flags, isrv, DoneInv, Announced, InHand, OneReport,
                  Reported, Waiter
    <2> QED BY <2>1, DoneMemfun, DoneMachine DEF Next
  <1> QED BY <1>1, <1>2, PoolInvariant, PTL DEF Spec

(* "Wait it done": on such a module a caller goes on only after its own    *)
(* transfer has ended.                                                     *)
THEOREM WaitsForItsTransfer == ASSUME ClearsAll PROVE Spec => []WaitItDone
  <1>1. DoneInv => WaitItDone
    BY DEF DoneInv, Reported, WaitItDone, Ended
  <1> QED BY <1>1, DoneInvariant, PTL

-----------------------------------------------------------------------------
(* The counts: an end that is still on its way to a waiter, or has reached *)
(* it, is the end of the transfer that this waiter asked for, and the      *)
(* engine has moved all of it, or less when it was aborted.                *)

OnItsWay(a) ==
    \/ chan[a] = "busy" \/ a \in td \/ a \in abt \/ a \in isrTodo[1] \/ memSem[a] > 0

Asked ==
    \A t \in Threads :
        (pc[t] = "wait" /\ OnItsWay(act[t])) \/ pc[t] = "collect" =>
            req[t] = total[act[t]] /\ req[t] > 0

Moved ==
    \A a \in Actors :
        /\ chan[a] = "done" => moved[a] = Planned(total[a])
        /\ chan[a] = "aborted" => moved[a] < Planned(total[a])

CountInv == Asked /\ Moved /\ TruthfulCount

(* An engine that stopped short has units left in the descriptor at hand;  *)
(* of a transfer of one descriptor, all that were not moved.               *)
LEMMA UnitsLeft ==
    ASSUME NEW n \in Nat, NEW m \in Nat, m < Planned(n)
    PROVE  /\ NonTransferCount(n, m) \in Int /\ NonTransferCount(n, m) >= 1
           /\ n <= MaxTxCnt => NonTransferCount(n, m) = n - m
  <1>1. Planned(n) \in Nat /\ (n <= MaxTxCnt => Planned(n) = n)
    BY PlannedType
  <1>2. MaxTxCnt \in Nat /\ MaxTxCnt > 0
    BY PoolAssumption
  <1>3. m % MaxTxCnt \in 0 .. MaxTxCnt - 1
    BY <1>2
  <1>4. CASE n > MaxTxCnt /\ m < (n \div MaxTxCnt) * MaxTxCnt
    <2>1. NonTransferCount(n, m) = MaxTxCnt - (m % MaxTxCnt)
      BY <1>1, <1>4 DEF NonTransferCount
    <2> QED BY <1>2, <1>3, <1>4, <2>1
  <1>5. CASE ~(n > MaxTxCnt /\ m < (n \div MaxTxCnt) * MaxTxCnt)
    <2>1. NonTransferCount(n, m) = Planned(n) - m
      BY <1>1, <1>5 DEF NonTransferCount
    <2> QED BY <1>1, <1>2, <2>1
  <1> QED BY <1>4, <1>5

(* A step that starts no transfer, ends none and changes no report keeps   *)
(* CountInv, if nobody comes to the wait or behind it.                     *)
LEMMA CountElsewhere ==
    ASSUME PoolInv, CountInv, NEW t \in Threads, NEW to \in Sites, Goto(t, to),
           to \notin {"wait", "collect", "fireLock"},
           \A u \in Threads \ {t} : /\ act'[u] = act[u] /\ req'[u] = req[u]
                                    /\ ret'[u] = ret[u],
           UNCHANGED <<engine, memSem, flags, isrv>>
    PROVE  CountInv'
  <1> USE DEF CountInv, PoolInv, TypeOK, Goto, engine, flags, isrv
  <1>1. \A u \in Threads : pc'[u] \in {"wait", "collect", "fireLock"} =>
                             /\ u # t /\ pc'[u] = pc[u] /\ act'[u] = act[u]
                             /\ req'[u] = req[u] /\ ret'[u] = ret[u]
    OBVIOUS
  <1>2. \A a : OnItsWay(a)' <=> OnItsWay(a)
    BY DEF OnItsWay
  <1>3. Asked'
    BY <1>1, <1>2 DEF Asked
  <1>4. Moved'
    BY DEF Moved
  <1>5. TruthfulCount'
    BY <1>1 DEF TruthfulCount
  <1> QED BY <1>3, <1>4, <1>5

(* Every step of a caller keeps CountInv. *)
LEMMA CountMemfun ==
    ASSUME PoolInv, DoneInv, CountInv, NEW t \in Threads, Call(t) \/ Memfun(t)
    PROVE  CountInv'
  <1> USE DEF pool
  <1>0. /\ req \in [Threads -> Counts] /\ act \in [Threads -> Actors \cup {-1}]
        /\ ret \in [Threads -> Int] /\ pc \in [Threads -> Sites]
    BY DEF PoolInv, TypeOK
  <1>1. CASE Call(t)
    BY <1>0, <1>1, CountElsewhere DEF Call, Goto, Sites
  <1>2. CASE EmployTake(t)
    BY <1>2, CountElsewhere DEF EmployTake, Goto, Sites
  <1>3. CASE EmployLock(t)
    BY <1>3, CountElsewhere DEF EmployLock, Lock, Goto, Sites
  <1>4. CASE EmployFind(t)
    BY <1>0, <1>4, CountElsewhere DEF EmployFind, Goto, Sites
  <1>5. CASE EmploySet(t)
    BY <1>5, CountElsewhere DEF EmploySet, Goto, Sites
  <1>6. CASE EmployUnlock(t)
    BY <1>6, CountElsewhere DEF EmployUnlock, Unlock, Goto, Sites
  <1>7. CASE FireLock(t)
    BY <1>7, CountElsewhere DEF FireLock, Lock, Goto, Sites
  <1>8. CASE FireLoad(t)
    BY <1>8, CountElsewhere DEF FireLoad, Goto, Sites
  <1>9. CASE FireClear(t)
    BY <1>0, <1>9, CountElsewhere DEF FireClear, Goto, Sites
  <1>10. CASE FireUnlock(t)
    BY <1>10, CountElsewhere DEF FireUnlock, Unlock, Goto, Sites
  <1>11. CASE PoolRelease(t)
    BY <1>0, <1>11, CountElsewhere DEF PoolRelease, Goto, Sites
  <1>12. CASE Setup(t)
    BY <1>12, CountElsewhere DEF Setup, Goto, Sites
  <1>13. CASE Trigger(t)
    <2> DEFINE a == act[t]
    <2>1. a \in Actors /\ ~Waiter(a)
      BY <1>13, SoleOwner DEF Trigger, Owning, Waiter
    <2>2. ~OnItsWay(a)
      BY <2>1 DEF DoneInv, OneReport, OnItsWay
    <2>3. \A u \in Threads \ {t} : pc[u] \in {"wait", "collect", "fireLock"} =>
                                      act[u] \in Actors /\ act[u] # a
      BY <1>13, SoleOwner DEF Trigger, Owning
    <2>4. /\ pc' = [pc EXCEPT ![t] = "wait"]
          /\ UNCHANGED <<act, req, ret, memSem, td, abt, isrTodo>>
      BY <1>13 DEF Trigger, Goto, flags, isrv
    <2>5. \A b \in Actors \ {a} : /\ chan'[b] = chan[b] /\ total'[b] = total[b]
                                  /\ moved'[b] = moved[b]
      BY <1>13 DEF Trigger, engine, PoolInv, TypeOK
    <2>6. IF req[t] = 0 THEN UNCHANGED <<chan, total, moved>>
          ELSE chan'[a] = "busy" /\ total'[a] = req[t]
      BY <1>13, <2>1 DEF Trigger, engine, PoolInv, TypeOK
    <2>7. req[t] \in Nat
      BY <1>0, PoolAssumption
    <2>8. \A b \in Actors \ {a} : OnItsWay(b)' <=> OnItsWay(b)
      BY <2>4, <2>5 DEF OnItsWay
    <2>9. req[t] = 0 => ~OnItsWay(a)'
      BY <2>2, <2>4, <2>6 DEF OnItsWay
    <2>10. Asked'
      <3> SUFFICES ASSUME NEW u \in Threads,
                          (pc'[u] = "wait" /\ OnItsWay(act[u])') \/ pc'[u] = "collect"
                   PROVE  req'[u] = total'[act'[u]] /\ req'[u] > 0
        BY <2>4 DEF Asked, OnItsWay
      <3>1. CASE u = t
        BY <1>0, <2>4, <2>6, <2>7, <2>9, <3>1
      <3>2. CASE u # t
        <4>1. pc'[u] = pc[u] /\ act[u] \in Actors \ {a} /\ act'[u] = act[u]
          BY <1>0, <2>3, <2>4, <3>2
        <4>2. pc[u] = "wait" => OnItsWay(act[u])
          BY <2>4, <2>8, <4>1
        <4> QED BY <2>4, <2>5, <4>1, <4>2 DEF CountInv, Asked
      <3> QED BY <3>1, <3>2
    <2>11. Moved'
      BY <2>5, <2>6 DEF CountInv, Moved
    <2>12. TruthfulCount'
      BY <1>0, <2>3, <2>4, <2>5 DEF CountInv, TruthfulCount
    <2> QED BY <2>10, <2>11, <2>12 DEF CountInv
  <1>14. CASE WaitTake(t)
    <2>1. act[t] \in Actors
      BY <1>14, SoleOwner DEF WaitTake, Owning
    <2>2. \A u \in Threads \ {t} : pc[u] \in {"wait", "collect", "fireLock"} => act[u] # act[t]
      BY <1>14, SoleOwner DEF WaitTake, Owning
    <2>3. /\ pc[t] = "wait" /\ OnItsWay(act[t])
          /\ pc' = [pc EXCEPT ![t] = "collect"]
          /\ memSem' = [memSem EXCEPT ![act[t]] = @ - 1]
          /\ UNCHANGED <<act, req, ret, chan, total, moved, td, abt, isrTodo>>
      BY <1>14 DEF WaitTake, Goto, OnItsWay, engine, flags, isrv
    <2>4. \A u \in Threads \ {t} : pc[u] \in {"wait", "collect", "fireLock"} =>
                                      (OnItsWay(act[u])' => OnItsWay(act[u]))
      BY <2>2, <2>3, SoleOwner DEF OnItsWay, PoolInv, TypeOK, MaskExact, Owning
    <2>5. Asked'
      BY <1>0, <2>3, <2>4 DEF CountInv, Asked, OnItsWay
    <2>6. Moved' /\ TruthfulCount'
      BY <1>0, <2>3 DEF CountInv, Moved, TruthfulCount
    <2> QED BY <2>5, <2>6 DEF CountInv
  <1>15. CASE Collect(t)
    <2>1. PICK a \in Actors : a = act[t]
      BY <1>15, SoleOwner DEF Collect, Owning
    <2>2. \A u \in Threads \ {t} : pc[u] \in {"wait", "collect", "fireLock"} =>
                                      act[u] \in Actors /\ act[u] # a
      BY <1>15, <2>1, SoleOwner DEF Collect, Owning
    <2>3. /\ pc[t] = "collect" /\ pc' = [pc EXCEPT ![t] = "fireLock"]
          /\ UNCHANGED <<act, req, memSem, total, moved, td, abt, isrTodo>>
          /\ \A u \in Threads \ {t} : ret'[u] = ret[u]
          /\ \A b \in Actors : b # a => chan'[b] = chan[b]
      BY <1>0, <1>15, <2>1 DEF Collect, Goto, flags, isrv, PoolInv, TypeOK
    <2>4. chan[a] \in Ended /\ result[a] = EventsOf(chan[a])
      BY <2>1, <2>3 DEF DoneInv, Reported
    <2>5. req[t] = total[a] /\ req[t] > 0 /\ req[t] \in Nat /\ moved[a] \in Nat
      BY <1>0, <2>1, <2>3, PoolAssumption DEF CountInv, Asked, PoolInv, TypeOK
    <2>6. chan \in [Actors -> {"idle", "busy", "done", "aborted"}]
      BY DEF PoolInv, TypeOK
    <2>7. /\ ret'[t] = req[t] <=> chan'[a] = "done"
          /\ req[t] <= MaxTxCnt => ret'[t] = moved[a]
          /\ chan'[a] \in {"idle", chan[a]}
      <3>1. CASE chan[a] = "done"
        <4>1. "TRANSFER_DONE" \in result[a] /\ "ABORT" \notin result[a]
          BY <2>4, <3>1 DEF EventsOf
        <4>2. ret'[t] = req[t] /\ chan' = chan
          BY <1>0, <1>15, <2>1, <4>1 DEF Collect
        <4>3. moved[a] = Planned(req[t])
          BY <2>5, <3>1 DEF CountInv, Moved
        <4> QED BY <2>5, <3>1, <4>2, <4>3, PlannedType
      <3>2. CASE chan[a] = "aborted"
        <4>1. "TRANSFER_DONE" \notin result[a] /\ "ABORT" \in result[a]
          BY <2>4, <3>2 DEF EventsOf
        <4>2. Moving(a) = {moved[a]}
          BY <3>2 DEF Moving
        <4>3. ret'[t] = req[t] - NonTransferCount(req[t], moved[a]) /\ chan'[a] = "idle"
          BY <1>0, <1>15, <2>1, <2>5, <2>6, <4>1, <4>2 DEF Collect
        <4>4. moved[a] < Planned(req[t])
          BY <2>5, <3>2 DEF CountInv, Moved
        <4>5. /\ NonTransferCount(req[t], moved[a]) \in Int
              /\ NonTransferCount(req[t], moved[a]) >= 1
              /\ req[t] <= MaxTxCnt => NonTransferCount(req[t], moved[a]) = req[t] - moved[a]
          BY <2>5, <4>4, UnitsLeft
        <4> QED BY <2>5, <4>3, <4>5
      <3> QED BY <2>4, <3>1, <3>2 DEF Ended
    <2>8. \A u \in Threads \ {t} : pc[u] = "wait" /\ OnItsWay(act[u])' => OnItsWay(act[u])
      BY <2>2, <2>3 DEF OnItsWay
    <2>9. Asked'
      BY <1>0, <2>3, <2>8 DEF CountInv, Asked, OnItsWay
    <2>10. Moved'
      BY <2>3, <2>7 DEF CountInv, Moved
    <2>11. TruthfulCount'
      BY <1>0, <2>1, <2>2, <2>3, <2>7 DEF CountInv, TruthfulCount
    <2> QED BY <2>9, <2>10, <2>11 DEF CountInv
  <1> QED BY <1>1, <1>2, <1>3, <1>4, <1>5, <1>6, <1>7, <1>8, <1>9, <1>10, <1>11,
             <1>12, <1>13, <1>14, <1>15 DEF Memfun, Employ, Transfer, Fire

(* So does the machine: what it adds to the way of a report was on it.     *)
LEMMA CountMachine ==
    ASSUME PoolInv, DoneInv, CountInv, Hardware \/ Isr
    PROVE  CountInv'
  <1> USE DEF thread
  <1>0. UNCHANGED <<pc, req, act, ret, total>>
    BY DEF Hardware, HwDone, HwAbort, HwPeriphDone, HwPeriphTimeout,
           Isr, IsrEnter, IsrReadAbt, IsrReadTd, IsrServe, IsrExit, engine
  <1>1. SUFFICES /\ \A a \in Actors : OnItsWay(a)' => OnItsWay(a)
                 /\ Moved'
                 /\ \A t \in Threads : pc[t] = "fireLock" =>
                       chan'[act[t]] = chan[act[t]] /\ moved'[act[t]] = moved[act[t]]
    <2>1. \A t \in Threads : pc[t] \in {"wait", "collect"} => act[t] \in Actors
      BY SoleOwner DEF Owning
    <2>2. \A t \in Threads : pc[t] = "wait" /\ OnItsWay(act[t])' => OnItsWay(act[t])
      BY <1>0, <1>1, <2>1 DEF OnItsWay
    <2>3. Asked'
      BY <1>0, <2>2 DEF CountInv, Asked, OnItsWay
    <2>4. TruthfulCount'
      BY <1>0, <1>1 DEF CountInv, TruthfulCount
    <2> QED BY <1>1, <2>3, <2>4 DEF CountInv
  <1>2. \A t \in Threads : pc[t] = "fireLock" => chan[act[t]] # "busy" /\ act[t] \in Actors
    BY SoleOwner DEF DoneInv, Reported, Owning
  <1>3. /\ moved \in [Actors -> Nat] /\ total \in [Actors -> Nat] /\ memSem \in [Actors -> Nat]
        /\ chan \in [Actors -> {"idle", "busy", "done", "aborted"}]
    BY DEF PoolInv, TypeOK
  <1>4. ASSUME NEW a \in Actors, HwDone(a)
        PROVE  /\ \A b \in Actors : OnItsWay(b)' => OnItsWay(b)
               /\ Moved'
               /\ \A t \in Threads : pc[t] = "fireLock" =>
                     chan'[act[t]] = chan[act[t]] /\ moved'[act[t]] = moved[act[t]]
    <2>1. \A b \in Actors : OnItsWay(b)' => OnItsWay(b)
      BY <1>3, <1>4 DEF HwDone, OnItsWay, isrv
    <2>2. Moved'
      BY <1>3, <1>4 DEF HwDone, CountInv, Moved
    <2> QED BY <1>2, <1>3, <1>4, <2>1, <2>2 DEF HwDone
  <1>5. ASSUME NEW a \in Actors, HwAbort(a)
        PROVE  /\ \A b \in Actors : OnItsWay(b)' => OnItsWay(b)
               /\ Moved'
               /\ \A t \in Threads : pc[t] = "fireLock" =>
                     chan'[act[t]] = chan[act[t]] /\ moved'[act[t]] = moved[act[t]]
    <2>1. \A b \in Actors : OnItsWay(b)' => OnItsWay(b)
      BY <1>3, <1>5 DEF HwAbort, OnItsWay, isrv
    <2>2. PICK m \in 0 .. Planned(total[a]) - 1 : moved' = [moved EXCEPT ![a] = m]
      BY <1>5 DEF HwAbort
    <2>3. m < Planned(total[a])
      BY <1>3, PlannedType
    <2>4. Moved'
      BY <1>3, <1>5, <2>2, <2>3 DEF HwAbort, CountInv, Moved
    <2> QED BY <1>2, <1>3, <1>5, <2>1, <2>2, <2>4 DEF HwAbort
  <1>6. ASSUME \/ \E p \in Periph : HwPeriphDone(p) \/ HwPeriphTimeout(p)
               \/ Isr
        PROVE  UNCHANGED <<chan, moved>>
    BY <1>6 DEF HwPeriphDone, HwPeriphTimeout, Isr, IsrEnter, IsrReadAbt, IsrReadTd,
                IsrServe, IsrExit, engine
  <1>7. ASSUME \/ \E p \in Periph : HwPeriphDone(p) \/ HwPeriphTimeout(p)
               \/ Isr
        PROVE  \A a \in Actors : OnItsWay(a)' => OnItsWay(a)
    <2>1. ASSUME NEW p \in Periph, HwPeriphDone(p) \/ HwPeriphTimeout(p)
          PROVE  \A a \in Actors : OnItsWay(a)' => OnItsWay(a)
      BY <2>1, PoolAssumption DEF HwPeriphDone, HwPeriphTimeout, OnItsWay, engine, isrv
    <2>2. CASE IsrEnter
      BY <2>2 DEF IsrEnter, OnItsWay, engine, flags, DoneInv, Announced
    <2>3. CASE IsrReadAbt \/ IsrExit
      BY <2>3 DEF IsrReadAbt, IsrExit, OnItsWay, engine, flags
    <2>4. CASE IsrReadTd
      BY <2>4 DEF IsrReadTd, OnItsWay, engine, DoneInv, InHand
    <2>5. ASSUME NEW c \in Channels, IsrServe(c)
          PROVE  \A a \in Actors : OnItsWay(a)' => OnItsWay(a)
      BY <1>3, <2>5 DEF IsrServe, OnItsWay, engine, flags
    <2> QED BY <1>7, <2>1, <2>2, <2>3, <2>4, <2>5 DEF Isr
  <1>8. ASSUME UNCHANGED <<chan, moved>> PROVE Moved'
    BY <1>0, <1>8 DEF CountInv, Moved
  <1> QED BY <1>4, <1>5, <1>6, <1>7, <1>8 DEF Hardware

(* On a module where INTSTS announces every flag the handler reads, a call *)
(* of nu_pdma_memfun reports the whole count exactly when its own transfer *)
(* completed, and of a transfer of one descriptor the units its channel    *)
(* moved, however far it came before an abort.                             *)
THEOREM CountIsTruthful == ASSUME ClearsAll PROVE Spec => []TruthfulCount
  <1>1. Init => CountInv
    BY DEF Init, CountInv, Asked, Moved, TruthfulCount
  <1>2. PoolInv /\ DoneInv /\ CountInv /\ [Next]_vars => CountInv'
    <2> SUFFICES ASSUME PoolInv, DoneInv, CountInv, [Next]_vars PROVE CountInv'
      OBVIOUS
    <2>1. CASE UNCHANGED vars
      BY <2>1 DEF vars, thread, engine, flags, isrv, CountInv, Asked, Moved, TruthfulCount,
                  OnItsWay
    <2> QED BY <2>1, CountMemfun, CountMachine DEF Next
  <1>3. CountInv => TruthfulCount
    BY DEF CountInv
  <1> QED BY <1>1, <1>2, <1>3, PoolInvariant, DoneInvariant, PTL DEF Spec
=============================================================================
