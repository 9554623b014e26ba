---------------------------- MODULE HwSemProofs ----------------------------
(***************************************************************************)
(* Proofs about HwSem, for any threads on either side, bound to cores in   *)
(* any way, and any limit on nesting.                                      *)
(*                                                                         *)
(* Until the mutex is broken two threads of one side are never inside the  *)
(* driver at once, so only one thread writes keys of a side: what it       *)
(* reads back after its write tells it whether the semaphore is its own.   *)
(***************************************************************************)
EXTENDS HwSem, FiniteSetTheorems, TLAPS

(* Places of a thread that has become its side's owner. *)
Inside == InTake \cup {"ready"}

OwnerInside == \A t \in Threads : pc[t] \in Inside <=> owner[Side(t)] = t

WaiterSuspended ==
    \A s \in Sides : waiter[s] # None =>
        Side(waiter[s]) = s /\ pc[waiter[s]] = "suspended"

KeyOfTake ==
    \A t \in Threads : pc[t] \in InTake => \E c \in Affinity[t] : key[t] = Key(t, c)

(* What a thread holds is locked with the key of a core it may run on. *)
Held ==
    \A t \in Threads : depth[t] > 0 =>
        /\ pc[t] \in Inside
        /\ hold[Side(t)] = depth[t]
        /\ \E c \in Affinity[t] : sem = Key(t, c)

(* A thread that found the semaphore unlocked does not hold it. *)
DepthBound ==
    \A t \in Threads :
        /\ pc[t] \in InTake \ {"disable"} => depth[t] < MaxDepth
        /\ pc[t] \in {"lock", "verify"} => depth[t] = 0

VerifyKey ==
    \A t \in Threads : pc[t] = "verify" /\ sem # None /\ sem[1] = Side(t) => sem = key[t]

LockInv ==
    OwnerInside /\ WaiterSuspended /\ KeyOfTake /\ Held /\ DepthBound /\ VerifyKey

HwInv == TypeOK /\ NoOrphan /\ (~broken => LockInv)

-----------------------------------------------------------------------------
(* A thread belongs to one side, and a key names the side it is of. *)
LEMMA SideFacts ==
    /\ \A t \in Threads : Side(t) \in Sides
    /\ \A t \in M4 : t \in Threads /\ Side(t) = "M4"
    /\ \A t \in Threads \ M4 : Side(t) = "A35"
    /\ \A t \in Threads : t # None
    /\ None \notin Keys
    /\ \A k \in Keys : k[1] \in Sides /\ (k[1] = "M4" => k = <<"M4", 0>>)
    /\ <<"M4", 0>> \in Keys /\ <<"M4", 0>>[1] = "M4"
    /\ "M4" \in Sides /\ "A35" \in Sides
  BY HwSemAssumption DEF Threads, Side, Sides, Keys, Cores

(* The key a thread uses is one of its own side. *)
LEMMA KeyFacts ==
    ASSUME NEW t \in Threads, NEW c \in Affinity[t]
    PROVE  Key(t, c) \in Keys /\ Key(t, c)[1] = Side(t) /\ Key(t, c) # None
  BY HwSemAssumption DEF Threads, Key, Side, Keys, Cores

(* Only one thread of a side is inside the driver. *)
LEMMA AloneInside ==
    ASSUME OwnerInside, NEW t \in Threads, NEW u \in Threads,
           pc[t] \in Inside, pc[u] \in Inside, Side(t) = Side(u)
    PROVE  t = u
  BY DEF OwnerInside

(* If the semaphore is locked for the side of a thread that is inside, it  *)
(* is this thread that locked it.                                          *)
LEMMA LockedByMe ==
    ASSUME HwInv, ~broken, NEW t \in Threads, pc[t] \in Inside,
           sem # None, sem[1] = Side(t)
    PROVE  depth[t] > 0 \/ pc[t] = "verify"
  <1>1. PICK u \in Threads : Side(u) = sem[1] /\ (depth[u] > 0 \/ pc[u] = "verify")
    BY DEF HwInv, NoOrphan
  <1>2. pc[u] \in Inside
    BY <1>1 DEF HwInv, LockInv, Held, Inside, InTake
  <1> QED BY <1>1, <1>2, AloneInside DEF HwInv, LockInv

(* The two sides exclude each other: who holds the semaphore, or locked it *)
(* for its side, is the only one.                                          *)
LEMMA HeldSide ==
    ASSUME HwInv, ~broken, NEW t \in Threads, depth[t] > 0
    PROVE  sem # None /\ sem[1] = Side(t) /\ sem \in Keys
  <1>1. PICK c \in Affinity[t] : sem = Key(t, c)
    BY DEF HwInv, LockInv, Held
  <1> QED BY <1>1, KeyFacts

(* A step of a thread inside nu_mutex_take that changes neither the        *)
(* register nor what is held.                                              *)
LEMMA QuietStep ==
    ASSUME HwInv, ~broken, ~broken', NEW t \in Threads, NEW p \in Inside \ {"verify", "disable"},
           pc[t] \in InTake, pc' = [pc EXCEPT ![t] = p],
           UNCHANGED <<sem, owner, hold, depth>>,
           pc[t] = "verify" => sem = None \/ sem[1] # Side(t),
           pc[t] = "disable" => p = "ready",
           p = "lock" => depth[t] = 0,
           p \in InTake => key'[t] = key[t],
           \A u \in Threads \ {t} : key'[u] = key[u],
           \A s \in Sides : waiter'[s] # None =>
               \/ s = Side(t) /\ waiter'[s] = t /\ p = "suspended"
               \/ waiter'[s] = waiter[s] /\ waiter[s] # t
    PROVE  NoOrphan' /\ LockInv'
  <1> USE SideFacts
  <1>0. TypeOK /\ NoOrphan /\ LockInv
    BY DEF HwInv
  <1>1. \A u \in Threads : /\ u # t => pc'[u] = pc[u]
                           /\ u = t => pc'[u] = p
    BY <1>0 DEF TypeOK
  <1>2. NoOrphan'
    BY <1>0, <1>1 DEF NoOrphan
  <1>3. OwnerInside'
    BY <1>0, <1>1 DEF LockInv, OwnerInside, Inside
  <1>4. WaiterSuspended'
    <2> SUFFICES ASSUME NEW s \in Sides, waiter'[s] # None
                 PROVE  Side(waiter'[s]) = s /\ pc'[waiter'[s]] = "suspended"
      BY DEF WaiterSuspended
    <2>1. CASE s = Side(t) /\ waiter'[s] = t /\ p = "suspended"
      BY <2>1, <1>1
    <2>2. CASE waiter'[s] = waiter[s] /\ waiter[s] # t
      <3>1. waiter[s] \in Threads
        BY <2>2, <1>0 DEF TypeOK
      <3> QED BY <2>2, <3>1, <1>0, <1>1 DEF LockInv, WaiterSuspended
    <2> QED BY <2>1, <2>2
  <1>5. KeyOfTake'
    <2> SUFFICES ASSUME NEW u \in Threads, pc'[u] \in InTake
                 PROVE  \E c \in Affinity[u] : key'[u] = Key(u, c)
      BY DEF KeyOfTake
    <2>1. pc[u] \in InTake /\ key'[u] = key[u]
      BY <1>1
    <2> QED BY <2>1, <1>0 DEF LockInv, KeyOfTake
  <1>6. Held'
    <2> SUFFICES ASSUME NEW u \in Threads, depth[u] > 0
                 PROVE  /\ pc'[u] \in Inside /\ hold[Side(u)] = depth[u]
                        /\ \E c \in Affinity[u] : sem = Key(u, c)
      BY DEF Held
    <2>1. /\ pc[u] \in Inside /\ hold[Side(u)] = depth[u]
          /\ \E c \in Affinity[u] : sem = Key(u, c)
      BY <1>0 DEF LockInv, Held
    <2> QED BY <2>1, <1>1
  <1>7. DepthBound'
    BY <1>0, <1>1 DEF LockInv, DepthBound, InTake
  <1>8. VerifyKey'
    BY <1>0, <1>1 DEF LockInv, VerifyKey
  <1> QED BY <1>2, <1>3, <1>4, <1>5, <1>6, <1>7, <1>8 DEF LockInv

-----------------------------------------------------------------------------
(* nu_mutex_init and nu_mutex_deinit *)
LEMMA InitDeinitKeeps ==
    ASSUME HwInv, ~broken, NEW t \in Threads, InitCheck(t) \/ InitOwner(t) \/ Deinit(t)
    PROVE  HwInv'
  <1> USE SideFacts DEF At, Goto, device, priv
  <1>0. TypeOK /\ NoOrphan /\ LockInv
    BY DEF HwInv
  <1>1. CASE InitCheck(t)
    <2>1. TypeOK'
      BY <1>0, <1>1 DEF InitCheck, TypeOK
    <2>2. NoOrphan'
      BY <1>0, <1>1 DEF InitCheck, TypeOK, NoOrphan
    <2>3. OwnerInside' /\ DepthBound' /\ VerifyKey' /\ KeyOfTake'
      BY <1>0, <1>1 DEF InitCheck, TypeOK, LockInv, OwnerInside, DepthBound,
                        VerifyKey, KeyOfTake, Inside, InTake
    <2>4. Held'
      BY <1>0, <1>1 DEF InitCheck, TypeOK, LockInv, Held, Inside, InTake
    <2>5. WaiterSuspended'
      BY <1>0, <1>1 DEF InitCheck, TypeOK, LockInv, WaiterSuspended
    <2> QED BY <2>1, <2>2, <2>3, <2>4, <2>5 DEF HwInv, LockInv
  <1>2. CASE InitOwner(t)
    <2>1. TypeOK'
      <3>1. broken' \in BOOLEAN
        BY <1>2 DEF InitOwner
      <3> QED BY <1>0, <1>2, <3>1 DEF InitOwner, TypeOK
    <2>2. NoOrphan'
      BY <1>0, <1>2 DEF InitOwner, TypeOK, NoOrphan
    <2>3. ASSUME ~broken' PROVE LockInv'
      <3>1. owner[Side(t)] = None
        BY <1>2, <2>3 DEF InitOwner
      <3>2. OwnerInside'
        BY <1>0, <1>2, <3>1 DEF InitOwner, TypeOK, LockInv, OwnerInside, Inside
      <3>3. DepthBound' /\ VerifyKey' /\ KeyOfTake'
        BY <1>0, <1>2 DEF InitOwner, TypeOK, LockInv, DepthBound, VerifyKey,
                          KeyOfTake, InTake
      <3>4. Held'
        BY <1>0, <1>2 DEF InitOwner, TypeOK, LockInv, Held, Inside
      <3>5. WaiterSuspended'
        BY <1>0, <1>2 DEF InitOwner, TypeOK, LockInv, WaiterSuspended
      <3> QED BY <3>2, <3>3, <3>4, <3>5 DEF LockInv
    <2> QED BY <2>1, <2>2, <2>3 DEF HwInv
  <1>3. CASE Deinit(t)
    <2>1. TypeOK'
      <3>1. broken' \in BOOLEAN
        BY <1>3 DEF Deinit
      <3> QED BY <1>0, <1>3, <3>1 DEF Deinit, TypeOK
    <2>2. NoOrphan'
      BY <1>0, <1>3 DEF Deinit, TypeOK, NoOrphan
    <2>3. ASSUME ~broken' PROVE LockInv'
      <3>1. depth[t] = 0
        <4>1. ~(depth[t] > 0) /\ depth[t] \in 0 .. MaxDepth
          BY <1>0, <1>3, <2>3 DEF Deinit, TypeOK
        <4> QED BY <4>1, HwSemAssumption
      <3>2. owner[Side(t)] = t
        BY <1>0, <1>3 DEF Deinit, LockInv, OwnerInside, Inside
      <3>3. OwnerInside'
        BY <1>0, <1>3, <3>2 DEF Deinit, TypeOK, LockInv, OwnerInside, Inside, InTake
      <3>4. DepthBound' /\ VerifyKey' /\ KeyOfTake'
        BY <1>0, <1>3 DEF Deinit, TypeOK, LockInv, DepthBound, VerifyKey, KeyOfTake, InTake
      <3>5. Held'
        BY <1>0, <1>3, <3>1 DEF Deinit, TypeOK, LockInv, Held
      <3>6. WaiterSuspended'
        BY <1>0, <1>3 DEF Deinit, TypeOK, LockInv, WaiterSuspended
      <3> QED BY <3>3, <3>4, <3>5, <3>6 DEF LockInv
    <2> QED BY <2>1, <2>2, <2>3 DEF HwInv
  <1> QED BY <1>1, <1>2, <1>3

(* The entry of nu_mutex_take *)
LEMMA TakeKeeps ==
    ASSUME HwInv, ~broken, NEW t \in Threads, NEW w \in {"zero", "wait"},
           NEW c \in Affinity[t], Take(t, w, c)
    PROVE  HwInv'
  <1> USE SideFacts DEF At, Goto, device, priv
  <1>0. TypeOK /\ NoOrphan /\ LockInv
    BY DEF HwInv
  <1>1. TypeOK'
    BY <1>0, KeyFacts DEF Take, TypeOK, InTake
  <1>2. NoOrphan'
    BY <1>0 DEF Take, TypeOK, NoOrphan
  <1>3. OwnerInside'
    BY <1>0 DEF Take, TypeOK, LockInv, OwnerInside, Inside, InTake
  <1>4. DepthBound' /\ VerifyKey'
    BY <1>0 DEF Take, TypeOK, LockInv, DepthBound, VerifyKey, InTake
  <1>5. KeyOfTake'
    BY <1>0 DEF Take, TypeOK, LockInv, KeyOfTake
  <1>6. Held'
    BY <1>0 DEF Take, TypeOK, LockInv, Held, Inside, InTake
  <1>7. WaiterSuspended'
    BY <1>0 DEF Take, TypeOK, LockInv, WaiterSuspended
  <1> QED BY <1>1, <1>2, <1>3, <1>4, <1>5, <1>6, <1>7 DEF Take, HwInv, LockInv

(* The steps of nu_mutex_take that only move on *)
LEMMA MovesKeep ==
    ASSUME HwInv, ~broken, NEW t \in Threads,
           \/ IsLocked(t) \/ EnableInt(t) \/ CompletionWait(t) \/ Woken(t)
           \/ DisableInt(t) \/ Timeout(t)
    PROVE  HwInv'
  <1> USE SideFacts DEF At, Goto, device, priv, Return
  <1>0. TypeOK /\ NoOrphan /\ LockInv
    BY DEF HwInv
  <1>w. \A s \in Sides : waiter[s] = t => s = Side(t) /\ pc[t] = "suspended"
    BY <1>0 DEF LockInv, WaiterSuspended
  <1>1. CASE IsLocked(t)
    <2>1. TypeOK'
      BY <1>0, <1>1 DEF IsLocked, TypeOK, InTake
    <2>2. sem = None => depth[t] = 0
      <3>1. depth[t] \in Nat
        BY <1>0, HwSemAssumption DEF TypeOK
      <3> QED BY <3>1, HeldSide
    <2>3. PICK p \in {"lock", "key"} : pc' = [pc EXCEPT ![t] = p] /\ (p = "lock" => sem = None)
      BY <1>1 DEF IsLocked
    <2>4. p \in Inside \ {"verify", "disable"}
      BY DEF Inside, InTake
    <2>5. NoOrphan' /\ LockInv'
      BY <1>1, <1>w, <2>2, <2>3, <2>4, QuietStep DEF IsLocked, InTake
    <2> QED BY <2>1, <2>5 DEF HwInv
  <1>2. CASE EnableInt(t)
    <2>1. TypeOK'
      BY <1>0, <1>2 DEF EnableInt, TypeOK, InTake
    <2>2. NoOrphan' /\ LockInv'
      BY <1>2, <1>w, QuietStep DEF EnableInt, InTake, Inside
    <2> QED BY <2>1, <2>2 DEF HwInv
  <1>3. CASE CompletionWait(t)
    <2>1. CASE comp' = [comp EXCEPT ![Side(t)] = FALSE] /\ pc' = [pc EXCEPT ![t] = "locked"]
               /\ UNCHANGED <<waiter, key, wait>>
      <3>1. TypeOK'
        BY <1>0, <1>3, <2>1 DEF CompletionWait, TypeOK, InTake
      <3>2. NoOrphan' /\ LockInv'
        BY ZenonT(30), <1>3, <1>w, <2>1, QuietStep DEF CompletionWait, InTake, Inside
      <3> QED BY <3>1, <3>2 DEF HwInv
    <2>2. CASE Return(t) /\ UNCHANGED <<comp, waiter>>
      <3>1. TypeOK'
        BY <1>0, <1>3, <2>2 DEF CompletionWait, TypeOK
      <3>2. \A u \in Threads \ {t} : key'[u] = key[u]
        BY <1>0, <2>2 DEF TypeOK
      <3>3. NoOrphan' /\ LockInv'
        <4>1. /\ pc[t] = "wait" /\ pc' = [pc EXCEPT ![t] = "ready"]
              /\ UNCHANGED <<sem, owner, hold, depth, broken, waiter>>
          BY <1>3, <2>2 DEF CompletionWait
        <4> QED BY <1>w, <3>2, <4>1, QuietStep DEF InTake, Inside
      <3> QED BY <3>1, <3>3 DEF HwInv
    <2>3. CASE waiter' = [waiter EXCEPT ![Side(t)] = t] /\ pc' = [pc EXCEPT ![t] = "suspended"]
               /\ UNCHANGED <<comp, key, wait>>
      <3>1. TypeOK'
        BY <1>0, <1>3, <2>3 DEF CompletionWait, TypeOK, InTake
      <3>2. \A s \in Sides : waiter'[s] # None =>
               \/ s = Side(t) /\ waiter'[s] = t
               \/ waiter'[s] = waiter[s] /\ waiter[s] # t
        BY <1>0, <1>3, <1>w, <2>3 DEF CompletionWait, TypeOK
      <3>3. NoOrphan' /\ LockInv'
        BY <1>3, <2>3, <3>2, QuietStep DEF CompletionWait, InTake, Inside
      <3> QED BY <3>1, <3>3 DEF HwInv
    <2> QED BY <1>3, <2>1, <2>2, <2>3 DEF CompletionWait
  <1>4. CASE Woken(t)
    <2>1. CASE pc[t] = "woken" /\ pc' = [pc EXCEPT ![t] = "locked"] /\ UNCHANGED <<key, wait>>
      <3>1. TypeOK'
        BY <1>0, <1>4, <2>1 DEF Woken, TypeOK, InTake
      <3>2. NoOrphan' /\ LockInv'
        BY <1>4, <1>w, <2>1, QuietStep DEF Woken, InTake, Inside
      <3> QED BY <3>1, <3>2 DEF HwInv
    <2>2. CASE pc[t] = "timedout" /\ Return(t)
      <3>1. TypeOK'
        BY <1>0, <1>4, <2>2 DEF Woken, TypeOK
      <3>2. \A u \in Threads \ {t} : key'[u] = key[u]
        BY <1>0, <2>2 DEF TypeOK
      <3>3. NoOrphan' /\ LockInv'
        BY ZenonT(30), <1>4, <1>w, <2>2, <3>2, QuietStep DEF Woken, InTake, Inside
      <3> QED BY <3>1, <3>3 DEF HwInv
    <2> QED BY <1>4, <2>1, <2>2 DEF Woken
  <1>5. CASE DisableInt(t)
    <2>1. TypeOK'
      BY <1>0, <1>5 DEF DisableInt, TypeOK
    <2>2. \A u \in Threads \ {t} : key'[u] = key[u]
      BY <1>0, <1>5 DEF DisableInt, TypeOK
    <2>3. NoOrphan' /\ LockInv'
      BY ZenonT(30), <1>5, <1>w, <2>2, QuietStep DEF DisableInt, InTake, Inside
    <2> QED BY <2>1, <2>3 DEF HwInv
  <1>6. CASE Timeout(t)
    <2>1. TypeOK'
      BY <1>0, <1>6 DEF Timeout, TypeOK, InTake
    <2>2. \A s \in Sides : waiter'[s] # None => waiter'[s] = waiter[s] /\ waiter[s] # t
      BY <1>0, <1>6, <1>w DEF Timeout, TypeOK
    <2>3. NoOrphan' /\ LockInv'
      BY <1>6, <2>2, QuietStep DEF Timeout, InTake, Inside
    <2> QED BY <2>1, <2>3 DEF HwInv
  <1> QED BY <1>1, <1>2, <1>3, <1>4, <1>5, <1>6

(* Held once more, or on to wait *)
LEMMA GetKeyKeeps ==
    ASSUME HwInv, ~broken, NEW t \in Threads, GetKey(t)
    PROVE  HwInv'
  <1> USE SideFacts DEF At, Goto, device, priv, Return
  <1>0. TypeOK /\ NoOrphan /\ LockInv
    BY DEF HwInv
  <1>1. pc[t] = "key" /\ pc[t] \in Inside /\ pc[t] \in InTake
    BY DEF GetKey, Inside, InTake
  <1>2. PICK c \in Affinity[t] : key[t] = Key(t, c)
    BY <1>0, <1>1 DEF LockInv, KeyOfTake
  <1>3. CASE sem = key[t]
    <2>1. sem # None /\ sem[1] = Side(t)
      BY <1>2, <1>3, KeyFacts
    <2>2. depth[t] > 0 /\ hold[Side(t)] = depth[t] /\ depth[t] < MaxDepth
      BY <1>0, <1>1, <2>1, LockedByMe DEF LockInv, Held, DepthBound
    <2>3. depth[t] \in Nat /\ depth[t] + 1 \in 0 .. MaxDepth
      BY <1>0, <2>2, HwSemAssumption DEF TypeOK
    <2>4. (hold[Side(t)] + 1) % HoldMod = depth[t] + 1
      BY <2>2, <2>3, HwSemAssumption
    <2>5. /\ hold' = [hold EXCEPT ![Side(t)] = depth[t] + 1]
          /\ depth' = [depth EXCEPT ![t] = depth[t] + 1]
          /\ pc' = [pc EXCEPT ![t] = "ready"]
          /\ key' = [key EXCEPT ![t] = None]
          /\ wait' = [wait EXCEPT ![t] = "none"]
          /\ UNCHANGED <<sem, inten, intsts, isr, owner, comp, waiter, broken>>
      BY <1>3, <2>4 DEF GetKey
    <2>6. TypeOK'
      BY <1>0, <2>3, <2>5 DEF TypeOK
    <2>7. NoOrphan'
      BY <1>0, <1>1, <2>1, <2>3, <2>5 DEF TypeOK, NoOrphan
    <2>8. OwnerInside'
      BY <1>0, <1>1, <2>5 DEF TypeOK, LockInv, OwnerInside, Inside
    <2>9. DepthBound'
      BY <1>0, <2>5 DEF TypeOK, LockInv, DepthBound, InTake
    <2>10. VerifyKey' /\ KeyOfTake'
      BY <1>0, <2>5 DEF TypeOK, LockInv, VerifyKey, KeyOfTake, InTake
    <2>11. WaiterSuspended'
      BY <1>0, <1>1, <2>5 DEF TypeOK, LockInv, WaiterSuspended
    <2>12. Held'
      <3> SUFFICES ASSUME NEW u \in Threads, depth'[u] > 0
                   PROVE  /\ pc'[u] \in Inside /\ hold'[Side(u)] = depth'[u]
                          /\ \E k \in Affinity[u] : sem' = Key(u, k)
        BY DEF Held
      <3>1. CASE u = t
        BY <1>0, <1>2, <1>3, <2>5, <3>1 DEF TypeOK, Inside
      <3>2. CASE u # t
        <4>1. depth[u] > 0 /\ pc[u] \in Inside /\ pc'[u] = pc[u]
          BY <1>0, <2>5, <3>2 DEF TypeOK, LockInv, Held
        <4>2. Side(u) # Side(t)
          BY <1>0, <1>1, <3>2, <4>1, AloneInside DEF LockInv
        <4> QED BY <1>0, <2>5, <3>2, <4>1, <4>2 DEF TypeOK, LockInv, Held
      <3> QED BY <3>1, <3>2
    <2> QED BY <2>6, <2>7, <2>8, <2>9, <2>10, <2>11, <2>12 DEF HwInv, LockInv
  <1>4. CASE sem # key[t]
    <2>1. /\ pc' = [pc EXCEPT ![t] = "enable"]
          /\ UNCHANGED <<device, isr, priv, key, wait, depth, broken>>
      BY <1>4 DEF GetKey
    <2>2. TypeOK'
      BY <1>0, <2>1 DEF TypeOK, InTake
    <2>3. \A s \in Sides : waiter[s] # t
      BY <1>0, <1>1 DEF LockInv, WaiterSuspended
    <2>4. NoOrphan' /\ LockInv'
      BY <1>1, <2>1, <2>3, QuietStep DEF InTake, Inside
    <2> QED BY <2>2, <2>4 DEF HwInv
  <1> QED BY <1>3, <1>4

(* The write that tries to lock *)
LEMMA LockKeeps ==
    ASSUME HwInv, ~broken, NEW t \in Threads, Lock(t)
    PROVE  HwInv'
  <1> USE SideFacts DEF At, Goto, device, priv
  <1>0. TypeOK /\ NoOrphan /\ LockInv
    BY DEF HwInv
  <1>1. /\ pc[t] = "lock" /\ pc[t] \in Inside /\ pc[t] \in InTake
        /\ pc' = [pc EXCEPT ![t] = "verify"]
        /\ UNCHANGED <<inten, isr, owner, hold, comp, waiter, key, wait, depth, broken>>
    BY DEF Lock, Inside, InTake
  <1>2. PICK c \in Affinity[t] : key[t] = Key(t, c)
    BY <1>0, <1>1 DEF LockInv, KeyOfTake
  <1>3. key[t] \in Keys /\ key[t][1] = Side(t) /\ key[t] # None
    BY <1>2, KeyFacts
  <1>4. depth[t] = 0
    BY <1>0, <1>1 DEF LockInv, DepthBound
  <1>5. sem = None \/ sem[1] # Side(t)
    BY <1>1, <1>4, LockedByMe
  <1>6. sem' = (IF sem = None THEN key[t] ELSE sem) /\ intsts' = intsts
    BY <1>3, <1>5 DEF Lock, WriteSem
  <1>7. TypeOK'
    BY <1>0, <1>1, <1>3, <1>6 DEF TypeOK, InTake
  <1>8. NoOrphan'
    <2>1. CASE sem = None
      BY <1>0, <1>1, <1>3, <1>6, <2>1 DEF TypeOK, NoOrphan
    <2>2. CASE sem # None
      BY <1>0, <1>1, <1>6, <2>2 DEF TypeOK, NoOrphan
    <2> QED BY <2>1, <2>2
  <1>9. OwnerInside'
    BY <1>0, <1>1 DEF TypeOK, LockInv, OwnerInside, Inside, InTake
  <1>10. WaiterSuspended'
    BY <1>0, <1>1 DEF TypeOK, LockInv, WaiterSuspended
  <1>11. KeyOfTake'
    BY <1>0, <1>1 DEF TypeOK, LockInv, KeyOfTake
  <1>12. DepthBound'
    BY <1>0, <1>1, <1>4 DEF TypeOK, LockInv, DepthBound, InTake
  <1>13. VerifyKey'
    <2> SUFFICES ASSUME NEW u \in Threads, pc'[u] = "verify", sem' # None,
                        sem'[1] = Side(u)
                 PROVE  sem' = key[u]
      BY <1>1 DEF VerifyKey
    <2>1. CASE u = t
      BY <1>5, <1>6, <2>1
    <2>2. CASE u # t
      <3>1. pc[u] = "verify" /\ pc[u] \in Inside
        BY <1>0, <1>1, <2>2 DEF TypeOK, Inside, InTake
      <3>2. Side(u) # Side(t)
        BY <1>0, <1>1, <2>2, <3>1, AloneInside DEF LockInv
      <3>3. sem' = sem
        BY <1>3, <1>6, <3>2
      <3> QED BY <1>0, <3>1, <3>3 DEF LockInv, VerifyKey
    <2> QED BY <2>1, <2>2
  <1>14. Held'
    <2> SUFFICES ASSUME NEW u \in Threads, depth[u] > 0
                 PROVE  /\ pc'[u] \in Inside /\ hold[Side(u)] = depth[u]
                        /\ \E k \in Affinity[u] : sem' = Key(u, k)
      BY <1>1 DEF Held
    <2>1. u # t /\ sem' = sem
      BY <1>4, <1>6, HeldSide
    <2>2. pc'[u] = pc[u]
      BY <1>0, <1>1, <2>1 DEF TypeOK
    <2> QED BY <1>0, <2>1, <2>2 DEF LockInv, Held
  <1> QED BY <1>1, <1>7, <1>8, <1>9, <1>10, <1>11, <1>12, <1>13, <1>14 DEF HwInv, LockInv

(* Reading the key back *)
LEMMA VerifyKeeps ==
    ASSUME HwInv, ~broken, NEW t \in Threads, Verify(t)
    PROVE  HwInv'
  <1> USE SideFacts DEF At, Goto, device, priv
  <1>0. TypeOK /\ NoOrphan /\ LockInv
    BY DEF HwInv
  <1>1. pc[t] = "verify" /\ pc[t] \in Inside /\ pc[t] \in InTake /\ depth[t] = 0
    BY <1>0 DEF Verify, Inside, InTake, LockInv, DepthBound
  <1>2. PICK c \in Affinity[t] : key[t] = Key(t, c)
    BY <1>0, <1>1 DEF LockInv, KeyOfTake
  <1>3. key[t][1] = Side(t) /\ key[t] # None
    BY <1>2, KeyFacts
  <1>4. CASE sem = key[t]
    <2>1. 1 \in 0 .. MaxDepth
      BY HwSemAssumption
    <2>2. /\ hold' = [hold EXCEPT ![Side(t)] = 1]
          /\ depth' = [depth EXCEPT ![t] = 1]
          /\ pc' = [pc EXCEPT ![t] = "disable"]
          /\ UNCHANGED <<sem, inten, intsts, isr, owner, comp, waiter, key, wait, broken>>
      BY <1>1, <1>4 DEF Verify
    <2>3. TypeOK'
      BY <1>0, <2>1, <2>2 DEF TypeOK, InTake
    <2>4. NoOrphan'
      BY <1>0, <1>3, <1>4, <2>2 DEF TypeOK, NoOrphan
    <2>5. OwnerInside'
      BY <1>0, <1>1, <2>2 DEF TypeOK, LockInv, OwnerInside, Inside, InTake
    <2>6. DepthBound'
      BY <1>0, <2>2 DEF TypeOK, LockInv, DepthBound, InTake
    <2>7. VerifyKey' /\ KeyOfTake'
      BY <1>0, <1>1, <2>2 DEF TypeOK, LockInv, VerifyKey, KeyOfTake
    <2>8. WaiterSuspended'
      BY <1>0, <1>1, <2>2 DEF TypeOK, LockInv, WaiterSuspended
    <2>9. Held'
      <3> SUFFICES ASSUME NEW u \in Threads, depth'[u] > 0
                   PROVE  /\ pc'[u] \in Inside /\ hold'[Side(u)] = depth'[u]
                          /\ \E k \in Affinity[u] : sem' = Key(u, k)
        BY DEF Held
      <3>1. CASE u = t
        BY <1>0, <1>2, <1>4, <2>2, <3>1 DEF TypeOK, Inside, InTake
      <3>2. CASE u # t
        <4>1. depth[u] > 0 /\ pc[u] \in Inside /\ pc'[u] = pc[u]
          BY <1>0, <2>2, <3>2 DEF TypeOK, LockInv, Held
        <4>2. Side(u) # Side(t)
          BY <1>0, <1>1, <3>2, <4>1, AloneInside DEF LockInv
        <4> QED BY <1>0, <2>2, <3>2, <4>1, <4>2 DEF TypeOK, LockInv, Held
      <3> QED BY <3>1, <3>2
    <2> QED BY <2>3, <2>4, <2>5, <2>6, <2>7, <2>8, <2>9 DEF HwInv, LockInv
  <1>5. CASE sem # key[t]
    <2>1. /\ pc' = [pc EXCEPT ![t] = "locked"]
          /\ UNCHANGED <<device, isr, priv, key, wait, depth, broken>>
      BY <1>5 DEF Verify
    <2>2. TypeOK'
      BY <1>0, <2>1 DEF TypeOK, InTake
    <2>3. sem = None \/ sem[1] # Side(t)
      BY <1>0, <1>1, <1>5 DEF LockInv, VerifyKey
    <2>4. \A s \in Sides : waiter[s] # t
      BY <1>0, <1>1 DEF LockInv, WaiterSuspended
    <2>5. NoOrphan' /\ LockInv'
      BY <1>1, <2>1, <2>3, <2>4, QuietStep DEF InTake, Inside
    <2> QED BY <2>2, <2>5 DEF HwInv
  <1> QED BY <1>4, <1>5

(* nu_mutex_release: only the last one unlocks *)
LEMMA ReleaseKeeps ==
    ASSUME HwInv, ~broken, NEW t \in Threads, NEW c \in Affinity[t], Release(t, c)
    PROVE  HwInv'
  <1> USE SideFacts DEF At, Goto
  <1>0. TypeOK /\ NoOrphan /\ LockInv
    BY DEF HwInv
  <1>1. pc[t] = "ready" /\ pc[t] \in Inside /\ sem = Key(t, c)
    BY DEF Release, Inside
  <1>2. sem # None /\ sem[1] = Side(t)
    BY <1>1, KeyFacts
  <1>3. depth[t] > 0 /\ hold[Side(t)] = depth[t]
    BY <1>0, <1>1, <1>2, LockedByMe DEF LockInv, Held
  <1>4. depth[t] - 1 \in 0 .. MaxDepth
    BY <1>0, <1>3, HwSemAssumption DEF TypeOK
  <1>5. (hold[Side(t)] - 1) % HoldMod = depth[t] - 1
    BY <1>3, <1>4, HwSemAssumption
  <1>6. /\ hold' = [hold EXCEPT ![Side(t)] = depth[t] - 1]
        /\ depth' = [depth EXCEPT ![t] = depth[t] - 1]
        /\ UNCHANGED <<inten, isr, owner, comp, waiter, pc, key, wait, broken>>
    BY <1>5 DEF Release
  <1>7. hold'[Side(t)] = depth[t] - 1 /\ depth'[t] = depth[t] - 1
    BY <1>0, <1>6 DEF TypeOK
  <1>8. IF depth[t] - 1 = 0
        THEN sem' = None /\ intsts' = [s \in Sides |-> TRUE]
        ELSE sem' = sem /\ intsts' = intsts
    BY <1>1, <1>2, <1>7 DEF Release, WriteSem
  <1>9. TypeOK'
    <2>1. intsts' \in [Sides -> BOOLEAN]
      <3>1. CASE depth[t] - 1 = 0
        BY <1>8, <3>1
      <3>2. CASE depth[t] - 1 # 0
        BY <1>0, <1>8, <3>2 DEF TypeOK
      <3> QED BY <3>1, <3>2
    <2> QED BY <1>0, <1>4, <1>6, <1>8, <2>1 DEF TypeOK
  <1>10. NoOrphan'
    <2> SUFFICES ASSUME sem' # None
                 PROVE  \E u \in Threads : Side(u) = sem'[1] /\ (depth'[u] > 0 \/ pc'[u] = "verify")
      BY DEF NoOrphan
    <2>1. depth[t] - 1 # 0 /\ sem' = sem
      BY <1>8
    <2>2. depth[t] \in Nat
      BY <1>0, HwSemAssumption DEF TypeOK
    <2>3. depth'[t] > 0
      BY <1>3, <1>7, <2>1, <2>2
    <2> QED BY <1>2, <2>1, <2>3
  <1>11. OwnerInside' /\ WaiterSuspended' /\ KeyOfTake'
    BY <1>0, <1>6 DEF LockInv, OwnerInside, WaiterSuspended, KeyOfTake
  <1>12. DepthBound'
    BY <1>0, <1>1, <1>6 DEF TypeOK, LockInv, DepthBound, InTake
  <1>13. VerifyKey'
    BY <1>0, <1>6, <1>8 DEF LockInv, VerifyKey
  <1>14. Held'
    <2> SUFFICES ASSUME NEW u \in Threads, depth'[u] > 0
                 PROVE  /\ pc'[u] \in Inside /\ hold'[Side(u)] = depth'[u]
                        /\ \E k \in Affinity[u] : sem' = Key(u, k)
      BY DEF Held
    <2>1. u = t
      <3> SUFFICES ASSUME u # t PROVE FALSE
        OBVIOUS
      <3>1. depth[u] > 0 /\ pc[u] \in Inside
        BY <1>0, <1>6 DEF TypeOK, LockInv, Held
      <3>2. Side(u) = Side(t)
        BY <1>2, <3>1, HeldSide
      <3> QED BY <1>0, <1>1, <3>1, <3>2, AloneInside DEF LockInv
    <2>2. sem' = sem
      BY <1>4, <1>7, <1>8, <2>1
    <2> QED BY <1>1, <1>6, <1>7, <2>1, <2>2
  <1> QED BY <1>6, <1>9, <1>10, <1>11, <1>12, <1>13, <1>14 DEF HwInv, LockInv

(* nu_hwsem_isr and rt_completion_done *)
LEMMA InterruptKeeps ==
    ASSUME HwInv, ~broken, NEW s \in Sides, Interrupt(s)
    PROVE  HwInv'
  <1> USE SideFacts DEF device, priv, thread
  <1>0. TypeOK /\ NoOrphan /\ LockInv
    BY DEF HwInv
  <1>1. CASE Isr(s) \/ CompletionRead(s)
    <2>1. TypeOK'
      BY <1>0, <1>1 DEF Isr, CompletionRead, TypeOK
    <2>2. UNCHANGED <<sem, owner, hold, waiter, pc, key, depth, broken>>
      BY <1>1 DEF Isr, CompletionRead
    <2>3. NoOrphan'
      BY <1>0, <2>2 DEF NoOrphan
    <2>4. LockInv'
      BY <1>0, <2>2 DEF LockInv, OwnerInside, WaiterSuspended, KeyOfTake, Held,
                        DepthBound, VerifyKey
    <2> QED BY <2>1, <2>3, <2>4 DEF HwInv
  <1>2. CASE CompletionDone(s)
    <2>1. TypeOK'
      BY <1>0, <1>2 DEF CompletionDone, TypeOK, InTake
    <2>2. UNCHANGED <<sem, owner, hold, key, depth, broken>>
      BY <1>2 DEF CompletionDone
    <2>3. CASE waiter[s] = None
      <3>1. pc' = pc
        BY <1>0, <1>2, <2>3 DEF CompletionDone, TypeOK
      <3>2. waiter' = waiter
        BY <1>0, <1>2, <2>3 DEF CompletionDone, TypeOK
      <3>3. NoOrphan'
        BY <1>0, <2>2, <3>1 DEF NoOrphan
      <3>4. LockInv'
        BY <1>0, <2>2, <3>1, <3>2 DEF LockInv, OwnerInside, WaiterSuspended, KeyOfTake,
                                      Held, DepthBound, VerifyKey
      <3> QED BY <2>1, <2>2, <3>3, <3>4 DEF HwInv
    <2>4. CASE waiter[s] # None
      <3> DEFINE t == waiter[s]
      <3>1. t \in Threads /\ Side(t) = s /\ pc[t] = "suspended"
        BY <1>0, <2>4 DEF TypeOK, LockInv, WaiterSuspended
      <3>2. pc' = [pc EXCEPT ![t] = "woken"]
        BY <1>0, <1>2, <3>1 DEF CompletionDone, TypeOK
      <3>3. \A r \in Sides : waiter'[r] # None => waiter'[r] = waiter[r] /\ waiter[r] # t
        BY <1>0, <1>2, <3>1 DEF CompletionDone, TypeOK, LockInv, WaiterSuspended
      <3> HIDE DEF t
      <3>4. NoOrphan' /\ LockInv'
        BY <2>2, <3>1, <3>2, <3>3, QuietStep DEF InTake, Inside
      <3> QED BY <2>1, <3>4 DEF HwInv
    <2> QED BY <2>3, <2>4
  <1> QED BY <1>1, <1>2 DEF Interrupt

(* A stop of the M4 changes nothing but that it no longer runs. *)
LEMMA StopKeeps ==
    ASSUME HwInv, Stop
    PROVE  HwInv'
  <1> USE DEF device, priv, thread
  <1>1. TypeOK'
    BY DEF HwInv, Stop, TypeOK
  <1>2. UNCHANGED <<sem, owner, hold, waiter, pc, key, depth, broken>>
    BY DEF Stop
  <1>3. NoOrphan'
    BY <1>2 DEF HwInv, NoOrphan
  <1>4. ~broken' => LockInv'
    BY <1>2 DEF HwInv, LockInv, OwnerInside, WaiterSuspended, KeyOfTake, Held,
                DepthBound, VerifyKey
  <1> QED BY <1>1, <1>3, <1>4 DEF HwInv

(* A restart of the M4: nothing of it is left, and its key neither *)
LEMMA RestartKeeps ==
    ASSUME HwInv, ~broken, Restart
    PROVE  HwInv'
  <1> USE SideFacts
  <1>0. TypeOK /\ NoOrphan /\ LockInv
    BY DEF HwInv
  <1>1. /\ \A t \in M4 : pc'[t] = "out" /\ depth'[t] = 0
        /\ \A t \in Threads \ M4 : pc'[t] = pc[t] /\ depth'[t] = depth[t] /\ key'[t] = key[t]
    BY DEF Restart, Rebooted
  <1>2. /\ owner'["M4"] = None /\ waiter'["M4"] = None
        /\ owner'["A35"] = owner["A35"] /\ waiter'["A35"] = waiter["A35"]
        /\ hold'["A35"] = hold["A35"] /\ broken' = broken
    BY <1>0 DEF Restart, Rebooted, TypeOK
  <1>3. IF sem = <<"M4", 0>> THEN sem' = None /\ intsts' = [s \in Sides |-> TRUE]
        ELSE sem' = sem /\ intsts' = intsts
    BY DEF Restart, WriteSem
  <1>4. sem' = None \/ (sem' = sem /\ sem[1] = "A35")
    BY <1>0, <1>3 DEF TypeOK, Sides
  <1>5. TypeOK'
    <2>1. intsts' \in [Sides -> BOOLEAN] /\ sem' \in Keys \cup {None}
      <3>1. CASE sem = <<"M4", 0>>
        BY <1>3, <3>1
      <3>2. CASE sem # <<"M4", 0>>
        BY <1>0, <1>3, <3>2 DEF TypeOK
      <3> QED BY <3>1, <3>2
    <2>2. 0 \in 0 .. MaxDepth
      BY HwSemAssumption
    <2>3. pc' \in [Threads -> InTake \cup {"out", "init", "ready"}]
      BY <1>0 DEF Restart, Rebooted, TypeOK
    <2>4. /\ key' \in [Threads -> Keys \cup {None}]
          /\ wait' \in [Threads -> {"none", "zero", "wait"}]
          /\ depth' \in [Threads -> 0 .. MaxDepth]
      BY <1>0, <2>2 DEF Restart, Rebooted, TypeOK
    <2> QED BY <1>0, <2>1, <2>2, <2>3, <2>4 DEF Restart, Rebooted, TypeOK
  <1>6. NoOrphan'
    BY <1>0, <1>1, <1>4 DEF NoOrphan
  <1>7. \A t \in Threads : t \in M4 \/ (t \in Threads \ M4 /\ Side(t) = "A35")
    OBVIOUS
  <1>8. OwnerInside'
    BY <1>0, <1>1, <1>2, <1>7 DEF LockInv, OwnerInside, Inside, InTake
  <1>9. WaiterSuspended'
    <2> SUFFICES ASSUME NEW s \in Sides, waiter'[s] # None
                 PROVE  Side(waiter'[s]) = s /\ pc'[waiter'[s]] = "suspended"
      BY DEF WaiterSuspended
    <2>1. s = "A35" /\ waiter'[s] = waiter[s] /\ waiter[s] \in Threads
      BY <1>0, <1>2 DEF Sides, TypeOK
    <2>2. Side(waiter[s]) = s /\ pc[waiter[s]] = "suspended"
      BY <1>0, <2>1 DEF LockInv, WaiterSuspended
    <2> QED BY <1>1, <2>1, <2>2
  <1>10. KeyOfTake' /\ DepthBound'
    BY <1>0, <1>1, <1>7 DEF LockInv, KeyOfTake, DepthBound, InTake
  <1>11. VerifyKey'
    BY <1>0, <1>1, <1>4, <1>7 DEF LockInv, VerifyKey
  <1>12. Held'
    <2> SUFFICES ASSUME NEW u \in Threads, depth'[u] > 0
                 PROVE  /\ pc'[u] \in Inside /\ hold'[Side(u)] = depth'[u]
                        /\ \E k \in Affinity[u] : sem' = Key(u, k)
      BY DEF Held
    <2>1. u \in Threads \ M4 /\ depth[u] > 0 /\ Side(u) = "A35"
      BY <1>1, <1>7
    <2>2. sem[1] = "A35" /\ sem # None
      BY <2>1, HeldSide
    <2>3. sem' = sem
      BY <1>3, <2>2
    <2> QED BY <1>0, <1>1, <1>2, <2>1, <2>3 DEF LockInv, Held
  <1> QED BY <1>2, <1>5, <1>6, <1>8, <1>9, <1>10, <1>11, <1>12 DEF HwInv, LockInv

-----------------------------------------------------------------------------
(* Nothing is locked or owned at first. *)
LEMMA InitHwInv == Init => HwInv
  <1> SUFFICES ASSUME Init PROVE HwInv
    OBVIOUS
  <1>1. TypeOK
    <2>1. /\ inten \in [Sides -> BOOLEAN] /\ intsts \in [Sides -> BOOLEAN]
          /\ comp \in [Sides -> BOOLEAN] /\ broken \in BOOLEAN
      BY Zenon DEF Init
    <2>2. 0 \in 0 .. MaxDepth
      BY HwSemAssumption
    <2> QED BY <2>1, <2>2 DEF Init, TypeOK
  <1>2. NoOrphan
    BY DEF Init, NoOrphan
  <1>3. LockInv
    BY SideFacts DEF Init, LockInv, OwnerInside, WaiterSuspended, KeyOfTake, Held,
                     DepthBound, VerifyKey, Inside, InTake
  <1> QED BY <1>1, <1>2, <1>3 DEF HwInv

(* Every step keeps the invariant. *)
LEMMA NextHwInv == HwInv /\ [Next]_vars => HwInv'
  <1> SUFFICES ASSUME HwInv, [Next]_vars PROVE HwInv'
    OBVIOUS
  <1>1. CASE Next
    <2>0. ~broken
      BY <1>1 DEF Next
    <2>1. ASSUME NEW t \in Threads, InitCheck(t) \/ InitOwner(t) \/ Deinit(t)
          PROVE  HwInv'
      BY <2>0, <2>1, InitDeinitKeeps
    <2>2. ASSUME NEW t \in Threads, NEW w \in {"zero", "wait"}, NEW c \in Affinity[t],
                 Take(t, w, c)
          PROVE  HwInv'
      BY <2>0, <2>2, TakeKeeps
    <2>3. ASSUME NEW t \in Threads, TakeStep(t) \/ Timeout(t) PROVE HwInv'
      <3>1. CASE GetKey(t)
        BY <2>0, <3>1, GetKeyKeeps
      <3>2. CASE Lock(t)
        BY <2>0, <3>2, LockKeeps
      <3>3. CASE Verify(t)
        BY <2>0, <3>3, VerifyKeeps
      <3>4. CASE \/ IsLocked(t) \/ EnableInt(t) \/ CompletionWait(t) \/ Woken(t)
                 \/ DisableInt(t) \/ Timeout(t)
        BY <2>0, <3>4, MovesKeep
      <3> QED BY <2>3, <3>1, <3>2, <3>3, <3>4 DEF TakeStep
    <2>4. ASSUME NEW t \in Threads, NEW c \in Affinity[t], Release(t, c) PROVE HwInv'
      BY <2>0, <2>4, ReleaseKeeps
    <2>5. ASSUME NEW s \in Sides, Interrupt(s) PROVE HwInv'
      BY <2>0, <2>5, InterruptKeeps
    <2>6. CASE Restart
      BY <2>0, <2>6, RestartKeeps
    <2>7. CASE Stop
      BY <2>7, StopKeeps
    <2> QED BY <1>1, <2>1, <2>2, <2>3, <2>4, <2>5, <2>6, <2>7 DEF Next
  <1>2. CASE UNCHANGED vars
    BY <1>2 DEF vars, device, priv, thread, HwInv, TypeOK, NoOrphan, LockInv, OwnerInside,
                WaiterSuspended, KeyOfTake, Held, DepthBound, VerifyKey
  <1> QED BY <1>1, <1>2

(* The inductive invariant holds in every state the driver can reach. *)
THEOREM HwInvariant == Spec => []HwInv
  <1> QED BY InitHwInv, NextHwInv, PTL DEF Spec

(* hold, the depth of nesting and the register keep their types. *)
THEOREM HwTypeOK == Spec => []TypeOK
  <1>1. HwInv => TypeOK
    BY DEF HwInv
  <1> QED BY <1>1, HwInvariant, PTL

(* Whoever took the mutex has it for itself, on its side and against the   *)
(* other side, and hold counts its takes.                                  *)
THEOREM HwExclusive == Spec => []Exclusive
  <1>1. HwInv => Exclusive
    <2> SUFFICES ASSUME HwInv, NEW t \in Threads, depth[t] > 0, ~broken
                 PROVE  /\ sem # None /\ sem[1] = Side(t)
                        /\ owner[Side(t)] = t /\ hold[Side(t)] = depth[t]
      BY DEF Exclusive
    <2>1. sem # None /\ sem[1] = Side(t)
      BY HeldSide
    <2>2. owner[Side(t)] = t /\ hold[Side(t)] = depth[t]
      BY DEF HwInv, LockInv, Held, OwnerInside
    <2> QED BY <2>1, <2>2
  <1> QED BY <1>1, HwInvariant, PTL

(* A thread that stays on its core can release what it took. *)
THEOREM HwBoundCanRelease == Spec => []BoundCanRelease
  <1>1. HwInv => BoundCanRelease
    <2> SUFFICES ASSUME HwInv, NEW t \in Threads, Cardinality(Affinity[t]) = 1,
                        depth[t] > 0, ~broken, NEW c \in Affinity[t]
                 PROVE  sem = Key(t, c)
      BY DEF BoundCanRelease
    <2>1. PICK k \in Affinity[t] : sem = Key(t, k)
      BY DEF HwInv, LockInv, Held
    <2>2. IsFiniteSet(Affinity[t])
      <3>1. IsFiniteSet({0} \cup {1})
        BY FS_Singleton, FS_Union
      <3>2. Affinity[t] \subseteq {0} \cup {1}
        BY HwSemAssumption
      <3> QED BY <3>1, <3>2, FS_Subset
    <2>3. PICK x : Affinity[t] = {x}
      BY <2>2, FS_Singleton
    <2> QED BY <2>1, <2>3
  <1> QED BY <1>1, HwInvariant, PTL

(* A locked semaphore always has a thread that will unlock it, also after  *)
(* a stop and a restart of the M4 and after a race for the register.       *)
THEOREM HwNoOrphan == Spec => []NoOrphan
  <1>1. HwInv => NoOrphan
    BY DEF HwInv
  <1> QED BY <1>1, HwInvariant, PTL
=============================================================================
