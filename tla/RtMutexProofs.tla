--------------------------- MODULE RtMutexProofs ---------------------------
(***************************************************************************)
(* Proofs about RtMutex, for any threads, priorities, mutexes and setups.  *)
(*                                                                         *)
(* A step changes the lists and the priorities in a record k that          *)
(* _thread_update_priority walks through level by level, so the facts      *)
(* about lists are stated of such a record: k keeps them at every level,   *)
(* and the state the step ends in is k.                                    *)
(***************************************************************************)
EXTENDS RtMutex, IpcListProofs, FiniteSetTheorems

KernelType ==
    [owner : [Mutexes -> Threads \cup {NoThread}],
     list : [Mutexes -> Seq(Threads)],
     mprio : [Mutexes -> 0 .. NoPrio],
     prio : [Threads -> 0 .. NoPrio - 1],
     taken : [Threads -> SUBSET Mutexes],
     pending : [Threads -> Mutexes \cup {NoMutex}],
     fault : {"none", "assert", "null"},
     susp : SUBSET Threads,
     who : Threads \cup {NoThread},
     to : 0 .. NoPrio]

(* The lists of k hold the threads W, each on the list of the mutex that   *)
(* is its pending_object, and only there and once.                         *)
Queues(k, W) ==
    \A m \in Mutexes :
        /\ Distinct(k.list[m])
        /\ \A t \in Threads : t \in ToSet(k.list[m]) <=> t \in W /\ k.pending[t] = m

NoOwnerIn(k, W) == \A m \in Mutexes : k.owner[m] \notin W

(* The lists are in order, unless RT_ASSERT stopped the kernel half-way    *)
(* through a chain of owners that wait.                                    *)
Ordered(k, W) ==
    (k.fault = "assert" => NoOwnerIn(k, W)) =>
        \A m \in Mutexes : InPrioOrder(k.list[m], k.prio)

(* Who is suspended with a pending_object waits for it; d is RT_DEBUG,     *)
(* with which _thread_update_priority stops instead of moving it.          *)
Suspended(k, W, d) ==
    /\ W \subseteq k.susp
    /\ ~d => \A t \in k.susp : k.pending[t] # NoMutex => t \in W

KernelOK(k, W, d) ==
    /\ k \in KernelType
    /\ k.who # NoThread => k.to < NoPrio /\ k.fault = "none"
    /\ NoOwnerIn(k, W) => k.who \notin W
    /\ k.fault = "assert" => d
    /\ Queues(k, W) /\ Ordered(k, W) /\ Suspended(k, W, d)

(* What _thread_update_priority leaves alone *)
Same(j, k) ==
    j.owner = k.owner /\ j.taken = k.taken /\ j.pending = k.pending /\ j.susp = k.susp

-----------------------------------------------------------------------------
(* Priorities *)

LEMMA MutexFacts ==
    /\ NoPrio \in Nat /\ NoThread \notin Threads /\ NoMutex \notin Mutexes
    /\ HoldMax \in Nat /\ HoldMax > 0
    /\ Cardinality(Threads) \in Nat
    /\ \A t \in Threads : InitPrio[t] \in 0 .. NoPrio - 1
    /\ \A t \in Threads : NoPrio > 0
    /\ Setups \subseteq Setup
  <1>1. Cardinality(Threads) \in Nat
    BY MutexAssumption, FS_CardinalityType
  <1>2. \A t \in Threads : InitPrio[t] \in 0 .. NoPrio - 1
    BY MutexAssumption
  <1>3. NoPrio \in Nat
    BY MutexAssumption
  <1>4. \A t \in Threads : NoPrio > 0
    BY <1>2, <1>3
  <1> QED BY <1>1, <1>2, <1>4, MutexAssumption

(* _thread_get_mutex_priority: no less urgent than the thread itself and   *)
(* than each mutex on its list.                                            *)
LEMMA ThreadPrioFacts ==
    ASSUME NEW k \in KernelType, NEW t \in Threads
    PROVE  /\ ThreadPrio(k, t) \in 0 .. NoPrio - 1
           /\ ThreadPrio(k, t) <= InitPrio[t]
           /\ \A m \in k.taken[t] : ThreadPrio(k, t) <= k.mprio[m]
           /\ \/ ThreadPrio(k, t) = InitPrio[t]
              \/ \E m \in k.taken[t] : ThreadPrio(k, t) = k.mprio[m]
  <1> DEFINE I == {InitPrio[t]} \cup {k.mprio[m] : m \in k.taken[t]}
  <1>1. NoPrio \in Nat /\ InitPrio[t] \in 0 .. NoPrio - 1
    BY MutexFacts
  <1>2. \A m \in k.taken[t] : k.mprio[m] \in 0 .. NoPrio
    BY DEF KernelType
  <1>3. I \in SUBSET Nat /\ I # {}
    BY <1>1, <1>2
  <1>4. InitPrio[t] \in I /\ \A m \in k.taken[t] : k.mprio[m] \in I
    OBVIOUS
  <1>5. \A x \in I : x = InitPrio[t] \/ \E m \in k.taken[t] : x = k.mprio[m]
    OBVIOUS
  <1> HIDE DEF I
  <1>6. Min(I) \in I /\ \A y \in I : Min(I) <= y
    BY <1>3, MinIsLeast
  <1>7. Min(I) \in Nat /\ Min(I) <= InitPrio[t]
    BY <1>3, <1>4, <1>6
  <1>8. Min(I) \in 0 .. NoPrio - 1
    BY <1>1, <1>7
  <1>9. ThreadPrio(k, t) = Min(I)
    BY DEF ThreadPrio, I
  <1> QED BY <1>4, <1>5, <1>6, <1>7, <1>8, <1>9

LEMMA MutexPrioFacts ==
    ASSUME NEW k \in KernelType, NEW m \in Mutexes
    PROVE  MutexPrio(k, m) \in 0 .. NoPrio
  <1>1. NoPrio \in Nat
    BY MutexFacts
  <1>2. CASE k.list[m] = <<>>
    BY <1>1, <1>2 DEF MutexPrio
  <1>3. CASE k.list[m] # <<>>
    <2>1. k.list[m] \in Seq(Threads) /\ k.prio \in [Threads -> 0 .. NoPrio - 1]
      BY DEF KernelType
    <2>2. Head(k.list[m]) \in Threads
      BY <1>3, <2>1, HeadListed
    <2>3. k.prio[Head(k.list[m])] \in 0 .. NoPrio - 1
      BY <2>1, <2>2
    <2> QED BY <1>1, <1>3, <2>3 DEF MutexPrio
  <1> QED BY <1>2, <1>3

-----------------------------------------------------------------------------
(* Lists and priorities *)

(* The order does not depend on the priority of a thread not listed. *)
LEMMA OrderElsewhere ==
    ASSUME NEW l \in Seq(Threads), NEW p \in [Threads -> 0 .. NoPrio - 1],
           NEW t \in Threads, NEW v, t \notin ToSet(l), InPrioOrder(l, p)
    PROVE  InPrioOrder(l, [p EXCEPT ![t] = v])
  <1> SUFFICES ASSUME NEW i \in DOMAIN l, NEW j \in DOMAIN l, i < j
               PROVE  [p EXCEPT ![t] = v][l[i]] <= [p EXCEPT ![t] = v][l[j]]
    BY DEF InPrioOrder
  <1>1. l[i] \in Threads /\ l[j] \in Threads /\ l[i] # t /\ l[j] # t
    BY DEF ToSet
  <1>2. p[l[i]] <= p[l[j]]
    BY DEF InPrioOrder
  <1> QED BY <1>1, <1>2

LEMMA PrioInserted ==
    ASSUME NEW l \in Seq(Threads), Distinct(l), NEW t \in Threads, t \notin ToSet(l),
           NEW q \in [Threads -> Nat]
    PROVE  LET r == ListInsert(l, t, q, "PRIO") IN
           /\ r \in Seq(Threads) /\ Distinct(r) /\ ToSet(r) = ToSet(l) \cup {t}
           /\ InPrioOrder(l, q) => InPrioOrder(r, q)
  <1>1. PICK flag : flag = "PRIO"
    OBVIOUS
  <1>2. flag # "FIFO"
    BY <1>1
  <1>3. LET r == ListInsert(l, t, q, flag) IN
        /\ r \in Seq(Threads) /\ Distinct(r) /\ ToSet(r) = ToSet(l) \cup {t}
        /\ flag # "FIFO" /\ InPrioOrder(l, q) => InPrioOrder(r, q)
    BY ListInsertProperties
  <1> QED BY <1>1, <1>2, <1>3

(* A listed thread whose priority changed is taken off and put back. *)
LEMMA MovedListed ==
    ASSUME NEW l \in Seq(Threads), NEW p \in [Threads -> 0 .. NoPrio - 1],
           NEW t \in Threads, NEW v \in 0 .. NoPrio - 1, t \in ToSet(l), Distinct(l),
           NEW q, q = [p EXCEPT ![t] = v]
    PROVE  LET r == ListInsert(ListRemove(l, t), t, q, "PRIO") IN
           /\ r \in Seq(Threads) /\ Distinct(r) /\ ToSet(r) = ToSet(l)
           /\ InPrioOrder(l, p) => InPrioOrder(r, q)
  <1>1. PICK s : s = ListRemove(l, t)
    OBVIOUS
  <1>2. /\ s \in Seq(Threads) /\ Distinct(s) /\ ToSet(s) = ToSet(l) \ {t}
        /\ InPrioOrder(l, p) => InPrioOrder(s, p)
    BY <1>1, ListRemoveProperties
  <1>3. t \notin ToSet(s)
    BY <1>2
  <1>4. InPrioOrder(l, p) => InPrioOrder(s, q)
    BY <1>2, <1>3, OrderElsewhere
  <1>5. q \in [Threads -> Nat]
    BY MutexFacts
  <1>6. LET r == ListInsert(s, t, q, "PRIO") IN
        /\ r \in Seq(Threads) /\ Distinct(r) /\ ToSet(r) = ToSet(s) \cup {t}
        /\ InPrioOrder(s, q) => InPrioOrder(r, q)
    BY <1>2, <1>3, <1>5, PrioInserted
  <1>7. ToSet(s) \cup {t} = ToSet(l)
    BY <1>2
  <1> QED BY <1>1, <1>4, <1>6, <1>7


-----------------------------------------------------------------------------
(* One level of _thread_update_priority *)

(* What a level writes into the record *)
WithPrio(k, t, p) == [k EXCEPT !.prio[t] = p, !.who = NoThread]
WithList(k, m, s) == [k EXCEPT !.list[m] = s]
WithMprio(k, m, v) == [k EXCEPT !.mprio[m] = v]
WithFault(k, f) == [k EXCEPT !.fault = f]
WithNext(k, o, p) == [k EXCEPT !.who = o, !.to = p]

LEMMA PrioSet ==
    ASSUME NEW k \in KernelType, NEW t \in Threads, NEW p \in 0 .. NoPrio - 1
    PROVE  LET r == WithPrio(k, t, p) IN
           /\ r \in KernelType
           /\ r.prio = [k.prio EXCEPT ![t] = p] /\ r.who = NoThread /\ r.to = k.to
           /\ r.list = k.list /\ r.mprio = k.mprio /\ r.fault = k.fault /\ Same(r, k)
  BY DEF KernelType, Same, WithPrio

LEMMA ListSet ==
    ASSUME NEW k \in KernelType, NEW m \in Mutexes, NEW s \in Seq(Threads)
    PROVE  LET r == WithList(k, m, s) IN
           /\ r \in KernelType
           /\ r.list = [k.list EXCEPT ![m] = s] /\ r.prio = k.prio /\ r.mprio = k.mprio
           /\ r.fault = k.fault /\ r.who = k.who /\ r.to = k.to /\ Same(r, k)
  BY DEF KernelType, Same, WithList

LEMMA MprioSet ==
    ASSUME NEW k \in KernelType, NEW m \in Mutexes, NEW v \in 0 .. NoPrio
    PROVE  LET r == WithMprio(k, m, v) IN
           /\ r \in KernelType
           /\ r.mprio = [k.mprio EXCEPT ![m] = v] /\ r.prio = k.prio /\ r.list = k.list
           /\ r.fault = k.fault /\ r.who = k.who /\ r.to = k.to /\ Same(r, k)
  BY DEF KernelType, Same, WithMprio

LEMMA FaultSet ==
    ASSUME NEW k \in KernelType, NEW f \in {"none", "assert", "null"}
    PROVE  LET r == WithFault(k, f) IN
           /\ r \in KernelType
           /\ r.mprio = k.mprio /\ r.prio = k.prio /\ r.list = k.list
           /\ r.fault = f /\ r.who = k.who /\ r.to = k.to /\ Same(r, k)
  BY DEF KernelType, Same, WithFault

LEMMA NextSet ==
    ASSUME NEW k \in KernelType, NEW o \in Threads, NEW p \in 0 .. NoPrio - 1
    PROVE  LET r == WithNext(k, o, p) IN
           /\ r \in KernelType
           /\ r.mprio = k.mprio /\ r.prio = k.prio /\ r.list = k.list
           /\ r.fault = k.fault /\ r.who = o /\ r.to = p /\ p < NoPrio /\ Same(r, k)
  <1>1. NoPrio \in Nat /\ p \in 0 .. NoPrio /\ p < NoPrio
    BY MutexFacts
  <1> QED BY <1>1 DEF KernelType, Same, WithNext

(* A level that ends the walk: t is on no list, or RT_ASSERT stopped.      *)
Settled(z, k, t) ==
    /\ z.list = k.list /\ z.mprio = k.mprio /\ z.who = NoThread
    /\ \A m \in Mutexes : t \notin ToSet(k.list[m])

(* A level that moves t on the list of m and looks at the owner of m       *)
Passed(z, k, t, m) ==
    /\ t \in ToSet(k.list[m])
    /\ \A n \in Mutexes : n # m => /\ z.list[n] = k.list[n] /\ z.mprio[n] = k.mprio[n]
                                   /\ t \notin ToSet(k.list[n])
    /\ ToSet(z.list[m]) = ToSet(k.list[m])
    /\ \A n \in Mutexes : InPrioOrder(z.list[n], z.prio)
    /\ z.mprio[m] = MutexPrio(z, m)
    /\ z.who = NoThread /\ k.owner[m] # NoThread =>
            ThreadPrio(z, k.owner[m]) = z.prio[k.owner[m]]
    /\ z.who # NoThread => /\ z.who = k.owner[m] /\ z.to = ThreadPrio(z, z.who)
                           /\ z.to # z.prio[z.who]

Moved(z, k, t) ==
    /\ z.prio = [k.prio EXCEPT ![t] = k.to]
    /\ Settled(z, k, t) \/ \E m \in Mutexes : Passed(z, k, t, m)

(* z is r after a waiter of m was put back into its list, now s, and m got *)
(* its priority; the owner is next if its priority is to change.           *)
Requeued(z, r, m, s) ==
    /\ z \in KernelType
    /\ z.list = [r.list EXCEPT ![m] = s] /\ z.prio = r.prio
    /\ z.fault # "assert" /\ Same(z, r)
    /\ z.who # NoThread => z.to < NoPrio /\ z.fault = "none"
    /\ z.who \in {NoThread, r.owner[m]}
    /\ z.mprio = [r.mprio EXCEPT ![m] = MutexPrio(z, m)]
    /\ z.who = NoThread /\ r.owner[m] # NoThread =>
          ThreadPrio(z, r.owner[m]) = z.prio[r.owner[m]]
    /\ z.who # NoThread => z.to = ThreadPrio(z, z.who) /\ z.to # z.prio[z.who]

LEMMA RequeueFacts ==
    ASSUME NEW r \in KernelType, NEW t \in Threads, r.pending[t] # NoMutex,
           r.who = NoThread, r.fault = "none", ~setup.debug,
           NEW s, s = ListInsert(ListRemove(r.list[r.pending[t]], t), t, r.prio, "PRIO"),
           s \in Seq(Threads),
           NEW z, z = Requeue(r, t)
    PROVE  Requeued(z, r, r.pending[t], s)
  <1>1. PICK m \in Mutexes : m = r.pending[t]
    BY DEF KernelType
  <1>2. PICK l : l = WithList(r, m, s)
    OBVIOUS
  <1>3. /\ l \in KernelType /\ l.list = [r.list EXCEPT ![m] = s] /\ l.prio = r.prio
        /\ l.fault = "none" /\ l.who = NoThread /\ Same(l, r) /\ l.mprio = r.mprio
    BY <1>2, ListSet
  <1>4. PICK v \in 0 .. NoPrio : v = MutexPrio(l, m)
    BY <1>3, MutexPrioFacts
  <1>5. PICK y : y = WithMprio(l, m, v)
    OBVIOUS
  <1>6. /\ y \in KernelType /\ y.list = l.list /\ y.prio = l.prio
        /\ y.fault = l.fault /\ y.who = l.who /\ Same(y, l)
        /\ y.mprio = [l.mprio EXCEPT ![m] = v]
    <2>1. l \in KernelType
      BY <1>3
    <2> QED BY <1>5, <2>1, MprioSet
  <1>7. PICK o \in Threads \cup {NoThread} : o = y.owner[m]
    BY <1>6 DEF KernelType
  <1>8. PICK p : p = ThreadPrio(y, o)
    OBVIOUS
  <1>9. z = IF o = NoThread THEN WithFault(y, "null")
            ELSE IF p = y.prio[o] THEN y ELSE WithNext(y, o, p)
    <2>1. l = [r EXCEPT !.list[m] = ListInsert(ListRemove(@, t), t, r.prio, "PRIO")]
      BY <1>1, <1>2 DEF WithList
    <2>2. y = [l EXCEPT !.mprio[m] = MutexPrio(l, m)]
      BY <1>4, <1>5 DEF WithMprio
    <2> QED BY <1>1, <1>7, <1>8, <2>1, <2>2 DEF Requeue, WithFault, WithNext
  <1>10. /\ z \in KernelType /\ z.list = y.list /\ z.prio = y.prio
         /\ z.fault # "assert" /\ Same(z, y)
         /\ z.who # NoThread => z.to < NoPrio /\ z.fault = "none"
         /\ z.who \in {NoThread, o} /\ z.mprio = y.mprio
         /\ z.who = NoThread /\ o # NoThread => p = z.prio[o]
         /\ z.who # NoThread => z.to = p /\ p # z.prio[o]
    <2>1. CASE o = NoThread
      <3>1. z = WithFault(y, "null") /\ "null" \in {"none", "assert", "null"}
        BY <1>9, <2>1
      <3>2. /\ z \in KernelType /\ z.list = y.list /\ z.prio = y.prio
            /\ z.fault = "null" /\ z.who = y.who /\ Same(z, y) /\ z.mprio = y.mprio
        BY <1>6, <3>1, FaultSet
      <3> QED BY <1>3, <1>6, <2>1, <3>2
    <2>2. CASE o # NoThread /\ p = y.prio[o]
      <3>1. z = y
        BY <1>9, <2>2
      <3> QED BY <1>3, <1>6, <2>2, <3>1 DEF Same
    <2>3. CASE o # NoThread /\ p # y.prio[o]
      <3>1. z = WithNext(y, o, p) /\ o \in Threads
        BY <1>9, <2>3
      <3>2. p \in 0 .. NoPrio - 1
        BY <1>6, <1>8, <3>1, ThreadPrioFacts
      <3>3. /\ z \in KernelType /\ z.list = y.list /\ z.prio = y.prio
            /\ z.fault = y.fault /\ z.who = o /\ z.to = p /\ p < NoPrio /\ Same(z, y)
            /\ z.mprio = y.mprio
        BY <1>6, <3>1, <3>2, NextSet
      <3> QED BY <1>3, <1>6, <2>3, <3>3
    <2> QED BY <2>1, <2>2, <2>3
  <1>11. v = MutexPrio(z, m) /\ p = ThreadPrio(z, o)
    <2>1. z.list = l.list /\ z.prio = l.prio /\ z.mprio = y.mprio /\ z.taken = y.taken
      BY <1>6, <1>10 DEF Same
    <2> QED BY <1>4, <1>8, <2>1 DEF MutexPrio, ThreadPrio
  <1>12. z.owner = r.owner /\ z.mprio = [r.mprio EXCEPT ![m] = v] /\ o = r.owner[m]
    BY <1>3, <1>6, <1>7, <1>10 DEF Same
  <1>13. Same(z, r) /\ z.list = [r.list EXCEPT ![m] = s] /\ z.prio = r.prio
    BY <1>3, <1>6, <1>10 DEF Same
  <1> QED BY <1>1, <1>10, <1>11, <1>12, <1>13 DEF Requeued

LEMMA LevelKeeps ==
    ASSUME NEW k, NEW W, KernelOK(k, W, setup.debug), setup.debug \in BOOLEAN
    PROVE  /\ KernelOK(UpdateLevel(k), W, setup.debug) /\ Same(UpdateLevel(k), k)
           /\ k.who # NoThread /\ (setup.debug => NoOwnerIn(k, W)) =>
                 Moved(UpdateLevel(k), k, k.who)
  <1>0. /\ k \in KernelType /\ Queues(k, W) /\ Ordered(k, W) /\ Suspended(k, W, setup.debug)
        /\ k.who # NoThread => k.to < NoPrio /\ k.fault = "none"
        /\ NoOwnerIn(k, W) => k.who \notin W
    BY DEF KernelOK
  <1>a. NoThread \notin W
    BY <1>0, MutexFacts DEF Suspended, KernelType
  <1>1. CASE k.who = NoThread
    <2>1. UpdateLevel(k) = k
      BY <1>1 DEF UpdateLevel
    <2> QED BY <1>1, <2>1 DEF Same
  <1>2. CASE k.who # NoThread
    <2>1. PICK t \in Threads : t = k.who
      BY <1>0, <1>2 DEF KernelType
    <2>2. PICK p \in 0 .. NoPrio - 1 : p = k.to
      <3>1. NoPrio \in Nat /\ k.to \in 0 .. NoPrio /\ k.to < NoPrio
        BY <1>0, <1>2, MutexFacts DEF KernelType
      <3> QED BY <3>1
    <2>3. PICK r : r = WithPrio(k, t, p)
      OBVIOUS
    <2>4. /\ r \in KernelType
          /\ r.prio = [k.prio EXCEPT ![t] = p] /\ r.who = NoThread
          /\ r.list = k.list /\ r.fault = "none" /\ Same(r, k) /\ r.mprio = k.mprio
      BY <1>0, <1>2, <2>3, PrioSet
    <2>5. UpdateLevel(k) = IF t \in k.susp /\ k.pending[t] # NoMutex THEN Requeue(r, t) ELSE r
      BY <1>2, <2>1, <2>2, <2>3 DEF UpdateLevel, WithPrio
    <2>6. \A m \in Mutexes : InPrioOrder(k.list[m], k.prio)
      BY <1>0, <1>2 DEF Ordered
    <2>7. /\ k.prio \in [Threads -> 0 .. NoPrio - 1]
          /\ \A m \in Mutexes : k.list[m] \in Seq(Threads)
          /\ k.pending[t] \in Mutexes \cup {NoMutex}
      BY <1>0 DEF KernelType
    (* The lists the thread is not on stay in order. *)
    <2>8. \A m \in Mutexes : t \notin ToSet(k.list[m]) => InPrioOrder(k.list[m], r.prio)
      <3>1. PICK f \in [Threads -> 0 .. NoPrio - 1] : f = k.prio
        BY <2>7
      <3>2. ASSUME NEW m \in Mutexes, t \notin ToSet(k.list[m])
            PROVE  InPrioOrder(k.list[m], [f EXCEPT ![t] = p])
        <4>1. PICK l \in Seq(Threads) : l = k.list[m]
          BY <2>7
        <4>2. t \notin ToSet(l) /\ InPrioOrder(l, f)
          BY <2>6, <3>1, <3>2, <4>1
        <4>3. InPrioOrder(l, [f EXCEPT ![t] = p])
          BY <4>2, OrderElsewhere
        <4> QED BY <4>1, <4>3
      <3> QED BY <2>4, <3>1, <3>2
    <2>9. CASE ~(t \in k.susp /\ k.pending[t] # NoMutex)
      <3>1. UpdateLevel(k) = r
        BY <2>5, <2>9
      <3>2. \A m \in Mutexes : t \notin ToSet(k.list[m])
        BY <1>0, <2>9, MutexFacts DEF Queues, Suspended
      <3>3. \A m \in Mutexes : InPrioOrder(r.list[m], r.prio)
        BY <2>4, <2>8, <3>2
      <3>4. Queues(r, W) /\ Suspended(r, W, setup.debug) /\ Ordered(r, W)
        BY <1>0, <2>4, <3>3 DEF Queues, Suspended, Ordered, Same
      <3>5. Moved(r, k, t)
        BY <2>2, <2>4, <3>2 DEF Moved, Settled
      <3> QED BY <1>a, <2>1, <2>4, <3>1, <3>4, <3>5 DEF KernelOK
    <2>10. CASE t \in k.susp /\ k.pending[t] # NoMutex /\ setup.debug
      <3>1. UpdateLevel(k) = WithFault(r, "assert")
        BY <2>5, <2>10 DEF Requeue, WithFault
      <3>2. PICK z : z = WithFault(r, "assert")
        OBVIOUS
      <3>3. "assert" \in {"none", "assert", "null"}
        OBVIOUS
      <3>4. /\ z \in KernelType /\ z.list = r.list /\ z.prio = r.prio
            /\ z.fault = "assert" /\ z.who = r.who /\ Same(z, r) /\ z.mprio = r.mprio
        BY <2>4, <3>2, <3>3, FaultSet
      <3>5. Queues(z, W) /\ Suspended(z, W, setup.debug) /\ Same(z, k)
        BY <1>0, <2>4, <3>4 DEF Queues, Suspended, Same
      (* The thread whose place was not corrected is on no list when no    *)
      (* owner waits.                                                      *)
      <3>7. ASSUME NoOwnerIn(z, W), NEW m \in Mutexes PROVE InPrioOrder(z.list[m], z.prio)
        <4>1. NoOwnerIn(k, W)
          BY <3>5, <3>7 DEF NoOwnerIn, Same
        <4>2. t \notin W
          BY <1>0, <2>1, <4>1
        <4>3. t \notin ToSet(k.list[m])
          BY <1>0, <4>2 DEF Queues
        <4> QED BY <2>4, <2>8, <3>4, <4>3
      <3>8. Ordered(z, W)
        BY <3>4, <3>7 DEF Ordered
      <3>6. KernelOK(z, W, setup.debug)
        BY <1>a, <2>4, <2>10, <3>4, <3>5, <3>8 DEF KernelOK
      <3>9. NoOwnerIn(k, W) => Moved(z, k, t)
        <4>1. NoOwnerIn(k, W) => \A m \in Mutexes : t \notin ToSet(k.list[m])
          BY <1>0, <2>1 DEF Queues
        <4> QED BY <2>2, <2>4, <3>4, <4>1 DEF Moved, Settled
      <3> QED BY <2>1, <2>10, <3>1, <3>2, <3>5, <3>6, <3>9
    <2>11. CASE t \in k.susp /\ k.pending[t] # NoMutex /\ ~setup.debug
      <3>1. PICK m \in Mutexes : m = k.pending[t]
        BY <2>7, <2>11
      <3>2. t \in W
        BY <1>0, <2>11 DEF Suspended
      <3>3. t \in ToSet(k.list[m]) /\ Distinct(k.list[m])
        BY <1>0, <3>1, <3>2 DEF Queues
      <3>4. \A n \in Mutexes : n # m => t \notin ToSet(k.list[n])
        BY <1>0, <3>1 DEF Queues
      <3>5. PICK l \in Seq(Threads) : l = k.list[m]
        BY <2>7
      <3>6. PICK s : s = ListInsert(ListRemove(l, t), t, r.prio, "PRIO")
        OBVIOUS
      <3>7. /\ s \in Seq(Threads) /\ Distinct(s) /\ ToSet(s) = ToSet(l)
            /\ InPrioOrder(l, k.prio) => InPrioOrder(s, r.prio)
        <4>1. PICK f \in [Threads -> 0 .. NoPrio - 1] : f = k.prio
          BY <2>7
        <4>2. PICK q : q = r.prio
          OBVIOUS
        <4>3. q = [f EXCEPT ![t] = p] /\ t \in ToSet(l) /\ Distinct(l)
          BY <2>4, <3>3, <3>5, <4>1, <4>2
        <4>4. LET x == ListInsert(ListRemove(l, t), t, q, "PRIO") IN
              /\ x \in Seq(Threads) /\ Distinct(x) /\ ToSet(x) = ToSet(l)
              /\ InPrioOrder(l, f) => InPrioOrder(x, q)
          BY ZenonT(30), <4>3, MovedListed
        <4> QED BY <3>6, <4>1, <4>2, <4>4
      <3>8. PICK z : z = Requeue(r, t)
        OBVIOUS
      <3>9. /\ z \in KernelType
            /\ z.list = [r.list EXCEPT ![m] = s] /\ z.prio = r.prio
            /\ z.fault # "assert" /\ Same(z, r)
            /\ z.who # NoThread => z.to < NoPrio /\ z.fault = "none"
            /\ z.who \in {NoThread, r.owner[m]}
            /\ z.mprio = [r.mprio EXCEPT ![m] = MutexPrio(z, m)]
            /\ z.who = NoThread /\ r.owner[m] # NoThread =>
                  ThreadPrio(z, r.owner[m]) = z.prio[r.owner[m]]
            /\ z.who # NoThread => z.to = ThreadPrio(z, z.who) /\ z.to # z.prio[z.who]
        <4>1. r.pending[t] = m /\ m # NoMutex /\ r.list[m] = l
          BY <2>4, <2>11, <3>1, <3>5 DEF Same
        <4>2. s = ListInsert(ListRemove(r.list[r.pending[t]], t), t, r.prio, "PRIO")
          BY <3>6, <4>1
        <4>3. /\ r \in KernelType /\ r.pending[t] # NoMutex
              /\ r.who = NoThread /\ r.fault = "none" /\ ~setup.debug
              /\ s \in Seq(Threads)
          BY <2>4, <2>11, <3>7, <4>1
        <4>4. Requeued(z, r, r.pending[t], s)
          BY <3>8, <4>2, <4>3, RequeueFacts
        <4> QED BY <4>1, <4>4 DEF Requeued
      <3>10. z.list[m] = s /\ \A n \in Mutexes : n # m => z.list[n] = k.list[n]
        BY <2>4, <3>9 DEF KernelType
      <3>11. Queues(z, W)
        <4>1. ASSUME NEW n \in Mutexes
              PROVE  /\ Distinct(z.list[n]) /\ ToSet(z.list[n]) = ToSet(k.list[n])
          <5>1. CASE n = m
            BY <3>5, <3>7, <3>10, <5>1
          <5>2. CASE n # m
            BY <1>0, <3>10, <5>2 DEF Queues
          <5> QED BY <5>1, <5>2
        <4>2. z.pending = k.pending
          BY <2>4, <3>9 DEF Same
        <4> QED BY <1>0, <4>1, <4>2 DEF Queues
      <3>12. \A n \in Mutexes : InPrioOrder(z.list[n], z.prio)
        <4> TAKE n \in Mutexes
        <4>1. CASE n = m
          BY <2>6, <3>5, <3>7, <3>9, <3>10, <4>1
        <4>2. CASE n # m
          BY <2>8, <3>4, <3>9, <3>10, <4>2
        <4> QED BY <4>1, <4>2
      <3>13. Suspended(z, W, setup.debug) /\ Ordered(z, W) /\ Same(z, k)
        BY <1>0, <2>4, <3>9, <3>12 DEF Suspended, Ordered, Same
      <3>16. NoOwnerIn(z, W) => z.who \notin W
        BY <1>a, <3>9 DEF NoOwnerIn, Same
      <3>14. KernelOK(z, W, setup.debug)
        BY <3>9, <3>11, <3>13, <3>16 DEF KernelOK
      <3>15. UpdateLevel(k) = z
        BY <2>5, <2>11, <3>8
      <3>17. Moved(z, k, t)
        <4>1. z.mprio[m] = MutexPrio(z, m) /\ \A n \in Mutexes : n # m => z.mprio[n] = k.mprio[n]
          <5>1. k.mprio \in [Mutexes -> 0 .. NoPrio]
            BY <1>0 DEF KernelType
          <5>2. z.mprio = [k.mprio EXCEPT ![m] = MutexPrio(z, m)]
            BY <2>4, <3>9
          <5> QED BY <5>1, <5>2
        <4>2. ToSet(z.list[m]) = ToSet(k.list[m])
          BY <3>5, <3>7, <3>10
        <4>3. r.owner = k.owner /\ z.prio = [k.prio EXCEPT ![t] = k.to]
          BY <2>2, <2>4, <3>9 DEF Same
        <4>4. /\ z.who = NoThread /\ k.owner[m] # NoThread =>
                    ThreadPrio(z, k.owner[m]) = z.prio[k.owner[m]]
              /\ z.who # NoThread => /\ z.who = k.owner[m] /\ z.to = ThreadPrio(z, z.who)
                                     /\ z.to # z.prio[z.who]
          BY <3>9, <4>3
        <4>5. Passed(z, k, t, m)
          BY <3>3, <3>4, <3>10, <3>12, <4>1, <4>2, <4>4 DEF Passed
        <4> QED BY <4>3, <4>5 DEF Moved
      <3> QED BY <2>1, <3>13, <3>14, <3>15, <3>17
    <2> QED BY <2>9, <2>10, <2>11
  <1> QED BY <1>1, <1>2


-----------------------------------------------------------------------------
(* All levels of _thread_update_priority *)

(* Induction, for a set: what holds of 0 and passes on to the next number  *)
(* holds up to N, for otherwise there is a least number it fails for.      *)
LEMMA UpTo ==
    ASSUME NEW N \in Nat, NEW S, 0 \in S, \A n \in 0 .. N - 1 : n \in S => n + 1 \in S
    PROVE  N \in S
  <1> DEFINE I == {n \in 0 .. N : n \notin S}
  <1> SUFFICES ASSUME I # {} PROVE FALSE
    OBVIOUS
  <1>1. I \in SUBSET Nat
    OBVIOUS
  <1>2. PICK m \in I : \A y \in I : m <= y
    <2> HIDE DEF I
    <2> QED BY <1>1, MinIsLeast
  <1>3. m \in 0 .. N /\ m \notin S /\ m # 0
    BY <1>2
  <1>4. m - 1 \in 0 .. N - 1 /\ m - 1 \in 0 .. N /\ m - 1 < m
    BY <1>3
  <1>5. m - 1 \in S
    BY <1>2, <1>4
  <1>6. (m - 1) + 1 \in S /\ (m - 1) + 1 = m
    BY <1>3, <1>4, <1>5
  <1> QED BY <1>3, <1>6

(* The levels f of an update that starts from a, up to the N-th *)
AreLevels(f, a, N) == f = [n \in 0 .. N |-> IF n = 0 THEN a ELSE UpdateLevel(f[n - 1])]

LEMMA LevelsExist ==
    ASSUME NEW a, NEW N \in Nat
    PROVE  \E f : AreLevels(f, a, N)
  <1> DEFINE S == {n \in 0 .. N : \E f : AreLevels(f, a, n)}
  <1>1. 0 \in S
    <2> DEFINE f == [n \in 0 .. 0 |-> a]
    <2>1. AreLevels(f, a, 0)
      BY DEF AreLevels
    <2> HIDE DEF f
    <2> QED BY <2>1
  <1>2. ASSUME NEW n \in 0 .. N - 1, n \in S PROVE n + 1 \in S
    <2>1. PICK f : AreLevels(f, a, n)
      BY <1>2
    <2>2. \A j \in 0 .. n : f[j] = IF j = 0 THEN a ELSE UpdateLevel(f[j - 1])
      BY <2>1 DEF AreLevels
    <2> DEFINE g == [j \in 0 .. n + 1 |-> IF j = n + 1 THEN UpdateLevel(f[n]) ELSE f[j]]
    <2>3. \A j \in 0 .. n : g[j] = f[j]
      OBVIOUS
    <2>4. g[n + 1] = UpdateLevel(f[n]) /\ g = [j \in 0 .. n + 1 |-> g[j]]
      OBVIOUS
    <2> HIDE DEF g
    <2>5. ASSUME NEW j \in 0 .. n + 1
          PROVE  g[j] = IF j = 0 THEN a ELSE UpdateLevel(g[j - 1])
      <3>1. CASE j = n + 1
        <4>1. j - 1 = n /\ n \in 0 .. n /\ j # 0
          BY <3>1
        <4>2. g[j - 1] = f[n]
          BY <2>3, <4>1
        <4> QED BY <2>4, <3>1, <4>1, <4>2
      <3>2. CASE j # n + 1
        <4>1. j \in 0 .. n /\ (j # 0 => j - 1 \in 0 .. n)
          BY <3>2
        <4>2. g[j] = f[j] /\ (j # 0 => g[j - 1] = f[j - 1])
          BY <2>3, <4>1
        <4> QED BY <2>2, <4>1, <4>2
      <3> QED BY <3>1, <3>2
    <2>6. AreLevels(g, a, n + 1)
      BY <2>4, <2>5 DEF AreLevels
    <2>7. n + 1 \in 0 .. N
      OBVIOUS
    <2> QED BY <2>6, <2>7
  <1>3. N \in S
    <2> HIDE DEF S
    <2> QED BY <1>1, <1>2, UpTo
  <1> QED BY <1>3

Levels(a) ==
    CHOOSE f : f = [n \in 0 .. Cardinality(Threads) |-> IF n = 0 THEN a ELSE UpdateLevel(f[n - 1])]

LEMMA UpdateIsLevels ==
    ASSUME NEW k, NEW t, NEW p
    PROVE  \E f : /\ AreLevels(f, WithNext(k, t, p), Cardinality(Threads))
                  /\ UpdatePriority(k, t, p) = f[Cardinality(Threads)]
  <1>1. PICK a : a = WithNext(k, t, p)
    OBVIOUS
  <1>2. \E f : AreLevels(f, a, Cardinality(Threads))
    BY LevelsExist, MutexFacts
  <1>3. AreLevels(Levels(a), a, Cardinality(Threads))
    BY <1>2 DEF AreLevels, Levels
  <1>4. UpdatePriority(k, t, p) = Levels(a)[Cardinality(Threads)]
    BY <1>1 DEF UpdatePriority, Levels, WithNext
  <1> QED BY <1>1, <1>3, <1>4

(* _thread_update_priority keeps the lists and their order. *)
LEMMA UpdateKeeps ==
    ASSUME NEW k, NEW W, KernelOK(k, W, setup.debug), setup.debug \in BOOLEAN,
           k.fault = "none", NEW t \in Threads, NEW p \in 0 .. NoPrio - 1,
           NoOwnerIn(k, W) => t \notin W
    PROVE  KernelOK(UpdatePriority(k, t, p), W, setup.debug) /\ Same(UpdatePriority(k, t, p), k)
  <1> DEFINE N == Cardinality(Threads)
  <1>0. N \in Nat
    BY MutexFacts
  <1>1. PICK a : a = WithNext(k, t, p)
    OBVIOUS
  <1>2. PICK f : AreLevels(f, a, N) /\ UpdatePriority(k, t, p) = f[N]
    BY <1>1, UpdateIsLevels
  <1> HIDE DEF N
  <1>3. KernelOK(a, W, setup.debug) /\ Same(a, k)
    <2>1. k \in KernelType
      BY DEF KernelOK
    <2>2. /\ a \in KernelType /\ a.prio = k.prio /\ a.list = k.list
          /\ a.fault = k.fault /\ a.who = t /\ a.to = p /\ p < NoPrio /\ Same(a, k)
      BY <1>1, <2>1, NextSet
    <2>3. Queues(a, W) /\ Ordered(a, W) /\ Suspended(a, W, setup.debug)
          /\ (NoOwnerIn(a, W) => NoOwnerIn(k, W))
      BY <2>2 DEF KernelOK, Queues, Ordered, Suspended, Same, NoOwnerIn
    <2> QED BY <2>2, <2>3 DEF KernelOK
  <1>4. \A n \in 0 .. N : f[n] = IF n = 0 THEN a ELSE UpdateLevel(f[n - 1])
    BY <1>2 DEF AreLevels
  <1> DEFINE S == {n \in 0 .. N : KernelOK(f[n], W, setup.debug) /\ Same(f[n], k)}
  <1>5. 0 \in S
    BY <1>0, <1>3, <1>4
  <1>6. ASSUME NEW n \in 0 .. N - 1, n \in S PROVE n + 1 \in S
    <2>1. n + 1 \in 0 .. N /\ n + 1 # 0 /\ (n + 1) - 1 = n
      BY <1>0
    <2>2. f[n + 1] = UpdateLevel(f[n])
      BY <1>4, <2>1
    <2>3. PICK b : b = f[n]
      OBVIOUS
    <2>4. KernelOK(b, W, setup.debug) /\ Same(b, k)
      BY <1>6, <2>3
    <2>5. KernelOK(UpdateLevel(b), W, setup.debug) /\ Same(UpdateLevel(b), b)
      BY <2>4, LevelKeeps
    <2>6. Same(UpdateLevel(b), k)
      BY <2>4, <2>5 DEF Same
    <2> QED BY <2>1, <2>2, <2>3, <2>5, <2>6
  <1>7. N \in S
    <2> HIDE DEF S
    <2> QED BY <1>0, <1>5, <1>6, UpTo
  <1> QED BY <1>2, <1>7


-----------------------------------------------------------------------------
(* The priorities on the way of _thread_update_priority *)

(* A mutex is as urgent as its waiters. *)
Heads(k) == \A m \in Mutexes : \A t \in ToSet(k.list[m]) : k.mprio[m] <= k.prio[t]

TakenOwned(k) == \A t \in Threads : \A m \in k.taken[t] : k.owner[m] = t

(* Thread t may have priority p: it is as urgent as itself and its mutexes *)
Fits(k, t, p) == p <= InitPrio[t] /\ \A m \in k.taken[t] : p <= k.mprio[m]

(* Every thread is, but the one that is about to be. *)
Covered(k) ==
    /\ Heads(k) /\ TakenOwned(k)
    /\ \A t \in Threads : k.prio[t] <= InitPrio[t]
    /\ \A t \in Threads : t # k.who => Fits(k, t, k.prio[t])
    /\ k.who # NoThread => Fits(k, k.who, k.to)

(* The same with equality *)
Exact(k) ==
    /\ \A m \in Mutexes : k.mprio[m] = MutexPrio(k, m)
    /\ \A t \in Threads : t # k.who => k.prio[t] = ThreadPrio(k, t)
    /\ k.who # NoThread => k.to = ThreadPrio(k, k.who)

Raising(k) == k.who # NoThread /\ k.to < k.prio[k.who]
Lowering(k) == k.who # NoThread /\ k.to > k.prio[k.who]

(* _mutex_update_priority: as urgent as the most urgent waiter *)
LEMMA FirstWaiter ==
    ASSUME NEW k \in KernelType, NEW m \in Mutexes, InPrioOrder(k.list[m], k.prio)
    PROVE  /\ \A t \in ToSet(k.list[m]) : MutexPrio(k, m) <= k.prio[t]
           /\ \/ MutexPrio(k, m) = NoPrio
              \/ \E t \in ToSet(k.list[m]) : MutexPrio(k, m) = k.prio[t]
           /\ ToSet(k.list[m]) # {} =>
                  \E t \in ToSet(k.list[m]) : MutexPrio(k, m) = k.prio[t]
  <1>1. PICK l \in Seq(Threads) : l = k.list[m]
    BY DEF KernelType
  <1>2. PICK f \in [Threads -> 0 .. NoPrio - 1] : f = k.prio
    BY DEF KernelType
  <1>3. CASE l = <<>>
    <2>1. ToSet(l) = {}
      BY <1>3, ListedIn
    <2> QED BY <1>1, <1>3, <2>1 DEF MutexPrio
  <1>4. CASE l # <<>>
    <2>1. Head(l) \in ToSet(l) /\ MutexPrio(k, m) = f[Head(l)] /\ Head(l) = l[1] /\ 1 \in DOMAIN l
      BY <1>1, <1>2, <1>4, HeadListed DEF MutexPrio
    <2>2. ASSUME NEW t \in ToSet(l) PROVE f[Head(l)] <= f[t]
      <3>1. PICK i \in DOMAIN l : l[i] = t
        BY DEF ToSet
      <3>2. i = 1 \/ 1 < i
        BY <3>1
      <3>3. l[1] \in Threads /\ f[l[1]] \in 0 .. NoPrio - 1 /\ NoPrio \in Nat
        BY <2>1, MutexFacts
      <3>4. CASE i = 1
        <4>1. f[l[1]] \in Int
          BY <3>3
        <4> QED BY <2>1, <3>1, <3>4, <4>1
      <3>5. CASE 1 < i
        BY <1>1, <1>2, <2>1, <3>1, <3>5 DEF InPrioOrder
      <3> QED BY <3>2, <3>4, <3>5
    <2> QED BY <1>1, <1>2, <2>1, <2>2
  <1> QED BY <1>3, <1>4

LEMMA ThreadPrioIs ==
    ASSUME NEW k \in KernelType, NEW t \in Threads, NEW v \in Nat, Fits(k, t, v),
           v = InitPrio[t] \/ \E m \in k.taken[t] : v = k.mprio[m]
    PROVE  ThreadPrio(k, t) = v
  <1>1. /\ ThreadPrio(k, t) \in 0 .. NoPrio - 1 /\ NoPrio \in Nat
        /\ ThreadPrio(k, t) <= InitPrio[t]
        /\ \A m \in k.taken[t] : ThreadPrio(k, t) <= k.mprio[m]
        /\ \/ ThreadPrio(k, t) = InitPrio[t]
           \/ \E m \in k.taken[t] : ThreadPrio(k, t) = k.mprio[m]
    BY ThreadPrioFacts, MutexFacts
  <1>2. ThreadPrio(k, t) <= v
    BY <1>1
  <1>3. v <= ThreadPrio(k, t)
    BY <1>1 DEF Fits
  <1>4. ThreadPrio(k, t) \in Nat
    BY <1>1
  <1> QED BY <1>2, <1>3, <1>4

LEMMA ThreadPrioFits ==
    ASSUME NEW k \in KernelType, NEW t \in Threads
    PROVE  Fits(k, t, ThreadPrio(k, t))
  BY ThreadPrioFacts DEF Fits

LEMMA KernelNumbers ==
    ASSUME NEW k \in KernelType
    PROVE  /\ NoPrio \in Nat
           /\ \A t \in Threads : k.prio[t] \in Nat /\ k.prio[t] < NoPrio /\ InitPrio[t] \in Nat
           /\ \A m \in Mutexes : k.mprio[m] \in Nat
           /\ \A t \in Threads : k.taken[t] \subseteq Mutexes
           /\ k.to \in Nat
  <1>1. NoPrio \in Nat /\ \A t \in Threads : InitPrio[t] \in 0 .. NoPrio - 1
    BY MutexFacts
  <1>2. /\ \A t \in Threads : k.prio[t] \in 0 .. NoPrio - 1
        /\ \A m \in Mutexes : k.mprio[m] \in 0 .. NoPrio
        /\ \A t \in Threads : k.taken[t] \subseteq Mutexes
        /\ k.to \in 0 .. NoPrio
    BY DEF KernelType
  <1> QED BY <1>1, <1>2

(* One level: only the owner of the mutex may not yet be covered, and it   *)
(* is to be raised only if the waiter was, to the same priority.           *)
LEMMA LevelCovers ==
    ASSUME NEW k, NEW W, KernelOK(k, W, setup.debug), setup.debug \in BOOLEAN,
           setup.debug => NoOwnerIn(k, W), NEW t \in Threads, t = k.who,
           Covered(k), NEW z, z = UpdateLevel(k)
    PROVE  Covered(z) /\ (Raising(z) => Raising(k) /\ z.to = k.to)
  <1>1. t # NoThread
    BY MutexFacts
  <1>2. /\ z \in KernelType /\ k \in KernelType /\ Same(z, k) /\ Moved(z, k, t)
    BY <1>1, LevelKeeps DEF KernelOK
  <1>3. /\ NoPrio \in Nat
        /\ \A u \in Threads : k.prio[u] \in Nat /\ z.prio[u] \in Nat /\ InitPrio[u] \in Nat
                              /\ z.prio[u] < NoPrio /\ k.taken[u] \subseteq Mutexes
        /\ \A n \in Mutexes : k.mprio[n] \in Nat /\ z.mprio[n] \in Nat
        /\ k.to \in Nat
    BY <1>2, KernelNumbers
  <1>4. z.taken = k.taken /\ z.owner = k.owner /\ TakenOwned(z)
    BY <1>2 DEF Same, Covered, TakenOwned
  <1>5. z.prio[t] = k.to /\ \A u \in Threads : u # t => z.prio[u] = k.prio[u]
    BY <1>2 DEF Moved, KernelType
  <1>6. \A u \in Threads : z.prio[u] <= InitPrio[u]
    BY <1>1, <1>5 DEF Covered, Fits
  <1>7. CASE Settled(z, k, t)
    <2>1. Heads(z)
      <3> SUFFICES ASSUME NEW n \in Mutexes, NEW u \in ToSet(z.list[n])
                   PROVE  z.mprio[n] <= z.prio[u]
        BY DEF Heads
      <3>1. z.list[n] = k.list[n] /\ u # t /\ z.mprio[n] = k.mprio[n]
        BY <1>7 DEF Settled
      <3>2. u \in Threads
        BY <1>2, ListedIn DEF KernelType
      <3> QED BY <1>5, <3>1, <3>2 DEF Covered, Heads
    <2>2. \A u \in Threads : Fits(z, u, z.prio[u])
      BY <1>1, <1>4, <1>5, <1>7 DEF Covered, Fits, Settled
    <2>3. z.who = NoThread
      BY <1>7 DEF Settled
    <2> QED BY <1>4, <1>6, <2>1, <2>2, <2>3 DEF Covered, Raising
  <1>8. ASSUME NEW m \in Mutexes, Passed(z, k, t, m)
        PROVE  Covered(z) /\ (Raising(z) => Raising(k) /\ z.to = k.to)
    <2>1. PICK o \in Threads \cup {NoThread} : o = k.owner[m]
      BY <1>2 DEF KernelType
    <2>2. /\ t \in ToSet(k.list[m]) /\ ToSet(z.list[m]) = ToSet(k.list[m])
          /\ z.mprio[m] = MutexPrio(z, m) /\ InPrioOrder(z.list[m], z.prio)
          /\ \A n \in Mutexes : n # m => /\ z.list[n] = k.list[n] /\ z.mprio[n] = k.mprio[n]
                                         /\ t \notin ToSet(k.list[n])
          /\ z.who = NoThread /\ o # NoThread => ThreadPrio(z, o) = z.prio[o]
          /\ z.who # NoThread => z.who = o /\ z.to = ThreadPrio(z, z.who)
      BY <1>8, <2>1 DEF Passed
    <2>3. /\ \A u \in ToSet(z.list[m]) : z.mprio[m] <= z.prio[u]
          /\ \E u \in ToSet(z.list[m]) : z.mprio[m] = z.prio[u]
      BY <1>2, <2>2, FirstWaiter
    <2>4. \A n \in Mutexes : \A u \in ToSet(z.list[n]) : u \in Threads
      BY <1>2, ListedIn DEF KernelType
    <2>5. Heads(z)
      <3> SUFFICES ASSUME NEW n \in Mutexes, NEW u \in ToSet(z.list[n])
                   PROVE  z.mprio[n] <= z.prio[u]
        BY DEF Heads
      <3>1. CASE n = m
        BY <2>3, <3>1
      <3>2. CASE n # m
        BY <1>5, <2>2, <2>4, <3>2 DEF Covered, Heads
      <3> QED BY <3>1, <3>2
    <2>6. ASSUME NEW u \in Threads, u # o PROVE Fits(z, u, z.prio[u])
      <3>1. \A n \in z.taken[u] : n \in k.taken[u] /\ z.mprio[n] = k.mprio[n]
        BY <1>3, <1>4, <2>1, <2>2, <2>6 DEF TakenOwned
      <3>2. CASE u = t
        BY <1>1, <1>5, <3>1, <3>2 DEF Covered, Fits
      <3>3. CASE u # t
        BY <1>5, <3>1, <3>3 DEF Covered, Fits
      <3> QED BY <3>2, <3>3
    <2>7. z.who # NoThread => z.who \in Threads /\ Fits(z, z.who, z.to)
      BY <1>2, <2>1, <2>2, ThreadPrioFits
    <2>8. z.who = NoThread /\ o # NoThread => Fits(z, o, z.prio[o])
      BY <1>2, <2>1, <2>2, ThreadPrioFits
    <2>9. Covered(z)
      BY <1>4, <1>6, <2>2, <2>5, <2>6, <2>7, <2>8 DEF Covered
    <2>10. ASSUME Raising(z) PROVE Raising(k) /\ z.to = k.to
      <3>1. /\ z.who = o /\ o \in Threads /\ z.to = ThreadPrio(z, o) /\ z.to < z.prio[o]
        BY <2>2, <2>7, <2>10 DEF Raising
      <3>2. \/ z.to = InitPrio[o]
            \/ \E n \in z.taken[o] : z.to = z.mprio[n]
        BY <1>2, <3>1, ThreadPrioFacts
      <3>3. z.to # InitPrio[o]
        BY <1>3, <1>6, <3>1
      <3>4. PICK n \in z.taken[o] : z.to = z.mprio[n]
        BY <3>2, <3>3
      <3>5. n \in Mutexes /\ n \in k.taken[o] /\ k.mprio[n] \in Nat
        BY <1>3, <1>4, <3>1, <3>4
      <3>6. z.prio[o] <= k.mprio[n]
        BY <1>1, <1>5, <3>1, <3>5 DEF Covered, Fits
      <3>7. n = m
        BY <1>3, <2>2, <3>1, <3>4, <3>5, <3>6
      <3>8. PICK y \in ToSet(z.list[m]) : z.mprio[m] = z.prio[y]
        BY <2>3
      <3>9. y \in Threads /\ k.mprio[m] <= k.prio[y] /\ k.mprio[m] <= k.prio[t]
        BY <2>2, <2>4, <3>8 DEF Covered, Heads
      <3>10. y = t
        BY <1>3, <1>5, <3>1, <3>4, <3>6, <3>7, <3>8, <3>9
      <3>11. z.to = k.to
        BY <1>5, <3>4, <3>7, <3>8, <3>10
      <3>12. k.to < k.prio[t]
        BY <1>3, <3>1, <3>6, <3>7, <3>9, <3>11
      <3> QED BY <1>1, <3>11, <3>12 DEF Raising
    <2> QED BY <2>9, <2>10
  <1> QED BY <1>2, <1>7, <1>8 DEF Moved

LEMMA MutexPrioIs ==
    ASSUME NEW k \in KernelType, NEW m \in Mutexes, InPrioOrder(k.list[m], k.prio),
           NEW u \in ToSet(k.list[m]), \A y \in ToSet(k.list[m]) : k.prio[u] <= k.prio[y]
    PROVE  MutexPrio(k, m) = k.prio[u]
  <1>1. PICK y \in ToSet(k.list[m]) : MutexPrio(k, m) = k.prio[y]
    BY FirstWaiter
  <1>2. y \in Threads /\ u \in Threads
    BY ListedIn DEF KernelType
  <1>3. k.prio[y] <= k.prio[u] /\ k.prio[u] <= k.prio[y]
    BY <1>1, FirstWaiter
  <1>4. k.prio[y] \in Nat /\ k.prio[u] \in Nat
    BY <1>2, KernelNumbers
  <1> QED BY <1>1, <1>3, <1>4

(* Neither the list nor the priority of anybody on it changed. *)
LEMMA MutexPrioSame ==
    ASSUME NEW k \in KernelType, NEW z \in KernelType, NEW m \in Mutexes,
           z.list[m] = k.list[m], \A u \in ToSet(k.list[m]) : z.prio[u] = k.prio[u]
    PROVE  MutexPrio(z, m) = MutexPrio(k, m)
  <1>1. k.list[m] \in Seq(Threads)
    BY DEF KernelType
  <1>2. k.list[m] # <<>> => Head(k.list[m]) \in ToSet(k.list[m])
    BY <1>1, HeadListed
  <1> QED BY <1>2 DEF MutexPrio

(* None of the mutexes of t changed. *)
LEMMA ThreadPrioSame ==
    ASSUME NEW k \in KernelType, NEW z \in KernelType, NEW t \in Threads,
           z.taken[t] = k.taken[t], \A m \in k.taken[t] : z.mprio[m] = k.mprio[m]
    PROVE  ThreadPrio(z, t) = ThreadPrio(k, t)
  <1>1. PICK v : v = ThreadPrio(k, t)
    OBVIOUS
  <1>2. v \in 0 .. NoPrio - 1 /\ Fits(k, t, v)
        /\ (v = InitPrio[t] \/ \E m \in k.taken[t] : v = k.mprio[m])
    BY <1>1, ThreadPrioFacts DEF Fits
  <1>3. v \in Nat
    BY <1>2, MutexFacts
  <1>4. Fits(z, t, v) /\ (v = InitPrio[t] \/ \E m \in z.taken[t] : v = z.mprio[m])
    BY <1>2 DEF Fits
  <1> QED BY <1>1, <1>3, <1>4, ThreadPrioIs

(* One level, where nothing but the walk itself is behind: the owner is    *)
(* lowered only if the waiter was, from the same priority.                 *)
LEMMA LevelExact ==
    ASSUME NEW k, NEW W, KernelOK(k, W, setup.debug), setup.debug \in BOOLEAN,
           setup.debug => NoOwnerIn(k, W), NEW t \in Threads, t = k.who,
           Covered(k), Exact(k), NEW z, z = UpdateLevel(k)
    PROVE  /\ Exact(z)
           /\ Lowering(z) => Lowering(k) /\ z.prio[z.who] = k.prio[t]
  <1>1. t # NoThread
    BY MutexFacts
  <1>2. /\ z \in KernelType /\ k \in KernelType /\ Same(z, k) /\ Moved(z, k, t)
    BY <1>1, LevelKeeps DEF KernelOK
  <1>3. /\ NoPrio \in Nat
        /\ \A u \in Threads : k.prio[u] \in Nat /\ z.prio[u] \in Nat /\ InitPrio[u] \in Nat
                              /\ z.prio[u] < NoPrio /\ k.taken[u] \subseteq Mutexes
        /\ \A n \in Mutexes : k.mprio[n] \in Nat /\ z.mprio[n] \in Nat
        /\ k.to \in Nat /\ z.to \in Nat
    BY <1>2, KernelNumbers
  <1>4. z.taken = k.taken /\ z.owner = k.owner
    BY <1>2 DEF Same
  <1>5. z.prio[t] = k.to /\ \A u \in Threads : u # t => z.prio[u] = k.prio[u]
    BY <1>2 DEF Moved, KernelType
  <1>6. \A n \in Mutexes : \A u \in ToSet(k.list[n]) : u \in Threads
    BY <1>2, ListedIn DEF KernelType
  <1>7. ASSUME NEW n \in Mutexes, z.list[n] = k.list[n], z.mprio[n] = k.mprio[n],
               t \notin ToSet(k.list[n])
        PROVE  z.mprio[n] = MutexPrio(z, n)
    <2>1. \A u \in ToSet(k.list[n]) : z.prio[u] = k.prio[u]
      BY <1>5, <1>6, <1>7
    <2>2. MutexPrio(z, n) = MutexPrio(k, n)
      BY <1>2, <1>7, <2>1, MutexPrioSame
    <2> QED BY <1>7, <2>2 DEF Exact
  <1>8. ASSUME NEW u \in Threads, \A n \in k.taken[u] : z.mprio[n] = k.mprio[n]
        PROVE  z.prio[u] = ThreadPrio(z, u)
    <2>1. ThreadPrio(z, u) = ThreadPrio(k, u)
      BY <1>2, <1>4, <1>8, ThreadPrioSame
    <2>2. CASE u = t
      BY <1>1, <1>5, <2>1, <2>2 DEF Exact
    <2>3. CASE u # t
      BY <1>5, <2>1, <2>3 DEF Exact
    <2> QED BY <2>2, <2>3
  <1>9. CASE Settled(z, k, t)
    <2>1. \A n \in Mutexes : z.mprio[n] = MutexPrio(z, n)
      BY <1>7, <1>9 DEF Settled
    <2>2. \A u \in Threads : z.prio[u] = ThreadPrio(z, u)
      BY <1>8, <1>9 DEF Settled
    <2>3. z.who = NoThread
      BY <1>9 DEF Settled
    <2> QED BY <2>1, <2>2, <2>3 DEF Exact, Lowering
  <1>10. ASSUME NEW m \in Mutexes, Passed(z, k, t, m)
         PROVE  /\ Exact(z)
                /\ Lowering(z) => Lowering(k) /\ z.prio[z.who] = k.prio[t]
    <2>1. PICK o \in Threads \cup {NoThread} : o = k.owner[m]
      BY <1>2 DEF KernelType
    <2>2. /\ t \in ToSet(k.list[m]) /\ ToSet(z.list[m]) = ToSet(k.list[m])
          /\ z.mprio[m] = MutexPrio(z, m) /\ InPrioOrder(z.list[m], z.prio)
          /\ \A n \in Mutexes : n # m => /\ z.list[n] = k.list[n] /\ z.mprio[n] = k.mprio[n]
                                         /\ t \notin ToSet(k.list[n])
          /\ z.who = NoThread /\ o # NoThread => ThreadPrio(z, o) = z.prio[o]
          /\ z.who # NoThread => z.who = o /\ z.to = ThreadPrio(z, z.who)
      BY <1>10, <2>1 DEF Passed
    <2>3. \A n \in Mutexes : z.mprio[n] = MutexPrio(z, n)
      BY <1>7, <2>2
    <2>4. ASSUME NEW u \in Threads, u # o PROVE z.prio[u] = ThreadPrio(z, u)
      <3>1. \A n \in k.taken[u] : z.mprio[n] = k.mprio[n]
        BY <1>3, <2>1, <2>2, <2>4 DEF Covered, TakenOwned
      <3> QED BY <1>8, <3>1
    <2>5. Exact(z)
      BY <2>1, <2>2, <2>3, <2>4 DEF Exact
    <2>6. ASSUME Lowering(z) PROVE Lowering(k) /\ z.prio[z.who] = k.prio[t]
      <3>1. /\ z.who = o /\ o \in Threads /\ z.to = ThreadPrio(z, o) /\ z.to > z.prio[o]
        BY <2>1, <2>2, <2>6 DEF Lowering
      <3>2. /\ z.to <= InitPrio[o] /\ \A n \in k.taken[o] : z.to <= z.mprio[n]
        BY <1>2, <1>4, <3>1, ThreadPrioFacts
      <3>3. z.prio[o] = ThreadPrio(k, o)
        BY <1>1, <1>5, <3>1 DEF Exact
      <3>4. \/ z.prio[o] = InitPrio[o]
            \/ \E n \in k.taken[o] : z.prio[o] = k.mprio[n]
        BY <1>2, <3>1, <3>3, ThreadPrioFacts
      <3>5. PICK n \in k.taken[o] : z.prio[o] = k.mprio[n]
        BY <1>3, <3>1, <3>2, <3>4
      <3>6. n \in Mutexes /\ z.to <= z.mprio[n]
        BY <1>3, <3>1, <3>2, <3>5
      <3>7. n = m
        BY <1>3, <2>2, <3>1, <3>5, <3>6
      <3>8. /\ \A u \in ToSet(k.list[m]) : z.mprio[m] <= z.prio[u]
        BY <1>2, <2>2, FirstWaiter
      <3>9. InPrioOrder(k.list[m], k.prio)
        BY <1>1 DEF KernelOK, Ordered
      <3>10. PICK y \in ToSet(k.list[m]) : k.mprio[m] = k.prio[y]
        BY <1>2, <2>2, <3>9, FirstWaiter DEF Exact
      <3>11. y = t
        <4>1. z.mprio[m] <= z.prio[y] /\ y \in Threads
          BY <1>6, <3>8
        <4> QED BY <1>3, <1>5, <3>1, <3>5, <3>6, <3>7, <3>10, <4>1
      <3>12. z.mprio[m] <= k.to
        BY <1>5, <2>2, <3>8
      <3>13. k.to > k.prio[t]
        BY <1>3, <3>1, <3>5, <3>6, <3>7, <3>10, <3>11, <3>12
      <3>14. z.prio[z.who] = k.prio[t]
        BY <3>1, <3>5, <3>7, <3>10, <3>11
      <3> QED BY <1>1, <3>13, <3>14 DEF Lowering
    <2> QED BY <2>5, <2>6
  <1> QED BY <1>2, <1>9, <1>10 DEF Moved

(* No priority has to change any more. *)
LEMMA WalkCovers ==
    ASSUME NEW k, NEW W, KernelOK(k, W, setup.debug), setup.debug \in BOOLEAN,
           setup.debug => NoOwnerIn(k, W), k.fault = "none",
           NEW t \in Threads, NEW p \in 0 .. NoPrio - 1, NoOwnerIn(k, W) => t \notin W,
           NEW a, a = WithNext(k, t, p), Covered(a), NEW z, z = UpdatePriority(k, t, p)
    PROVE  /\ Covered(z) /\ ~Raising(z)
           /\ Exact(a) => Exact(z) /\ ~Lowering(z)
  <1> DEFINE N == Cardinality(Threads)
             Above(b) == {u \in Threads : b.prio[u] > b.to}
             Level(b) == {u \in Threads : b.prio[u] = b.prio[b.who]}
             Good(b, n) == /\ KernelOK(b, W, setup.debug) /\ Same(b, k) /\ Covered(b)
                           /\ Raising(b) => Cardinality(Above(b)) <= N - n
                           /\ Exact(a) => Exact(b)
                           /\ Exact(a) /\ Lowering(b) => Cardinality(Level(b)) <= N - n
  <1>0. N \in Nat /\ IsFiniteSet(Threads)
    BY MutexFacts, MutexAssumption
  <1>1. PICK f : AreLevels(f, a, N) /\ z = f[N]
    BY UpdateIsLevels
  <1>s. ASSUME NEW b PROVE /\ Above(b) \subseteq Threads /\ Level(b) \subseteq Threads
                           /\ IsFiniteSet(Above(b)) /\ IsFiniteSet(Level(b))
                           /\ Cardinality(Above(b)) \in Nat /\ Cardinality(Level(b)) \in Nat
                           /\ Cardinality(Above(b)) <= N /\ Cardinality(Level(b)) <= N
    <2>1. \A S : S \subseteq Threads => IsFiniteSet(S) /\ Cardinality(S) <= N
      BY <1>0, FS_Subset
    <2>2. Above(b) \subseteq Threads /\ Level(b) \subseteq Threads
      OBVIOUS
    <2> HIDE DEF Above, Level
    <2>3. IsFiniteSet(Above(b)) /\ IsFiniteSet(Level(b))
      BY <2>1, <2>2
    <2> QED BY <2>1, <2>2, <2>3, FS_CardinalityType
  <1>2. KernelOK(a, W, setup.debug) /\ Same(a, k)
    <2>1. k \in KernelType
      BY DEF KernelOK
    <2>2. /\ a \in KernelType /\ a.prio = k.prio /\ a.list = k.list
          /\ a.fault = k.fault /\ a.who = t /\ a.to = p /\ p < NoPrio /\ Same(a, k)
      BY <2>1, NextSet
    <2>3. Queues(a, W) /\ Ordered(a, W) /\ Suspended(a, W, setup.debug)
          /\ (NoOwnerIn(a, W) => NoOwnerIn(k, W))
      BY <2>2 DEF KernelOK, Queues, Ordered, Suspended, Same, NoOwnerIn
    <2> QED BY <2>2, <2>3 DEF KernelOK
  <1>3. \A n \in 0 .. N : f[n] = IF n = 0 THEN a ELSE UpdateLevel(f[n - 1])
    BY <1>1 DEF AreLevels
  <1>4. Good(a, 0)
    <2>1. N - 0 = N
      BY <1>0
    <2> HIDE DEF N, Above, Level
    <2> QED BY <1>2, <1>s, <2>1
  <1>5. ASSUME NEW n \in 0 .. N - 1, NEW b, Good(b, n), NEW c, c = UpdateLevel(b)
        PROVE  Good(c, n + 1)
    <2>1. KernelOK(c, W, setup.debug) /\ Same(c, b) /\ Same(c, k)
      BY <1>5, LevelKeeps DEF Same
    <2>2. CASE b.who = NoThread
      <3>1. c = b
        BY <1>5, <2>2 DEF UpdateLevel
      <3> QED BY <1>5, <2>2, <3>1 DEF Raising, Lowering
    <2>3. CASE b.who # NoThread
      <3>1. PICK u \in Threads : u = b.who
        BY <1>5, <2>3 DEF KernelOK, KernelType
      <3>2. setup.debug => NoOwnerIn(b, W)
        BY <1>5 DEF NoOwnerIn, Same
      <3>3. Covered(c) /\ (Raising(c) => Raising(b) /\ c.to = b.to)
        BY <1>5, <3>1, <3>2, LevelCovers
      <3>4. Exact(b) => /\ Exact(c)
                        /\ Lowering(c) => Lowering(b) /\ c.prio[c.who] = b.prio[u]
        BY <1>5, <3>1, <3>2, LevelExact
      <3>5. c.prio[u] = b.to /\ \A v \in Threads : v # u => c.prio[v] = b.prio[v]
        <4>1. Moved(c, b, u) /\ b \in KernelType
          BY <1>5, <2>3, <3>1, <3>2, LevelKeeps DEF KernelOK
        <4> QED BY <4>1 DEF Moved, KernelType
      <3>6. b.prio[u] \in Nat /\ b.to \in Nat /\ u # NoThread
        BY <1>5, <2>3, <3>1, KernelNumbers DEF KernelOK
      <3>7. Raising(c) => Cardinality(Above(c)) <= N - (n + 1)
        <4> SUFFICES ASSUME Raising(c) PROVE Cardinality(Above(c)) <= N - (n + 1)
          OBVIOUS
        <4>1. Above(c) = Above(b) \ {u} /\ u \in Above(b)
          BY <3>1, <3>3, <3>5, <3>6 DEF Raising
        <4>2. PICK S : S = Above(b)
          OBVIOUS
        <4>3. IsFiniteSet(S) /\ u \in S /\ Cardinality(S) <= N - n /\ Cardinality(S) \in Nat
          <5>1. Raising(b)
            BY <3>3
          <5> HIDE DEF Above, N
          <5> QED BY <1>5, <1>s, <4>1, <4>2, <5>1
        <4>4. Cardinality(S \ {u}) = Cardinality(S) - 1
          BY <4>3, FS_RemoveElement
        <4> HIDE DEF Above, N
        <4>5. Cardinality(Above(c)) = Cardinality(S) - 1
          BY <4>1, <4>2, <4>4
        <4> QED BY <1>0, <4>3, <4>5
      <3>8. Exact(a) /\ Lowering(c) => Cardinality(Level(c)) <= N - (n + 1)
        <4> SUFFICES ASSUME Exact(a), Lowering(c) PROVE Cardinality(Level(c)) <= N - (n + 1)
          OBVIOUS
        <4>0. Lowering(b) /\ c.prio[c.who] = b.prio[u]
          BY <1>5, <3>4
        <4>1. Level(c) = Level(b) \ {u} /\ u \in Level(b)
          BY <3>1, <3>5, <3>6, <4>0 DEF Lowering
        <4>2. PICK S : S = Level(b)
          OBVIOUS
        <4>3. IsFiniteSet(S) /\ u \in S /\ Cardinality(S) <= N - n /\ Cardinality(S) \in Nat
          <5> HIDE DEF Level, N
          <5> QED BY <1>5, <1>s, <4>0, <4>1, <4>2
        <4>4. Cardinality(S \ {u}) = Cardinality(S) - 1
          BY <4>3, FS_RemoveElement
        <4> HIDE DEF Level, N
        <4>5. Cardinality(Level(c)) = Cardinality(S) - 1
          BY <4>1, <4>2, <4>4
        <4> QED BY <1>0, <4>3, <4>5
      <3> HIDE DEF Above, Level, N
      <3> QED BY <1>5, <2>1, <3>3, <3>4, <3>7, <3>8
    <2> QED BY <2>2, <2>3
  <1> HIDE DEF Good, N
  <1> DEFINE S == {n \in 0 .. N : Good(f[n], n)}
  <1>6. 0 \in S
    BY <1>0, <1>3, <1>4
  <1>7. ASSUME NEW n \in 0 .. N - 1, n \in S PROVE n + 1 \in S
    <2>1. n + 1 \in 0 .. N /\ n + 1 # 0 /\ (n + 1) - 1 = n
      BY <1>0
    <2>2. f[n + 1] = UpdateLevel(f[n])
      BY <1>3, <2>1
    <2>3. Good(f[n + 1], n + 1)
      BY <1>5, <1>7, <2>2
    <2> QED BY <2>1, <2>3
  <1>8. N \in S
    <2> HIDE DEF S
    <2> QED BY <1>0, <1>6, <1>7, UpTo
  <1>9. Good(z, N)
    BY <1>1, <1>8
  <1>10. N - N = 0
    BY <1>0
  <1>11. ~Raising(z)
    <2> SUFFICES ASSUME Raising(z) PROVE FALSE
      OBVIOUS
    <2>1. /\ Cardinality(Above(z)) <= 0 /\ Cardinality(Above(z)) \in Nat
          /\ IsFiniteSet(Above(z))
      BY <1>9, <1>10, <1>s DEF Good
    <2>2. z.who \in Above(z)
      BY <1>9 DEF Good, Raising, KernelOK, KernelType
    <2> HIDE DEF Above
    <2>3. Cardinality(Above(z)) = 0
      BY <2>1
    <2> QED BY <2>1, <2>2, <2>3, FS_EmptySet
  <1>12. Exact(a) => ~Lowering(z)
    <2> SUFFICES ASSUME Exact(a), Lowering(z) PROVE FALSE
      OBVIOUS
    <2>1. /\ Cardinality(Level(z)) <= 0 /\ Cardinality(Level(z)) \in Nat
          /\ IsFiniteSet(Level(z))
      BY <1>9, <1>10, <1>s DEF Good
    <2>2. z.who \in Level(z)
      BY <1>9 DEF Good, Lowering, KernelOK, KernelType
    <2> HIDE DEF Level
    <2>3. Cardinality(Level(z)) = 0
      BY <2>1
    <2> QED BY <2>1, <2>2, <2>3, FS_EmptySet
  <1> QED BY <1>9, <1>11, <1>12 DEF Good

-----------------------------------------------------------------------------
(* What else the operations do to the record *)

(* Neither lists nor priorities change. *)
LEMMA UnlistedKeeps ==
    ASSUME NEW k, NEW W, NEW d, KernelOK(k, W, d), k.fault = "none",
           NEW j \in KernelType, j.list = k.list, j.prio = k.prio, j.pending = k.pending,
           j.susp = k.susp, j.fault = "none", j.who = NoThread
    PROVE  KernelOK(j, W, d)
  <1>1. k \in KernelType /\ Queues(k, W) /\ Ordered(k, W) /\ Suspended(k, W, d)
    BY DEF KernelOK
  <1>2. NoThread \notin W
    BY <1>1, MutexFacts DEF Suspended, KernelType
  <1>3. \A m \in Mutexes : InPrioOrder(k.list[m], k.prio)
    BY <1>1 DEF Ordered
  <1>4. Queues(j, W) /\ Suspended(j, W, d)
    BY <1>1 DEF Queues, Suspended
  <1>5. Ordered(j, W)
    BY <1>3 DEF Ordered
  <1> QED BY <1>2, <1>4, <1>5 DEF KernelOK

LEMMA WaiterGoneKeeps ==
    ASSUME NEW k, NEW W, KernelOK(k, W, setup.debug), setup.debug \in BOOLEAN,
           k.fault = "none", k.who = NoThread, NEW t \in Threads, NEW m \in Mutexes
    PROVE  KernelOK(WaiterGone(k, t, m), W, setup.debug) /\ Same(WaiterGone(k, t, m), k)
  <1>0. k \in KernelType
    BY DEF KernelOK
  <1>1. PICK o \in Threads \cup {NoThread} : o = k.owner[m]
    BY <1>0 DEF KernelType
  <1>2. CASE o = NoThread
    <2>1. PICK z : z = WithFault(k, "null")
      OBVIOUS
    <2>2. WaiterGone(k, t, m) = z
      BY <1>1, <1>2, <2>1 DEF WaiterGone, WithFault
    <2>3. "null" \in {"none", "assert", "null"}
      OBVIOUS
    <2>4. /\ z \in KernelType /\ z.prio = k.prio /\ z.list = k.list /\ z.fault = "null"
          /\ z.who = k.who /\ Same(z, k)
      BY <1>0, <2>1, <2>3, FaultSet
    <2>5. Queues(z, W) /\ Ordered(z, W) /\ Suspended(z, W, setup.debug)
          /\ (NoOwnerIn(z, W) => z.who \notin W)
      BY <2>4 DEF KernelOK, Queues, Ordered, Suspended, Same, NoOwnerIn
    <2>6. KernelOK(z, W, setup.debug)
      BY <2>4, <2>5 DEF KernelOK
    <2> QED BY <2>2, <2>4, <2>6
  <1>3. CASE o # NoThread
    <2>1. PICK v \in 0 .. NoPrio : v = MutexPrio(k, m)
      BY <1>0, MutexPrioFacts
    <2>2. PICK r : r = WithMprio(k, m, v)
      OBVIOUS
    <2>3. /\ r \in KernelType /\ r.prio = k.prio /\ r.list = k.list
          /\ r.fault = k.fault /\ r.who = k.who /\ Same(r, k)
      BY <1>0, <2>2, MprioSet
    <2>4. KernelOK(r, W, setup.debug)
      BY <2>3, UnlistedKeeps DEF Same
    <2>5. PICK p : p = ThreadPrio(r, o)
      OBVIOUS
    <2>6. p \in 0 .. NoPrio - 1
      BY <1>3, <2>3, <2>5, ThreadPrioFacts
    <2>7. WaiterGone(k, t, m) \in {r, UpdatePriority(r, o, p)}
      <3>1. r = [k EXCEPT !.mprio[m] = MutexPrio(k, m)]
        BY <2>1, <2>2 DEF WithMprio
      <3> QED BY <1>1, <1>3, <2>5, <3>1 DEF WaiterGone
    <2>8. NoOwnerIn(r, W) => o \notin W
      BY <1>1, <2>3 DEF NoOwnerIn, Same
    <2>9. KernelOK(UpdatePriority(r, o, p), W, setup.debug) /\ Same(UpdatePriority(r, o, p), r)
      BY <1>3, <2>3, <2>4, <2>6, <2>8, UpdateKeeps
    <2>10. Same(UpdatePriority(r, o, p), k)
      BY <2>3, <2>9 DEF Same
    <2> QED BY <2>3, <2>4, <2>7, <2>9, <2>10
  <1> QED BY <1>2, <1>3

WithOwnPrio(k, t, p) == [k EXCEPT !.prio[t] = p]

LEMMA OwnPrioSet ==
    ASSUME NEW k \in KernelType, NEW t \in Threads, NEW p \in 0 .. NoPrio - 1
    PROVE  LET r == WithOwnPrio(k, t, p) IN
           /\ r \in KernelType
           /\ r.prio = [k.prio EXCEPT ![t] = p] /\ r.who = k.who
           /\ r.list = k.list /\ r.mprio = k.mprio /\ r.fault = k.fault /\ Same(r, k)
  BY DEF KernelType, Same, WithOwnPrio

LEMMA DisinheritKeeps ==
    ASSUME NEW k, NEW W, NEW d, KernelOK(k, W, d), k.fault = "none", k.who = NoThread,
           NEW t \in Threads, t \notin W, NEW m \in Mutexes, NEW z, z = Disinherit(k, t, m)
    PROVE  /\ KernelOK(z, W, d) /\ Same(z, k) /\ z.list = k.list
           /\ z.fault = "none" /\ z.who = NoThread
  <1>0. k \in KernelType /\ Queues(k, W) /\ Ordered(k, W) /\ Suspended(k, W, d)
    BY DEF KernelOK
  <1>1. CASE z = k
    BY <1>1 DEF Same
  <1>2. CASE z # k
    <2>1. PICK p \in 0 .. NoPrio - 1 : p = ThreadPrio(k, t)
      BY <1>0, ThreadPrioFacts
    <2>2. z = WithOwnPrio(k, t, p)
      BY <1>2, <2>1 DEF Disinherit, WithOwnPrio
    <2>3. /\ z \in KernelType /\ z.prio = [k.prio EXCEPT ![t] = p] /\ z.who = NoThread
          /\ z.list = k.list /\ z.fault = "none" /\ Same(z, k)
      BY <1>0, <2>2, OwnPrioSet
    <2>4. ASSUME NEW n \in Mutexes PROVE InPrioOrder(z.list[n], z.prio)
      <3>1. PICK l \in Seq(Threads) : l = k.list[n]
        BY <1>0 DEF KernelType
      <3>2. PICK f \in [Threads -> 0 .. NoPrio - 1] : f = k.prio
        BY <1>0 DEF KernelType
      <3>3. t \notin ToSet(l) /\ InPrioOrder(l, f)
        BY <1>0, <3>1, <3>2 DEF Queues, Ordered
      <3>4. InPrioOrder(l, [f EXCEPT ![t] = p])
        BY <3>3, OrderElsewhere
      <3> QED BY <2>3, <3>1, <3>2, <3>4
    <2>5. Queues(z, W) /\ Suspended(z, W, d) /\ Ordered(z, W)
      BY <1>0, <2>3, <2>4 DEF Queues, Suspended, Ordered, Same
    <2>6. NoThread \notin W
      BY <1>0, MutexFacts DEF Suspended, KernelType
    <2>7. KernelOK(z, W, d)
      BY <2>3, <2>5, <2>6 DEF KernelOK
    <2> QED BY <2>3, <2>7
  <1> QED BY <1>1, <1>2

-----------------------------------------------------------------------------
(* The priorities between two operations *)

(* Every mutex is as urgent as its waiters, and every thread as its        *)
(* mutexes.                                                                *)
Carried(k) ==
    Heads(k) /\ TakenOwned(k) /\ \A t \in Threads : Fits(k, t, k.prio[t])

(* And no more urgent than that *)
Exactly(k) ==
    /\ \A m \in Mutexes : k.mprio[m] = MutexPrio(k, m)
    /\ \A t \in Threads : k.prio[t] = ThreadPrio(k, t)

LEMMA UpdateCovers ==
    ASSUME NEW k, NEW W, KernelOK(k, W, setup.debug), setup.debug \in BOOLEAN,
           setup.debug => NoOwnerIn(k, W), k.fault = "none",
           NEW t \in Threads, NEW p \in 0 .. NoPrio - 1, NoOwnerIn(k, W) => t \notin W,
           Heads(k), TakenOwned(k), \A u \in Threads : u # t => Fits(k, u, k.prio[u]),
           k.prio[t] <= InitPrio[t], Fits(k, t, p), NEW z, z = UpdatePriority(k, t, p)
    PROVE  /\ Carried(z)
           /\ /\ \A m \in Mutexes : k.mprio[m] = MutexPrio(k, m)
              /\ \A u \in Threads : u # t => k.prio[u] = ThreadPrio(k, u)
              /\ p = ThreadPrio(k, t)
              => Exactly(z)
  <1>1. PICK a : a = WithNext(k, t, p)
    OBVIOUS
  <1>2. k \in KernelType /\ t # NoThread
    BY MutexFacts DEF KernelOK
  <1>3. /\ a \in KernelType /\ a.mprio = k.mprio /\ a.prio = k.prio /\ a.list = k.list
        /\ a.who = t /\ a.to = p /\ Same(a, k)
    BY <1>1, <1>2, NextSet
  <1>4. Covered(a)
    BY <1>2, <1>3 DEF Covered, Heads, TakenOwned, Fits, Same
  <1>5. /\ \A m \in Mutexes : k.mprio[m] = MutexPrio(k, m)
        /\ \A u \in Threads : u # t => k.prio[u] = ThreadPrio(k, u)
        /\ p = ThreadPrio(k, t)
        => Exact(a)
    <2>1. \A m \in Mutexes : MutexPrio(a, m) = MutexPrio(k, m)
      BY <1>3 DEF MutexPrio
    <2>2. \A u \in Threads : ThreadPrio(a, u) = ThreadPrio(k, u)
      BY <1>3 DEF ThreadPrio, Same
    <2> QED BY <1>3, <2>1, <2>2 DEF Exact
  <1>6. Covered(z) /\ ~Raising(z) /\ (Exact(a) => Exact(z) /\ ~Lowering(z))
    BY <1>1, <1>4, WalkCovers
  <1>7. z \in KernelType
    BY UpdateKeeps DEF KernelOK
  <1>8. \A u \in Threads : z.prio[u] \in Nat /\ InitPrio[u] \in Nat
                           /\ z.taken[u] \subseteq Mutexes
    BY <1>7, KernelNumbers
  <1>8a. z.to \in Nat /\ \A m \in Mutexes : z.mprio[m] \in Nat
    BY <1>7, KernelNumbers
  <1>9. Carried(z)
    <2> SUFFICES ASSUME NEW u \in Threads PROVE Fits(z, u, z.prio[u])
      BY <1>6 DEF Carried, Covered
    <2>1. CASE u # z.who
      BY <1>6, <2>1 DEF Covered
    <2>2. CASE u = z.who
      <3>1. u # NoThread
        BY MutexFacts
      <3>2. z.prio[u] <= z.to /\ Fits(z, u, z.to)
        BY <1>6, <1>8, <1>8a, <2>2, <3>1 DEF Covered, Raising
      <3> QED BY <1>8, <1>8a, <3>2 DEF Fits
    <2> QED BY <2>1, <2>2
  <1>10. Exact(a) => Exactly(z)
    <2> SUFFICES ASSUME Exact(a), NEW u \in Threads PROVE z.prio[u] = ThreadPrio(z, u)
      BY <1>6 DEF Exactly, Exact
    <2>1. CASE u # z.who
      BY <1>6, <2>1 DEF Exact
    <2>2. CASE u = z.who
      <3>1. u # NoThread
        BY MutexFacts
      <3>2. z.prio[u] = z.to
        BY <1>6, <1>8, <1>8a, <2>2, <3>1 DEF Raising, Lowering
      <3> QED BY <1>6, <2>2, <3>1, <3>2 DEF Exact
    <2> QED BY <2>1, <2>2
  <1> QED BY <1>5, <1>9, <1>10

(* The waiter t left m: only the priority of m, and through it that of the *)
(* owner, was computed for too many waiters.                               *)
LEMMA WaiterGoneCovers ==
    ASSUME NEW k, NEW W, KernelOK(k, W, setup.debug), setup.debug \in BOOLEAN,
           setup.debug => NoOwnerIn(k, W), k.fault = "none", k.who = NoThread,
           NEW t \in Threads, NEW m \in Mutexes, Carried(k), NEW z, z = WaiterGone(k, t, m)
    PROVE  /\ Carried(z)
           /\ /\ \A n \in Mutexes : n # m => k.mprio[n] = MutexPrio(k, n)
              /\ \A u \in Threads : k.prio[u] = ThreadPrio(k, u)
              /\ k.owner[m] # NoThread /\ k.mprio[m] \in {k.prio[t], MutexPrio(k, m)}
              => Exactly(z)
  <1>0. k \in KernelType
    BY DEF KernelOK
  <1>1. PICK o \in Threads \cup {NoThread} : o = k.owner[m]
    BY <1>0 DEF KernelType
  <1>2. CASE o = NoThread
    <2>1. z = WithFault(k, "null") /\ "null" \in {"none", "assert", "null"}
      BY <1>1, <1>2 DEF WaiterGone, WithFault
    <2>2. z.mprio = k.mprio /\ z.prio = k.prio /\ z.list = k.list /\ Same(z, k)
      BY <1>0, <2>1, FaultSet
    <2> QED BY <1>1, <1>2, <2>2 DEF Carried, Heads, TakenOwned, Fits, Same
  <1>3. CASE o # NoThread
    <2>0. o \in Threads
      BY <1>3
    <2>1. PICK v \in 0 .. NoPrio : v = MutexPrio(k, m)
      BY <1>0, MutexPrioFacts
    <2>2. PICK r : r = WithMprio(k, m, v)
      OBVIOUS
    <2>3. /\ r \in KernelType /\ r.prio = k.prio /\ r.list = k.list /\ Same(r, k)
          /\ r.mprio = [k.mprio EXCEPT ![m] = v] /\ r.fault = k.fault /\ r.who = k.who
      BY <1>0, <2>2, MprioSet
    <2>4. /\ NoPrio \in Nat
          /\ \A u \in Threads : k.prio[u] \in Nat /\ InitPrio[u] \in Nat /\ k.prio[u] < NoPrio
                                /\ k.taken[u] \subseteq Mutexes
          /\ \A n \in Mutexes : k.mprio[n] \in Nat /\ r.mprio[n] \in Nat
      BY <1>0, <2>3, KernelNumbers
    <2>4a. v \in Nat
      BY <2>1, <2>4
    <2>5. r.mprio[m] = v /\ \A n \in Mutexes : n # m => r.mprio[n] = k.mprio[n]
      BY <1>0, <2>3 DEF KernelType
    <2>6. InPrioOrder(k.list[m], k.prio)
      BY DEF KernelOK, Ordered
    <2>7. /\ \A u \in ToSet(k.list[m]) : v <= k.prio[u]
          /\ v = NoPrio \/ \E u \in ToSet(k.list[m]) : v = k.prio[u]
      BY <1>0, <2>1, <2>6, FirstWaiter
    <2>8. \A u \in ToSet(k.list[m]) : u \in Threads /\ k.mprio[m] <= k.prio[u]
      BY <1>0, ListedIn DEF KernelType, Carried, Heads
    <2>9. k.mprio[m] <= v
      <3>1. k.mprio[m] <= NoPrio
        BY <1>0, MutexFacts DEF KernelType
      <3> QED BY <2>7, <2>8, <3>1
    <2>10. Heads(r)
      BY <2>3, <2>5, <2>7 DEF Heads, Carried
    <2>11. TakenOwned(r) /\ r.taken = k.taken /\ r.owner = k.owner
      BY <2>3 DEF TakenOwned, Carried, Same
    <2>12. ASSUME NEW u \in Threads PROVE Fits(r, u, r.prio[u])
      <3> SUFFICES ASSUME NEW n \in k.taken[u] PROVE k.prio[u] <= r.mprio[n]
        BY <2>3, <2>11 DEF Fits, Carried
      <3>1. k.prio[u] <= k.mprio[n] /\ n \in Mutexes
        BY <2>4 DEF Fits, Carried
      <3>2. k.mprio[n] <= r.mprio[n]
        BY <2>4, <2>5, <2>9, <3>1
      <3> QED BY <2>4, <3>1, <3>2
    <2>13. Carried(r)
      BY <2>10, <2>11, <2>12 DEF Carried
    <2>14. PICK p : p = ThreadPrio(r, o)
      OBVIOUS
    <2>15. p \in 0 .. NoPrio - 1 /\ Fits(r, o, p)
      BY <2>0, <2>3, <2>14, ThreadPrioFacts, ThreadPrioFits
    <2>16. z = IF k.prio[o] = k.prio[t] /\ p # k.prio[o] THEN UpdatePriority(r, o, p) ELSE r
      <3>1. r = [k EXCEPT !.mprio[m] = MutexPrio(k, m)]
        BY <2>1, <2>2 DEF WithMprio
      <3> QED BY <1>1, <1>3, <2>3, <2>14, <3>1 DEF WaiterGone
    <2>17. ASSUME \A n \in Mutexes : n # m => k.mprio[n] = MutexPrio(k, n)
           PROVE  \A n \in Mutexes : r.mprio[n] = MutexPrio(r, n)
      <3>1. \A n \in Mutexes : MutexPrio(r, n) = MutexPrio(k, n)
        BY <2>3 DEF MutexPrio
      <3> QED BY <2>1, <2>5, <2>17, <3>1
    <2>18. ASSUME NEW u \in Threads, u # o, k.prio[u] = ThreadPrio(k, u)
           PROVE  r.prio[u] = ThreadPrio(r, u)
      <3>1. \A n \in k.taken[u] : n \in Mutexes /\ n # m
        BY <1>1, <2>4, <2>18 DEF Carried, TakenOwned
      <3>2. ThreadPrio(r, u) = ThreadPrio(k, u)
        <4>1. r \in KernelType /\ r.taken[u] = k.taken[u]
          BY <2>3, <2>11
        <4>2. \A n \in k.taken[u] : r.mprio[n] = k.mprio[n]
          BY <2>5, <3>1
        <4> QED BY <1>0, <4>1, <4>2, ThreadPrioSame
      <3> QED BY <2>3, <2>18, <3>2
    <2>19. CASE k.prio[o] = k.prio[t] /\ p # k.prio[o]
      <3>1. z = UpdatePriority(r, o, p)
        BY <2>16, <2>19
      <3>2. KernelOK(r, W, setup.debug)
        BY <2>3, UnlistedKeeps DEF Same
      <3>3. (setup.debug => NoOwnerIn(r, W)) /\ (NoOwnerIn(r, W) => o \notin W)
        BY <1>1, <2>11 DEF NoOwnerIn
      <3>4. r.fault = "none" /\ r.prio[o] <= InitPrio[o]
        BY <2>0, <2>3, <2>12 DEF Fits
      <3>5. /\ Carried(z)
            /\ /\ \A n \in Mutexes : r.mprio[n] = MutexPrio(r, n)
               /\ \A u \in Threads : u # o => r.prio[u] = ThreadPrio(r, u)
               /\ p = ThreadPrio(r, o)
               => Exactly(z)
        BY <2>0, <2>10, <2>11, <2>12, <2>15, <3>1, <3>2, <3>3, <3>4, UpdateCovers
      <3> QED BY <2>14, <2>17, <2>18, <3>5
    <2>20. CASE ~(k.prio[o] = k.prio[t] /\ p # k.prio[o])
      <3>1. z = r
        BY <2>16, <2>20
      <3>2. ASSUME \A n \in Mutexes : n # m => k.mprio[n] = MutexPrio(k, n),
                   \A u \in Threads : k.prio[u] = ThreadPrio(k, u),
                   k.mprio[m] \in {k.prio[t], MutexPrio(k, m)}
            PROVE  Exactly(r)
        <4>1. \/ k.prio[o] = InitPrio[o]
              \/ \E n \in k.taken[o] : k.prio[o] = k.mprio[n]
          BY <1>0, <2>0, <3>2, ThreadPrioFacts
        <4>2. p = k.prio[o]
          <5> SUFFICES ASSUME k.prio[o] # k.prio[t] PROVE p = k.prio[o]
            BY <2>20
          <5>1. ASSUME NEW n \in k.taken[o], k.prio[o] = k.mprio[n] PROVE k.prio[o] = r.mprio[n]
            <6>1. n \in Mutexes
              BY <2>0, <2>4
            <6>2. CASE n # m
              BY <2>5, <5>1, <6>1, <6>2
            <6>3. CASE n = m
              BY <2>1, <2>5, <3>2, <5>1, <6>3
            <6> QED BY <6>2, <6>3
          <5>2. k.prio[o] = InitPrio[o] \/ \E n \in r.taken[o] : k.prio[o] = r.mprio[n]
            BY <2>11, <4>1, <5>1
          <5>3. k.prio[o] \in Nat /\ Fits(r, o, k.prio[o])
            BY <2>0, <2>3, <2>4, <2>12
          <5> QED BY <2>0, <2>3, <2>14, <5>2, <5>3, ThreadPrioIs
        <4>3. \A u \in Threads : r.prio[u] = ThreadPrio(r, u)
          BY <2>3, <2>14, <2>18, <3>2, <4>2
        <4> QED BY <2>17, <3>2, <4>3 DEF Exactly
      <3> QED BY <2>13, <3>1, <3>2
    <2> QED BY <2>19, <2>20
  <1> QED BY <1>2, <1>3

(* t, which has just given m away, needs only what its other mutexes need. *)
LEMMA DisinheritCovers ==
    ASSUME NEW k, NEW W, NEW d, KernelOK(k, W, d), NEW t \in Threads, t \notin W,
           NEW m \in Mutexes, Carried(k), NEW z, z = Disinherit(k, t, m)
    PROVE  /\ Carried(z) /\ z.mprio = k.mprio /\ z.taken = k.taken /\ z.owner = k.owner
           /\ z.list = k.list /\ z.prio[t] \in {k.prio[t], ThreadPrio(k, t)}
           /\ \A u \in Threads : u # t => z.prio[u] = k.prio[u]
           /\ /\ \A n \in Mutexes : k.mprio[n] = MutexPrio(k, n)
              /\ \A u \in Threads : u # t => k.prio[u] = ThreadPrio(k, u)
              /\ k.prio[t] \in {k.mprio[m], ThreadPrio(k, t)}
              => Exactly(z)
  <1>0. k \in KernelType /\ Queues(k, W)
    BY DEF KernelOK
  <1>1. PICK p \in 0 .. NoPrio - 1 : p = ThreadPrio(k, t)
    BY <1>0, ThreadPrioFacts
  <1>2. PICK y : y = WithOwnPrio(k, t, p)
    OBVIOUS
  <1>3. /\ y \in KernelType /\ y.prio = [k.prio EXCEPT ![t] = p]
        /\ y.list = k.list /\ y.mprio = k.mprio /\ Same(y, k)
    BY <1>0, <1>2, OwnPrioSet
  <1>4. y.prio[t] = p /\ \A u \in Threads : u # t => y.prio[u] = k.prio[u]
    BY <1>0, <1>3 DEF KernelType
  <1>5. y.taken = k.taken /\ y.owner = k.owner
    BY <1>3 DEF Same
  <1>6. \A n \in Mutexes : \A u \in ToSet(k.list[n]) : u \in Threads /\ u # t
    BY <1>0, ListedIn DEF KernelType, Queues
  <1>7. Heads(y)
    BY <1>3, <1>4, <1>6 DEF Heads, Carried
  <1>8. Fits(y, t, p)
    BY <1>0, <1>1, <1>3, <1>5, ThreadPrioFits DEF Fits
  <1>9. Carried(y)
    BY <1>3, <1>4, <1>5, <1>7, <1>8 DEF Carried, TakenOwned, Fits
  <1>10. \A u \in Threads : ThreadPrio(y, u) = ThreadPrio(k, u)
    BY <1>3, <1>5 DEF ThreadPrio
  <1>11. ASSUME NEW n \in Mutexes PROVE MutexPrio(y, n) = MutexPrio(k, n)
    <2>1. k \in KernelType /\ y \in KernelType /\ y.list[n] = k.list[n]
      BY <1>0, <1>3
    <2>2. \A u \in ToSet(k.list[n]) : y.prio[u] = k.prio[u]
      BY <1>4, <1>6
    <2> QED BY <2>1, <2>2, MutexPrioSame
  <1>12. z = y \/ (z = k /\ k.prio[t] # k.mprio[m])
    BY <1>1, <1>2 DEF Disinherit, WithOwnPrio
  <1>13. ASSUME \A n \in Mutexes : k.mprio[n] = MutexPrio(k, n),
                \A u \in Threads : u # t => k.prio[u] = ThreadPrio(k, u),
                k.prio[t] \in {k.mprio[m], ThreadPrio(k, t)}
         PROVE  Exactly(z)
    <2>1. CASE z = y
      BY <1>1, <1>3, <1>4, <1>10, <1>11, <1>13, <2>1 DEF Exactly
    <2>2. CASE z = k /\ k.prio[t] # k.mprio[m]
      BY <1>13, <2>2 DEF Exactly
    <2> QED BY <1>12, <2>1, <2>2
  <1> QED BY <1>1, <1>3, <1>4, <1>5, <1>9, <1>12, <1>13

-----------------------------------------------------------------------------
(* The invariant *)

Waiting == {t \in Threads : pc[t] = "wait"}

Listed ==
    \A m \in Mutexes :
        /\ Distinct(list[m])
        /\ \A t \in Threads : t \in ToSet(list[m]) <=> pc[t] = "wait" /\ pending[t] = m

InOrder ==
    (fault = "assert" => \A m \in Mutexes : owner[m] \notin Waiting) => HandedToMostUrgent

(* Where a thread's wait leaves its pending_object, its error and its      *)
(* timer                                                                   *)
Waits ==
    /\ \A t \in Threads :
        /\ pc[t] = "wait" => /\ pending[t] \in Mutexes /\ owner[pending[t]] # NoThread
                             /\ error[t] = "EOK"
        /\ timer[t] => pc[t] = "wait" /\ setup.timed
        /\ pc[t] = "back" /\ error[t] # "EOK" => pending[t] # NoMutex
        /\ ~setup.timed /\ pending[t] # NoMutex => pc[t] = "wait"
        /\ pc[t] = "sleep" => setup.sleeps
    /\ ~setup.nested => \A m \in Mutexes : owner[m] \notin Waiting
    /\ setup \in Setups

(* A mutex without a ceiling is on the taken list of its owner. *)
OwnedTaken(k) ==
    \A m \in Mutexes : k.owner[m] # NoThread /\ setup.ceiling[m] = NoPrio =>
                           m \in k.taken[k.owner[m]]

Prios ==
    /\ Carried(Kernel) /\ OwnedTaken(Kernel)
    /\ ~setup.timed /\ NoCeiling => Exactly(Kernel)

(* Systems in which RT_ASSERT does not stop _thread_update_priority on its *)
(* way: with RT_DEBUG, no thread waits while it owns a mutex.              *)
WalksToTheEnd == \A s \in Setups : ~s.debug \/ ~s.nested

MutexInv ==
    /\ TypeOK /\ Listed /\ InOrder /\ (fault = "assert" => setup.debug) /\ Waits
    /\ WalksToTheEnd => Prios

(* Systems in which _thread_update_priority cannot meet a thread that is   *)
(* asleep with the pending_object of a wait that timed out, or stops when  *)
(* it does: without RT_DEBUG it would put that thread on the mutex's list. *)
KeepsLists == \A s \in Setups : s.debug \/ ~s.timed \/ ~s.sleeps

LEMMA KernelFields ==
    /\ Kernel.owner = owner /\ Kernel.list = list /\ Kernel.mprio = mprio
    /\ Kernel.prio = prio /\ Kernel.taken = taken /\ Kernel.pending = pending
  BY DEF Kernel

(* What Carried and Exactly look at *)
Agree(j, k) ==
    /\ j.owner = k.owner /\ j.list = k.list /\ j.mprio = k.mprio /\ j.prio = k.prio
    /\ j.taken = k.taken

LEMMA AgreeCarried ==
    ASSUME NEW j, NEW k, Agree(j, k)
    PROVE  /\ Carried(k) => Carried(j)
           /\ Exactly(k) => Exactly(j)
           /\ OwnedTaken(k) => OwnedTaken(j)
  <1>1. \A m \in Mutexes : MutexPrio(j, m) = MutexPrio(k, m)
    BY DEF Agree, MutexPrio
  <1>2. \A t \in Threads : ThreadPrio(j, t) = ThreadPrio(k, t)
    BY DEF Agree, ThreadPrio
  <1>3. Carried(k) => Carried(j)
    BY DEF Agree, Carried, Heads, TakenOwned, Fits
  <1>4. Exactly(k) => Exactly(j)
    BY <1>1, <1>2 DEF Agree, Exactly
  <1> QED BY <1>3, <1>4 DEF Agree, OwnedTaken

(* The priorities a step ends with are those of the record it computed. *)
LEMMA AppliedPrios ==
    ASSUME NEW z, z.owner = owner', z.list = list', z.mprio = mprio', z.prio = prio',
           z.taken = taken', setup' = setup, Carried(z), OwnedTaken(z),
           ~setup.timed /\ NoCeiling => Exactly(z)
    PROVE  Prios'
  <1>1. PICK q : q = Kernel'
    OBVIOUS
  <1>2. Agree(q, z)
    BY <1>1 DEF Kernel, Agree
  <1>3. Carried(q) /\ OwnedTaken(q) /\ (~setup.timed /\ NoCeiling => Exactly(q))
    BY <1>2, AgreeCarried
  <1>4. Carried(Kernel')
    BY <1>1, <1>3
  <1>5. OwnedTaken(Kernel)'
    BY <1>1, <1>3 DEF OwnedTaken
  <1>6. (~setup.timed /\ NoCeiling)' => Exactly(Kernel')
    BY <1>1, <1>3 DEF NoCeiling
  <1> QED BY <1>4, <1>5, <1>6 DEF Prios

LEMMA KernelIsOK ==
    ASSUME KeepsLists, MutexInv, fault = "none"
    PROVE  /\ KernelOK(Kernel, Waiting, setup.debug) /\ setup.debug \in BOOLEAN
           /\ Kernel.fault = "none" /\ Kernel.who = NoThread
           /\ Kernel.owner = owner /\ Kernel.list = list /\ Kernel.mprio = mprio
           /\ Kernel.prio = prio /\ Kernel.taken = taken /\ Kernel.pending = pending
           /\ Kernel.susp = {t \in Threads : pc[t] \in {"wait", "sleep"}}
  <1>1. PICK k : k = Kernel
    OBVIOUS
  <1>2. /\ k.fault = "none" /\ k.who = NoThread
        /\ k.owner = owner /\ k.list = list /\ k.mprio = mprio
        /\ k.prio = prio /\ k.taken = taken /\ k.pending = pending
        /\ k.susp = {t \in Threads : pc[t] \in {"wait", "sleep"}}
    BY <1>1 DEF Kernel
  <1>3. setup \in Setups /\ setup.debug \in BOOLEAN /\ setup.timed \in BOOLEAN
        /\ setup.sleeps \in BOOLEAN
    <2>1. setup \in Setup
      BY DEF MutexInv, TypeOK
    <2> QED BY <2>1 DEF Setup, MutexInv, Waits
  <1>4. k \in KernelType
    <2>1. NoPrio \in 0 .. NoPrio
      BY MutexFacts
    <2> QED BY <1>1, <2>1 DEF Kernel, KernelType, MutexInv, TypeOK
  <1>5. Queues(k, Waiting)
    BY <1>2 DEF Queues, MutexInv, Listed, Waiting
  <1>6. Ordered(k, Waiting)
    BY <1>2 DEF Ordered, MutexInv, InOrder, HandedToMostUrgent
  <1>7. Suspended(k, Waiting, setup.debug)
    <2>1. Waiting \subseteq k.susp
      BY <1>2 DEF Waiting
    <2>2. ASSUME ~setup.debug, NEW t \in k.susp, k.pending[t] # NoMutex PROVE t \in Waiting
      <3>1. ~setup.timed \/ ~setup.sleeps
        BY <1>3, <2>2 DEF KeepsLists
      <3> QED BY <1>2, <2>2, <3>1 DEF MutexInv, Waits, Waiting
    <2> QED BY <2>1, <2>2 DEF Suspended
  <1>8. NoThread \notin Waiting
    BY MutexFacts DEF Waiting
  <1>9. KernelOK(k, Waiting, setup.debug)
    BY <1>2, <1>4, <1>5, <1>6, <1>7, <1>8 DEF KernelOK
  <1> QED BY <1>1, <1>2, <1>3, <1>9

LEMMA KernelPrios ==
    ASSUME MutexInv, WalksToTheEnd, NEW k, k = Kernel
    PROVE  /\ Carried(k) /\ OwnedTaken(k) /\ (~setup.timed /\ NoCeiling => Exactly(k))
           /\ setup.debug => ~setup.nested /\ NoOwnerIn(k, Waiting)
  <1>1. Prios /\ Waits
    BY DEF MutexInv
  <1>2. setup.debug => ~setup.nested
    BY <1>1 DEF Waits, WalksToTheEnd
  <1>3. ~setup.nested => NoOwnerIn(k, Waiting)
    BY <1>1, KernelFields DEF Waits, NoOwnerIn
  <1> QED BY <1>1, <1>2, <1>3 DEF Prios

LEMMA PriosKept ==
    ASSUME Prios, setup' = setup, owner' = owner, list' = list, mprio' = mprio,
           prio' = prio, taken' = taken
    PROVE  Prios'
  <1>1. PICK k : k = Kernel
    OBVIOUS
  <1>2. /\ k.owner = owner' /\ k.list = list' /\ k.mprio = mprio' /\ k.prio = prio'
        /\ k.taken = taken'
    BY <1>1, KernelFields
  <1>3. Carried(k) /\ OwnedTaken(k) /\ (~setup.timed /\ NoCeiling => Exactly(k))
    BY <1>1 DEF Prios
  <1> QED BY <1>2, <1>3, AppliedPrios

(* The state a step ends in is the record it has computed. *)
LEMMA Applied ==
    ASSUME NEW z, NEW W, KernelOK(z, W, setup.debug), Apply(z), setup' = setup,
           W = {t \in Threads : pc'[t] = "wait"},
           setup \in Setup,
           hold' \in [Mutexes -> 0 .. HoldMax],
           pc' \in [Threads -> {"run", "wait", "back", "sleep", "dead"}],
           error' \in [Threads -> {"EOK", "ETIMEOUT"}],
           timer' \in [Threads -> BOOLEAN]
    PROVE  TypeOK' /\ Listed' /\ InOrder' /\ (fault' = "assert" => setup'.debug)
  <1>1. /\ owner' = z.owner /\ list' = z.list /\ mprio' = z.mprio /\ prio' = z.prio
        /\ taken' = z.taken /\ pending' = z.pending /\ fault' = z.fault
    BY DEF Apply
  <1>2. TypeOK'
    BY <1>1 DEF KernelOK, KernelType, TypeOK
  <1>3. Waiting' = W
    BY DEF Waiting
  <1>4. Listed'
    BY <1>1 DEF KernelOK, Queues, Listed
  <1>5. InOrder'
    BY <1>1, <1>3 DEF KernelOK, Ordered, NoOwnerIn, InOrder, HandedToMostUrgent
  <1>6. fault' = "assert" => setup'.debug
    BY <1>1 DEF KernelOK
  <1> QED BY <1>2, <1>4, <1>5, <1>6


-----------------------------------------------------------------------------
(* The actions *)

LEMMA MutexInit == Init => MutexInv
  <1> SUFFICES ASSUME Init PROVE MutexInv
    OBVIOUS
  <1>0. NoPrio \in Nat /\ HoldMax \in Nat /\ InitPrio \in [Threads -> 0 .. NoPrio - 1]
        /\ Setups \subseteq Setup
    BY MutexAssumption
  <1>1. TypeOK
    <2>1. <<>> \in Seq(Threads) /\ NoPrio \in 0 .. NoPrio /\ 0 \in 0 .. HoldMax
      BY <1>0
    <2> QED BY <1>0, <2>1 DEF Init, TypeOK
  <1>2. \A m \in Mutexes : list[m] = <<>>
    BY DEF Init
  <1>3. Distinct(<<>>) /\ ToSet(<<>>) = {} /\ \A f : InPrioOrder(<<>>, f)
    BY DEF Distinct, ToSet, InPrioOrder
  <1>4. Listed
    BY <1>2, <1>3 DEF Listed, Init
  <1>5. HandedToMostUrgent
    BY <1>2, <1>3 DEF HandedToMostUrgent
  <1>6. InOrder /\ (fault = "assert" => setup.debug)
    BY <1>5 DEF InOrder, Init
  <1>7. Waits
    BY DEF Waits, Waiting, Init
  <1>8. Prios
    <2>1. PICK k : k = Kernel
      OBVIOUS
    <2>2. k \in KernelType
      <3>1. NoPrio \in 0 .. NoPrio
        BY <1>0
      <3> QED BY <1>1, <2>1, <3>1 DEF Kernel, KernelType, TypeOK
    <2>3. /\ \A m \in Mutexes : /\ k.list[m] = <<>> /\ k.mprio[m] = NoPrio
                                /\ k.owner[m] = NoThread
          /\ \A t \in Threads : k.taken[t] = {} /\ k.prio[t] = InitPrio[t]
      BY <2>1, KernelFields DEF Init
    <2>4. \A t \in Threads : InitPrio[t] \in Nat /\ InitPrio[t] <= InitPrio[t]
      BY <2>2, KernelNumbers
    <2>5. \A t \in Threads : Fits(k, t, k.prio[t])
      BY <2>3, <2>4 DEF Fits
    <2>6. Carried(k) /\ OwnedTaken(k)
      BY <1>3, <2>3, <2>5 DEF Carried, Heads, TakenOwned, OwnedTaken
    <2>7. \A t \in Threads : k.prio[t] = ThreadPrio(k, t)
      BY <2>2, <2>3, <2>4, <2>5, ThreadPrioIs
    <2>8. Exactly(k)
      BY <2>3, <2>7 DEF Exactly, MutexPrio
    <2> QED BY <2>1, <2>6, <2>8 DEF Prios
  <1> QED BY <1>1, <1>4, <1>6, <1>7, <1>8 DEF MutexInv

(* Nobody begins or ends a wait and no priority changes. *)
LEMMA QuietStep ==
    ASSUME MutexInv, setup' = setup, owner' = owner, list' = list, mprio' = mprio,
           prio' = prio, taken' = taken, pending' = pending, fault' = fault,
           hold' \in [Mutexes -> 0 .. HoldMax],
           pc' \in [Threads -> {"run", "wait", "back", "sleep", "dead"}],
           error' \in [Threads -> {"EOK", "ETIMEOUT"}],
           timer' \in [Threads -> BOOLEAN],
           \A t \in Threads : pc'[t] = "wait" <=> pc[t] = "wait",
           Waits'
    PROVE  MutexInv'
  <1>1. TypeOK'
    BY DEF MutexInv, TypeOK
  <1>2. Listed'
    BY DEF MutexInv, Listed
  <1>3. Waiting' = Waiting
    BY DEF Waiting
  <1>4. InOrder'
    BY <1>3 DEF MutexInv, InOrder, HandedToMostUrgent
  <1>5. (WalksToTheEnd => Prios) => (WalksToTheEnd => Prios')
    BY PriosKept
  <1> QED BY <1>1, <1>2, <1>4, <1>5 DEF MutexInv

LEMMA TakeAgainStep ==
    ASSUME MutexInv, setup' = setup, NEW t \in Threads, NEW m \in Mutexes, TakeAgain(t, m)
    PROVE  MutexInv'
  <1>0. TypeOK /\ Waits
    BY DEF MutexInv
  <1>1. hold' \in [Mutexes -> 0 .. HoldMax]
    <2>1. hold[m] + 1 \in 0 .. HoldMax /\ hold' = [hold EXCEPT ![m] = hold[m] + 1]
      BY <1>0, MutexFacts DEF TakeAgain, TypeOK
    <2> QED BY <1>0, <2>1 DEF TypeOK
  <1>2. error' = [error EXCEPT ![t] = "EOK"] /\ error' \in [Threads -> {"EOK", "ETIMEOUT"}]
    BY <1>0 DEF TakeAgain, TypeOK
  <1>3. /\ owner' = owner /\ list' = list /\ mprio' = mprio /\ prio' = prio /\ taken' = taken
        /\ pending' = pending /\ pc' = pc /\ timer' = timer /\ fault' = fault
    BY DEF TakeAgain
  <1>4. Waits'
    BY <1>0, <1>2, <1>3 DEF Waits, Waiting, TypeOK
  <1>5. /\ pc' \in [Threads -> {"run", "wait", "back", "sleep", "dead"}]
        /\ timer' \in [Threads -> BOOLEAN]
        /\ \A u \in Threads : pc'[u] = "wait" <=> pc[u] = "wait"
    BY <1>0, <1>3 DEF TypeOK
  <1> QED BY <1>1, <1>2, <1>3, <1>4, <1>5, QuietStep

LEMMA ReleaseOneStep ==
    ASSUME MutexInv, setup' = setup, NEW t \in Threads, NEW m \in Mutexes, ReleaseOne(t, m)
    PROVE  MutexInv'
  <1>0. TypeOK /\ Waits
    BY DEF MutexInv
  <1>1. hold' \in [Mutexes -> 0 .. HoldMax]
    <2>1. hold[m] - 1 \in 0 .. HoldMax /\ hold' = [hold EXCEPT ![m] = hold[m] - 1]
      BY <1>0, MutexFacts DEF ReleaseOne, TypeOK
    <2> QED BY <1>0, <2>1 DEF TypeOK
  <1>3. /\ owner' = owner /\ list' = list /\ mprio' = mprio /\ prio' = prio /\ taken' = taken
        /\ pending' = pending /\ pc' = pc /\ timer' = timer /\ fault' = fault /\ error' = error
    BY DEF ReleaseOne, threadv
  <1>4. Waits'
    BY <1>0, <1>3 DEF Waits, Waiting
  <1>5. /\ pc' \in [Threads -> {"run", "wait", "back", "sleep", "dead"}]
        /\ error' \in [Threads -> {"EOK", "ETIMEOUT"}]
        /\ timer' \in [Threads -> BOOLEAN]
        /\ \A u \in Threads : pc'[u] = "wait" <=> pc[u] = "wait"
    BY <1>0, <1>3 DEF TypeOK
  <1> QED BY <1>1, <1>3, <1>4, <1>5, QuietStep

(* rt_mutex_take returns the mutex; rt_thread_sleep and its end *)
LEMMA MoveStep ==
    ASSUME MutexInv, setup' = setup, NEW t \in Threads, TakeGot(t) \/ Sleep(t) \/ Wake(t)
    PROVE  MutexInv'
  <1>0. TypeOK /\ Waits
    BY DEF MutexInv
  <1>1. PICK q \in {"run", "sleep"}, x \in {"EOK", "ETIMEOUT"} :
           /\ pc' = [pc EXCEPT ![t] = q] /\ pc[t] # "wait" /\ (q = "sleep" => setup.sleeps)
           /\ error' = [error EXCEPT ![t] = x]
    <2>1. CASE TakeGot(t)
      <3>1. error' = [error EXCEPT ![t] = error[t]] /\ error[t] \in {"EOK", "ETIMEOUT"}
        BY <1>0, <2>1 DEF TakeGot, TypeOK
      <3> QED BY <2>1, <3>1 DEF TakeGot
    <2>2. CASE Sleep(t)
      BY <2>2 DEF Sleep
    <2>3. CASE Wake(t)
      <3>1. error' = [error EXCEPT ![t] = error[t]] /\ error[t] \in {"EOK", "ETIMEOUT"}
        BY <1>0, <2>3 DEF Wake, TypeOK
      <3> QED BY <2>3, <3>1 DEF Wake
    <2> QED BY <2>1, <2>2, <2>3
  <1>2. /\ owner' = owner /\ list' = list /\ mprio' = mprio /\ prio' = prio /\ taken' = taken
        /\ pending' = pending /\ timer' = timer /\ fault' = fault /\ hold' = hold
    BY DEF TakeGot, Sleep, Wake, mutexv
  <1>3. /\ pc' \in [Threads -> {"run", "wait", "back", "sleep", "dead"}]
        /\ error' \in [Threads -> {"EOK", "ETIMEOUT"}]
        /\ timer' \in [Threads -> BOOLEAN]
        /\ hold' \in [Mutexes -> 0 .. HoldMax]
        /\ \A u \in Threads : pc'[u] = "wait" <=> pc[u] = "wait"
    BY <1>0, <1>1, <1>2 DEF TypeOK
  <1>4. pc'[t] = q /\ error'[t] = x
        /\ \A u \in Threads : u # t => pc'[u] = pc[u] /\ error'[u] = error[u]
    BY <1>0, <1>1 DEF TypeOK
  <1>5. Waiting' = Waiting
    BY <1>3 DEF Waiting
  <1>6. Waits'
    BY <1>0, <1>1, <1>2, <1>4, <1>5 DEF Waits
  <1> QED BY <1>2, <1>3, <1>6, QuietStep

LEMMA TimeoutStep ==
    ASSUME MutexInv, fault = "none", setup' = setup, NEW t \in Threads, Timeout(t)
    PROVE  MutexInv'
  <1>0. TypeOK /\ Listed /\ Waits /\ InOrder
    BY DEF MutexInv
  <1>1. pc[t] = "wait" /\ setup.timed
    BY <1>0 DEF Waits, Timeout
  <1>2. PICK m \in Mutexes : m = pending[t]
    BY <1>0, <1>1 DEF Waits
  <1>3. PICK l \in Seq(Threads) : l = list[m]
    BY <1>0 DEF TypeOK
  <1>4. PICK s : s = ListRemove(l, t)
    OBVIOUS
  <1>5. /\ s \in Seq(Threads) /\ Distinct(s) /\ ToSet(s) = ToSet(l) \ {t}
        /\ \A f : InPrioOrder(l, f) => InPrioOrder(s, f)
    <2>1. Distinct(l)
      BY <1>0, <1>3 DEF Listed
    <2> QED BY <1>4, <2>1, ListRemoveProperties
  <1>6. /\ list' = [list EXCEPT ![m] = s]
        /\ timer' = [timer EXCEPT ![t] = FALSE] /\ error' = [error EXCEPT ![t] = "ETIMEOUT"]
        /\ pc' = [pc EXCEPT ![t] = "back"]
        /\ owner' = owner /\ hold' = hold /\ mprio' = mprio /\ prio' = prio /\ taken' = taken
        /\ pending' = pending /\ fault' = fault
    BY <1>2, <1>3, <1>4 DEF Timeout
  <1>7. TypeOK'
    BY <1>0, <1>5, <1>6 DEF TypeOK
  <1>8. list'[m] = s /\ (\A n \in Mutexes : n # m => list'[n] = list[n])
        /\ pc'[t] = "back" /\ (\A u \in Threads : u # t => pc'[u] = pc[u])
        /\ error'[t] = "ETIMEOUT" /\ (\A u \in Threads : u # t => error'[u] = error[u])
        /\ timer'[t] = FALSE /\ (\A u \in Threads : u # t => timer'[u] = timer[u])
    BY <1>0, <1>6 DEF TypeOK
  <1>9. Listed'
    <2> SUFFICES ASSUME NEW n \in Mutexes
                 PROVE  /\ Distinct(list'[n])
                        /\ \A u \in Threads : u \in ToSet(list'[n])
                                              <=> pc'[u] = "wait" /\ pending'[u] = n
      BY DEF Listed
    <2>1. CASE n = m
      BY <1>0, <1>3, <1>5, <1>6, <1>8, <2>1 DEF Listed
    <2>2. CASE n # m
      BY <1>0, <1>2, <1>6, <1>8, <2>2 DEF Listed
    <2> QED BY <2>1, <2>2
  <1>10. Waiting' = Waiting \ {t}
    BY <1>8 DEF Waiting
  <1>12. HandedToMostUrgent => HandedToMostUrgent'
    <2> SUFFICES ASSUME HandedToMostUrgent, NEW n \in Mutexes
                 PROVE  InPrioOrder(list'[n], prio')
      BY DEF HandedToMostUrgent
    <2>1. InPrioOrder(list[n], prio) /\ prio' = prio
      BY <1>6 DEF HandedToMostUrgent
    <2>2. CASE n = m
      BY <1>3, <1>5, <1>8, <2>1, <2>2
    <2>3. CASE n # m
      BY <1>8, <2>1, <2>3
    <2> QED BY <2>2, <2>3
  <1>13. Waits'
    BY <1>0, <1>1, <1>2, <1>6, <1>8, <1>10, MutexFacts DEF Waits
  <1>14. InOrder' /\ (fault' = "assert" => setup'.debug)
    BY <1>0, <1>6, <1>12 DEF InOrder
  <1>15. ASSUME WalksToTheEnd PROVE Prios'
    <2>1. PICK k : k = Kernel
      OBVIOUS
    <2>2. Carried(k) /\ OwnedTaken(k)
      BY <1>15, <2>1, KernelPrios
    <2>3. /\ k.owner = owner /\ k.list = list /\ k.mprio = mprio /\ k.prio = prio
          /\ k.taken = taken
      BY <2>1, KernelFields
    <2>4. PICK z : z = [owner |-> owner, list |-> list', mprio |-> mprio, prio |-> prio,
                        taken |-> taken]
      OBVIOUS
    <2>5. /\ z.owner = owner /\ z.list = list' /\ z.mprio = mprio /\ z.prio = prio
          /\ z.taken = taken
      BY <2>4
    <2>6. \A n \in Mutexes : ToSet(list'[n]) \subseteq ToSet(list[n])
      BY <1>3, <1>5, <1>8
    <2>7. Heads(z)
      BY <2>2, <2>3, <2>5, <2>6 DEF Heads, Carried
    <2>8. Carried(z) /\ OwnedTaken(z)
      BY <2>2, <2>3, <2>5, <2>7 DEF Carried, TakenOwned, Fits, OwnedTaken
    <2> QED BY <1>1, <1>6, <2>5, <2>8, AppliedPrios
  <1> QED BY <1>7, <1>9, <1>13, <1>14, <1>15 DEF MutexInv


(* What taking and releasing write into the record *)
WithOwner(k, m, o, v) == [k EXCEPT !.owner[m] = o, !.mprio[m] = v]
WithTaken(k, t, s) == [k EXCEPT !.taken[t] = s]
WithWaiter(k, m, s, t, S) == [k EXCEPT !.list[m] = s, !.pending[t] = m, !.susp = S]
WithPending(k, t, x) == [k EXCEPT !.pending[t] = x]
WithHeir(k, m, s, o, own) ==
    [k EXCEPT !.list[m] = s, !.owner[m] = o, !.taken[o] = own, !.pending[o] = NoMutex]

LEMMA OwnerSet ==
    ASSUME NEW k \in KernelType, NEW m \in Mutexes, NEW o \in Threads \cup {NoThread},
           NEW v \in 0 .. NoPrio
    PROVE  LET r == WithOwner(k, m, o, v) IN
           /\ r \in KernelType
           /\ r.owner = [k.owner EXCEPT ![m] = o] /\ r.taken = k.taken
           /\ r.list = k.list /\ r.prio = k.prio /\ r.pending = k.pending
           /\ r.susp = k.susp /\ r.fault = k.fault /\ r.who = k.who
  BY DEF KernelType, WithOwner

LEMMA TakenSet ==
    ASSUME NEW k \in KernelType, NEW t \in Threads, NEW s \in SUBSET Mutexes
    PROVE  LET r == WithTaken(k, t, s) IN
           /\ r \in KernelType
           /\ r.owner = k.owner /\ r.taken = [k.taken EXCEPT ![t] = s] /\ r.mprio = k.mprio
           /\ r.list = k.list /\ r.prio = k.prio /\ r.pending = k.pending
           /\ r.susp = k.susp /\ r.fault = k.fault /\ r.who = k.who
  BY DEF KernelType, WithTaken

LEMMA TakeFreeStep ==
    ASSUME KeepsLists, MutexInv, fault = "none", setup' = setup,
           NEW t \in Threads, NEW m \in Mutexes, TakeFree(t, m)
    PROVE  MutexInv'
  <1>0. TypeOK /\ Waits /\ setup \in Setup
    BY DEF MutexInv, TypeOK
  <1>1. PICK k : k = Kernel
    OBVIOUS
  <1>2. /\ KernelOK(k, Waiting, setup.debug) /\ setup.debug \in BOOLEAN
        /\ k.fault = "none" /\ k.who = NoThread /\ k \in KernelType
        /\ k.owner = owner /\ k.taken = taken /\ k.pending = pending /\ k.prio = prio
    BY <1>1, KernelIsOK DEF KernelOK
  <1>3. pc[t] = "run" /\ t \notin Waiting
    BY DEF TakeFree, Waiting
  <1>4. NoPrio \in 0 .. NoPrio /\ NoPrio \in Nat
    BY MutexFacts
  <1>5. PICK j : j = WithOwner(k, m, t, NoPrio)
    OBVIOUS
  <1>6. /\ j \in KernelType
        /\ j.owner = [owner EXCEPT ![m] = t] /\ j.taken = k.taken
        /\ j.list = k.list /\ j.prio = k.prio /\ j.pending = k.pending
        /\ j.susp = k.susp /\ j.fault = "none" /\ j.who = NoThread
    BY <1>2, <1>4, <1>5, OwnerSet
  <1>7. KernelOK(j, Waiting, setup.debug)
    BY <1>2, <1>6, UnlistedKeeps
  <1>8. PICK c \in 0 .. NoPrio : c = setup.ceiling[m]
    BY <1>0 DEF Setup
  <1>9. PICK own \in SUBSET Mutexes : own = taken[t] \cup {m}
    BY <1>0 DEF TypeOK
  <1>10. PICK i : i = WithTaken(j, t, own)
    OBVIOUS
  <1>11. /\ KernelOK(i, Waiting, setup.debug) /\ i.owner = j.owner /\ i.pending = j.pending
    <2>1. /\ i \in KernelType /\ i.owner = j.owner
          /\ i.list = j.list /\ i.prio = j.prio /\ i.pending = j.pending
          /\ i.susp = j.susp /\ i.fault = j.fault /\ i.who = j.who
      <3>1. j \in KernelType
        BY <1>6
      <3> QED BY <1>10, <3>1, TakenSet
    <2> QED BY <1>6, <1>7, <2>1, UnlistedKeeps
  <1>11a. Apply(IF c = NoPrio THEN i ELSE IF c < prio[t] THEN UpdatePriority(j, t, c) ELSE j)
    <2>1. j = [Kernel EXCEPT !.owner[m] = t, !.mprio[m] = NoPrio]
      BY <1>1, <1>5 DEF WithOwner
    <2>2. i = [j EXCEPT !.taken[t] = @ \cup {m}]
      BY <1>2, <1>6, <1>9, <1>10 DEF WithTaken
    <2> QED BY <1>8, <2>1, <2>2 DEF TakeFree
  <1>12. PICK z : /\ Apply(z) /\ KernelOK(z, Waiting, setup.debug)
                  /\ z.owner = j.owner /\ z.pending = j.pending
    <2>2. CASE c = NoPrio
      BY <1>11, <1>11a, <2>2
    <2>3. CASE c # NoPrio /\ c < prio[t]
      <3>1. c \in 0 .. NoPrio - 1
        BY <1>4, <2>3
      <3>2. KernelOK(UpdatePriority(j, t, c), Waiting, setup.debug) /\ Same(UpdatePriority(j, t, c), j)
        BY <1>2, <1>3, <1>6, <1>7, <3>1, UpdateKeeps
      <3> QED BY <1>11a, <2>3, <3>2 DEF Same
    <2>4. CASE c # NoPrio /\ ~(c < prio[t])
      BY <1>7, <1>11a, <2>4
    <2> QED BY <2>2, <2>3, <2>4
  <1>13. /\ pc' = pc /\ timer' = timer /\ error' = [error EXCEPT ![t] = "EOK"]
         /\ hold' = [hold EXCEPT ![m] = 1]
    BY DEF TakeFree
  <1>14. /\ hold' \in [Mutexes -> 0 .. HoldMax]
         /\ pc' \in [Threads -> {"run", "wait", "back", "sleep", "dead"}]
         /\ error' \in [Threads -> {"EOK", "ETIMEOUT"}]
         /\ timer' \in [Threads -> BOOLEAN]
         /\ Waiting = {u \in Threads : pc'[u] = "wait"}
    <2>1. 1 \in 0 .. HoldMax
      BY MutexFacts
    <2> QED BY <1>0, <1>13, <2>1 DEF TypeOK, Waiting
  <1>15. TypeOK' /\ Listed' /\ InOrder' /\ (fault' = "assert" => setup'.debug)
    BY <1>0, <1>12, <1>14, Applied
  <1>16. owner' = [owner EXCEPT ![m] = t] /\ pending' = pending
    BY <1>2, <1>6, <1>12 DEF Apply
  <1>17. Waits'
    <2>1. owner'[m] = t /\ \A n \in Mutexes : n # m => owner'[n] = owner[n]
      BY <1>0, <1>16 DEF TypeOK
    <2>2. error'[t] = "EOK" /\ \A u \in Threads : u # t => error'[u] = error[u]
      BY <1>0, <1>13 DEF TypeOK
    <2>3. Waiting' = Waiting
      BY <1>13 DEF Waiting
    <2> QED BY <1>0, <1>3, <1>13, <1>16, <2>1, <2>2, <2>3, MutexFacts DEF Waits
  <1>18. ASSUME WalksToTheEnd PROVE Prios'
    <2>1. /\ Carried(k) /\ OwnedTaken(k) /\ (~setup.timed /\ NoCeiling => Exactly(k))
          /\ setup.debug => NoOwnerIn(k, Waiting)
      BY <1>1, <1>18, KernelPrios
    <2>2. k.list[m] = <<>> /\ ToSet(k.list[m]) = {}
      <3>1. PICK l \in Seq(Threads) : l = list[m]
        BY <1>0 DEF TypeOK
      <3>2. \A u \in Threads : u \notin ToSet(l)
        BY <3>1 DEF MutexInv, Listed, Waits, TakeFree
      <3>3. ToSet(l) = {} /\ l = <<>>
        BY <3>2, ListedIn
      <3> QED BY <1>1, <3>1, <3>3, KernelFields
    <2>3. \A u \in Threads : k.taken[u] \subseteq Mutexes /\ m \notin k.taken[u]
      <3>1. k.owner[m] = NoThread
        BY <1>2 DEF TakeFree
      <3> QED BY <1>2, <2>1, <3>1, MutexFacts DEF Carried, TakenOwned, KernelType
    <2>4. j.mprio = [k.mprio EXCEPT ![m] = NoPrio]
      <3>1. k \in KernelType
        BY <1>2
      <3> QED BY <1>4, <1>5, <3>1 DEF WithOwner, KernelType
    <2>5. /\ j.mprio[m] = NoPrio /\ (\A n \in Mutexes : n # m => j.mprio[n] = k.mprio[n])
          /\ j.owner[m] = t /\ \A n \in Mutexes : n # m => j.owner[n] = k.owner[n]
      BY <1>0, <1>2, <1>6, <2>4 DEF KernelType
    <2>6. Heads(j) /\ TakenOwned(j) /\ \A u \in Threads : Fits(j, u, j.prio[u])
      BY <1>6, <2>1, <2>2, <2>3, <2>5 DEF Carried, Heads, TakenOwned, Fits
    <2>7. \A u \in Threads : j.prio[u] \in Nat /\ j.prio[u] < NoPrio /\ InitPrio[u] \in Nat
      BY <1>6, KernelNumbers
    <2>8. CASE c = NoPrio
      <3>0. j \in KernelType
        BY <1>6
      <3>1. /\ i \in KernelType /\ i.taken = [j.taken EXCEPT ![t] = own] /\ i.mprio = j.mprio
            /\ i.owner = j.owner /\ i.list = j.list /\ i.prio = j.prio
        BY ZenonT(30), <1>9, <1>10, <3>0, TakenSet
      <3>2. i.taken[t] = k.taken[t] \cup {m} /\ \A u \in Threads : u # t => i.taken[u] = k.taken[u]
        BY <1>2, <1>6, <1>9, <3>1 DEF KernelType
      <3>3. ASSUME NEW u \in Threads PROVE Fits(i, u, i.prio[u])
        BY <1>4, <1>6, <2>5, <2>6, <2>7, <3>1, <3>2 DEF Fits
      <3>4. TakenOwned(i)
        BY <1>6, <2>5, <2>6, <3>1, <3>2 DEF TakenOwned
      <3>5. Carried(i)
        BY <2>6, <3>1, <3>3, <3>4 DEF Carried, Heads
      <3>6. OwnedTaken(i)
        <4> SUFFICES ASSUME NEW n \in Mutexes, i.owner[n] # NoThread, setup.ceiling[n] = NoPrio
                     PROVE  n \in i.taken[i.owner[n]]
          BY DEF OwnedTaken
        <4>1. CASE n = m
          BY <2>5, <3>1, <3>2, <4>1
        <4>2. CASE n # m
          <5>1. i.owner[n] = k.owner[n] /\ k.owner[n] \in Threads
            BY <1>2, <2>5, <3>1, <4>2 DEF KernelType
          <5>2. n \in k.taken[k.owner[n]]
            BY <2>1, <5>1 DEF OwnedTaken
          <5> QED BY <3>2, <5>1, <5>2
        <4> QED BY <4>1, <4>2
      <3>7. ASSUME Exactly(k) PROVE Exactly(i)
        <4>1. ASSUME NEW n \in Mutexes PROVE i.mprio[n] = MutexPrio(i, n)
          <5>1. MutexPrio(i, n) = MutexPrio(k, n)
            BY <1>6, <3>1 DEF MutexPrio
          <5>2. CASE n = m
            BY <2>2, <2>5, <3>1, <5>1, <5>2 DEF MutexPrio
          <5>3. CASE n # m
            BY <2>5, <3>1, <3>7, <5>1, <5>3 DEF Exactly
          <5> QED BY <5>2, <5>3
        <4>2. ASSUME NEW u \in Threads PROVE i.prio[u] = ThreadPrio(i, u)
          <5>1. k.prio[u] = ThreadPrio(k, u)
            BY <3>7 DEF Exactly
          <5>2. k.prio[u] = InitPrio[u] \/ \E n \in k.taken[u] : k.prio[u] = k.mprio[n]
            BY <1>2, <5>1, ThreadPrioFacts
          <5>3. i.prio[u] = InitPrio[u] \/ \E n \in i.taken[u] : i.prio[u] = i.mprio[n]
            BY <1>6, <2>3, <2>5, <3>1, <3>2, <5>2
          <5>4. i.prio[u] \in Nat
            BY <2>7, <3>1
          <5> QED BY <3>1, <3>3, <5>3, <5>4, ThreadPrioIs
        <4> QED BY <4>1, <4>2 DEF Exactly
      <3>8. Apply(i)
        BY <1>11a, <2>8
      <3> QED BY <2>1, <3>5, <3>6, <3>7, <3>8, AppliedPrios DEF Apply
    <2>9. CASE c # NoPrio
      <3>1. ~NoCeiling /\ OwnedTaken(j)
        BY <1>2, <1>6, <1>8, <2>1, <2>5, <2>9 DEF NoCeiling, OwnedTaken
      <3>2. CASE c < prio[t]
        <4>1. c \in 0 .. NoPrio - 1 /\ c \in Nat /\ c < j.prio[t]
          BY <1>2, <1>4, <1>6, <2>9, <3>2
        <4>2. PICK y : y = UpdatePriority(j, t, c)
          OBVIOUS
        <4>3. Fits(j, t, c) /\ j.prio[t] <= InitPrio[t]
          <5>1. \A n \in j.taken[t] : j.mprio[n] \in Nat
            BY <1>6, KernelNumbers
          <5> QED BY <2>6, <2>7, <4>1, <5>1 DEF Fits
        <4>4. setup.debug => NoOwnerIn(j, Waiting)
          BY <1>2, <1>3, <2>1, <2>5 DEF NoOwnerIn
        <4>5. Carried(y)
          BY <1>2, <1>3, <1>6, <1>7, <2>6, <4>1, <4>2, <4>3, <4>4, UpdateCovers
        <4>6. Same(y, j)
          BY <1>2, <1>3, <1>6, <1>7, <4>1, <4>2, UpdateKeeps
        <4>7. OwnedTaken(y)
          BY <3>1, <4>6 DEF OwnedTaken, Same
        <4>8. Apply(y)
          BY <1>11a, <2>9, <3>2, <4>2
        <4> QED BY <3>1, <4>5, <4>7, <4>8, AppliedPrios DEF Apply
      <3>3. CASE ~(c < prio[t])
        <4>1. Apply(j) /\ Carried(j)
          BY <1>11a, <2>6, <2>9, <3>3 DEF Carried
        <4> QED BY <3>1, <4>1, AppliedPrios DEF Apply
      <3> QED BY <3>2, <3>3
    <2> QED BY <2>8, <2>9
  <1> QED BY <1>15, <1>17, <1>18 DEF MutexInv

LEMMA TakeFailedStep ==
    ASSUME KeepsLists, MutexInv, fault = "none", setup' = setup,
           NEW t \in Threads, TakeFailed(t)
    PROVE  MutexInv'
  <1>0. TypeOK /\ Waits /\ setup \in Setup
    BY DEF MutexInv, TypeOK
  <1>1. PICK k : k = Kernel
    OBVIOUS
  <1>2. /\ KernelOK(k, Waiting, setup.debug) /\ setup.debug \in BOOLEAN
        /\ k.fault = "none" /\ k.who = NoThread
        /\ k.owner = owner /\ k.pending = pending
    BY <1>1, KernelIsOK
  <1>3. PICK m \in Mutexes : m = pending[t]
    BY <1>0 DEF TakeFailed, Waits, TypeOK
  <1>4. PICK z : z = WaiterGone(k, t, m)
    OBVIOUS
  <1>5. KernelOK(z, Waiting, setup.debug) /\ Same(z, k)
    BY <1>2, <1>4, WaiterGoneKeeps
  <1>6. Apply(z) /\ pc[t] = "back" /\ error[t] # "EOK"
        /\ pc' = [pc EXCEPT ![t] = "run"] /\ hold' = hold /\ error' = error /\ timer' = timer
    BY <1>1, <1>3, <1>4 DEF TakeFailed
  <1>7. pc'[t] = "run" /\ \A u \in Threads : u # t => pc'[u] = pc[u]
    BY <1>0, <1>6 DEF TypeOK
  <1>8. /\ hold' \in [Mutexes -> 0 .. HoldMax]
        /\ pc' \in [Threads -> {"run", "wait", "back", "sleep", "dead"}]
        /\ error' \in [Threads -> {"EOK", "ETIMEOUT"}]
        /\ timer' \in [Threads -> BOOLEAN]
        /\ Waiting = {u \in Threads : pc'[u] = "wait"} /\ Waiting' = Waiting
    BY <1>0, <1>6, <1>7 DEF TypeOK, Waiting
  <1>9. TypeOK' /\ Listed' /\ InOrder' /\ (fault' = "assert" => setup'.debug)
    BY <1>0, <1>5, <1>6, <1>8, Applied
  <1>10. owner' = owner /\ pending' = pending
    BY <1>2, <1>5, <1>6 DEF Apply, Same
  <1>11. Waits'
    BY <1>0, <1>6, <1>7, <1>8, <1>10 DEF Waits
  <1>12. ASSUME WalksToTheEnd PROVE Prios'
    <2>1. Carried(k) /\ OwnedTaken(k) /\ (setup.debug => NoOwnerIn(k, Waiting))
      BY <1>1, <1>12, KernelPrios
    <2>2. Carried(z)
      BY <1>2, <1>4, <2>1, WaiterGoneCovers
    <2>3. OwnedTaken(z)
      BY <1>5, <2>1 DEF OwnedTaken, Same
    <2>4. setup.timed
      BY <1>0, <1>6 DEF Waits
    <2> QED BY <1>6, <2>2, <2>3, <2>4, AppliedPrios DEF Apply
  <1> QED BY <1>9, <1>11, <1>12 DEF MutexInv


LEMMA TakeWaitStep ==
    ASSUME KeepsLists, MutexInv, fault = "none", setup' = setup,
           NEW t \in Threads, NEW m \in Mutexes, TakeWait(t, m)
    PROVE  MutexInv'
  <1>0. TypeOK /\ Waits /\ setup \in Setup
    BY DEF MutexInv, TypeOK
  <1>1. PICK k : k = Kernel
    OBVIOUS
  <1>2. /\ KernelOK(k, Waiting, setup.debug) /\ setup.debug \in BOOLEAN
        /\ k.fault = "none" /\ k.who = NoThread /\ k \in KernelType
        /\ k.owner = owner /\ k.list = list /\ k.pending = pending /\ k.prio = prio
    BY <1>1, KernelIsOK DEF KernelOK
  <1>3. pc[t] = "run" /\ t \notin Waiting /\ owner[m] \in Threads /\ owner[m] # t
    BY <1>0 DEF TakeWait, Waiting, TypeOK
  <1>4. PICK W : W = Waiting \cup {t}
    OBVIOUS
  <1>5. PICK l \in Seq(Threads) : l = list[m]
    BY <1>0 DEF TypeOK
  <1>6. PICK f \in [Threads -> 0 .. NoPrio - 1] : f = prio
    BY <1>0 DEF TypeOK
  <1>7. PICK s : s = ListInsert(l, t, f, "PRIO")
    OBVIOUS
  <1>8. Queues(k, Waiting) /\ Ordered(k, Waiting) /\ Suspended(k, Waiting, setup.debug)
    BY <1>2 DEF KernelOK
  <1>9. /\ s \in Seq(Threads) /\ Distinct(s) /\ ToSet(s) = ToSet(l) \cup {t}
        /\ InPrioOrder(s, f)
    <2>1. Distinct(l) /\ t \notin ToSet(l)
      BY <1>2, <1>3, <1>5, <1>8 DEF Queues
    <2>2. InPrioOrder(l, f)
      BY <1>2, <1>5, <1>6, <1>8 DEF Ordered
    <2>3. f \in [Threads -> Nat]
      BY MutexFacts
    <2> QED BY <1>7, <2>1, <2>2, <2>3, PrioInserted
  <1>10. PICK S \in SUBSET Threads : S = k.susp \cup {t}
    BY <1>2 DEF KernelType
  <1>10a. PICK j : j = WithWaiter(k, m, s, t, S)
    OBVIOUS
  <1>11. /\ j \in KernelType
         /\ j.owner = k.owner /\ j.list = [k.list EXCEPT ![m] = s]
         /\ j.pending = [k.pending EXCEPT ![t] = m] /\ j.susp = k.susp \cup {t}
         /\ j.prio = k.prio /\ j.fault = "none" /\ j.who = NoThread
         /\ j.mprio = k.mprio /\ j.taken = k.taken
    <2>1. k \in KernelType
      BY <1>2
    <2>2. s \in Seq(Threads)
      BY <1>9
    <2>3. /\ j \in KernelType
          /\ j.owner = k.owner /\ j.list = [k.list EXCEPT ![m] = s]
          /\ j.pending = [k.pending EXCEPT ![t] = m] /\ j.susp = S
          /\ j.prio = k.prio /\ j.fault = k.fault /\ j.who = k.who
          /\ j.mprio = k.mprio /\ j.taken = k.taken
      <3>1. S \in SUBSET Threads
        BY <1>10
      <3> QED BY <1>10a, <2>1, <2>2, <3>1 DEF WithWaiter, KernelType
    <2> QED BY <1>2, <1>10, <2>3
  <1>12. /\ j.list[m] = s /\ (\A n \in Mutexes : n # m => j.list[n] = k.list[n])
         /\ j.pending[t] = m /\ \A u \in Threads : u # t => j.pending[u] = k.pending[u]
    BY <1>2, <1>11 DEF KernelType
  <1>13. KernelOK(j, W, setup.debug)
    <2>1. Queues(j, W)
      <3> SUFFICES ASSUME NEW n \in Mutexes
                   PROVE  /\ Distinct(j.list[n])
                          /\ \A u \in Threads : u \in ToSet(j.list[n]) <=> u \in W /\ j.pending[u] = n
        BY DEF Queues
      <3>1. CASE n = m
        BY <1>2, <1>4, <1>5, <1>8, <1>9, <1>12, <3>1 DEF Queues
      <3>2. CASE n # m
        BY <1>2, <1>3, <1>4, <1>8, <1>12, <3>2 DEF Queues
      <3> QED BY <3>1, <3>2
    <2>2. \A n \in Mutexes : InPrioOrder(j.list[n], j.prio)
      <3> TAKE n \in Mutexes
      <3>1. CASE n = m
        BY <1>2, <1>6, <1>9, <1>11, <1>12, <3>1
      <3>2. CASE n # m
        BY <1>2, <1>8, <1>11, <1>12, <3>2 DEF Ordered
      <3> QED BY <3>1, <3>2
    <2>3. Ordered(j, W)
      BY <2>2 DEF Ordered
    <2>4. Suspended(j, W, setup.debug)
      BY <1>4, <1>8, <1>11, <1>12 DEF Suspended, KernelType
    <2>5. NoThread \notin W
      BY <1>4, MutexFacts DEF Waiting
    <2> QED BY <1>11, <2>1, <2>3, <2>4, <2>5 DEF KernelOK
  <1>14. PICK p \in 0 .. NoPrio - 1 : p = prio[t]
    BY <1>0 DEF TypeOK
  <1>15. PICK o \in Threads : o = owner[m]
    BY <1>3
  <1>16. PICK r : r = WithMprio(j, m, p)
    OBVIOUS
  <1>17. KernelOK(r, W, setup.debug) /\ Same(r, j) /\ r.fault = "none"
    <2>1. p \in 0 .. NoPrio
      BY MutexFacts
    <2>2. j \in KernelType
      BY <1>11
    <2>3. /\ r \in KernelType /\ r.prio = j.prio /\ r.list = j.list
          /\ r.fault = j.fault /\ r.who = j.who /\ Same(r, j)
      BY <1>16, <2>1, <2>2, MprioSet
    <2> QED BY <1>11, <1>13, <2>3, UnlistedKeeps DEF Same
  <1>17a. Apply(Inherit(j, t, m))
    <2>1. j = [Kernel EXCEPT !.list[m] = ListInsert(@, t, prio, "PRIO"),
                             !.pending[t] = m, !.susp = @ \cup {t}]
      BY <1>1, <1>2, <1>5, <1>6, <1>7, <1>10, <1>10a DEF WithWaiter
    <2> QED BY <2>1 DEF TakeWait
  <1>18. PICK z : Apply(z) /\ KernelOK(z, W, setup.debug) /\ Same(z, j)
    <2>2. r = [j EXCEPT !.mprio[m] = prio[t]]
      BY <1>14, <1>16 DEF WithMprio
    <2>3. Inherit(j, t, m) \in {j, r, UpdatePriority(r, o, p)}
      BY <1>14, <1>15, <2>2 DEF Inherit
    <2>4. NoOwnerIn(r, W) => o \notin W
      BY <1>2, <1>11, <1>15, <1>17 DEF NoOwnerIn, Same
    <2>5. KernelOK(UpdatePriority(r, o, p), W, setup.debug) /\ Same(UpdatePriority(r, o, p), r)
      BY <1>2, <1>17, <2>4, UpdateKeeps
    <2>6. Same(UpdatePriority(r, o, p), j) /\ Same(j, j)
      BY <1>17, <2>5 DEF Same
    <2> QED BY <1>13, <1>17, <1>17a, <2>3, <2>5, <2>6
  <1>19. /\ error' = [error EXCEPT ![t] = "EOK"] /\ pc' = [pc EXCEPT ![t] = "wait"]
         /\ hold' = hold
    BY DEF TakeWait
  <1>20. PICK ticks \in BOOLEAN : /\ timer' = [timer EXCEPT ![t] = ticks]
                                  /\ ticks => setup.timed
    BY <1>0 DEF TakeWait, Setup
  <1>21. pc'[t] = "wait" /\ error'[t] = "EOK" /\ timer'[t] = ticks
         /\ \A u \in Threads : u # t => pc'[u] = pc[u] /\ error'[u] = error[u]
                                        /\ timer'[u] = timer[u]
    BY <1>0, <1>19, <1>20 DEF TypeOK
  <1>22. /\ hold' \in [Mutexes -> 0 .. HoldMax]
         /\ pc' \in [Threads -> {"run", "wait", "back", "sleep", "dead"}]
         /\ error' \in [Threads -> {"EOK", "ETIMEOUT"}]
         /\ timer' \in [Threads -> BOOLEAN]
    BY <1>0, <1>19, <1>20 DEF TypeOK
  <1>23. W = {u \in Threads : pc'[u] = "wait"} /\ Waiting' = W
    BY <1>4, <1>21 DEF Waiting
  <1>24. TypeOK' /\ Listed' /\ InOrder' /\ (fault' = "assert" => setup'.debug)
    BY <1>0, <1>18, <1>22, <1>23, Applied
  <1>25. owner' = owner /\ pending' = [pending EXCEPT ![t] = m]
    BY <1>2, <1>11, <1>18 DEF Apply, Same
  <1>26. pending'[t] = m /\ \A u \in Threads : u # t => pending'[u] = pending[u]
    BY <1>0, <1>25 DEF TypeOK
  <1>27. Waits'
    <2>1. ~setup.nested => \A n \in Mutexes : owner'[n] \notin Waiting'
      <3>1. ~setup.nested => \A n \in Mutexes : owner[n] # t
        BY DEF TakeWait
      <3> QED BY <1>0, <1>4, <1>23, <1>25, <3>1 DEF Waits
    <2>2. \A u \in Threads :
            /\ pc'[u] = "wait" => /\ pending'[u] \in Mutexes /\ owner'[pending'[u]] # NoThread
                                  /\ error'[u] = "EOK"
            /\ timer'[u] => pc'[u] = "wait" /\ setup'.timed
            /\ pc'[u] = "back" /\ error'[u] # "EOK" => pending'[u] # NoMutex
            /\ ~setup'.timed /\ pending'[u] # NoMutex => pc'[u] = "wait"
            /\ pc'[u] = "sleep" => setup'.sleeps
      <3> TAKE u \in Threads
      <3>1. CASE u = t
        <4>1. owner[m] # NoThread /\ pending'[u] = m
          BY <1>26, <3>1 DEF TakeWait
        <4>2. pc'[u] = "wait" /\ error'[u] = "EOK" /\ timer'[u] = ticks
          BY <1>21, <3>1
        <4> QED BY <1>20, <1>25, <4>1, <4>2
      <3>2. CASE u # t
        <4>1. /\ pc'[u] = pc[u] /\ error'[u] = error[u] /\ timer'[u] = timer[u]
              /\ pending'[u] = pending[u]
          BY <1>21, <1>26, <3>2
        <4> QED BY <1>0, <1>25, <4>1 DEF Waits
      <3> QED BY <3>1, <3>2
    <2> QED BY <1>0, <2>1, <2>2 DEF Waits
  <1>28. ASSUME WalksToTheEnd PROVE Prios'
    <2>1. /\ Carried(k) /\ OwnedTaken(k) /\ (~setup.timed /\ NoCeiling => Exactly(k))
          /\ setup.debug => ~setup.nested /\ NoOwnerIn(k, Waiting)
      BY <1>1, <1>28, KernelPrios
    <2>2. /\ NoPrio \in Nat /\ p \in Nat
          /\ \A u \in Threads : k.prio[u] \in Nat /\ InitPrio[u] \in Nat /\ k.prio[u] < NoPrio
                                /\ k.taken[u] \subseteq Mutexes
          /\ \A n \in Mutexes : k.mprio[n] \in Nat
      BY <1>2, <1>14, KernelNumbers
    <2>3. /\ k.prio[t] = p /\ k.owner[m] = o /\ k.list[m] = l /\ t \in ToSet(s) /\ k.mprio = mprio
          /\ \A u \in ToSet(s) : u \in Threads /\ (u = t \/ u \in ToSet(l))
      <3>1. ToSet(s) = ToSet(l) \cup {t} /\ ToSet(s) \subseteq Threads
        BY <1>9, ListedIn
      <3> QED BY <1>1, <1>2, <1>5, <1>14, <1>15, <3>1, KernelFields
    <2>4. \A u \in ToSet(l) : k.mprio[m] <= k.prio[u] /\ u \in ToSet(s)
      BY <1>9, <2>1, <2>3 DEF Carried, Heads
    <2>5. \A u \in Threads : ThreadPrio(j, u) = ThreadPrio(k, u)
      BY <1>11 DEF ThreadPrio
    <2>6. \A n \in Mutexes : n # m => MutexPrio(j, n) = MutexPrio(k, n)
      BY <1>11, <1>12 DEF MutexPrio
    <2>7. OwnedTaken(j) /\ TakenOwned(j) /\ \A u \in Threads : Fits(j, u, j.prio[u])
      BY <1>11, <2>1 DEF OwnedTaken, TakenOwned, Carried, Fits
    <2>8. InPrioOrder(j.list[m], j.prio)
      BY <1>6, <1>2, <1>9, <1>11, <1>12
    <2>9. CASE p >= k.mprio[m]
      <3>1. Apply(j)
        <4>1. Inherit(j, t, m) = j
          BY <1>14, <2>3, <2>9 DEF Inherit
        <4> QED BY <1>17a, <4>1
      <3>2. Heads(j)
        <4> SUFFICES ASSUME NEW n \in Mutexes, NEW u \in ToSet(j.list[n])
                     PROVE  j.mprio[n] <= j.prio[u]
          BY DEF Heads
        <4>1. CASE n = m
          BY <1>11, <1>12, <2>2, <2>3, <2>4, <2>9, <4>1
        <4>2. CASE n # m
          BY <1>11, <1>12, <2>1, <4>2 DEF Carried, Heads
        <4> QED BY <4>1, <4>2
      <3>3. Exactly(k) => Exactly(j)
        <4> SUFFICES ASSUME Exactly(k) PROVE j.mprio[m] = MutexPrio(j, m)
          BY <1>11, <2>5, <2>6 DEF Exactly
        <4>1. InPrioOrder(k.list[m], k.prio)
          BY <1>2, <1>8 DEF Ordered
        <4>2. k.mprio[m] = NoPrio \/ \E u \in ToSet(l) : k.mprio[m] = k.prio[u]
          BY <1>2, <2>3, <4>1, FirstWaiter DEF Exactly
        <4>3. k.mprio[m] # NoPrio
          BY <2>2, <2>3, <2>9
        <4>4. PICK u \in ToSet(l) : k.mprio[m] = k.prio[u]
          BY <4>2, <4>3
        <4>5. u \in ToSet(j.list[m]) /\ \A x \in ToSet(j.list[m]) : j.prio[u] <= j.prio[x]
          BY <1>11, <1>12, <2>2, <2>3, <2>4, <2>9, <4>4
        <4>6. MutexPrio(j, m) = j.prio[u]
          <5>1. j \in KernelType
            BY <1>11
          <5> QED BY <2>8, <4>5, <5>1, MutexPrioIs
        <4> QED BY <1>11, <4>4, <4>6
      <3> QED BY <2>1, <2>7, <3>1, <3>2, <3>3, AppliedPrios DEF Apply, Carried
    <2>10. CASE ~(p >= k.mprio[m])
      <3>0. p < k.mprio[m]
        BY <2>2, <2>10
      <3>1. /\ r \in KernelType /\ r.mprio = [k.mprio EXCEPT ![m] = p] /\ r.prio = k.prio
            /\ r.list = j.list /\ r.taken = k.taken /\ r.owner = k.owner
        <4>1. j \in KernelType
          BY <1>11
        <4>2. p \in 0 .. NoPrio
          BY <2>2, <1>14
        <4>3. /\ r \in KernelType /\ r.mprio = [j.mprio EXCEPT ![m] = p] /\ r.prio = j.prio
              /\ r.list = j.list /\ Same(r, j)
          BY <1>16, <4>1, <4>2, MprioSet
        <4> QED BY <1>11, <4>3 DEF Same
      <3>2. r.mprio[m] = p /\ \A n \in Mutexes : n # m => r.mprio[n] = k.mprio[n]
        BY <1>2, <3>1 DEF KernelType
      <3>3. Heads(r)
        <4> SUFFICES ASSUME NEW n \in Mutexes, NEW u \in ToSet(r.list[n])
                     PROVE  r.mprio[n] <= r.prio[u]
          BY DEF Heads
        <4>1. CASE n = m
          <5>1. u \in ToSet(s)
            BY <1>12, <3>1, <4>1
          <5>2. p <= k.prio[u]
            <6>1. CASE u = t
              BY <2>2, <2>3, <6>1
            <6>2. CASE u \in ToSet(l)
              BY <2>2, <2>3, <2>4, <3>0, <5>1, <6>2
            <6> QED BY <2>3, <5>1, <6>1, <6>2
          <5> QED BY <3>1, <3>2, <4>1, <5>2
        <4>2. CASE n # m
          BY <1>12, <2>1, <3>1, <3>2, <4>2 DEF Carried, Heads
        <4> QED BY <4>1, <4>2
      <3>4. TakenOwned(r) /\ OwnedTaken(r)
        BY <2>1, <3>1 DEF TakenOwned, OwnedTaken, Carried
      <3>5. ASSUME NEW u \in Threads, u # o
            PROVE  Fits(r, u, r.prio[u]) /\ ThreadPrio(r, u) = ThreadPrio(k, u)
        <4>1. \A n \in k.taken[u] : n \in Mutexes /\ n # m
          BY <2>1, <2>2, <2>3, <3>5 DEF Carried, TakenOwned
        <4>2. \A n \in k.taken[u] : r.mprio[n] = k.mprio[n]
          BY <3>2, <4>1
        <4>3. ThreadPrio(r, u) = ThreadPrio(k, u)
          BY <1>2, <3>1, <4>2, ThreadPrioSame
        <4> QED BY <2>1, <3>1, <4>2, <4>3 DEF Carried, Fits
      <3>6. ASSUME Exactly(k) PROVE \A n \in Mutexes : r.mprio[n] = MutexPrio(r, n)
        <4> TAKE n \in Mutexes
        <4>1. MutexPrio(r, n) = MutexPrio(j, n)
          BY <1>11, <3>1 DEF MutexPrio
        <4>2. CASE n = m
          <5>0. t \in ToSet(j.list[m]) /\ j \in KernelType /\ j.prio[t] = p
            BY <1>11, <1>12, <2>3
          <5>1. ASSUME NEW x \in ToSet(j.list[m]) PROVE j.prio[t] <= j.prio[x]
            <6>1. x \in ToSet(r.list[m])
              BY <3>1, <5>1
            <6>2. r.mprio[m] <= r.prio[x]
              BY <3>3, <6>1 DEF Heads
            <6>3. r.prio = j.prio
              BY <1>11, <3>1
            <6> QED BY <3>2, <5>0, <6>2, <6>3
          <5>2. MutexPrio(j, m) = j.prio[t]
            BY <2>8, <5>0, <5>1, MutexPrioIs
          <5> QED BY <1>11, <2>3, <3>2, <4>1, <4>2, <5>2
        <4>3. CASE n # m
          BY <2>6, <3>2, <3>6, <4>1, <4>3 DEF Exactly
        <4> QED BY <4>2, <4>3
      <3>7. k.prio[o] <= InitPrio[o] /\ \A n \in k.taken[o] : k.prio[o] <= k.mprio[n]
        BY <2>1 DEF Carried, Fits
      <3>8. CASE p < k.prio[o]
        <4>1. PICK y : y = UpdatePriority(r, o, p)
          OBVIOUS
        <4>2. Apply(y)
          <5>1. r = [j EXCEPT !.mprio[m] = prio[t]]
            BY <1>14, <1>16 DEF WithMprio
          <5>2. Inherit(j, t, m) = y
            BY <1>2, <1>14, <1>15, <2>3, <2>10, <3>8, <4>1, <5>1 DEF Inherit
          <5> QED BY <1>17a, <5>2
        <4>3. Fits(r, o, p)
          BY <2>2, <3>1, <3>2, <3>7, <3>8 DEF Fits
        <4>4. setup.debug => NoOwnerIn(r, W)
          BY <1>2, <1>4, <2>1, <3>1 DEF NoOwnerIn, TakeWait
        <4>5. NoOwnerIn(r, W) => o \notin W
          BY <2>3, <3>1 DEF NoOwnerIn
        <4>6. KernelOK(r, W, setup.debug) /\ r.fault = "none" /\ r.prio[o] <= InitPrio[o]
          BY <1>17, <3>1, <3>7
        <4>7. /\ Carried(y)
              /\ /\ \A n \in Mutexes : r.mprio[n] = MutexPrio(r, n)
                 /\ \A u \in Threads : u # o => r.prio[u] = ThreadPrio(r, u)
                 /\ p = ThreadPrio(r, o)
                 => Exactly(y)
          BY <1>2, <3>3, <3>4, <3>5, <4>1, <4>3, <4>4, <4>5, <4>6, UpdateCovers
        <4>8. Same(y, r)
          BY <1>2, <4>1, <4>5, <4>6, UpdateKeeps
        <4>9. OwnedTaken(y)
          BY <3>4, <4>8 DEF OwnedTaken, Same
        <4>10. ASSUME NoCeiling, Exactly(k) PROVE Exactly(y)
          <5>1. m \in r.taken[o]
            BY <2>1, <2>3, <3>1, <4>10, MutexFacts DEF OwnedTaken, NoCeiling
          <5>2. p = ThreadPrio(r, o)
            BY <2>2, <3>1, <3>2, <4>3, <5>1, ThreadPrioIs
          <5>3. \A u \in Threads : u # o => r.prio[u] = ThreadPrio(r, u)
            BY <3>1, <3>5, <4>10 DEF Exactly
          <5> QED BY <3>6, <4>7, <4>10, <5>2, <5>3
        <4> QED BY <2>1, <4>2, <4>7, <4>9, <4>10, AppliedPrios DEF Apply
      <3>9. CASE ~(p < k.prio[o])
        <4>1. Apply(r)
          <5>1. r = [j EXCEPT !.mprio[m] = prio[t]]
            BY <1>14, <1>16 DEF WithMprio
          <5>2. Inherit(j, t, m) = r
            BY <1>2, <1>14, <1>15, <2>3, <2>10, <3>9, <5>1 DEF Inherit
          <5> QED BY <1>17a, <5>2
        <4>2. Fits(r, o, r.prio[o])
          BY <2>2, <3>1, <3>2, <3>7, <3>9 DEF Fits
        <4>3. Carried(r)
          BY <3>3, <3>4, <3>5, <4>2 DEF Carried
        <4>4. ASSUME Exactly(k) PROVE Exactly(r)
          <5>1. k.prio[o] = InitPrio[o] \/ \E n \in k.taken[o] : k.prio[o] = k.mprio[n]
            BY <1>2, <4>4, ThreadPrioFacts DEF Exactly
          <5>2. ASSUME NEW n \in k.taken[o], k.prio[o] = k.mprio[n] PROVE k.prio[o] = r.mprio[n]
            BY <2>2, <3>0, <3>2, <3>9, <5>2
          <5>3. r.prio[o] = InitPrio[o] \/ \E n \in r.taken[o] : r.prio[o] = r.mprio[n]
            BY <3>1, <5>1, <5>2
          <5>4. r.prio[o] \in Nat
            BY <2>2, <3>1
          <5>5. ThreadPrio(r, o) = r.prio[o]
            BY <3>1, <4>2, <5>3, <5>4, ThreadPrioIs
          <5>6. \A u \in Threads : r.prio[u] = ThreadPrio(r, u)
            BY <3>1, <3>5, <4>4, <5>5 DEF Exactly
          <5> QED BY <3>6, <4>4, <5>6 DEF Exactly
        <4> QED BY <2>1, <3>4, <4>1, <4>3, <4>4, AppliedPrios DEF Apply
      <3> QED BY <3>8, <3>9
    <2> QED BY <2>9, <2>10
  <1> QED BY <1>24, <1>27, <1>28 DEF MutexInv

(* t has taken m off its taken list. *)
GivenUp(i, k, t, m) ==
    /\ i.owner = k.owner /\ i.mprio = k.mprio /\ i.list = k.list /\ i.prio = k.prio
    /\ \A n \in i.taken[t] : n \in k.taken[t] /\ n # m
    /\ \A n \in k.taken[t] : n # m => n \in i.taken[t]
    /\ \A u \in Threads : u # t => i.taken[u] = k.taken[u]

GivenBack(j, i, k, m) ==
    /\ Carried(j) /\ (Exactly(k) => Exactly(j))
    /\ j.mprio = k.mprio /\ j.owner = k.owner /\ j.list = k.list /\ j.taken = i.taken
    /\ \A u \in Threads : m \notin j.taken[u]

LEMMA GivenUpIs ==
    ASSUME NEW k \in KernelType, NEW t \in Threads, NEW m, NEW own \in SUBSET Mutexes,
           own = k.taken[t] \ {m}, NEW i, i = WithTaken(k, t, own)
    PROVE  GivenUp(i, k, t, m)
  <1>1. PICK f \in [Threads -> SUBSET Mutexes] : f = k.taken
    BY DEF KernelType
  <1>2. /\ i.owner = k.owner /\ i.mprio = k.mprio /\ i.list = k.list /\ i.prio = k.prio
        /\ i.taken = [k.taken EXCEPT ![t] = own]
    BY ZenonT(30), TakenSet
  <1>3. i.taken[t] = own /\ \A u \in Threads : u # t => i.taken[u] = k.taken[u]
    BY <1>1, <1>2
  <1> QED BY <1>2, <1>3 DEF GivenUp

(* The owner t takes m off its taken list and gives back what it inherited *)
(* through m.                                                              *)
LEMMA GiveAwayCovers ==
    ASSUME NEW k \in KernelType, NEW W, NEW d, NEW t \in Threads, t \notin W,
           NEW m \in Mutexes, k.owner[m] = t, Carried(k),
           NEW i, KernelOK(i, W, d), GivenUp(i, k, t, m),
           NEW j, j = Disinherit(i, t, m)
    PROVE  GivenBack(j, i, k, m)
  <1>0. i \in KernelType
    BY DEF KernelOK
  <1>1. /\ i.owner = k.owner /\ i.mprio = k.mprio /\ i.list = k.list /\ i.prio = k.prio
    BY DEF GivenUp
  <1>2. /\ \A n \in i.taken[t] : n \in k.taken[t] /\ n # m
        /\ \A n \in k.taken[t] : n # m => n \in i.taken[t]
        /\ \A u \in Threads : u # t => i.taken[u] = k.taken[u]
    BY DEF GivenUp
  <1>3. \A u \in Threads : \A n \in i.taken[u] : n \in k.taken[u]
    BY <1>2
  <1>4. \A u \in Threads : m \notin i.taken[u]
    BY <1>2 DEF Carried, TakenOwned
  <1>5. Carried(i)
    <2>1. Heads(i)
      BY <1>1 DEF Carried, Heads
    <2>2. TakenOwned(i)
      BY <1>1, <1>3 DEF Carried, TakenOwned
    <2>3. \A u \in Threads : Fits(i, u, i.prio[u])
      BY <1>1, <1>3 DEF Carried, Fits
    <2> QED BY <2>1, <2>2, <2>3 DEF Carried
  <1>6. /\ Carried(j) /\ j.mprio = i.mprio /\ j.taken = i.taken /\ j.owner = i.owner
        /\ j.list = i.list
        /\ \A u \in Threads : u # t => j.prio[u] = i.prio[u]
        /\ /\ \A n \in Mutexes : i.mprio[n] = MutexPrio(i, n)
           /\ \A u \in Threads : u # t => i.prio[u] = ThreadPrio(i, u)
           /\ i.prio[t] \in {i.mprio[m], ThreadPrio(i, t)}
           => Exactly(j)
    BY <1>5, DisinheritCovers
  <1>7. ASSUME Exactly(k) PROVE Exactly(j)
    <2>1. \A n \in Mutexes : i.mprio[n] = MutexPrio(i, n)
      BY <1>1, <1>7 DEF Exactly, MutexPrio
    <2>2. ASSUME NEW u \in Threads, u # t PROVE i.prio[u] = ThreadPrio(i, u)
      <3>1. i.taken[u] = k.taken[u] /\ \A n \in k.taken[u] : i.mprio[n] = k.mprio[n]
        BY <1>1, <1>2, <2>2
      <3>2. ThreadPrio(i, u) = ThreadPrio(k, u)
        BY <1>0, <3>1, ThreadPrioSame
      <3> QED BY <1>1, <1>7, <3>2 DEF Exactly
    <2>3. i.prio[t] \in {i.mprio[m], ThreadPrio(i, t)}
      <3>1. PICK v \in Nat : v = k.prio[t]
        BY KernelNumbers
      <3>2. v = ThreadPrio(k, t) /\ Fits(k, t, v)
        BY <1>7, <3>1 DEF Exactly, Carried
      <3>3. v = InitPrio[t] \/ \E n \in k.taken[t] : v = k.mprio[n]
        BY <3>2, ThreadPrioFacts
      <3>4. Fits(i, t, v)
        BY <1>1, <1>3, <3>2 DEF Fits
      <3>5. CASE v = k.mprio[m]
        BY <1>1, <3>1, <3>5
      <3>6. CASE v # k.mprio[m]
        <4>1. v = InitPrio[t] \/ \E n \in i.taken[t] : v = i.mprio[n]
          BY <1>1, <1>2, <3>3, <3>6
        <4>2. ThreadPrio(i, t) = v
          BY <1>0, <3>4, <4>1, ThreadPrioIs
        <4> QED BY <1>1, <3>1, <4>2
      <3> QED BY <3>5, <3>6
    <2> QED BY <1>6, <2>1, <2>2, <2>3
  <1> QED BY <1>1, <1>4, <1>6, <1>7 DEF GivenBack

LEMMA ReleaseFreeStep ==
    ASSUME KeepsLists, MutexInv, fault = "none", setup' = setup,
           NEW t \in Threads, NEW m \in Mutexes, ReleaseFree(t, m)
    PROVE  MutexInv'
  <1>0. TypeOK /\ Waits /\ Listed /\ setup \in Setup
    BY DEF MutexInv, TypeOK
  <1>1. PICK k : k = Kernel
    OBVIOUS
  <1>2. /\ KernelOK(k, Waiting, setup.debug) /\ setup.debug \in BOOLEAN
        /\ k.fault = "none" /\ k.who = NoThread /\ k \in KernelType
        /\ k.owner = owner /\ k.taken = taken /\ k.pending = pending
    BY <1>1, KernelIsOK DEF KernelOK
  <1>3. pc[t] = "run" /\ t \notin Waiting /\ list[m] = <<>>
    BY DEF ReleaseFree, Waiting
  <1>4. PICK own \in SUBSET Mutexes : own = taken[t] \ {m}
    BY <1>0 DEF TypeOK
  <1>5. PICK i : i = WithTaken(k, t, own)
    OBVIOUS
  <1>6. /\ KernelOK(i, Waiting, setup.debug) /\ i.owner = owner /\ i.pending = pending
        /\ i.fault = "none" /\ i.who = NoThread
    <2>0. k \in KernelType
      BY <1>2
    <2>1. /\ i \in KernelType /\ i.owner = k.owner
          /\ i.list = k.list /\ i.prio = k.prio /\ i.pending = k.pending
          /\ i.susp = k.susp /\ i.fault = k.fault /\ i.who = k.who
      BY ZenonT(30), <1>4, <1>5, <2>0, TakenSet
    <2> QED BY <1>2, <2>1, UnlistedKeeps
  <1>7. PICK j : j = Disinherit(i, t, m)
    OBVIOUS
  <1>8. /\ KernelOK(j, Waiting, setup.debug) /\ Same(j, i)
        /\ j.fault = "none" /\ j.who = NoThread /\ j \in KernelType
    BY <1>3, <1>6, <1>7, DisinheritKeeps DEF KernelOK
  <1>9. NoPrio \in 0 .. NoPrio
    BY MutexFacts
  <1>10. PICK z : z = WithOwner(j, m, NoThread, NoPrio)
    OBVIOUS
  <1>11. /\ z \in KernelType
         /\ z.owner = [j.owner EXCEPT ![m] = NoThread]
         /\ z.list = j.list /\ z.prio = j.prio /\ z.pending = j.pending
         /\ z.susp = j.susp /\ z.fault = j.fault /\ z.who = j.who
    <2>1. j \in KernelType
      BY <1>8
    <2>2. PICK o \in Threads \cup {NoThread}, v \in 0 .. NoPrio : o = NoThread /\ v = NoPrio
      BY <1>9
    <2>3. z = WithOwner(j, m, o, v)
      BY <1>10, <2>2
    <2>4. /\ z \in KernelType
          /\ z.owner = [j.owner EXCEPT ![m] = o]
          /\ z.list = j.list /\ z.prio = j.prio /\ z.pending = j.pending
          /\ z.susp = j.susp /\ z.fault = j.fault /\ z.who = j.who
      BY <2>1, <2>3, OwnerSet
    <2> QED BY <2>2, <2>4
  <1>12. KernelOK(z, Waiting, setup.debug)
    BY <1>8, <1>11, UnlistedKeeps
  <1>13. Apply(z)
    <2>1. i = [Kernel EXCEPT !.taken[t] = @ \ {m}]
      BY <1>1, <1>2, <1>4, <1>5 DEF WithTaken
    <2>2. z = [j EXCEPT !.owner[m] = NoThread, !.mprio[m] = NoPrio]
      BY <1>10 DEF WithOwner
    <2> QED BY <1>7, <2>1, <2>2 DEF ReleaseFree
  <1>14. pc' = pc /\ error' = error /\ timer' = timer /\ hold' = [hold EXCEPT ![m] = 0]
    BY DEF ReleaseFree
  <1>15. /\ hold' \in [Mutexes -> 0 .. HoldMax]
         /\ pc' \in [Threads -> {"run", "wait", "back", "sleep", "dead"}]
         /\ error' \in [Threads -> {"EOK", "ETIMEOUT"}]
         /\ timer' \in [Threads -> BOOLEAN]
         /\ Waiting = {u \in Threads : pc'[u] = "wait"} /\ Waiting' = Waiting
    <2>1. 0 \in 0 .. HoldMax
      BY MutexFacts
    <2> QED BY <1>0, <1>14, <2>1 DEF TypeOK, Waiting
  <1>16. TypeOK' /\ Listed' /\ InOrder' /\ (fault' = "assert" => setup'.debug)
    BY <1>0, <1>12, <1>13, <1>15, Applied
  <1>17. owner' = [owner EXCEPT ![m] = NoThread] /\ pending' = pending
    BY <1>6, <1>8, <1>11, <1>13 DEF Apply, Same
  <1>18. Waits'
    <2>1. owner'[m] = NoThread /\ \A n \in Mutexes : n # m => owner'[n] = owner[n]
      BY <1>0, <1>17 DEF TypeOK
    <2>2. \A u \in Threads : pc[u] = "wait" => pending[u] # m
      BY <1>0, <1>3 DEF Listed, ToSet
    <2>3. NoThread \notin Waiting
      BY MutexFacts DEF Waiting
    <2> QED BY <1>0, <1>14, <1>15, <1>17, <2>1, <2>2, <2>3 DEF Waits
  <1>19. ASSUME WalksToTheEnd PROVE Prios'
    <2>1. /\ Carried(k) /\ OwnedTaken(k) /\ (~setup.timed /\ NoCeiling => Exactly(k))
      BY <1>1, <1>19, KernelPrios
    <2>2. k.owner[m] = t /\ own = k.taken[t] \ {m} /\ k.list[m] = <<>>
      BY <1>1, <1>2, <1>3, <1>4, KernelFields DEF ReleaseFree
    <2>3. /\ Carried(j) /\ j.mprio = k.mprio /\ j.owner = k.owner /\ j.list = k.list
          /\ (\A n \in k.taken[t] : n # m => n \in j.taken[t])
          /\ (\A u \in Threads : u # t => j.taken[u] = k.taken[u])
          /\ \A u \in Threads : m \notin j.taken[u]
          /\ Exactly(k) => Exactly(j)
      <3>1. k \in KernelType /\ i \in KernelType
        BY <1>2, <1>6 DEF KernelOK
      <3>2. GivenUp(i, k, t, m)
        BY <1>5, <2>2, <3>1, GivenUpIs
      <3>3. GivenBack(j, i, k, m)
        <4>1. t \notin Waiting /\ KernelOK(i, Waiting, setup.debug)
          BY <1>3, <1>6
        <4>2. k.owner[m] = t /\ Carried(k)
          BY <2>1, <2>2
        <4> QED BY <1>7, <3>1, <3>2, <4>1, <4>2, GiveAwayCovers
      <3> QED BY <3>2, <3>3 DEF GivenUp, GivenBack
    <2>4. /\ z \in KernelType /\ j \in KernelType
          /\ z.list = j.list /\ z.prio = j.prio
      BY <1>8, <1>11
    <2>5. z.mprio = [j.mprio EXCEPT ![m] = NoPrio] /\ z.taken = j.taken
      BY <1>10, <2>4 DEF WithOwner, KernelType
    <2>6. /\ z.mprio[m] = NoPrio /\ \A n \in Mutexes : n # m => z.mprio[n] = j.mprio[n]
      BY <2>4, <2>5 DEF KernelType
    <2>7. /\ z.owner[m] = NoThread /\ \A n \in Mutexes : n # m => z.owner[n] = j.owner[n]
      BY <1>11, <2>4 DEF KernelType
    <2>8. \A u \in Threads : \A n \in z.taken[u] : n \in Mutexes /\ n # m
      BY <2>3, <2>4, <2>5 DEF KernelType
    <2>9. z.list[m] = <<>> /\ ToSet(z.list[m]) = {}
      <3>1. z.list[m] = <<>>
        BY <2>2, <2>3, <2>4
      <3> QED BY <3>1 DEF ToSet
    <2>10. Heads(z)
      BY <2>3, <2>4, <2>6, <2>9 DEF Heads, Carried
    <2>11. TakenOwned(z) /\ \A u \in Threads : Fits(z, u, z.prio[u])
      BY <2>3, <2>4, <2>5, <2>6, <2>7, <2>8 DEF TakenOwned, Fits, Carried
    <2>12. OwnedTaken(z)
      <3> SUFFICES ASSUME NEW n \in Mutexes, z.owner[n] # NoThread, setup.ceiling[n] = NoPrio
                   PROVE  n \in z.taken[z.owner[n]]
        BY DEF OwnedTaken
      <3>1. n # m /\ z.owner[n] = k.owner[n]
        BY <2>3, <2>7
      <3>2. PICK u \in Threads : u = k.owner[n]
        BY <1>2, <3>1 DEF KernelType
      <3>3. n \in k.taken[u]
        BY <2>1, <3>1, <3>2 DEF OwnedTaken
      <3>4. n \in j.taken[u]
        BY <2>2, <2>3, <3>1, <3>3
      <3> QED BY <2>5, <3>1, <3>2, <3>4
    <2>13. ASSUME Exactly(k) PROVE Exactly(z)
      <3>1. Exactly(j)
        BY <2>3, <2>13
      <3>2. ASSUME NEW n \in Mutexes PROVE z.mprio[n] = MutexPrio(z, n)
        <4>1. CASE n = m
          BY <2>6, <2>9, <4>1 DEF MutexPrio
        <4>2. CASE n # m
          BY <2>4, <2>6, <3>1, <4>2 DEF Exactly, MutexPrio
        <4> QED BY <4>1, <4>2
      <3>3. ASSUME NEW u \in Threads PROVE z.prio[u] = ThreadPrio(z, u)
        <4>1. z.taken[u] = j.taken[u] /\ \A n \in j.taken[u] : z.mprio[n] = j.mprio[n]
          BY <2>5, <2>6, <2>8
        <4>2. ThreadPrio(z, u) = ThreadPrio(j, u)
          BY <2>4, <4>1, ThreadPrioSame
        <4> QED BY <2>4, <3>1, <4>2 DEF Exactly
      <3> QED BY <3>2, <3>3 DEF Exactly
    <2>14. Carried(z)
      BY <2>10, <2>11 DEF Carried
    <2>15. /\ z.owner = owner' /\ z.list = list' /\ z.mprio = mprio' /\ z.prio = prio'
           /\ z.taken = taken'
      BY <1>13 DEF Apply
    <2> QED BY <2>1, <2>12, <2>13, <2>14, <2>15, AppliedPrios
  <1>20. WalksToTheEnd => Prios'
    BY <1>19
  <1> QED BY <1>16, <1>18, <1>20 DEF MutexInv, WalksToTheEnd


LEMMA ReleaseHandOverStep ==
    ASSUME KeepsLists, MutexInv, fault = "none", setup' = setup,
           NEW t \in Threads, NEW m \in Mutexes, ReleaseHandOver(t, m)
    PROVE  MutexInv'
  <1>0. TypeOK /\ Waits /\ Listed /\ setup \in Setup
    BY DEF MutexInv, TypeOK
  <1>1. PICK k : k = Kernel
    OBVIOUS
  <1>2. /\ KernelOK(k, Waiting, setup.debug) /\ setup.debug \in BOOLEAN
        /\ k.fault = "none" /\ k.who = NoThread /\ k \in KernelType
        /\ k.owner = owner /\ k.taken = taken /\ k.pending = pending /\ k.list = list
    BY <1>1, KernelIsOK DEF KernelOK
  <1>3. pc[t] = "run" /\ t \notin Waiting /\ list[m] # <<>>
    BY DEF ReleaseHandOver, Waiting
  <1>4. PICK own \in SUBSET Mutexes : own = taken[t] \ {m}
    BY <1>0 DEF TypeOK
  <1>5. PICK i : i = WithTaken(k, t, own)
    OBVIOUS
  <1>6. /\ KernelOK(i, Waiting, setup.debug) /\ i.owner = owner /\ i.pending = pending
        /\ i.fault = "none" /\ i.who = NoThread /\ i.list = list
    <2>0. k \in KernelType
      BY <1>2
    <2>1. /\ i \in KernelType /\ i.owner = k.owner
          /\ i.list = k.list /\ i.prio = k.prio /\ i.pending = k.pending
          /\ i.susp = k.susp /\ i.fault = k.fault /\ i.who = k.who
      BY ZenonT(30), <1>4, <1>5, <2>0, TakenSet
    <2> QED BY <1>2, <2>1, UnlistedKeeps
  <1>7. PICK j : j = Disinherit(i, t, m)
    OBVIOUS
  <1>8. /\ KernelOK(j, Waiting, setup.debug) /\ j.owner = owner /\ j.pending = pending
        /\ j.list = list /\ j.fault = "none" /\ j.who = NoThread /\ j \in KernelType
    BY <1>3, <1>6, <1>7, DisinheritKeeps DEF KernelOK, Same
  <1>9. PICK q \in Seq(Threads) : q = list[m]
    BY <1>0 DEF TypeOK
  <1>10. PICK s : s = Tail(q)
    OBVIOUS
  <1>11. PICK next \in Threads : next = Head(q) /\ next \in ToSet(q)
    BY <1>3, <1>9, HeadListed
  <1>12. /\ s \in Seq(Threads) /\ Distinct(s) /\ ToSet(q) = {next} \cup ToSet(s)
         /\ next \notin ToSet(s)
    <2>1. Distinct(q) /\ q # <<>>
      BY <1>0, <1>3, <1>9 DEF Listed
    <2> QED BY <1>10, <1>11, <2>1, TailProperties
  <1>13. pc[next] = "wait" /\ pending[next] = m /\ next \in Waiting
    BY <1>0, <1>9, <1>11 DEF Listed, Waiting
  <1>14. PICK has \in SUBSET Mutexes : has = j.taken[next] \cup {m}
    BY <1>8 DEF KernelType
  <1>15. PICK l : l = WithHeir(j, m, s, next, has)
    OBVIOUS
  <1>16. /\ l \in KernelType
         /\ l.owner = [owner EXCEPT ![m] = next] /\ l.list = [list EXCEPT ![m] = s]
         /\ l.pending = [pending EXCEPT ![next] = NoMutex] /\ l.susp = j.susp
         /\ l.prio = j.prio /\ l.fault = "none" /\ l.who = NoThread
    <2>1. j \in KernelType
      BY <1>8
    <2>2. s \in Seq(Threads)
      BY <1>12
    <2>3. /\ l \in KernelType
          /\ l.owner = [j.owner EXCEPT ![m] = next] /\ l.list = [j.list EXCEPT ![m] = s]
          /\ l.pending = [j.pending EXCEPT ![next] = NoMutex] /\ l.susp = j.susp
          /\ l.prio = j.prio /\ l.fault = j.fault /\ l.who = j.who
      BY <1>15, <2>1, <2>2 DEF WithHeir, KernelType
    <2> QED BY <1>8, <2>3
  <1>17. /\ l.list[m] = s /\ (\A n \in Mutexes : n # m => l.list[n] = list[n])
         /\ l.pending[next] = NoMutex /\ \A u \in Threads : u # next => l.pending[u] = pending[u]
    BY <1>0, <1>16 DEF TypeOK
  <1>18. PICK W : W = Waiting \ {next}
    OBVIOUS
  <1>19. KernelOK(l, W, setup.debug)
    <2>0. Queues(j, Waiting) /\ Ordered(j, Waiting) /\ Suspended(j, Waiting, setup.debug)
      BY <1>8 DEF KernelOK
    <2>1. Queues(l, W)
      <3> SUFFICES ASSUME NEW n \in Mutexes
                   PROVE  /\ Distinct(l.list[n])
                          /\ \A u \in Threads : u \in ToSet(l.list[n]) <=> u \in W /\ l.pending[u] = n
        BY DEF Queues
      <3>1. CASE n = m
        BY <1>8, <1>9, <1>12, <1>17, <1>18, <2>0, <3>1 DEF Queues
      <3>2. CASE n # m
        <4>1. \A u \in Threads : u \in ToSet(list[n]) <=> u \in Waiting /\ pending[u] = n
          BY <1>8, <2>0 DEF Queues
        <4>2. Distinct(list[n])
          BY <1>8, <2>0 DEF Queues
        <4>3. NoMutex # n
          BY MutexFacts
        <4> QED BY <1>13, <1>17, <1>18, <3>2, <4>1, <4>2, <4>3
      <3> QED BY <3>1, <3>2
    <2>2. \A n \in Mutexes : InPrioOrder(l.list[n], l.prio)
      <3> TAKE n \in Mutexes
      <3>1. InPrioOrder(list[n], j.prio)
        BY <1>8, <2>0 DEF Ordered
      <3>2. CASE n = m
        <4>1. q \in Seq(Threads) /\ q # <<>> /\ InPrioOrder(q, j.prio)
          BY <1>3, <1>9, <3>1, <3>2
        <4>2. InPrioOrder(s, j.prio)
          BY <1>10, <4>1 DEF InPrioOrder
        <4> QED BY <1>16, <1>17, <3>2, <4>2
      <3>3. CASE n # m
        BY <1>16, <1>17, <3>1, <3>3
      <3> QED BY <3>2, <3>3
    <2>3. Ordered(l, W)
      BY <2>2 DEF Ordered
    <2>4. Suspended(l, W, setup.debug)
      <3>1. W \subseteq l.susp
        BY <1>16, <1>18, <2>0 DEF Suspended
      <3>2. ASSUME ~setup.debug, NEW u \in l.susp, l.pending[u] # NoMutex PROVE u \in W
        <4>1. u \in Threads /\ u # next
          BY <1>16, <1>17, <3>2 DEF KernelType
        <4>2. u \in j.susp /\ j.pending[u] # NoMutex
          BY <1>8, <1>16, <1>17, <3>2, <4>1
        <4> QED BY <1>18, <2>0, <3>2, <4>1, <4>2 DEF Suspended
      <3> QED BY <3>1, <3>2 DEF Suspended
    <2>5. NoThread \notin W
      BY <1>18, MutexFacts DEF Waiting
    <2> QED BY <1>16, <2>1, <2>3, <2>4, <2>5 DEF KernelOK
  <1>20. PICK v \in 0 .. NoPrio : v = MutexPrio(l, m)
    BY <1>16, MutexPrioFacts
  <1>21. PICK z : z = WithMprio(l, m, v)
    OBVIOUS
  <1>22. KernelOK(z, W, setup.debug) /\ Same(z, l)
    <2>1. l \in KernelType
      BY <1>16
    <2>2. /\ z \in KernelType /\ z.prio = l.prio /\ z.list = l.list
          /\ z.fault = l.fault /\ z.who = l.who /\ Same(z, l)
      BY <1>20, <1>21, <2>1, MprioSet
    <2> QED BY <1>16, <1>19, <2>2, UnlistedKeeps DEF Same
  <1>23. /\ Apply(z) /\ pc' = [pc EXCEPT ![next] = "back"]
         /\ timer' = [timer EXCEPT ![next] = FALSE]
    <2>1. i = [Kernel EXCEPT !.taken[t] = @ \ {m}]
      BY <1>1, <1>2, <1>4, <1>5 DEF WithTaken
    <2>2. next = Head(list[m])
      BY <1>9, <1>11
    <2>3. l = [j EXCEPT !.list[m] = Tail(@), !.owner[m] = next,
                        !.taken[next] = @ \cup {m}, !.pending[next] = NoMutex]
      <3>1. s = Tail(j.list[m])
        BY <1>8, <1>9, <1>10
      <3> QED BY <1>14, <1>15, <3>1 DEF WithHeir
    <2>4. z = [l EXCEPT !.mprio[m] = MutexPrio(l, m)]
      BY <1>20, <1>21 DEF WithMprio
    <2> QED BY <1>7, <2>1, <2>2, <2>3, <2>4 DEF ReleaseHandOver
  <1>24. hold' = hold /\ error' = error
    BY DEF ReleaseHandOver
  <1>25. pc'[next] = "back" /\ timer'[next] = FALSE
         /\ \A u \in Threads : u # next => pc'[u] = pc[u] /\ timer'[u] = timer[u]
    BY <1>0, <1>23 DEF TypeOK
  <1>26. /\ hold' \in [Mutexes -> 0 .. HoldMax]
         /\ pc' \in [Threads -> {"run", "wait", "back", "sleep", "dead"}]
         /\ error' \in [Threads -> {"EOK", "ETIMEOUT"}]
         /\ timer' \in [Threads -> BOOLEAN]
    BY <1>0, <1>23, <1>24 DEF TypeOK
  <1>27. W = {u \in Threads : pc'[u] = "wait"} /\ Waiting' = W
    BY <1>18, <1>25 DEF Waiting
  <1>28. TypeOK' /\ Listed' /\ InOrder' /\ (fault' = "assert" => setup'.debug)
    BY <1>0, <1>22, <1>23, <1>26, <1>27, Applied
  <1>29. owner' = [owner EXCEPT ![m] = next] /\ pending' = [pending EXCEPT ![next] = NoMutex]
    BY <1>16, <1>22, <1>23 DEF Apply, Same
  <1>30. /\ owner'[m] = next /\ (\A n \in Mutexes : n # m => owner'[n] = owner[n])
         /\ pending'[next] = NoMutex /\ \A u \in Threads : u # next => pending'[u] = pending[u]
    BY <1>0, <1>29 DEF TypeOK
  <1>31. Waits'
    <2>1. ~setup.nested => \A n \in Mutexes : owner'[n] \notin Waiting'
      BY <1>0, <1>18, <1>27, <1>30 DEF Waits
    <2>2. \A u \in Threads :
            /\ pc'[u] = "wait" => /\ pending'[u] \in Mutexes /\ owner'[pending'[u]] # NoThread
                                  /\ error'[u] = "EOK"
            /\ timer'[u] => pc'[u] = "wait" /\ setup'.timed
            /\ pc'[u] = "back" /\ error'[u] # "EOK" => pending'[u] # NoMutex
            /\ ~setup'.timed /\ pending'[u] # NoMutex => pc'[u] = "wait"
            /\ pc'[u] = "sleep" => setup'.sleeps
      <3> TAKE u \in Threads
      <3>1. CASE u = next
        <4>1. error[next] = "EOK"
          BY <1>0, <1>13 DEF Waits
        <4> QED BY <1>24, <1>25, <1>30, <3>1, <4>1
      <3>2. CASE u # next
        <4>1. /\ pc'[u] = pc[u] /\ error'[u] = error[u] /\ timer'[u] = timer[u]
              /\ pending'[u] = pending[u]
          BY <1>24, <1>25, <1>30, <3>2
        <4>2. \A n \in Mutexes : owner[n] # NoThread => owner'[n] # NoThread
          BY <1>30, MutexFacts
        <4> QED BY <1>0, <4>1, <4>2 DEF Waits
      <3> QED BY <3>1, <3>2
    <2> QED BY <1>0, <2>1, <2>2 DEF Waits
  <1>32. ASSUME WalksToTheEnd PROVE Prios'
    <2>1. /\ Carried(k) /\ OwnedTaken(k) /\ (~setup.timed /\ NoCeiling => Exactly(k))
      BY <1>1, <1>32, KernelPrios
    <2>2. k.owner[m] = t /\ own = k.taken[t] \ {m}
      BY <1>1, <1>2, <1>4, KernelFields DEF ReleaseHandOver
    <2>3. /\ Carried(j) /\ j.mprio = k.mprio /\ j.owner = k.owner /\ j.list = k.list
          /\ (\A n \in k.taken[t] : n # m => n \in j.taken[t])
          /\ (\A u \in Threads : u # t => j.taken[u] = k.taken[u])
          /\ \A u \in Threads : m \notin j.taken[u]
          /\ Exactly(k) => Exactly(j)
      <3>1. k \in KernelType /\ i \in KernelType
        BY <1>2, <1>6 DEF KernelOK
      <3>2. GivenUp(i, k, t, m)
        BY <1>5, <2>2, <3>1, GivenUpIs
      <3>3. GivenBack(j, i, k, m)
        <4>1. t \notin Waiting /\ KernelOK(i, Waiting, setup.debug)
          BY <1>3, <1>6
        <4>2. k.owner[m] = t /\ Carried(k)
          BY <2>1, <2>2
        <4> QED BY <1>7, <3>1, <3>2, <4>1, <4>2, GiveAwayCovers
      <3> QED BY <3>2, <3>3 DEF GivenUp, GivenBack
    <2>4. j \in KernelType /\ l \in KernelType /\ z \in KernelType
      BY <1>8, <1>16, <1>22 DEF KernelOK
    <2>5. l.taken = [j.taken EXCEPT ![next] = has] /\ l.mprio = j.mprio
      BY <1>15, <2>4 DEF WithHeir, KernelType
    <2>6. /\ z.mprio = [l.mprio EXCEPT ![m] = v] /\ z.prio = l.prio /\ z.list = l.list
          /\ z.taken = l.taken /\ z.owner = l.owner
      BY <1>21, <2>4, MprioSet DEF Same
    <2>7. /\ z.mprio[m] = v /\ \A n \in Mutexes : n # m => z.mprio[n] = j.mprio[n]
      BY <2>4, <2>5, <2>6 DEF KernelType
    <2>8. z.taken[next] = has /\ \A u \in Threads : u # next => z.taken[u] = j.taken[u]
      BY <2>4, <2>5, <2>6 DEF KernelType
    <2>9. z.owner[m] = next /\ \A n \in Mutexes : n # m => z.owner[n] = j.owner[n]
      BY <1>0, <1>8, <1>16, <2>6 DEF TypeOK
    <2>10. m \in has /\ (\A n \in has : n # m => n \in j.taken[next])
           /\ \A n \in j.taken[next] : n \in has
      BY <1>14
    <2>11. /\ z.list[m] = s /\ z.prio = j.prio
           /\ \A n \in Mutexes : n # m => z.list[n] = j.list[n]
      BY <1>8, <1>16, <1>17, <2>6
    <2>12. InPrioOrder(s, j.prio) /\ InPrioOrder(q, j.prio)
      <3>1. InPrioOrder(j.list[m], j.prio)
        BY <1>8 DEF KernelOK, Ordered
      <3>2. q \in Seq(Threads) /\ q # <<>> /\ InPrioOrder(q, j.prio)
        BY <1>3, <1>8, <1>9, <3>1
      <3> QED BY <1>10, <3>2 DEF InPrioOrder
    <2>13. MutexPrio(z, m) = v
      BY <1>20, <2>6 DEF MutexPrio
    <2>14. /\ \A u \in ToSet(s) : v <= j.prio[u]
           /\ v = NoPrio \/ \E u \in ToSet(s) : v = j.prio[u]
      <3>1. InPrioOrder(z.list[m], z.prio)
        BY <2>11, <2>12
      <3> QED BY <2>4, <2>11, <2>13, <3>1, FirstWaiter
    <2>15. Heads(z)
      <3> SUFFICES ASSUME NEW n \in Mutexes, NEW u \in ToSet(z.list[n])
                   PROVE  z.mprio[n] <= z.prio[u]
        BY DEF Heads
      <3>1. CASE n = m
        BY <2>7, <2>11, <2>14, <3>1
      <3>2. CASE n # m
        BY <2>3, <2>7, <2>11, <3>2 DEF Carried, Heads
      <3> QED BY <3>1, <3>2
    <2>16. \A u \in Threads : \A n \in j.taken[u] : n \in Mutexes /\ n # m
      BY <2>3, <2>4 DEF KernelType
    <2>17. TakenOwned(z)
      <3> SUFFICES ASSUME NEW u \in Threads, NEW n \in z.taken[u] PROVE z.owner[n] = u
        BY DEF TakenOwned
      <3>1. CASE n = m
        <4>1. u = next
          BY <2>8, <2>16, <3>1
        <4> QED BY <2>9, <3>1, <4>1
      <3>2. CASE n # m
        <4>1. n \in j.taken[u]
          BY <2>8, <2>10, <3>2
        <4> QED BY <2>3, <2>9, <2>16, <3>2, <4>1 DEF Carried, TakenOwned
      <3> QED BY <3>1, <3>2
    <2>18. j.prio[next] <= v
      <3>1. MutexPrio(j, m) = j.prio[next]
        BY <1>3, <1>8, <1>9, <1>11 DEF MutexPrio
      <3>2. \A u \in ToSet(q) : j.prio[next] <= j.prio[u]
        BY <1>8, <1>9, <2>4, <2>12, <3>1, FirstWaiter
      <3>3. j.prio[next] < NoPrio
        BY <2>4, KernelNumbers
      <3>4. CASE v = NoPrio
        BY <2>4, <3>3, <3>4, KernelNumbers
      <3>5. CASE \E u \in ToSet(s) : v = j.prio[u]
        BY <1>12, <3>2, <3>5
      <3> QED BY <2>14, <3>4, <3>5
    <2>19. ASSUME NEW u \in Threads PROVE Fits(z, u, z.prio[u])
      <3>1. Fits(j, u, j.prio[u])
        BY <2>3 DEF Carried
      <3>2. \A n \in j.taken[u] : z.mprio[n] = j.mprio[n]
        BY <2>7, <2>16
      <3>3. CASE u = next
        BY <2>7, <2>8, <2>10, <2>11, <2>18, <3>1, <3>2, <3>3 DEF Fits
      <3>4. CASE u # next
        BY <2>8, <2>11, <3>1, <3>2, <3>4 DEF Fits
      <3> QED BY <3>3, <3>4
    <2>20. Carried(z)
      BY <2>15, <2>17, <2>19 DEF Carried
    <2>21. OwnedTaken(z)
      <3> SUFFICES ASSUME NEW n \in Mutexes, z.owner[n] # NoThread, setup.ceiling[n] = NoPrio
                   PROVE  n \in z.taken[z.owner[n]]
        BY DEF OwnedTaken
      <3>1. CASE n = m
        BY <2>8, <2>9, <2>10, <3>1
      <3>2. CASE n # m
        <4>1. z.owner[n] = k.owner[n]
          BY <2>3, <2>9, <3>2
        <4>2. PICK u \in Threads : u = k.owner[n]
          BY <1>2, <4>1 DEF KernelType
        <4>3. n \in k.taken[u]
          BY <2>1, <4>1, <4>2 DEF OwnedTaken
        <4>4. n \in j.taken[u]
          BY <2>3, <3>2, <4>3
        <4> QED BY <2>8, <2>10, <4>1, <4>2, <4>4
      <3> QED BY <3>1, <3>2
    <2>22. ASSUME Exactly(k) PROVE Exactly(z)
      <3>1. Exactly(j)
        BY <2>3, <2>22
      <3>2. ASSUME NEW n \in Mutexes PROVE z.mprio[n] = MutexPrio(z, n)
        <4>1. CASE n = m
          BY <2>7, <2>13, <4>1
        <4>2. CASE n # m
          BY <2>7, <2>11, <3>1, <4>2 DEF Exactly, MutexPrio
        <4> QED BY <4>1, <4>2
      <3>3. ASSUME NEW u \in Threads PROVE z.prio[u] = ThreadPrio(z, u)
        <4>1. \A n \in j.taken[u] : z.mprio[n] = j.mprio[n]
          BY <2>7, <2>16
        <4>2. CASE u # next
          <5>1. ThreadPrio(z, u) = ThreadPrio(j, u)
            BY <2>4, <2>8, <4>1, <4>2, ThreadPrioSame
          <5> QED BY <2>11, <3>1, <5>1 DEF Exactly
        <4>3. CASE u = next
          <5>1. PICK x \in Nat : x = j.prio[u]
            BY <2>4, KernelNumbers
          <5>2. x = ThreadPrio(j, u)
            BY <3>1, <5>1 DEF Exactly
          <5>3. x = InitPrio[u] \/ \E n \in j.taken[u] : x = j.mprio[n]
            BY <2>4, <5>2, ThreadPrioFacts
          <5>4. x = InitPrio[u] \/ \E n \in z.taken[u] : x = z.mprio[n]
            BY <2>8, <2>10, <4>1, <4>3, <5>3
          <5>5. Fits(z, u, x)
            BY <2>11, <2>19, <5>1
          <5>6. ThreadPrio(z, u) = x
            BY <2>4, <5>4, <5>5, ThreadPrioIs
          <5> QED BY <2>11, <5>1, <5>6
        <4> QED BY <4>2, <4>3
      <3> QED BY <3>2, <3>3 DEF Exactly
    <2>23. /\ z.owner = owner' /\ z.list = list' /\ z.mprio = mprio' /\ z.prio = prio'
           /\ z.taken = taken'
      BY <1>23 DEF Apply
    <2> QED BY <2>1, <2>20, <2>21, <2>22, <2>23, AppliedPrios
  <1>33. WalksToTheEnd => Prios'
    BY <1>32
  <1> QED BY <1>28, <1>31, <1>33 DEF MutexInv, WalksToTheEnd


PriosOf(k) ==
    Carried(k) /\ OwnedTaken(k) /\ (~setup.timed /\ NoCeiling => Exactly(k))

(* A thread that is not on a list any more loses its pending_object. *)
LEMMA PendingGoneKeeps ==
    ASSUME NEW g, NEW W, NEW d, KernelOK(g, W, d), NEW t \in Threads, t \notin W,
           NEW z, z = WithPending(g, t, NoMutex)
    PROVE  /\ KernelOK(z, W, d) /\ z.owner = g.owner /\ Agree(z, g)
           /\ z.pending = [g.pending EXCEPT ![t] = NoMutex]
  <1>1. g \in KernelType /\ Queues(g, W) /\ Ordered(g, W) /\ Suspended(g, W, d)
    BY DEF KernelOK
  <1>2. /\ z \in KernelType
        /\ z.owner = g.owner /\ z.list = g.list /\ z.pending = [g.pending EXCEPT ![t] = NoMutex]
        /\ z.susp = g.susp /\ z.prio = g.prio /\ z.fault = g.fault /\ z.who = g.who
        /\ z.to = g.to /\ z.mprio = g.mprio /\ z.taken = g.taken
    <2>1. g \in KernelType
      BY <1>1
    <2> QED BY <2>1 DEF WithPending, KernelType
  <1>3. z.pending[t] = NoMutex /\ \A u \in Threads : u # t => z.pending[u] = g.pending[u]
    BY <1>1, <1>2 DEF KernelType
  <1>4. Queues(z, W)
    BY <1>1, <1>2, <1>3 DEF Queues
  <1>5. Ordered(z, W) /\ (NoOwnerIn(z, W) <=> NoOwnerIn(g, W))
    BY <1>1, <1>2 DEF Ordered, NoOwnerIn
  <1>6. Suspended(z, W, d)
    BY <1>1, <1>2, <1>3 DEF Suspended, KernelType
  <1> QED BY <1>2, <1>4, <1>5, <1>6 DEF KernelOK, Agree

LEMMA DeleteStep ==
    ASSUME KeepsLists, MutexInv, fault = "none", setup' = setup,
           NEW t \in Threads, Delete(t)
    PROVE  MutexInv'
  <1>0. TypeOK /\ Waits /\ Listed /\ setup \in Setup
    BY DEF MutexInv, TypeOK
  <1>1. PICK k : k = Kernel
    OBVIOUS
  <1>2. /\ KernelOK(k, Waiting, setup.debug) /\ setup.debug \in BOOLEAN
        /\ k.fault = "none" /\ k.who = NoThread /\ k \in KernelType
        /\ k.owner = owner /\ k.pending = pending /\ k.list = list
    BY <1>1, KernelIsOK DEF KernelOK
  <1>3. Queues(k, Waiting) /\ Ordered(k, Waiting) /\ Suspended(k, Waiting, setup.debug)
    BY <1>2 DEF KernelOK
  <1>4. PICK W : W = Waiting \ {t}
    OBVIOUS
  <1>5. NoThread \notin W /\ t \notin W
    BY <1>4, MutexFacts DEF Waiting
  <1>6. PICK S \in SUBSET Threads : S = k.susp \ {t}
    BY <1>2 DEF KernelType
  <1>7. PICK z : /\ Apply(z) /\ KernelOK(z, W, setup.debug) /\ z.owner = owner
                 /\ z.pending = [pending EXCEPT ![t] = NoMutex]
                 /\ WalksToTheEnd => PriosOf(z)
    <2>0. WalksToTheEnd => PriosOf(k) /\ (setup.debug => NoOwnerIn(k, Waiting))
      BY <1>1, KernelPrios DEF PriosOf
    <2>1. CASE pending[t] = NoMutex
      <3>1. PICK z : z = [k EXCEPT !.susp = S]
        OBVIOUS
      <3>2. /\ z \in KernelType /\ z.list = k.list /\ z.prio = k.prio /\ z.pending = k.pending
            /\ z.owner = k.owner /\ z.susp = S /\ z.fault = "none" /\ z.who = NoThread
        <4>1. k \in KernelType /\ S \in SUBSET Threads
          BY <1>2, <1>6
        <4>2. /\ z \in KernelType /\ z.list = k.list /\ z.prio = k.prio /\ z.pending = k.pending
              /\ z.owner = k.owner /\ z.susp = S /\ z.fault = k.fault /\ z.who = k.who
          BY <3>1, <4>1 DEF KernelType
        <4> QED BY <1>2, <4>2
      <3>3. t \notin Waiting /\ W = Waiting
        BY <1>0, <1>4, <2>1, MutexFacts DEF Waits, Waiting
      <3>4. Queues(z, W) /\ Ordered(z, W) /\ Suspended(z, W, setup.debug)
        <4>1. Queues(z, W)
          BY <1>3, <3>2, <3>3 DEF Queues
        <4>2. Ordered(z, W)
          BY <1>2, <1>3, <3>2, <3>3 DEF Ordered
        <4>3. Suspended(z, W, setup.debug)
          BY <1>3, <1>6, <3>2, <3>3 DEF Suspended
        <4> QED BY <4>1, <4>2, <4>3
      <3>5. KernelOK(z, W, setup.debug)
        BY <1>5, <3>2, <3>4 DEF KernelOK
      <3>6. Apply(z)
        <4>1. z = [Kernel EXCEPT !.susp = @ \ {t}]
          BY <1>1, <1>6, <3>1
        <4> QED BY <2>1, <4>1 DEF Delete
      <3>7. z.pending = [pending EXCEPT ![t] = NoMutex]
        BY <1>0, <1>2, <2>1, <3>2 DEF TypeOK
      <3>8. Agree(z, k)
        <4>1. k \in KernelType
          BY <1>2
        <4> QED BY <3>1, <4>1 DEF Agree, KernelType
      <3>9. WalksToTheEnd => PriosOf(z)
        BY <2>0, <3>8, AgreeCarried DEF PriosOf
      <3> QED BY <1>2, <3>2, <3>5, <3>6, <3>7, <3>9
    <2>2. CASE pending[t] # NoMutex
      <3>1. PICK m \in Mutexes : m = pending[t]
        BY <1>0, <2>2 DEF TypeOK
      <3>2. PICK l \in Seq(Threads) : l = list[m]
        BY <1>0 DEF TypeOK
      <3>3. PICK s : s = ListRemove(l, t)
        OBVIOUS
      <3>4. /\ s \in Seq(Threads) /\ Distinct(s) /\ ToSet(s) = ToSet(l) \ {t}
            /\ \A f : InPrioOrder(l, f) => InPrioOrder(s, f)
        <4>1. Distinct(l)
          BY <1>0, <3>2 DEF Listed
        <4> QED BY <3>3, <4>1, ListRemoveProperties
      <3>5. PICK j : j = [k EXCEPT !.susp = S, !.list[m] = s]
        OBVIOUS
      <3>6. /\ j \in KernelType /\ j.list = [list EXCEPT ![m] = s] /\ j.prio = k.prio
            /\ j.pending = pending /\ j.owner = owner /\ j.susp = S
            /\ j.fault = "none" /\ j.who = NoThread
        <4>1. k \in KernelType /\ S \in SUBSET Threads /\ s \in Seq(Threads)
          BY <1>2, <1>6, <3>4
        <4>2. /\ j \in KernelType /\ j.list = [k.list EXCEPT ![m] = s] /\ j.prio = k.prio
              /\ j.pending = k.pending /\ j.owner = k.owner /\ j.susp = S
              /\ j.fault = k.fault /\ j.who = k.who
          BY <3>5, <4>1 DEF KernelType
        <4> QED BY <1>2, <4>2
      <3>7. j.list[m] = s /\ \A n \in Mutexes : n # m => j.list[n] = list[n]
        BY <1>0, <3>6 DEF TypeOK
      <3>8. Queues(j, W)
        <4> SUFFICES ASSUME NEW n \in Mutexes
                     PROVE  /\ Distinct(j.list[n])
                            /\ \A u \in Threads : u \in ToSet(j.list[n])
                                                  <=> u \in W /\ j.pending[u] = n
          BY DEF Queues
        <4>1. /\ Distinct(list[n])
              /\ \A u \in Threads : u \in ToSet(list[n]) <=> u \in Waiting /\ pending[u] = n
          BY <1>2, <1>3 DEF Queues
        <4>2. CASE n = m
          BY <1>4, <3>2, <3>4, <3>6, <3>7, <4>1, <4>2
        <4>3. CASE n # m
          BY <1>4, <3>1, <3>6, <3>7, <4>1, <4>3
        <4> QED BY <4>2, <4>3
      <3>9. Ordered(j, W)
        <4>1. \A n \in Mutexes : InPrioOrder(list[n], k.prio)
          BY <1>2, <1>3 DEF Ordered
        <4>2. ASSUME NEW n \in Mutexes PROVE InPrioOrder(j.list[n], j.prio)
          BY <3>2, <3>4, <3>6, <3>7, <4>1
        <4> QED BY <4>2 DEF Ordered
      <3>10. Suspended(j, W, setup.debug)
        BY <1>2, <1>3, <1>4, <1>6, <3>6 DEF Suspended
      <3>11. KernelOK(j, W, setup.debug)
        BY <1>5, <3>6, <3>8, <3>9, <3>10 DEF KernelOK
      <3>12. PICK g : g = WaiterGone(j, t, m)
        OBVIOUS
      <3>13. KernelOK(g, W, setup.debug) /\ Same(g, j)
        BY <1>2, <3>6, <3>11, <3>12, WaiterGoneKeeps
      <3>14. PICK z : z = WithPending(g, t, NoMutex)
        OBVIOUS
      <3>15. /\ KernelOK(z, W, setup.debug) /\ z.owner = g.owner
             /\ z.pending = [g.pending EXCEPT ![t] = NoMutex] /\ Agree(z, g)
        BY <1>5, <3>13, <3>14, PendingGoneKeeps
      <3>16. Apply(z)
        <4>1. PICK i : i = [Kernel EXCEPT !.susp = @ \ {t}]
          OBVIOUS
        <4>2. i = [k EXCEPT !.susp = S] /\ i.list = list
          BY <1>1, <1>2, <1>6, <4>1
        <4>3. j = [i EXCEPT !.list[m] = ListRemove(@, t)]
          BY <3>2, <3>3, <3>5, <4>2
        <4>4. z = [g EXCEPT !.pending[t] = NoMutex]
          BY <3>14 DEF WithPending
        <4> QED BY <2>2, <3>1, <3>12, <4>1, <4>3, <4>4 DEF Delete
      <3>17. ASSUME WalksToTheEnd PROVE PriosOf(z)
        <4>1. /\ Carried(k) /\ OwnedTaken(k) /\ (~setup.timed /\ NoCeiling => Exactly(k))
              /\ setup.debug => NoOwnerIn(k, Waiting)
          BY <2>0, <3>17 DEF PriosOf
        <4>2. k \in KernelType /\ j \in KernelType
          BY <1>2, <3>6
        <4>3. j.mprio = k.mprio /\ j.taken = k.taken /\ j.prio = k.prio /\ j.owner = k.owner
          BY <3>5, <4>2 DEF KernelType
        <4>4. /\ \A n \in Mutexes : n # m => j.list[n] = k.list[n]
              /\ j.list[m] = s /\ k.list[m] = l
          BY <1>2, <3>2, <3>7
        <4>5. \A n \in Mutexes : \A u \in ToSet(j.list[n]) : u \in ToSet(k.list[n])
          BY <3>4, <4>4
        <4>6. Carried(j)
          <5>1. Heads(j)
            BY <4>1, <4>3, <4>5 DEF Carried, Heads
          <5> QED BY <4>1, <4>3, <5>1 DEF Carried, TakenOwned, Fits
        <4>7. setup.debug => NoOwnerIn(j, W)
          BY <1>4, <4>1, <4>3 DEF NoOwnerIn
        <4>8. /\ Carried(g)
              /\ /\ \A n \in Mutexes : n # m => j.mprio[n] = MutexPrio(j, n)
                 /\ \A u \in Threads : j.prio[u] = ThreadPrio(j, u)
                 /\ j.owner[m] # NoThread /\ j.mprio[m] \in {j.prio[t], MutexPrio(j, m)}
                 => Exactly(g)
          <5>1. setup.debug \in BOOLEAN /\ j.fault = "none" /\ j.who = NoThread
            BY <1>2, <3>6
          <5> QED BY <3>11, <3>12, <4>6, <4>7, <5>1, WaiterGoneCovers
        <4>9. OwnedTaken(g)
          BY <3>13, <4>1, <4>3 DEF OwnedTaken, Same
        <4>10. ASSUME ~setup.timed, NoCeiling PROVE Exactly(g)
          <5>1. Exactly(k)
            BY <4>1, <4>10
          <5>2. \A n \in Mutexes : n # m => j.mprio[n] = MutexPrio(j, n)
            BY <4>3, <4>4, <5>1 DEF Exactly, MutexPrio
          <5>3. \A u \in Threads : ThreadPrio(j, u) = ThreadPrio(k, u)
            BY <4>3 DEF ThreadPrio
          <5>4. \A u \in Threads : j.prio[u] = ThreadPrio(j, u)
            BY <4>3, <5>1, <5>3 DEF Exactly
          <5>5. pc[t] = "wait" /\ owner[m] # NoThread /\ t \in ToSet(l)
            <6>1. pc[t] = "wait"
              BY <1>0, <2>2, <4>10 DEF Waits
            <6> QED BY <1>0, <3>1, <3>2, <6>1 DEF Waits, Listed
          <5>6. j.mprio[m] \in {j.prio[t], MutexPrio(j, m)}
            <6>1. InPrioOrder(k.list[m], k.prio) /\ InPrioOrder(j.list[m], j.prio)
              BY <1>2, <1>3, <3>4, <4>3, <4>4 DEF Ordered
            <6>2. PICK y \in ToSet(k.list[m]) : MutexPrio(k, m) = k.prio[y]
              BY <4>2, <4>4, <5>5, <6>1, FirstWaiter
            <6>3. \A x \in ToSet(k.list[m]) : k.prio[y] <= k.prio[x]
              BY <4>2, <6>1, <6>2, FirstWaiter
            <6>4. j.mprio[m] = k.prio[y]
              BY <4>3, <5>1, <6>2 DEF Exactly
            <6>5. CASE y = t
              BY <4>3, <6>4, <6>5
            <6>6. CASE y # t
              <7>1. y \in ToSet(j.list[m])
                BY <3>4, <4>4, <6>2, <6>6
              <7>2. \A x \in ToSet(j.list[m]) : j.prio[y] <= j.prio[x]
                BY <4>3, <4>5, <6>3
              <7>3. MutexPrio(j, m) = j.prio[y]
                BY <4>2, <6>1, <7>1, <7>2, MutexPrioIs
              <7> QED BY <4>3, <6>4, <7>3
            <6> QED BY <6>5, <6>6
          <5> QED BY <3>6, <4>8, <5>2, <5>4, <5>5, <5>6
        <4>11. PriosOf(g)
          BY <4>8, <4>9, <4>10 DEF PriosOf
        <4> QED BY <3>15, <4>11, AgreeCarried DEF PriosOf
      <3>18. WalksToTheEnd => PriosOf(z)
        BY <3>17
      <3> QED BY <3>6, <3>13, <3>15, <3>16, <3>18 DEF Same
    <2> QED BY <2>1, <2>2
  <1>8. /\ pc' = [pc EXCEPT ![t] = "dead"] /\ timer' = [timer EXCEPT ![t] = FALSE]
        /\ hold' = hold /\ error' = error
    BY DEF Delete
  <1>9. pc'[t] = "dead" /\ timer'[t] = FALSE
        /\ \A u \in Threads : u # t => pc'[u] = pc[u] /\ timer'[u] = timer[u]
    BY <1>0, <1>8 DEF TypeOK
  <1>10. /\ hold' \in [Mutexes -> 0 .. HoldMax]
         /\ pc' \in [Threads -> {"run", "wait", "back", "sleep", "dead"}]
         /\ error' \in [Threads -> {"EOK", "ETIMEOUT"}]
         /\ timer' \in [Threads -> BOOLEAN]
    BY <1>0, <1>8 DEF TypeOK
  <1>11. W = {u \in Threads : pc'[u] = "wait"} /\ Waiting' = W
    BY <1>4, <1>9 DEF Waiting
  <1>12. TypeOK' /\ Listed' /\ InOrder' /\ (fault' = "assert" => setup'.debug)
    BY <1>0, <1>7, <1>10, <1>11, Applied
  <1>13. owner' = owner /\ pending' = [pending EXCEPT ![t] = NoMutex]
    BY <1>7 DEF Apply
  <1>14. pending'[t] = NoMutex /\ \A u \in Threads : u # t => pending'[u] = pending[u]
    BY <1>0, <1>13 DEF TypeOK
  <1>15. Waits'
    <2>1. ~setup.nested => \A n \in Mutexes : owner'[n] \notin Waiting'
      BY <1>0, <1>4, <1>11, <1>13 DEF Waits
    <2>2. \A u \in Threads :
            /\ pc'[u] = "wait" => /\ pending'[u] \in Mutexes /\ owner'[pending'[u]] # NoThread
                                  /\ error'[u] = "EOK"
            /\ timer'[u] => pc'[u] = "wait" /\ setup'.timed
            /\ pc'[u] = "back" /\ error'[u] # "EOK" => pending'[u] # NoMutex
            /\ ~setup'.timed /\ pending'[u] # NoMutex => pc'[u] = "wait"
            /\ pc'[u] = "sleep" => setup'.sleeps
      <3> TAKE u \in Threads
      <3>1. CASE u = t
        BY <1>9, <1>14, <3>1
      <3>2. CASE u # t
        <4>1. /\ pc'[u] = pc[u] /\ error'[u] = error[u] /\ timer'[u] = timer[u]
              /\ pending'[u] = pending[u]
          BY <1>8, <1>9, <1>14, <3>2
        <4> QED BY <1>0, <1>13, <4>1 DEF Waits
      <3> QED BY <3>1, <3>2
    <2> QED BY <1>0, <2>1, <2>2 DEF Waits
  <1>16. WalksToTheEnd => Prios'
    <2>1. /\ z.owner = owner' /\ z.list = list' /\ z.mprio = mprio' /\ z.prio = prio'
          /\ z.taken = taken'
      BY <1>7 DEF Apply
    <2> QED BY <1>7, <2>1, AppliedPrios DEF PriosOf
  <1> QED BY <1>12, <1>15, <1>16 DEF MutexInv, WalksToTheEnd

LEMMA NextStep ==
    ASSUME KeepsLists, MutexInv, [Next]_vars
    PROVE  MutexInv'
  <1>1. CASE UNCHANGED vars
    <2>1. /\ setup' = setup /\ owner' = owner /\ hold' = hold /\ mprio' = mprio
          /\ list' = list /\ prio' = prio /\ taken' = taken /\ pending' = pending
          /\ pc' = pc /\ error' = error /\ timer' = timer /\ fault' = fault
      BY <1>1 DEF vars, mutexv, threadv
    <2>2. Waits'
      BY <2>1 DEF MutexInv, Waits, Waiting
    <2>3. /\ hold' \in [Mutexes -> 0 .. HoldMax]
          /\ pc' \in [Threads -> {"run", "wait", "back", "sleep", "dead"}]
          /\ error' \in [Threads -> {"EOK", "ETIMEOUT"}]
          /\ timer' \in [Threads -> BOOLEAN]
      BY <2>1 DEF MutexInv, TypeOK
    <2> QED BY <2>1, <2>2, <2>3, QuietStep
  <1>2. CASE Next
    <2>1. fault = "none" /\ setup' = setup
      BY <1>2 DEF Next
    <2>2. ASSUME NEW t \in Threads, NEW m \in Mutexes,
                 \/ TakeAgain(t, m) \/ TakeFree(t, m) \/ TakeWait(t, m)
                 \/ ReleaseOne(t, m) \/ ReleaseFree(t, m) \/ ReleaseHandOver(t, m)
          PROVE  MutexInv'
      BY <2>1, <2>2, TakeAgainStep, TakeFreeStep, TakeWaitStep, ReleaseOneStep,
         ReleaseFreeStep, ReleaseHandOverStep
    <2>3. ASSUME NEW t \in Threads,
                 \/ Timeout(t) \/ TakeGot(t) \/ TakeFailed(t)
                 \/ Sleep(t) \/ Wake(t) \/ Delete(t)
          PROVE  MutexInv'
      BY <2>1, <2>3, TimeoutStep, MoveStep, TakeFailedStep, DeleteStep
    <2> QED BY <1>2, <2>2, <2>3 DEF Next
  <1> QED BY <1>1, <1>2

-----------------------------------------------------------------------------
(* The theorems *)

(* The inductive invariant of ipc.c: who is on which list and in which     *)
(* order, what a wait leaves in the thread, where RT_ASSERT may have       *)
(* stopped and, where it stops nothing, that a mutex is as urgent as its   *)
(* waiters and a thread as its mutexes.                                    *)
THEOREM MutexInvariant ==
    ASSUME KeepsLists
    PROVE  Spec => []MutexInv
  <1>1. Init => MutexInv
    BY MutexInit
  <1>2. MutexInv /\ [Next]_vars => MutexInv'
    BY NextStep
  <1> QED BY <1>1, <1>2, PTL DEF Spec

(* ipc.c, thread.c: every variable keeps its type. *)
THEOREM MutexTypeOK ==
    ASSUME KeepsLists
    PROVE  Spec => []TypeOK
  <1>1. MutexInv => TypeOK
    BY DEF MutexInv
  <1> QED BY <1>1, MutexInvariant, PTL

(* ipc.c, thread.c: the suspended list of every mutex holds exactly the    *)
(* threads blocked on it, each once, whatever _thread_update_priority,     *)
(* _thread_timeout and rt_thread_delete move, and a mutex somebody waits   *)
(* for has an owner.                                                       *)
THEOREM MutexWaitersListed ==
    ASSUME KeepsLists
    PROVE  Spec => []WaitersListed
  <1>1. MutexInv => WaitersListed
    <2> SUFFICES ASSUME MutexInv, NEW m \in Mutexes
                 PROVE  /\ \A t \in Threads : t \in ToSet(list[m])
                                              <=> pc[t] = "wait" /\ pending[t] = m
                        /\ \A i, j \in DOMAIN list[m] : list[m][i] = list[m][j] => i = j
                        /\ list[m] # <<>> => owner[m] # NoThread
      BY DEF WaitersListed
    <2>1. /\ \A t \in Threads : t \in ToSet(list[m]) <=> pc[t] = "wait" /\ pending[t] = m
          /\ \A i, j \in DOMAIN list[m] : list[m][i] = list[m][j] => i = j
      BY DEF MutexInv, Listed, Distinct
    <2>2. ASSUME list[m] # <<>> PROVE owner[m] # NoThread
      <3>1. PICK l \in Seq(Threads) : l = list[m]
        BY DEF MutexInv, TypeOK
      <3>2. PICK t \in Threads : t \in ToSet(l)
        BY <2>2, <3>1, HeadListed
      <3>3. pc[t] = "wait" /\ pending[t] = m
        BY <2>1, <3>1, <3>2
      <3> QED BY <3>3 DEF MutexInv, Waits
    <2> QED BY <2>1, <2>2
  <1> QED BY <1>1, MutexInvariant, PTL

(* ipc.c: rt_mutex_release hands the mutex to the waiter that is the most  *)
(* urgent now, also after the priorities of waiters were raised or given   *)
(* back.  Where a waiter may own a mutex, RT_ASSERT stops a kernel with    *)
(* RT_DEBUG between the new priority and the new place on the list.        *)
THEOREM MutexHandedToMostUrgent ==
    ASSUME KeepsLists, WalksToTheEnd
    PROVE  Spec => []HandedToMostUrgent
  <1>1. MutexInv => HandedToMostUrgent
    BY DEF MutexInv, InOrder, Waits, WalksToTheEnd
  <1> QED BY <1>1, MutexInvariant, PTL

(* ipc.c: no unbounded priority inversion.  Through any number of nested   *)
(* mutexes, after any timeout, deletion or release, the owner of a mutex   *)
(* without a ceiling is at least as urgent as each thread that waits for   *)
(* it: _thread_update_priority reaches the end of the chain of owners.     *)
THEOREM MutexNoInversion ==
    ASSUME KeepsLists, WalksToTheEnd
    PROVE  Spec => []NoInversion
  <1>1. MutexInv => NoInversion
    <2> SUFFICES ASSUME MutexInv, NEW m \in Mutexes, NEW t \in Threads,
                        setup.ceiling[m] = NoPrio, t \in ToSet(list[m])
                 PROVE  prio[owner[m]] <= prio[t]
      BY DEF NoInversion
    <2>0. TypeOK /\ Listed /\ Waits /\ Carried(Kernel) /\ OwnedTaken(Kernel)
      BY DEF MutexInv, Prios
    <2>1. pc[t] = "wait" /\ pending[t] = m /\ owner[m] # NoThread
      BY <2>0 DEF Listed, Waits
    <2>2. PICK o \in Threads : o = owner[m]
      BY <2>0, <2>1 DEF TypeOK
    <2>3. PICK k : k = Kernel
      OBVIOUS
    <2>4. k.owner = owner /\ k.list = list /\ k.mprio = mprio /\ k.prio = prio /\ k.taken = taken
      BY <2>3, KernelFields
    <2>5. m \in k.taken[o]
      BY <2>0, <2>1, <2>2, <2>3, <2>4 DEF OwnedTaken
    <2>6. prio[o] <= mprio[m]
      BY <2>0, <2>3, <2>4, <2>5 DEF Carried, Fits
    <2>7. mprio[m] <= prio[t]
      BY <2>0, <2>3, <2>4 DEF Carried, Heads
    <2>8. prio[o] \in Nat /\ mprio[m] \in Nat /\ prio[t] \in Nat
      BY <2>0, MutexFacts DEF TypeOK
    <2> QED BY <2>2, <2>6, <2>7, <2>8
  <1> QED BY <1>1, MutexInvariant, PTL

(* The waiters of the mutexes of t, by their priorities *)
Urgencies(t) ==
    {InitPrio[t]} \cup {prio[u] : u \in
        {v \in Threads : pc[v] = "wait" /\ pending[v] \in Owned(t)}}

(* ipc.c: what a thread inherited goes back with the mutex it was          *)
(* inherited through, whichever of them is released first and whether the  *)
(* waiter got the mutex or was deleted: without timeouts and ceilings a    *)
(* thread is exactly as urgent as itself and the waiters of its mutexes    *)
(* require.                                                                *)
THEOREM MutexExactInheritance ==
    ASSUME KeepsLists, WalksToTheEnd
    PROVE  Spec => []ExactInheritance
  <1>1. MutexInv => ExactInheritance
    <2> SUFFICES ASSUME MutexInv, ~setup.timed, NoCeiling, NEW t \in Threads
                 PROVE  prio[t] = Min(Urgencies(t))
      BY DEF ExactInheritance, Urgencies
    <2>0. /\ TypeOK /\ Listed /\ Waits /\ InOrder
          /\ Carried(Kernel) /\ OwnedTaken(Kernel) /\ Exactly(Kernel)
      BY DEF MutexInv, Prios
    <2>1. HandedToMostUrgent
      BY DEF MutexInv, InOrder, Waits, WalksToTheEnd
    <2>2. PICK k : k = Kernel
      OBVIOUS
    <2>3. k.owner = owner /\ k.list = list /\ k.mprio = mprio /\ k.prio = prio /\ k.taken = taken
      BY <2>2, KernelFields
    <2>4. k \in KernelType
      <3>1. NoPrio \in 0 .. NoPrio
        BY MutexFacts
      <3> QED BY <2>0, <2>2, <3>1 DEF Kernel, KernelType, TypeOK
    <2>5. PICK p \in Nat : p = prio[t] /\ p < NoPrio
      BY <2>3, <2>4, KernelNumbers
    <2>6. \A n \in Mutexes : owner[n] = t <=> n \in taken[t]
      <3>1. \A n \in Mutexes : owner[n] = t => n \in taken[t]
        BY <2>0, <2>2, <2>3, MutexFacts DEF OwnedTaken, NoCeiling
      <3>2. \A n \in taken[t] : owner[n] = t
        BY <2>0, <2>2, <2>3 DEF Carried, TakenOwned
      <3> QED BY <3>1, <3>2
    <2>7. p \in Urgencies(t)
      <3>1. p = ThreadPrio(k, t)
        BY <2>0, <2>2, <2>3, <2>5 DEF Exactly
      <3>2. CASE p = InitPrio[t]
        BY <3>2 DEF Urgencies
      <3>3. CASE \E n \in taken[t] : p = mprio[n]
        <4>1. PICK n \in taken[t] : p = mprio[n]
          BY <3>3
        <4>2. n \in Mutexes /\ n \in Owned(t)
          BY <2>0, <2>6, <4>1 DEF TypeOK, Owned
        <4>3. p = MutexPrio(k, n)
          BY <2>0, <2>2, <2>3, <4>1, <4>2 DEF Exactly
        <4>4. InPrioOrder(k.list[n], k.prio)
          BY <2>1, <2>3, <4>2 DEF HandedToMostUrgent
        <4>5. PICK u \in ToSet(k.list[n]) : p = k.prio[u]
          BY <2>4, <2>5, <4>2, <4>3, <4>4, FirstWaiter
        <4>6. u \in Threads
          BY <2>4, <4>2, ListedIn DEF KernelType
        <4>7. pc[u] = "wait" /\ pending[u] = n
          BY <2>0, <2>3, <4>2, <4>5, <4>6 DEF Listed
        <4> QED BY <2>3, <4>2, <4>5, <4>6, <4>7 DEF Urgencies
      <3> QED BY <2>3, <2>4, <3>1, <3>2, <3>3, ThreadPrioFacts
    <2>8. ASSUME NEW x \in Urgencies(t) PROVE p <= x /\ x \in Nat
      <3>1. CASE x = InitPrio[t]
        <4>1. Fits(k, t, k.prio[t])
          BY <2>0, <2>2 DEF Carried
        <4> QED BY <2>3, <2>5, <3>1, <4>1, MutexFacts DEF Fits
      <3>2. CASE x # InitPrio[t]
        <4>1. PICK u \in Threads : pc[u] = "wait" /\ pending[u] \in Owned(t) /\ x = prio[u]
          BY <3>2 DEF Urgencies
        <4>2. PICK n \in Mutexes : n = pending[u] /\ n \in taken[t]
          BY <2>6, <4>1 DEF Owned
        <4>3. u \in ToSet(list[n])
          BY <2>0, <4>1, <4>2 DEF Listed
        <4>4. mprio[n] <= x
          BY <2>0, <2>2, <2>3, <4>1, <4>3 DEF Carried, Heads
        <4>5. p <= mprio[n]
          BY <2>0, <2>2, <2>3, <2>5, <4>2 DEF Carried, Fits
        <4>6. mprio[n] \in Nat /\ x \in Nat
          BY <2>3, <2>4, <4>1, KernelNumbers
        <4> QED BY <4>4, <4>5, <4>6
      <3> QED BY <3>1, <3>2
    <2>9. Urgencies(t) \in SUBSET Nat /\ Urgencies(t) # {}
      BY <2>7, <2>8
    <2>10. Min(Urgencies(t)) \in Urgencies(t) /\ \A y \in Urgencies(t) : Min(Urgencies(t)) <= y
      BY <2>9, MinIsLeast
    <2>11. p <= Min(Urgencies(t)) /\ Min(Urgencies(t)) <= p /\ Min(Urgencies(t)) \in Nat
      BY <2>7, <2>8, <2>10
    <2> QED BY <2>5, <2>11
  <1> QED BY <1>1, MutexInvariant, PTL
=============================================================================
