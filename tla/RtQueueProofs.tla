--------------------------- MODULE RtQueueProofs ---------------------------
(***************************************************************************)
(* Proofs about RtQueue, for any finite sets of senders and receivers, any *)
(* messages and any size: the safety of the mailbox and the message queue, *)
(* and that both implement BoundedQueue.                                   *)
(***************************************************************************)
EXTENDS RtQueue, IpcListProofs, FiniteSetTheorems

(* A cell is in a thread's hand exactly while the thread copies, and a     *)
(* sender has a message exactly while its call is not finished.            *)
Places ==
    \A t \in Threads :
        /\ pc[t] = "link" => t \in Senders
        /\ pc[t] = "free" => t \in Receivers
        /\ hand[t] # NoCell <=> pc[t] \in {"copy", "link", "free"}
        /\ t \in Senders => (msg[t] # NoMsg <=> pc[t] # "idle")
        /\ t \in urgent => pc[t] \in {"copy", "link"}

TimerWaits == \A t \in Threads : timer[t] => pc[t] = "wait"

(* The mailbox: in_offset is where its entries end. *)
Ring ==
    kind = "mailbox" =>
        /\ queue = <<>> /\ free = <<>>
        /\ inOff = (outOff + entry) % Size
        /\ \A t \in Threads : pc[t] \notin {"copy", "link", "free"}

(* The message queue: no cell is in two places. *)
CellsApart ==
    /\ Distinct(queue) /\ Distinct(free)
    /\ ToSet(queue) \cap ToSet(free) = {}
    /\ \A t \in Threads : hand[t] # NoCell => hand[t] \notin ToSet(queue) \cup ToSet(free)
    /\ \A t, u \in Threads : hand[t] # NoCell /\ hand[t] = hand[u] => t = u

(* What a sender is about to link is what it was given. *)
LinkedIsCopied == \A t \in Threads : pc[t] = "link" => pool[hand[t]] = msg[t]

WaitInv == WaitersListed /\ TimerWaits /\ Places
CountInv == NoForgottenReceiver /\ NoForgottenSender
CellInv == Ring /\ CellsConserved /\ CellsApart /\ LinkedIsCopied

QueueInv == TypeOK /\ WaitInv /\ CountInv /\ CellInv

-----------------------------------------------------------------------------
(* Senders and receivers are different threads, and finitely many. *)
LEMMA ThreadFacts ==
    /\ Senders \subseteq Threads /\ Receivers \subseteq Threads
    /\ \A t \in Threads : (t \in Senders /\ t \notin Receivers) \/ (t \in Receivers /\ t \notin Senders)
    /\ IsFiniteSet(Threads)
  <1>1. IsFiniteSet(Threads)
    BY QueueAssumption, FS_Union DEF Threads
  <1> QED BY <1>1, QueueAssumption DEF Threads

(* The resumed threads of a set can be counted. *)
LEMMA ResumedCount ==
    ASSUME NEW T \in SUBSET Threads
    PROVE  IsFiniteSet(Resumed(T)) /\ Cardinality(Resumed(T)) \in Nat
  <1>1. Resumed(T) \subseteq Threads
    BY DEF Resumed
  <1>2. IsFiniteSet(Resumed(T))
    BY <1>1, ThreadFacts, FS_Subset
  <1> QED BY <1>2, FS_CardinalityType

(* Taking one out of a finite set takes away at most one. *)
LEMMA CountRemove ==
    ASSUME NEW A, IsFiniteSet(A), NEW x
    PROVE  /\ Cardinality(A) \in Nat /\ Cardinality(A \ {x}) \in Nat
           /\ x \in A => Cardinality(A \ {x}) = Cardinality(A) - 1
           /\ x \notin A => Cardinality(A \ {x}) = Cardinality(A)
           /\ Cardinality(A) <= Cardinality(A \ {x}) + 1
  <1>1. Cardinality(A) \in Nat
    BY FS_CardinalityType
  <1>2. /\ IsFiniteSet(A \ {x})
        /\ Cardinality(A \ {x}) = IF x \in A THEN Cardinality(A) - 1 ELSE Cardinality(A)
    BY FS_RemoveElement
  <1>3. Cardinality(A \ {x}) \in Nat
    BY <1>2, FS_CardinalityType
  <1> QED BY <1>1, <1>2, <1>3

(* Adding one adds one. *)
LEMMA CountAdd ==
    ASSUME NEW A, IsFiniteSet(A), NEW x, x \notin A
    PROVE  Cardinality(A \cup {x}) = Cardinality(A) + 1
  BY FS_AddElement

(* The first thread of a list and the others. *)
LEMMA FirstRest ==
    ASSUME NEW S, NEW list \in Seq(S), Distinct(list)
    PROVE  /\ First(list) \subseteq ToSet(list)
           /\ Rest(list) \in Seq(S) /\ Distinct(Rest(list))
           /\ ToSet(Rest(list)) = ToSet(list) \ First(list)
           /\ Rest(list) # <<>> => list # <<>>
           /\ list # <<>> => First(list) = {Head(list)} /\ Head(list) \in ToSet(list)
  <1>1. CASE list = <<>>
    BY <1>1 DEF First, Rest, ToSet
  <1>2. CASE list # <<>>
    <2>1. First(list) = {Head(list)} /\ Rest(list) = Tail(list)
      BY <1>2 DEF First, Rest
    <2> QED BY <1>2, <2>1, TailProperties
  <1> QED BY <1>1, <1>2

(* Who is listed waits, where it belongs. *)
LEMMA ListedWaits ==
    ASSUME TypeOK, WaitersListed
    PROVE  /\ Distinct(rlist) /\ Distinct(slist)
           /\ ToSet(rlist) \subseteq Receivers /\ ToSet(slist) \subseteq Senders
           /\ \A t \in ToSet(rlist) \cup ToSet(slist) : t \in Threads /\ pc[t] = "wait"
           /\ \A t \in Receivers : t \in ToSet(rlist) <=> pc[t] = "wait"
           /\ \A t \in Senders : t \in ToSet(slist) <=> pc[t] = "wait"
  <1>1. Distinct(rlist) /\ Distinct(slist)
    BY DEF WaitersListed, Distinct
  <1>2. ToSet(rlist) \subseteq Receivers /\ ToSet(slist) \subseteq Senders
    BY ListedIn DEF TypeOK
  <1> QED BY <1>1, <1>2, ThreadFacts DEF WaitersListed

(* WaitersListed, list by list. *)
LEMMA WaitersListedIf ==
    ASSUME \A t \in Receivers : t \in ToSet(rlist) <=> pc[t] = "wait",
           \A t \in Senders : t \in ToSet(slist) <=> pc[t] = "wait",
           ToSet(rlist) \subseteq Receivers, ToSet(slist) \subseteq Senders,
           Distinct(rlist), Distinct(slist)
    PROVE  WaitersListed
  BY ThreadFacts DEF WaitersListed, Distinct

(* Resuming threads that wait, while t ends its call. *)
LEMMA StepKeeps ==
    ASSUME TypeOK, TimerWaits, NEW t \in Threads, pc[t] # "wait",
           NEW W \in SUBSET Threads, \A u \in W : pc[u] = "wait", Step(t, "idle", W)
    PROVE  /\ pc' \in [Threads -> {"idle", "wait", "back", "failed", "copy", "link", "free"}]
           /\ timer' \in [Threads -> BOOLEAN]
           /\ TimerWaits'
           /\ \A u \in Threads : pc'[u] = IF u \in W THEN "back"
                                           ELSE IF u = t THEN "idle" ELSE pc[u]
           /\ \A T \in SUBSET Threads : Resumed(T)' = (Resumed(T) \ {t}) \cup (W \cap T)
  <1>1. /\ pc' = [u \in Threads |-> IF u \in W THEN "back"
                                    ELSE IF u = t THEN "idle" ELSE pc[u]]
        /\ timer' = [u \in Threads |-> timer[u] /\ u \notin W]
    BY DEF Step
  <1>2. timer' \in [Threads -> BOOLEAN]
    BY <1>1, Zenon
  <1>3. pc' \in [Threads -> {"idle", "wait", "back", "failed", "copy", "link", "free"}]
    BY <1>1 DEF TypeOK
  <1>4. \A u \in Threads : timer'[u] => timer[u] /\ u \notin W
    BY <1>1
  <1>5. TimerWaits'
    BY <1>1, <1>4 DEF TimerWaits
  <1>6. ASSUME NEW T \in SUBSET Threads
        PROVE  Resumed(T)' = (Resumed(T) \ {t}) \cup (W \cap T)
    BY <1>1 DEF Resumed
  <1> QED BY <1>1, <1>2, <1>3, <1>5, <1>6

(* "resume suspended thread": a receiver *)
LEMMA WakeReceiverKeeps ==
    ASSUME TypeOK, WaitersListed, TimerWaits, NEW t \in Threads, pc[t] # "wait",
           WakeReceiver(t, "idle")
    PROVE  /\ pc' \in [Threads -> {"idle", "wait", "back", "failed", "copy", "link", "free"}]
           /\ timer' \in [Threads -> BOOLEAN]
           /\ rlist' \in Seq(Receivers) /\ slist' = slist
           /\ WaitersListed' /\ TimerWaits'
           /\ \A u \in Threads : u # t => pc'[u] = pc[u] \/ (pc[u] = "wait" /\ pc'[u] = "back")
           /\ pc'[t] = "idle"
           /\ Resumed(Senders)' = Resumed(Senders) \ {t}
           /\ rlist' # <<>> => rlist # <<>> /\ \E h \in Receivers :
                  pc[h] = "wait" /\ Resumed(Receivers)' = (Resumed(Receivers) \ {t}) \cup {h}
  <1> DEFINE W == First(rlist)
  <1>0. /\ rlist \in Seq(Receivers) /\ slist \in Seq(Senders)
    BY DEF TypeOK
  <1>1. /\ Distinct(rlist) /\ Distinct(slist)
        /\ ToSet(rlist) \subseteq Receivers /\ ToSet(slist) \subseteq Senders
        /\ \A u \in ToSet(rlist) \cup ToSet(slist) : u \in Threads /\ pc[u] = "wait"
        /\ \A u \in Receivers : u \in ToSet(rlist) <=> pc[u] = "wait"
        /\ \A u \in Senders : u \in ToSet(slist) <=> pc[u] = "wait"
    BY ListedWaits
  <1>2. /\ W \subseteq ToSet(rlist)
        /\ Rest(rlist) \in Seq(Receivers) /\ Distinct(Rest(rlist))
        /\ ToSet(Rest(rlist)) = ToSet(rlist) \ W
        /\ Rest(rlist) # <<>> => rlist # <<>>
        /\ rlist # <<>> => W = {Head(rlist)} /\ Head(rlist) \in ToSet(rlist)
    BY <1>0, <1>1, FirstRest
  <1> HIDE DEF W
  <1>3. /\ Step(t, "idle", W) /\ rlist' = Rest(rlist) /\ slist' = slist
    BY DEF WakeReceiver, W
  <1>4. W \in SUBSET Threads /\ \A u \in W : pc[u] = "wait" /\ u \in Receivers
    BY <1>1, <1>2
  <1>5. /\ pc' \in [Threads -> {"idle", "wait", "back", "failed", "copy", "link", "free"}]
        /\ timer' \in [Threads -> BOOLEAN]
        /\ TimerWaits'
        /\ \A u \in Threads : pc'[u] = IF u \in W THEN "back"
                                        ELSE IF u = t THEN "idle" ELSE pc[u]
        /\ \A T \in SUBSET Threads : Resumed(T)' = (Resumed(T) \ {t}) \cup (W \cap T)
    BY <1>3, <1>4, StepKeeps
  <1>6. WaitersListed'
    <2>1. \A u \in Receivers : u \in ToSet(rlist') <=> pc'[u] = "wait"
      BY <1>1, <1>2, <1>3, <1>5, ThreadFacts
    <2>2. \A u \in Senders : u \in ToSet(slist') <=> pc'[u] = "wait"
      BY <1>1, <1>3, <1>4, <1>5, ThreadFacts
    <2>3. ToSet(rlist') \subseteq Receivers /\ ToSet(slist') \subseteq Senders
      BY <1>1, <1>2, <1>3
    <2>4. Distinct(rlist') /\ Distinct(slist')
      BY <1>1, <1>2, <1>3
    <2> QED BY <2>1, <2>2, <2>3, <2>4, ThreadFacts DEF WaitersListed, Distinct
  <1>7. Resumed(Senders)' = Resumed(Senders) \ {t}
    BY <1>4, <1>5, ThreadFacts
  <1>8. rlist' # <<>> => rlist # <<>> /\ \E h \in Receivers :
            pc[h] = "wait" /\ Resumed(Receivers)' = (Resumed(Receivers) \ {t}) \cup {h}
    <2> SUFFICES ASSUME rlist' # <<>>
                 PROVE  rlist # <<>> /\ \E h \in Receivers :
                           pc[h] = "wait" /\ Resumed(Receivers)' = (Resumed(Receivers) \ {t}) \cup {h}
      OBVIOUS
    <2>1. rlist # <<>> /\ W = {Head(rlist)} /\ Head(rlist) \in Receivers /\ pc[Head(rlist)] = "wait"
      BY <1>1, <1>2, <1>3
    <2>2. Resumed(Receivers)' = (Resumed(Receivers) \ {t}) \cup (W \cap Receivers)
      BY <1>5, ThreadFacts
    <2> QED BY <2>1, <2>2
  <1>9. pc'[t] = "idle" /\ \A u \in Threads : u # t => pc'[u] = pc[u] \/ (pc[u] = "wait" /\ pc'[u] = "back")
    BY <1>4, <1>5
  <1> QED BY <1>2, <1>3, <1>5, <1>6, <1>7, <1>8, <1>9

(* ... and a sender *)
LEMMA WakeSenderKeeps ==
    ASSUME TypeOK, WaitersListed, TimerWaits, NEW t \in Threads, pc[t] # "wait",
           WakeSender(t, "idle")
    PROVE  /\ pc' \in [Threads -> {"idle", "wait", "back", "failed", "copy", "link", "free"}]
           /\ timer' \in [Threads -> BOOLEAN]
           /\ slist' \in Seq(Senders) /\ rlist' = rlist
           /\ WaitersListed' /\ TimerWaits'
           /\ \A u \in Threads : u # t => pc'[u] = pc[u] \/ (pc[u] = "wait" /\ pc'[u] = "back")
           /\ pc'[t] = "idle"
           /\ Resumed(Receivers)' = Resumed(Receivers) \ {t}
           /\ slist' # <<>> => slist # <<>> /\ \E h \in Senders :
                  pc[h] = "wait" /\ Resumed(Senders)' = (Resumed(Senders) \ {t}) \cup {h}
  <1> DEFINE W == First(slist)
  <1>0. /\ rlist \in Seq(Receivers) /\ slist \in Seq(Senders)
    BY DEF TypeOK
  <1>1. /\ Distinct(rlist) /\ Distinct(slist)
        /\ ToSet(rlist) \subseteq Receivers /\ ToSet(slist) \subseteq Senders
        /\ \A u \in ToSet(rlist) \cup ToSet(slist) : u \in Threads /\ pc[u] = "wait"
        /\ \A u \in Receivers : u \in ToSet(rlist) <=> pc[u] = "wait"
        /\ \A u \in Senders : u \in ToSet(slist) <=> pc[u] = "wait"
    BY ListedWaits
  <1>2. /\ W \subseteq ToSet(slist)
        /\ Rest(slist) \in Seq(Senders) /\ Distinct(Rest(slist))
        /\ ToSet(Rest(slist)) = ToSet(slist) \ W
        /\ Rest(slist) # <<>> => slist # <<>>
        /\ slist # <<>> => W = {Head(slist)} /\ Head(slist) \in ToSet(slist)
    BY <1>0, <1>1, FirstRest
  <1> HIDE DEF W
  <1>3. /\ Step(t, "idle", W) /\ slist' = Rest(slist) /\ rlist' = rlist
    BY DEF WakeSender, W
  <1>4. W \in SUBSET Threads /\ \A u \in W : pc[u] = "wait" /\ u \in Senders
    BY <1>1, <1>2
  <1>5. /\ pc' \in [Threads -> {"idle", "wait", "back", "failed", "copy", "link", "free"}]
        /\ timer' \in [Threads -> BOOLEAN]
        /\ TimerWaits'
        /\ \A u \in Threads : pc'[u] = IF u \in W THEN "back"
                                        ELSE IF u = t THEN "idle" ELSE pc[u]
        /\ \A T \in SUBSET Threads : Resumed(T)' = (Resumed(T) \ {t}) \cup (W \cap T)
    BY <1>3, <1>4, StepKeeps
  <1>6. WaitersListed'
    <2>1. \A u \in Senders : u \in ToSet(slist') <=> pc'[u] = "wait"
      BY <1>1, <1>2, <1>3, <1>5, ThreadFacts
    <2>2. \A u \in Receivers : u \in ToSet(rlist') <=> pc'[u] = "wait"
      BY <1>1, <1>3, <1>4, <1>5, ThreadFacts
    <2>3. ToSet(rlist') \subseteq Receivers /\ ToSet(slist') \subseteq Senders
      BY <1>1, <1>2, <1>3
    <2>4. Distinct(rlist') /\ Distinct(slist')
      BY <1>1, <1>2, <1>3
    <2> QED BY <2>1, <2>2, <2>3, <2>4, ThreadFacts DEF WaitersListed, Distinct
  <1>7. Resumed(Receivers)' = Resumed(Receivers) \ {t}
    BY <1>4, <1>5, ThreadFacts
  <1>8. slist' # <<>> => slist # <<>> /\ \E h \in Senders :
            pc[h] = "wait" /\ Resumed(Senders)' = (Resumed(Senders) \ {t}) \cup {h}
    <2> SUFFICES ASSUME slist' # <<>>
                 PROVE  slist # <<>> /\ \E h \in Senders :
                           pc[h] = "wait" /\ Resumed(Senders)' = (Resumed(Senders) \ {t}) \cup {h}
      OBVIOUS
    <2>1. slist # <<>> /\ W = {Head(slist)} /\ Head(slist) \in Senders /\ pc[Head(slist)] = "wait"
      BY <1>1, <1>2, <1>3
    <2>2. Resumed(Senders)' = (Resumed(Senders) \ {t}) \cup (W \cap Senders)
      BY <1>5, ThreadFacts
    <2> QED BY <2>1, <2>2
  <1>9. pc'[t] = "idle" /\ \A u \in Threads : u # t => pc'[u] = pc[u] \/ (pc[u] = "wait" /\ pc'[u] = "back")
    BY <1>4, <1>5
  <1> QED BY <1>2, <1>3, <1>5, <1>6, <1>7, <1>8, <1>9

-----------------------------------------------------------------------------
(* Arithmetic of the ring: one turn at most. *)
LEMMA RingPlace ==
    ASSUME NEW a \in Cells, NEW n \in 0 .. Size
    PROVE  (a + n) % Size = IF a + n < Size THEN a + n ELSE a + n - Size
  <1>1. Size \in Nat /\ Size > 0 /\ a \in Nat /\ a < Size /\ n \in Nat /\ n <= Size
    BY QueueAssumption DEF Cells
  <1> HIDE DEF Cells
  <1>2. CASE a + n < Size
    BY <1>1, <1>2
  <1>3. CASE a + n >= Size
    <2>1. a + n = 1 * Size + (a + n - Size) /\ a + n - Size \in 0 .. Size - 1
      BY <1>1, <1>3
    <2> QED BY <1>1, <1>3, <2>1
  <1> QED BY <1>1, <1>2, <1>3

(* The resumed threads still suffice when one of them is used up for what  *)
(* it was resumed for, ...                                                 *)
LEMMA CountKept ==
    ASSUME NEW A \in SUBSET Threads, NEW B \in SUBSET Threads, NEW t, A \ {t} \subseteq B,
           NEW n \in Int, n <= Cardinality(A), NEW k \in Int,
           k <= n - 1 \/ (k <= n /\ t \notin A)
    PROVE  k <= Cardinality(B)
  <1>1. IsFiniteSet(A) /\ IsFiniteSet(B) /\ IsFiniteSet(A \ {t})
    BY ThreadFacts, FS_Subset
  <1>2. /\ Cardinality(A) \in Nat /\ Cardinality(A \ {t}) \in Nat
        /\ t \notin A => Cardinality(A \ {t}) = Cardinality(A)
        /\ Cardinality(A) <= Cardinality(A \ {t}) + 1
    BY <1>1, CountRemove
  <1>3. Cardinality(B) \in Nat /\ Cardinality(A \ {t}) <= Cardinality(B)
    BY <1>1, FS_Subset, FS_CardinalityType
  <1> QED BY <1>2, <1>3

(* ... and when one more is resumed for what was added. *)
LEMMA CountGrown ==
    ASSUME NEW A \in SUBSET Threads, NEW B, NEW h \in Threads, h \notin A, B = A \cup {h},
           NEW n \in Int, n <= Cardinality(A)
    PROVE  n + 1 <= Cardinality(B)
  <1>1. IsFiniteSet(A)
    BY ThreadFacts, FS_Subset
  <1>2. Cardinality(A) \in Nat /\ Cardinality(B) = Cardinality(A) + 1
    BY <1>1, CountAdd, FS_CardinalityType
  <1> QED BY <1>2

LEMMA RoomType ==
    ASSUME TypeOK
    PROVE  Room \in Int
  BY QueueAssumption DEF TypeOK, Room, Cells

(* A message more, and a receiver resumed for it. *)
LEMMA MessageAdded ==
    ASSUME TypeOK, WaitersListed, TimerWaits, NoForgottenReceiver,
           NEW s \in Senders, pc[s] # "wait", WakeReceiver(s, "idle"), entry' = entry + 1
    PROVE  NoForgottenReceiver'
  <1> SUFFICES ASSUME rlist' # <<>>
               PROVE  entry' <= Cardinality(Resumed(Receivers)')
    BY DEF NoForgottenReceiver
  <1>0. s \in Threads /\ s \notin Receivers /\ Receivers \subseteq Threads
    BY ThreadFacts
  <1>1. PICK h \in Receivers : /\ rlist # <<>> /\ pc[h] = "wait"
                               /\ Resumed(Receivers)' = (Resumed(Receivers) \ {s}) \cup {h}
    BY <1>0, WakeReceiverKeeps
  <1>2. /\ h \notin Resumed(Receivers) /\ Resumed(Receivers) \in SUBSET Threads
        /\ Resumed(Receivers)' = Resumed(Receivers) \cup {h} /\ h \in Threads
    BY <1>0, <1>1 DEF Resumed
  <1>3. entry \in Int /\ entry <= Cardinality(Resumed(Receivers))
    BY <1>1, QueueAssumption DEF TypeOK, NoForgottenReceiver
  <1>4. entry + 1 <= Cardinality(Resumed(Receivers)')
    BY <1>2, <1>3, CountGrown
  <1> QED BY <1>4

(* A place more, and a sender resumed for it. *)
LEMMA RoomAdded ==
    ASSUME TypeOK, WaitersListed, TimerWaits, NoForgottenSender,
           NEW r \in Receivers, pc[r] # "wait", WakeSender(r, "idle"), Room' = Room + 1
    PROVE  NoForgottenSender'
  <1> SUFFICES ASSUME slist' # <<>>
               PROVE  Room' <= Cardinality(Resumed(Senders)')
    BY DEF NoForgottenSender
  <1>0. r \in Threads /\ r \notin Senders /\ Senders \subseteq Threads
    BY ThreadFacts
  <1>1. PICK h \in Senders : /\ slist # <<>> /\ pc[h] = "wait"
                             /\ Resumed(Senders)' = (Resumed(Senders) \ {r}) \cup {h}
    BY <1>0, WakeSenderKeeps
  <1>2. /\ h \notin Resumed(Senders) /\ Resumed(Senders) \in SUBSET Threads
        /\ Resumed(Senders)' = Resumed(Senders) \cup {h} /\ h \in Threads
    BY <1>0, <1>1 DEF Resumed
  <1>3. Room \in Int /\ Room <= Cardinality(Resumed(Senders))
    BY <1>1, RoomType DEF NoForgottenSender
  <1>4. Room + 1 <= Cardinality(Resumed(Senders)')
    BY <1>2, <1>3, CountGrown
  <1> QED BY <1>4

(* A thread that leaves the resumed ones leaves with what it was resumed   *)
(* for: a receiver with a message, ...                                     *)
LEMMA ReceiversSuffice ==
    ASSUME TypeOK, NoForgottenReceiver, NEW t,
           Resumed(Receivers) \ {t} \subseteq Resumed(Receivers)',
           rlist' # <<>> => rlist # <<>>, entry' \in Int,
           entry' <= entry - 1 \/ (entry' <= entry /\ t \notin Resumed(Receivers))
    PROVE  NoForgottenReceiver'
  <1> SUFFICES ASSUME rlist' # <<>>
               PROVE  entry' <= Cardinality(Resumed(Receivers)')
    BY DEF NoForgottenReceiver
  <1>1. Resumed(Receivers) \in SUBSET Threads /\ Resumed(Receivers)' \in SUBSET Threads
    BY ThreadFacts DEF Resumed
  <1>2. entry \in Int /\ entry <= Cardinality(Resumed(Receivers))
    BY QueueAssumption DEF TypeOK, NoForgottenReceiver
  <1> QED BY <1>1, <1>2, CountKept

(* ... a sender with a place. *)
LEMMA SendersSuffice ==
    ASSUME TypeOK, NoForgottenSender, NEW t,
           Resumed(Senders) \ {t} \subseteq Resumed(Senders)',
           slist' # <<>> => slist # <<>>, Room' \in Int,
           Room' <= Room - 1 \/ (Room' <= Room /\ t \notin Resumed(Senders))
    PROVE  NoForgottenSender'
  <1> SUFFICES ASSUME slist' # <<>>
               PROVE  Room' <= Cardinality(Resumed(Senders)')
    BY DEF NoForgottenSender
  <1>1. Resumed(Senders) \in SUBSET Threads /\ Resumed(Senders)' \in SUBSET Threads
    BY ThreadFacts DEF Resumed
  <1>2. Room \in Int /\ Room <= Cardinality(Resumed(Senders))
    BY RoomType DEF NoForgottenSender
  <1> QED BY <1>1, <1>2, CountKept

-----------------------------------------------------------------------------
(* Who calls is not suspended and holds no cell. *)
LEMMA CallerFacts ==
    ASSUME QueueInv, NEW t \in Threads, pc[t] \in {"idle", "back"}
    PROVE  /\ pc[t] # "wait" /\ ~timer[t] /\ hand[t] = NoCell /\ t \notin urgent
           /\ t \notin ToSet(rlist) /\ t \notin ToSet(slist)
  <1>1. pc[t] # "wait" /\ pc[t] # "copy" /\ pc[t] # "link" /\ pc[t] # "free"
    OBVIOUS
  <1>2. ~timer[t]
    BY <1>1 DEF QueueInv, WaitInv, TimerWaits
  <1>3. hand[t] = NoCell /\ t \notin urgent
    BY <1>1 DEF QueueInv, WaitInv, Places
  <1>4. t \notin ToSet(rlist) /\ t \notin ToSet(slist)
    BY <1>1 DEF QueueInv, WaitInv, WaitersListed
  <1> QED BY <1>1, <1>2, <1>3, <1>4

(* A mailbox has no cells; what counts is the ring. *)
LEMMA RingKept ==
    ASSUME QueueInv, kind = "mailbox", UNCHANGED <<kind, queue, free, hand>>,
           \A t \in Threads : pc'[t] = pc[t] \/ pc'[t] \in {"idle", "wait", "back", "failed"},
           inOff' = (outOff' + entry') % Size
    PROVE  CellInv'
  <1>1. Ring'
    BY DEF QueueInv, CellInv, Ring
  <1>2. CellsConserved'
    BY DEF CellsConserved
  <1>3. CellsApart'
    BY DEF QueueInv, CellInv, CellsApart
  <1>4. LinkedIsCopied'
    BY <1>1 DEF Ring, LinkedIsCopied
  <1> QED BY <1>1, <1>2, <1>3, <1>4 DEF CellInv

(* The offset after an offset *)
LEMMA NextOffPlace ==
    ASSUME NEW a \in Cells, NEW n \in 0 .. Size
    PROVE  /\ NextOff(a) \in Cells
           /\ n < Size => (a + (n + 1)) % Size = NextOff((a + n) % Size)
           /\ n > 0 => (NextOff(a) + (n - 1)) % Size = (a + n) % Size
  <1>1. Size \in Nat /\ Size > 0 /\ a \in Nat /\ a < Size /\ n \in Nat /\ n <= Size
    BY QueueAssumption DEF Cells
  <1>2. (a + n) % Size = IF a + n < Size THEN a + n ELSE a + n - Size
    BY RingPlace
  <1>3. NextOff(a) \in Cells /\ NextOff(a) = IF a + 1 >= Size THEN 0 ELSE a + 1
    BY <1>1 DEF NextOff, Cells
  <1>4. ASSUME n < Size PROVE (a + (n + 1)) % Size = NextOff((a + n) % Size)
    <2>1. (a + (n + 1)) % Size = IF a + (n + 1) < Size THEN a + (n + 1) ELSE a + (n + 1) - Size
      BY <1>1, <1>4, RingPlace
    <2> QED BY <1>1, <1>2, <1>4, <2>1 DEF NextOff
  <1>5. ASSUME n > 0 PROVE (NextOff(a) + (n - 1)) % Size = (a + n) % Size
    <2>1. n - 1 \in 0 .. Size
      BY <1>1, <1>5
    <2>2. (NextOff(a) + (n - 1)) % Size =
             IF NextOff(a) + (n - 1) < Size THEN NextOff(a) + (n - 1) ELSE NextOff(a) + (n - 1) - Size
      BY <1>3, <2>1, RingPlace
    <2> QED BY <1>1, <1>2, <1>3, <2>2
  <1> QED BY <1>3, <1>4, <1>5

(* rt_mb_send_wait *)
LEMMA MbSendKeeps ==
    ASSUME QueueInv, NEW s \in Senders, NEW m \in Msgs, NEW left, MbSend(s, left, m)
    PROVE  QueueInv'
  <1>0. s \in Threads /\ s \notin Receivers /\ Senders \subseteq Threads
    BY ThreadFacts
  <1>1. /\ kind = "mailbox" /\ kind' = kind /\ pc[s] \in {"idle", "back"} /\ entry # Size
        /\ pool' = [pool EXCEPT ![inOff] = m] /\ inOff' = NextOff(inOff) /\ outOff' = outOff
        /\ entry' = entry + 1 /\ WakeReceiver(s, "idle")
        /\ tmo' = [tmo EXCEPT ![s] = "none"] /\ msg' = [msg EXCEPT ![s] = NoMsg]
        /\ queue' = queue /\ free' = free /\ urgent' = urgent /\ hand' = hand
    BY DEF MbSend, EnterSend, Enter, Full
  <1>2. TypeOK /\ WaitersListed /\ TimerWaits /\ Places /\ NoForgottenReceiver /\ NoForgottenSender
    BY DEF QueueInv, WaitInv, CountInv
  <1>3. /\ pc[s] # "wait" /\ hand[s] = NoCell /\ s \notin urgent
    BY <1>0, <1>1, CallerFacts
  <1>4. /\ pc' \in [Threads -> {"idle", "wait", "back", "failed", "copy", "link", "free"}]
        /\ timer' \in [Threads -> BOOLEAN]
        /\ rlist' \in Seq(Receivers) /\ slist' = slist
        /\ WaitersListed' /\ TimerWaits'
        /\ \A u \in Threads : u # s => pc'[u] = pc[u] \/ (pc[u] = "wait" /\ pc'[u] = "back")
        /\ pc'[s] = "idle"
        /\ Resumed(Senders)' = Resumed(Senders) \ {s}
    BY <1>0, <1>1, <1>2, <1>3, WakeReceiverKeeps
  <1>5. entry \in 0 .. Size /\ entry < Size /\ entry' \in 0 .. Size /\ entry' \in Int
    BY <1>1, <1>2, QueueAssumption DEF TypeOK
  <1>6. inOff \in Cells /\ outOff \in Cells /\ inOff' \in Cells
    BY <1>1, <1>2, NextOffPlace, <1>5 DEF TypeOK
  <1>r. ret' \in [Senders -> Results]
    BY DEF QueueInv, TypeOK, MbSend, Returns, Results
  <1>7. TypeOK'
    <2>1. pool' \in [Cells -> Msgs \cup {NoMsg}]
      BY <1>1, <1>2 DEF TypeOK
    <2>2. tmo' \in [Threads -> {"none", "ticks", "forever"}] /\ msg' \in [Threads -> Msgs \cup {NoMsg}]
      BY <1>1, <1>2 DEF TypeOK
    <2> QED BY <1>1, <1>2, <1>4, <1>5, <1>6, <2>1, <2>2, <1>r DEF TypeOK
  <1>8. Places'
    BY <1>0, <1>1, <1>2, <1>3, <1>4 DEF Places, TypeOK
  <1>9. NoForgottenReceiver'
    BY <1>1, <1>2, <1>3, MessageAdded
  <1>10. NoForgottenSender'
    <2>1. Room' = Room - 1 /\ Room' \in Int
      BY <1>1, <1>5, QueueAssumption DEF Room
    <2>2. Room' <= Room - 1
      BY <2>1, <1>2, RoomType
    <2>3. Resumed(Senders) \ {s} \subseteq Resumed(Senders)' /\ (slist' # <<>> => slist # <<>>)
      BY <1>4
    <2> QED BY <1>2, <2>1, <2>2, <2>3, SendersSuffice
  <1>11. CellInv'
    <2>1. inOff = (outOff + entry) % Size
      BY <1>1 DEF QueueInv, CellInv, Ring
    <2>2. inOff' = (outOff' + entry') % Size
      BY <1>1, <1>5, <1>6, <2>1, NextOffPlace
    <2>3. \A t \in Threads : pc'[t] = pc[t] \/ pc'[t] \in {"idle", "wait", "back", "failed"}
      BY <1>4
    <2> QED BY <1>1, <2>2, <2>3, RingKept
  <1> QED BY <1>4, <1>7, <1>8, <1>9, <1>10, <1>11 DEF QueueInv, WaitInv, CountInv

(* rt_mb_urgent *)
LEMMA MbUrgentKeeps ==
    ASSUME QueueInv, NEW s \in Senders, NEW m \in Msgs, MbUrgent(s, m)
    PROVE  QueueInv'
  <1>0. s \in Threads /\ s \notin Receivers /\ Senders \subseteq Threads
    BY ThreadFacts
  <1>1. /\ kind = "mailbox" /\ kind' = kind /\ pc[s] = "idle" /\ entry # Size
        /\ outOff' = IF outOff > 0 THEN outOff - 1 ELSE Size - 1
        /\ pool' = [pool EXCEPT ![outOff'] = m] /\ inOff' = inOff
        /\ entry' = entry + 1 /\ WakeReceiver(s, "idle")
        /\ tmo' = tmo /\ msg' = msg
        /\ queue' = queue /\ free' = free /\ urgent' = urgent /\ hand' = hand
    BY DEF MbUrgent, Full, local
  <1>2. TypeOK /\ WaitersListed /\ TimerWaits /\ Places /\ NoForgottenReceiver /\ NoForgottenSender
    BY DEF QueueInv, WaitInv, CountInv
  <1>3. /\ pc[s] # "wait" /\ hand[s] = NoCell /\ s \notin urgent
    BY <1>0, <1>1, CallerFacts
  <1>4. /\ pc' \in [Threads -> {"idle", "wait", "back", "failed", "copy", "link", "free"}]
        /\ timer' \in [Threads -> BOOLEAN]
        /\ rlist' \in Seq(Receivers) /\ slist' = slist
        /\ WaitersListed' /\ TimerWaits'
        /\ \A u \in Threads : u # s => pc'[u] = pc[u] \/ (pc[u] = "wait" /\ pc'[u] = "back")
        /\ pc'[s] = "idle"
        /\ Resumed(Senders)' = Resumed(Senders) \ {s}
    BY <1>0, <1>1, <1>2, <1>3, WakeReceiverKeeps
  <1>5. entry \in 0 .. Size /\ entry < Size /\ entry' \in 0 .. Size /\ entry' \in Int
    BY <1>1, <1>2, QueueAssumption DEF TypeOK
  <1>6. outOff \in Cells /\ outOff' \in Cells /\ outOff = NextOff(outOff')
    BY <1>1, <1>2, QueueAssumption DEF TypeOK, Cells, NextOff
  <1>r. ret' \in [Senders -> Results]
    BY DEF QueueInv, TypeOK, MbUrgent, Returns, Results
  <1>7. TypeOK'
    <2>1. pool' \in [Cells -> Msgs \cup {NoMsg}]
      BY <1>1, <1>2 DEF TypeOK
    <2> QED BY <1>1, <1>2, <1>4, <1>5, <1>6, <2>1, <1>r DEF TypeOK
  <1>8. Places'
    BY <1>0, <1>1, <1>2, <1>3, <1>4 DEF Places, TypeOK
  <1>9. NoForgottenReceiver'
    BY <1>1, <1>2, <1>3, MessageAdded
  <1>10. NoForgottenSender'
    <2>1. Room' = Room - 1 /\ Room' \in Int
      BY <1>1, <1>5, QueueAssumption DEF Room
    <2>2. Room' <= Room - 1
      BY <2>1, <1>2, RoomType
    <2>3. Resumed(Senders) \ {s} \subseteq Resumed(Senders)' /\ (slist' # <<>> => slist # <<>>)
      BY <1>4
    <2> QED BY <1>2, <2>1, <2>2, <2>3, SendersSuffice
  <1>11. CellInv'
    <2>1. inOff = (outOff + entry) % Size
      BY <1>1 DEF QueueInv, CellInv, Ring
    <2>2. (NextOff(outOff') + (entry' - 1)) % Size = (outOff' + entry') % Size
      BY <1>1, <1>5, <1>6, NextOffPlace
    <2>3. inOff' = (outOff' + entry') % Size
      BY <1>1, <1>5, <1>6, <2>1, <2>2
    <2>4. \A t \in Threads : pc'[t] = pc[t] \/ pc'[t] \in {"idle", "wait", "back", "failed"}
      BY <1>4
    <2> QED BY <1>1, <2>3, <2>4, RingKept
  <1> QED BY <1>4, <1>7, <1>8, <1>9, <1>10, <1>11 DEF QueueInv, WaitInv, CountInv

(* rt_mb_recv *)
LEMMA MbRecvKeeps ==
    ASSUME QueueInv, NEW r \in Receivers, NEW left, MbRecv(r, left)
    PROVE  QueueInv'
  <1>0. r \in Threads /\ r \notin Senders /\ Receivers \subseteq Threads
    BY ThreadFacts
  <1>1. /\ kind = "mailbox" /\ kind' = kind /\ pc[r] \in {"idle", "back"} /\ entry > 0
        /\ msg' = [msg EXCEPT ![r] = pool[outOff]] /\ outOff' = NextOff(outOff)
        /\ entry' = entry - 1 /\ WakeSender(r, "idle")
        /\ tmo' = [tmo EXCEPT ![r] = "none"] /\ pool' = pool /\ inOff' = inOff
        /\ queue' = queue /\ free' = free /\ urgent' = urgent /\ hand' = hand
    BY DEF MbRecv, Enter
  <1>2. TypeOK /\ WaitersListed /\ TimerWaits /\ Places /\ NoForgottenReceiver /\ NoForgottenSender
    BY DEF QueueInv, WaitInv, CountInv
  <1>3. /\ pc[r] # "wait" /\ hand[r] = NoCell /\ r \notin urgent
    BY <1>0, <1>1, CallerFacts
  <1>4. /\ pc' \in [Threads -> {"idle", "wait", "back", "failed", "copy", "link", "free"}]
        /\ timer' \in [Threads -> BOOLEAN]
        /\ slist' \in Seq(Senders) /\ rlist' = rlist
        /\ WaitersListed' /\ TimerWaits'
        /\ \A u \in Threads : u # r => pc'[u] = pc[u] \/ (pc[u] = "wait" /\ pc'[u] = "back")
        /\ pc'[r] = "idle"
        /\ Resumed(Receivers)' = Resumed(Receivers) \ {r}
    BY <1>0, <1>1, <1>2, <1>3, WakeSenderKeeps
  <1>5. entry \in 0 .. Size /\ entry' \in 0 .. Size /\ entry' \in Int /\ entry \in Int
    BY <1>1, <1>2, QueueAssumption DEF TypeOK
  <1>6. inOff \in Cells /\ outOff \in Cells /\ outOff' \in Cells
    BY <1>1, <1>2, NextOffPlace, <1>5 DEF TypeOK
  <1>r. ret' \in [Senders -> Results]
    BY DEF QueueInv, TypeOK, MbRecv
  <1>7. TypeOK'
    <2>1. tmo' \in [Threads -> {"none", "ticks", "forever"}] /\ msg' \in [Threads -> Msgs \cup {NoMsg}]
      BY <1>1, <1>2, <1>6 DEF TypeOK
    <2> QED BY <1>1, <1>2, <1>4, <1>5, <1>6, <2>1, <1>r DEF TypeOK
  <1>8. Places'
    BY <1>0, <1>1, <1>2, <1>3, <1>4 DEF Places, TypeOK
  <1>9. NoForgottenReceiver'
    <2>1. entry' <= entry - 1
      BY <1>1, <1>5
    <2>2. Resumed(Receivers) \ {r} \subseteq Resumed(Receivers)' /\ (rlist' # <<>> => rlist # <<>>)
      BY <1>4
    <2> QED BY <1>2, <1>5, <2>1, <2>2, ReceiversSuffice
  <1>10. NoForgottenSender'
    <2>1. Room' = Room + 1
      BY <1>1, <1>5, QueueAssumption DEF Room
    <2> QED BY <1>1, <1>2, <1>3, <2>1, RoomAdded
  <1>11. CellInv'
    <2>1. inOff = (outOff + entry) % Size
      BY <1>1 DEF QueueInv, CellInv, Ring
    <2>2. inOff' = (outOff' + entry') % Size
      BY <1>1, <1>5, <1>6, <2>1, NextOffPlace
    <2>3. \A t \in Threads : pc'[t] = pc[t] \/ pc'[t] \in {"idle", "wait", "back", "failed"}
      BY <1>4
    <2> QED BY <1>1, <2>2, <2>3, RingKept
  <1> QED BY <1>4, <1>7, <1>8, <1>9, <1>10, <1>11 DEF QueueInv, WaitInv, CountInv

-----------------------------------------------------------------------------
(* Steps that touch no message and no cell *)
LEMMA CellsKept ==
    ASSUME QueueInv, UNCHANGED <<kind, storage, hand>>,
           \A t \in Threads : pc'[t] = pc[t] \/ pc'[t] \in {"idle", "wait", "back", "failed"},
           \A t \in Threads : pc[t] = "link" => msg'[t] = msg[t]
    PROVE  CellInv'
  <1>1. Ring'
    BY DEF QueueInv, CellInv, Ring, storage
  <1>2. CellsConserved'
    BY DEF QueueInv, CellInv, CellsConserved, Held, storage
  <1>3. CellsApart'
    BY DEF QueueInv, CellInv, CellsApart, storage
  <1>4. LinkedIsCopied'
    BY DEF QueueInv, CellInv, LinkedIsCopied, storage
  <1> QED BY <1>1, <1>2, <1>3, <1>4 DEF CellInv

(* Where there is nothing, nobody is forgotten. *)
LEMMA NothingForgotten ==
    ASSUME NEW B \in SUBSET Threads
    PROVE  0 <= Cardinality(B)
  <1>1. IsFiniteSet(B)
    BY ThreadFacts, FS_Subset
  <1> QED BY <1>1, FS_CardinalityType

(* The full mailbox or queue: a sender waits, or has no time left *)
LEMMA SendWaitKeeps ==
    ASSUME QueueInv, NEW s \in Senders, NEW m \in Msgs,
           NEW left \in {"none", "ticks", "forever"}, SendWait(s, left, m)
    PROVE  QueueInv'
  <1>0. s \in Threads /\ s \notin Receivers /\ Senders \subseteq Threads /\ Receivers \subseteq Threads
    BY ThreadFacts
  <1>1. /\ pc[s] \in {"idle", "back"} /\ Full
        /\ kind' = kind /\ storage' = storage /\ rlist' = rlist /\ urgent' = urgent /\ hand' = hand
    BY DEF SendWait, EnterSend, Enter
  <1>2. TypeOK /\ WaitersListed /\ TimerWaits /\ Places /\ NoForgottenReceiver /\ NoForgottenSender
    BY DEF QueueInv, WaitInv, CountInv
  <1>3. /\ pc[s] # "wait" /\ hand[s] = NoCell /\ s \notin urgent /\ s \notin ToSet(slist) /\ ~timer[s]
    BY <1>0, <1>1, CallerFacts
  <1>4. /\ Distinct(rlist) /\ Distinct(slist)
        /\ ToSet(rlist) \subseteq Receivers /\ ToSet(slist) \subseteq Senders
        /\ \A t \in Receivers : t \in ToSet(rlist) <=> pc[t] = "wait"
        /\ \A t \in Senders : t \in ToSet(slist) <=> pc[t] = "wait"
    BY <1>2, ListedWaits
  <1>5. \/ /\ pc' = [pc EXCEPT ![s] = "wait"] /\ tmo' = [tmo EXCEPT ![s] = left]
           /\ timer' = [timer EXCEPT ![s] = (left = "ticks")]
           /\ slist' = Append(slist, s) /\ msg' = [msg EXCEPT ![s] = m]
        \/ /\ pc' = [pc EXCEPT ![s] = "idle"] /\ tmo' = [tmo EXCEPT ![s] = "none"]
           /\ timer' = timer /\ slist' = slist /\ msg' = [msg EXCEPT ![s] = NoMsg]
    BY DEF SendWait, Wait, GiveUp
  <1>6. /\ slist' \in Seq(Senders) /\ Distinct(slist')
        /\ ToSet(slist') = ToSet(slist) \cup {s} \/ ToSet(slist') = ToSet(slist)
        /\ pc'[s] = "wait" => ToSet(slist') = ToSet(slist) \cup {s}
        /\ pc'[s] # "wait" => ToSet(slist') = ToSet(slist)
    <2>1. slist \in Seq(Senders) /\ pc \in [Threads -> {"idle", "wait", "back", "failed", "copy", "link", "free"}]
      BY <1>2 DEF TypeOK
    <2>2. /\ Append(slist, s) \in Seq(Senders) /\ Distinct(Append(slist, s))
          /\ ToSet(Append(slist, s)) = ToSet(slist) \cup {s}
      BY <1>3, <1>4, <2>1, AppendListed
    <2> QED BY <1>0, <1>4, <1>5, <2>1, <2>2
  <1>7. /\ pc' \in [Threads -> {"idle", "wait", "back", "failed", "copy", "link", "free"}]
        /\ pc'[s] \in {"idle", "wait"} /\ \A u \in Threads : u # s => pc'[u] = pc[u]
    <2>1. pc \in [Threads -> {"idle", "wait", "back", "failed", "copy", "link", "free"}]
      BY <1>2 DEF TypeOK
    <2>2. pc' = [pc EXCEPT ![s] = "wait"] \/ pc' = [pc EXCEPT ![s] = "idle"]
      BY <1>5
    <2> QED BY <1>0, <2>1, <2>2
  <1>r. ret' \in [Senders -> Results]
    BY DEF QueueInv, TypeOK, SendWait, Returns, Results
  <1>8. TypeOK'
    <2>1. timer' \in [Threads -> BOOLEAN]
      BY <1>2, <1>5, Zenon DEF TypeOK
    <2>2. tmo' \in [Threads -> {"none", "ticks", "forever"}]
      <3>1. tmo' = [tmo EXCEPT ![s] = left] \/ tmo' = [tmo EXCEPT ![s] = "none"]
        BY <1>5
      <3> QED BY <1>2, <3>1 DEF TypeOK
    <2>3. msg' \in [Threads -> Msgs \cup {NoMsg}]
      <3>1. msg' = [msg EXCEPT ![s] = m] \/ msg' = [msg EXCEPT ![s] = NoMsg]
        BY <1>5
      <3> QED BY <1>2, <3>1 DEF TypeOK
    <2> QED BY <1>1, <1>2, <1>6, <1>7, <2>1, <2>2, <2>3, <1>r DEF TypeOK, storage
  <1>9. WaitersListed'
    <2>1. \A u \in Receivers : u \in ToSet(rlist') <=> pc'[u] = "wait"
      BY <1>0, <1>1, <1>4, <1>7
    <2>2. \A u \in Senders : u \in ToSet(slist') <=> pc'[u] = "wait"
      BY <1>0, <1>3, <1>4, <1>6, <1>7
    <2>3. ToSet(rlist') \subseteq Receivers /\ ToSet(slist') \subseteq Senders
      BY <1>1, <1>4, <1>6
    <2> QED BY <1>1, <1>4, <1>6, <2>1, <2>2, <2>3, ThreadFacts DEF WaitersListed, Distinct
  <1>10. TimerWaits'
    <2>1. \A u \in Threads : timer'[u] => timer[u] \/ (u = s /\ pc'[s] = "wait")
      BY <1>0, <1>2, <1>5 DEF TypeOK
    <2> QED BY <1>0, <1>2, <1>3, <1>7, <2>1 DEF TimerWaits
  <1>11. Places'
    <2>1. msg'[s] # NoMsg <=> pc'[s] # "idle"
      BY <1>0, <1>2, <1>5, QueueAssumption DEF TypeOK
    <2>2. \A u \in Threads : u # s => msg'[u] = msg[u]
      BY <1>0, <1>2, <1>5 DEF TypeOK
    <2> QED BY <1>0, <1>1, <1>2, <1>3, <1>7, <2>1, <2>2 DEF Places
  <1>12. NoForgottenReceiver'
    <2>1. entry' = entry /\ entry \in Int
      BY <1>1, <1>2, QueueAssumption DEF storage, TypeOK
    <2>2. /\ Resumed(Receivers) \ {s} \subseteq Resumed(Receivers)' /\ s \notin Resumed(Receivers)
          /\ rlist' # <<>> => rlist # <<>> /\ entry' <= entry
      BY <1>0, <1>1, <1>7, <2>1 DEF Resumed
    <2> QED BY <1>2, <2>1, <2>2, ReceiversSuffice
  <1>13. NoForgottenSender'
    <2>1. Room = 0
      BY <1>1, <1>2, QueueAssumption DEF Full, Room, TypeOK
    <2>2. Room' = Room
      BY <1>1 DEF Room, storage
    <2>3. Resumed(Senders)' \in SUBSET Threads
      BY <1>0 DEF Resumed
    <2> QED BY <2>1, <2>2, <2>3, NothingForgotten DEF NoForgottenSender
  <1>14. CellInv'
    <2>1. \A t \in Threads : pc'[t] = pc[t] \/ pc'[t] \in {"idle", "wait", "back", "failed"}
      BY <1>7
    <2>2. \A t \in Threads : pc[t] = "link" => msg'[t] = msg[t]
      BY <1>1, <1>2, <1>5 DEF TypeOK
    <2> QED BY <1>1, <2>1, <2>2, CellsKept
  <1> QED BY <1>8, <1>9, <1>10, <1>11, <1>12, <1>13, <1>14 DEF QueueInv, WaitInv, CountInv

(* An urgent message that finds no room *)
LEMMA UrgentFullKeeps ==
    ASSUME QueueInv, NEW s \in Senders, UrgentFull(s)
    PROVE  QueueInv'
  <1>1. /\ UNCHANGED <<kind, pool, inOff, outOff, queue, free, entry, rlist, slist, pc, timer, tmo>>
        /\ UNCHANGED <<msg, urgent, hand>>
        /\ ret' = [ret EXCEPT ![s] = "error"]
    BY DEF UrgentFull, Returns, storage
  <1>2. TypeOK' /\ WaitInv'
    BY <1>1 DEF QueueInv, TypeOK, Results, WaitInv, WaitersListed, TimerWaits, Places
  <1>3. CountInv'
    BY <1>1 DEF QueueInv, CountInv, NoForgottenReceiver, NoForgottenSender, Room, Resumed
  <1>4. CellInv'
    BY <1>1 DEF QueueInv, CellInv, Ring, CellsConserved, Held, CellsApart, LinkedIsCopied
  <1> QED BY <1>2, <1>3, <1>4 DEF QueueInv

(* The empty mailbox or queue: a receiver waits, or has no time left *)
LEMMA RecvWaitKeeps ==
    ASSUME QueueInv, NEW r \in Receivers,
           NEW left \in {"none", "ticks", "forever"}, RecvWait(r, left)
    PROVE  QueueInv'
  <1>0. r \in Threads /\ r \notin Senders /\ Senders \subseteq Threads /\ Receivers \subseteq Threads
    BY ThreadFacts
  <1>1. /\ pc[r] \in {"idle", "back"} /\ entry = 0
        /\ kind' = kind /\ storage' = storage /\ slist' = slist
        /\ urgent' = urgent /\ hand' = hand /\ msg' = msg
    BY DEF RecvWait, Enter, local
  <1>2. TypeOK /\ WaitersListed /\ TimerWaits /\ Places /\ NoForgottenReceiver /\ NoForgottenSender
    BY DEF QueueInv, WaitInv, CountInv
  <1>3. /\ pc[r] # "wait" /\ hand[r] = NoCell /\ r \notin urgent /\ r \notin ToSet(rlist) /\ ~timer[r]
    BY <1>0, <1>1, CallerFacts
  <1>4. /\ Distinct(rlist) /\ Distinct(slist)
        /\ ToSet(rlist) \subseteq Receivers /\ ToSet(slist) \subseteq Senders
        /\ \A t \in Receivers : t \in ToSet(rlist) <=> pc[t] = "wait"
        /\ \A t \in Senders : t \in ToSet(slist) <=> pc[t] = "wait"
    BY <1>2, ListedWaits
  <1>5. \/ /\ pc' = [pc EXCEPT ![r] = "wait"] /\ tmo' = [tmo EXCEPT ![r] = left]
           /\ timer' = [timer EXCEPT ![r] = (left = "ticks")]
           /\ rlist' = Append(rlist, r)
        \/ /\ pc' = [pc EXCEPT ![r] = "idle"] /\ tmo' = [tmo EXCEPT ![r] = "none"]
           /\ timer' = timer /\ rlist' = rlist
    BY DEF RecvWait, Wait, GiveUp
  <1>6. /\ rlist' \in Seq(Receivers) /\ Distinct(rlist')
        /\ pc'[r] = "wait" => ToSet(rlist') = ToSet(rlist) \cup {r}
        /\ pc'[r] # "wait" => ToSet(rlist') = ToSet(rlist)
    <2>1. rlist \in Seq(Receivers) /\ pc \in [Threads -> {"idle", "wait", "back", "failed", "copy", "link", "free"}]
      BY <1>2 DEF TypeOK
    <2>2. /\ Append(rlist, r) \in Seq(Receivers) /\ Distinct(Append(rlist, r))
          /\ ToSet(Append(rlist, r)) = ToSet(rlist) \cup {r}
      BY <1>3, <1>4, <2>1, AppendListed
    <2> QED BY <1>0, <1>4, <1>5, <2>1, <2>2
  <1>7. /\ pc' \in [Threads -> {"idle", "wait", "back", "failed", "copy", "link", "free"}]
        /\ pc'[r] \in {"idle", "wait"} /\ \A u \in Threads : u # r => pc'[u] = pc[u]
    BY <1>0, <1>2, <1>5 DEF TypeOK
  <1>r. ret' \in [Senders -> Results]
    BY DEF QueueInv, TypeOK, RecvWait, local
  <1>8. TypeOK'
    <2>1. timer' \in [Threads -> BOOLEAN]
      BY <1>2, <1>5, Zenon DEF TypeOK
    <2>2. tmo' \in [Threads -> {"none", "ticks", "forever"}]
      BY <1>2, <1>5 DEF TypeOK
    <2> QED BY <1>1, <1>2, <1>6, <1>7, <2>1, <2>2, <1>r DEF TypeOK, storage
  <1>9. WaitersListed'
    <2>1. \A u \in Senders : u \in ToSet(slist') <=> pc'[u] = "wait"
      BY <1>0, <1>1, <1>4, <1>7
    <2>2. \A u \in Receivers : u \in ToSet(rlist') <=> pc'[u] = "wait"
      BY <1>0, <1>3, <1>4, <1>6, <1>7
    <2>3. ToSet(rlist') \subseteq Receivers /\ ToSet(slist') \subseteq Senders
      BY <1>1, <1>4, <1>6, <1>7
    <2> QED BY <1>1, <1>4, <1>6, <2>1, <2>2, <2>3, ThreadFacts DEF WaitersListed, Distinct
  <1>10. TimerWaits'
    <2>1. \A u \in Threads : timer'[u] => timer[u] \/ (u = r /\ pc'[r] = "wait")
      BY <1>0, <1>2, <1>5 DEF TypeOK
    <2> QED BY <1>0, <1>2, <1>3, <1>7, <2>1 DEF TimerWaits
  <1>11. Places'
    BY <1>0, <1>1, <1>2, <1>3, <1>7 DEF Places
  <1>12. NoForgottenSender'
    <2>1. Room' = Room /\ Room \in Int
      BY <1>1, <1>2, RoomType DEF storage, Room
    <2>2. /\ Resumed(Senders) \ {r} \subseteq Resumed(Senders)' /\ r \notin Resumed(Senders)
          /\ slist' # <<>> => slist # <<>> /\ Room' <= Room
      BY <1>0, <1>1, <1>7, <2>1 DEF Resumed
    <2> QED BY <1>2, <2>1, <2>2, SendersSuffice
  <1>13. NoForgottenReceiver'
    <2>1. entry' = 0
      BY <1>1 DEF storage
    <2>2. Resumed(Receivers)' \in SUBSET Threads
      BY <1>0 DEF Resumed
    <2> QED BY <2>1, <2>2, NothingForgotten DEF NoForgottenReceiver
  <1>14. CellInv'
    <2>1. \A t \in Threads : pc'[t] = pc[t] \/ pc'[t] \in {"idle", "wait", "back", "failed"}
      BY <1>7
    <2> QED BY <1>1, <2>1, CellsKept
  <1> QED BY <1>8, <1>9, <1>10, <1>11, <1>12, <1>13, <1>14 DEF QueueInv, WaitInv, CountInv

(* _thread_timeout *)
LEMMA TimeoutKeeps ==
    ASSUME QueueInv, NEW t \in Threads, Timeout(t)
    PROVE  QueueInv'
  <1>1. /\ timer[t] /\ timer' = [timer EXCEPT ![t] = FALSE] /\ pc' = [pc EXCEPT ![t] = "failed"]
        /\ rlist' = ListRemove(rlist, t) /\ slist' = ListRemove(slist, t)
        /\ kind' = kind /\ storage' = storage /\ tmo' = tmo
        /\ msg' = msg /\ urgent' = urgent /\ hand' = hand
    BY DEF Timeout, local
  <1>2. TypeOK /\ WaitersListed /\ TimerWaits /\ Places /\ NoForgottenReceiver /\ NoForgottenSender
    BY DEF QueueInv, WaitInv, CountInv
  <1>3. pc[t] = "wait"
    BY <1>1, <1>2 DEF TimerWaits
  <1>4. /\ Distinct(rlist) /\ Distinct(slist)
        /\ ToSet(rlist) \subseteq Receivers /\ ToSet(slist) \subseteq Senders
        /\ \A u \in Receivers : u \in ToSet(rlist) <=> pc[u] = "wait"
        /\ \A u \in Senders : u \in ToSet(slist) <=> pc[u] = "wait"
    BY <1>2, ListedWaits
  <1>5. /\ rlist \in Seq(Receivers) /\ slist \in Seq(Senders)
        /\ pc \in [Threads -> {"idle", "wait", "back", "failed", "copy", "link", "free"}]
    BY <1>2 DEF TypeOK
  <1>6. /\ rlist' \in Seq(Receivers) /\ Distinct(rlist') /\ ToSet(rlist') = ToSet(rlist) \ {t}
    BY <1>1, <1>4, <1>5, ListRemoveProperties
  <1>7. /\ slist' \in Seq(Senders) /\ Distinct(slist') /\ ToSet(slist') = ToSet(slist) \ {t}
    BY <1>1, <1>4, <1>5, ListRemoveProperties
  <1>8. /\ pc' \in [Threads -> {"idle", "wait", "back", "failed", "copy", "link", "free"}]
        /\ pc'[t] = "failed" /\ \A u \in Threads : u # t => pc'[u] = pc[u]
    BY <1>1, <1>5
  <1>r. ret' \in [Senders -> Results]
    BY DEF QueueInv, TypeOK, Timeout, local
  <1>9. TypeOK'
    <2>1. timer' \in [Threads -> BOOLEAN]
      BY <1>1, <1>2, Zenon DEF TypeOK
    <2> QED BY <1>1, <1>2, <1>6, <1>7, <1>8, <2>1, <1>r DEF TypeOK, storage
  <1>10. WaitersListed'
    <2>1. \A u \in Senders : u \in ToSet(slist') <=> pc'[u] = "wait"
      BY <1>4, <1>7, <1>8, ThreadFacts
    <2>2. \A u \in Receivers : u \in ToSet(rlist') <=> pc'[u] = "wait"
      BY <1>4, <1>6, <1>8, ThreadFacts
    <2>3. ToSet(rlist') \subseteq Receivers /\ ToSet(slist') \subseteq Senders
      BY <1>4, <1>6, <1>7
    <2> QED BY <1>6, <1>7, <2>1, <2>2, <2>3, ThreadFacts DEF WaitersListed, Distinct
  <1>11. TimerWaits'
    <2>1. \A u \in Threads : timer'[u] => timer[u] /\ u # t
      BY <1>1, <1>2 DEF TypeOK
    <2> QED BY <1>2, <1>8, <2>1 DEF TimerWaits
  <1>12. Places'
    BY <1>1, <1>2, <1>3, <1>8 DEF Places
  <1>13. /\ Resumed(Senders)' = Resumed(Senders) /\ Resumed(Receivers)' = Resumed(Receivers)
         /\ t \notin Resumed(Senders) /\ t \notin Resumed(Receivers)
    BY <1>3, <1>8, ThreadFacts DEF Resumed
  <1>14. NoForgottenReceiver'
    <2>1. entry' = entry /\ entry \in Int
      BY <1>1, <1>2, QueueAssumption DEF storage, TypeOK
    <2>2. rlist' # <<>> => rlist # <<>>
      BY <1>5, <1>6, ListedIn
    <2>3. entry' <= entry /\ Resumed(Receivers) \ {t} \subseteq Resumed(Receivers)'
      BY <1>13, <2>1
    <2> QED BY <1>2, <1>13, <2>1, <2>2, <2>3, ReceiversSuffice
  <1>15. NoForgottenSender'
    <2>1. Room' = Room /\ Room \in Int
      BY <1>1, <1>2, RoomType DEF storage, Room
    <2>2. slist' # <<>> => slist # <<>>
      BY <1>5, <1>7, ListedIn
    <2>3. Room' <= Room /\ Resumed(Senders) \ {t} \subseteq Resumed(Senders)'
      BY <1>13, <2>1
    <2> QED BY <1>2, <1>13, <2>1, <2>2, <2>3, SendersSuffice
  <1>16. CellInv'
    <2>1. \A u \in Threads : pc'[u] = pc[u] \/ pc'[u] \in {"idle", "wait", "back", "failed"}
      BY <1>8
    <2> QED BY <1>1, <2>1, CellsKept
  <1> QED BY <1>9, <1>10, <1>11, <1>12, <1>14, <1>15, <1>16 DEF QueueInv, WaitInv, CountInv

(* The counts and the lists where neither they nor who is resumed change *)
LEMMA CountsKept ==
    ASSUME TypeOK, CountInv, UNCHANGED <<kind, storage, rlist, slist>>,
           \A t \in Threads : pc'[t] = "back" <=> pc[t] = "back"
    PROVE  CountInv'
  <1>1. Resumed(Senders)' = Resumed(Senders) /\ Resumed(Receivers)' = Resumed(Receivers)
    BY ThreadFacts DEF Resumed
  <1>2. Room' = Room /\ entry' = entry
    BY DEF Room, storage
  <1> QED BY <1>1, <1>2 DEF CountInv, NoForgottenReceiver, NoForgottenSender

(* Back with an error *)
LEMMA FailKeeps ==
    ASSUME QueueInv, NEW t \in Threads, Fail(t)
    PROVE  QueueInv'
  <1>1. /\ pc[t] = "failed" /\ pc' = [pc EXCEPT ![t] = "idle"] /\ tmo' = [tmo EXCEPT ![t] = "none"]
        /\ msg' = IF t \in Senders THEN [msg EXCEPT ![t] = NoMsg] ELSE msg
        /\ kind' = kind /\ storage' = storage /\ rlist' = rlist /\ slist' = slist
        /\ timer' = timer /\ urgent' = urgent /\ hand' = hand
    BY DEF Fail
  <1>2. TypeOK /\ WaitersListed /\ TimerWaits /\ Places
    BY DEF QueueInv, WaitInv
  <1>3. /\ pc' \in [Threads -> {"idle", "wait", "back", "failed", "copy", "link", "free"}]
        /\ pc'[t] = "idle" /\ \A u \in Threads : u # t => pc'[u] = pc[u]
    BY <1>1, <1>2 DEF TypeOK
  <1>r. ret' \in [Senders -> Results]
    BY DEF QueueInv, TypeOK, Fail, Returns, Results
  <1>4. TypeOK'
    <2>1. tmo' \in [Threads -> {"none", "ticks", "forever"}] /\ msg' \in [Threads -> Msgs \cup {NoMsg}]
      BY <1>1, <1>2 DEF TypeOK
    <2> QED BY <1>1, <1>2, <1>3, <2>1, <1>r DEF TypeOK, storage
  <1>5. WaitersListed'
    BY <1>1, <1>2, <1>3 DEF WaitersListed
  <1>6. TimerWaits'
    BY <1>1, <1>2, <1>3 DEF TimerWaits
  <1>7. /\ \A u \in Threads : u # t => msg'[u] = msg[u]
        /\ t \in Senders => msg'[t] = NoMsg
    BY <1>1, <1>2 DEF TypeOK
  <1>8. Places'
    BY <1>1, <1>2, <1>3, <1>7 DEF Places
  <1>9. CountInv'
    BY <1>1, <1>2, <1>3, CountsKept DEF QueueInv
  <1>10. CellInv'
    <2>1. \A u \in Threads : pc'[u] = pc[u] \/ pc'[u] \in {"idle", "wait", "back", "failed"}
      BY <1>3
    <2>2. \A u \in Threads : pc[u] = "link" => msg'[u] = msg[u]
      BY <1>1, <1>7
    <2> QED BY <1>1, <2>1, <2>2, CellsKept
  <1> QED BY <1>4, <1>5, <1>6, <1>8, <1>9, <1>10 DEF QueueInv, WaitInv

-----------------------------------------------------------------------------
(* The threads with a cell in the hand, and those cells *)
HandCells == {hand[t] : t \in Held}

LEMMA HeldCount ==
    IsFiniteSet(Held) /\ Cardinality(Held) \in Nat
  <1>1. Held \subseteq Threads
    BY DEF Held
  <1>2. IsFiniteSet(Held)
    BY <1>1, ThreadFacts, FS_Subset
  <1> QED BY <1>2, FS_CardinalityType

(* CellsConserved, in these words *)
LEMMA MqCells ==
    ASSUME kind = "mq"
    PROVE  CellsConserved <=> /\ entry = Len(queue)
                              /\ Len(queue) + Len(free) + Cardinality(Held) = Size
                              /\ ToSet(queue) \cup ToSet(free) \cup HandCells = Cells
  BY DEF CellsConserved, Held, HandCells

(* A thread takes a cell into its hand ... *)
LEMMA CellTaken ==
    ASSUME TypeOK, NEW t \in Threads, hand[t] = NoCell, NEW c \in Cells,
           hand' = [hand EXCEPT ![t] = c]
    PROVE  /\ Cardinality(Held') = Cardinality(Held) + 1
           /\ HandCells' = HandCells \cup {c}
  <1>1. c # NoCell
    BY QueueAssumption DEF Cells
  <1>2. hand'[t] = c /\ \A u \in Threads : u # t => hand'[u] = hand[u]
    BY DEF TypeOK
  <1>3. t \notin Held /\ Held' = Held \cup {t}
    BY <1>1, <1>2 DEF Held
  <1>4. Cardinality(Held') = Cardinality(Held) + 1
    BY <1>3, HeldCount, CountAdd
  <1>5. HandCells' = HandCells \cup {c}
    <2>1. HandCells' = {hand'[u] : u \in Held'}
      BY DEF HandCells
    <2>2. \A u \in Held : u # t /\ hand'[u] = hand[u]
      BY <1>2, <1>3 DEF Held
    <2> QED BY <1>2, <1>3, <2>1, <2>2 DEF HandCells
  <1> QED BY <1>4, <1>5

(* ... and gives it away. *)
LEMMA CellGiven ==
    ASSUME TypeOK, CellsApart, NEW t \in Threads, hand[t] # NoCell,
           hand' = [hand EXCEPT ![t] = NoCell]
    PROVE  /\ hand[t] \in Cells
           /\ Cardinality(Held') = Cardinality(Held) - 1
           /\ HandCells = HandCells' \cup {hand[t]}
  <1>1. hand[t] \in Cells
    BY DEF TypeOK
  <1>2. hand'[t] = NoCell /\ \A u \in Threads : u # t => hand'[u] = hand[u]
    BY DEF TypeOK
  <1>3. t \in Held /\ Held' = Held \ {t}
    BY <1>2 DEF Held
  <1>4. Cardinality(Held') = Cardinality(Held) - 1
    BY <1>3, HeldCount, CountRemove
  <1>5. HandCells = HandCells' \cup {hand[t]}
    <2>1. HandCells' = {hand'[u] : u \in Held'}
      BY DEF HandCells
    <2>2. \A u \in Held' : u \in Held /\ hand'[u] = hand[u]
      BY <1>2, <1>3 DEF Held
    <2>3. HandCells = {hand[u] : u \in Held}
      BY DEF HandCells
    <2> QED BY <1>3, <2>1, <2>2, <2>3
  <1> QED BY <1>1, <1>4, <1>5

(* A cell more or less in the hands, seen by CellsApart *)
LEMMA HandsApart ==
    ASSUME TypeOK, CellsApart, NEW t \in Threads,
           \A u \in Threads : u # t => hand'[u] = hand[u],
           Distinct(queue'), Distinct(free'), ToSet(queue') \cap ToSet(free') = {},
           \A u \in Threads : hand'[u] # NoCell => hand'[u] \notin ToSet(queue') \cup ToSet(free'),
           hand'[t] # NoCell => \A u \in Threads : u # t => hand[u] # hand'[t]
    PROVE  CellsApart'
  BY DEF CellsApart

(* The message queue only: nothing is promised about the ring. *)
LEMMA NoRing ==
    ASSUME kind' = "mq"
    PROVE  Ring'
  BY DEF Ring

(* rt_mq_send_wait and rt_mq_urgent take a free cell. *)
LEMMA TakeCellKeeps ==
    ASSUME QueueInv, NEW s \in Senders, NEW m \in Msgs, pc[s] \in {"idle", "back"},
           TakeCell(s, m), urgent' = urgent \/ urgent' = urgent \cup {s}
    PROVE  QueueInv'
  <1>0. s \in Threads /\ s \notin Receivers /\ Senders \subseteq Threads /\ Receivers \subseteq Threads
    BY ThreadFacts
  <1>1. /\ kind = "mq" /\ kind' = kind /\ free # <<>>
        /\ hand' = [hand EXCEPT ![s] = Head(free)] /\ free' = Tail(free)
        /\ msg' = [msg EXCEPT ![s] = m] /\ pc' = [pc EXCEPT ![s] = "copy"]
        /\ tmo' = [tmo EXCEPT ![s] = "none"] /\ pool' = pool /\ inOff' = inOff /\ outOff' = outOff
        /\ queue' = queue /\ entry' = entry /\ rlist' = rlist /\ slist' = slist /\ timer' = timer
    BY DEF TakeCell, Full
  <1>2. /\ TypeOK /\ WaitersListed /\ TimerWaits /\ Places /\ NoForgottenReceiver /\ NoForgottenSender
        /\ CellsConserved /\ CellsApart /\ LinkedIsCopied
    BY DEF QueueInv, WaitInv, CountInv, CellInv
  <1>3. /\ pc[s] # "wait" /\ hand[s] = NoCell /\ s \notin urgent /\ ~timer[s]
    BY <1>0, CallerFacts
  <1>4. /\ free \in Seq(Cells) /\ queue \in Seq(Cells) /\ entry \in 0 .. Size /\ Size \in Nat
        /\ pc \in [Threads -> {"idle", "wait", "back", "failed", "copy", "link", "free"}]
        /\ hand \in [Threads -> Cells \cup {NoCell}]
    BY <1>2, QueueAssumption DEF TypeOK
  <1>5. /\ Head(free) \in Cells /\ free' \in Seq(Cells) /\ Len(free) = Len(free') + 1
        /\ ToSet(free) = {Head(free)} \cup ToSet(free')
        /\ Distinct(free) => Distinct(free') /\ Head(free) \notin ToSet(free')
    BY <1>1, <1>4, TailProperties, HeadListed
  <1>6. /\ pc' \in [Threads -> {"idle", "wait", "back", "failed", "copy", "link", "free"}]
        /\ pc'[s] = "copy" /\ \A u \in Threads : u # s => pc'[u] = pc[u]
    BY <1>0, <1>1, <1>4
  <1>7. /\ hand' \in [Threads -> Cells \cup {NoCell}]
        /\ hand'[s] = Head(free) /\ \A u \in Threads : u # s => hand'[u] = hand[u]
    BY <1>0, <1>1, <1>4, <1>5
  <1>8. Head(free) # NoCell
    BY <1>5, QueueAssumption DEF Cells
  <1>r. ret' \in [Senders -> Results]
    BY DEF QueueInv, TypeOK, TakeCell, Returns, Results
  <1>9. TypeOK'
    <2>1. tmo' \in [Threads -> {"none", "ticks", "forever"}] /\ msg' \in [Threads -> Msgs \cup {NoMsg}]
      BY <1>1, <1>2 DEF TypeOK
    <2> QED BY <1>1, <1>2, <1>4, <1>5, <1>6, <1>7, <2>1, <1>r DEF TypeOK
  <1>10. WaitersListed'
    BY <1>1, <1>2, <1>3, <1>6 DEF WaitersListed
  <1>11. TimerWaits'
    BY <1>1, <1>2, <1>3, <1>6 DEF TimerWaits
  <1>12. Places'
    <2>1. msg'[s] # NoMsg /\ \A u \in Threads : u # s => msg'[u] = msg[u]
      BY <1>0, <1>1, <1>2, QueueAssumption DEF TypeOK
    <2> QED BY <1>0, <1>2, <1>6, <1>7, <1>8, <2>1 DEF Places
  <1>13. NoForgottenReceiver'
    <2>1. Resumed(Receivers)' = Resumed(Receivers)
      BY <1>0, <1>6 DEF Resumed
    <2> QED BY <1>1, <1>2, <2>1 DEF NoForgottenReceiver
  <1>14. NoForgottenSender'
    <2>1. Room' = Room - 1 /\ Room' \in Int /\ Room \in Int
      BY <1>1, <1>4, <1>5 DEF Room
    <2>2. Resumed(Senders) \ {s} \subseteq Resumed(Senders)'
      BY <1>0, <1>6 DEF Resumed
    <2>3. Room' <= Room - 1 /\ (slist' # <<>> => slist # <<>>)
      BY <1>1, <2>1
    <2> QED BY <1>2, <2>1, <2>2, <2>3, SendersSuffice
  <1>15. CellsConserved'
    <2>1. /\ entry = Len(queue)
          /\ Len(queue) + Len(free) + Cardinality(Held) = Size
          /\ ToSet(queue) \cup ToSet(free) \cup HandCells = Cells
      BY <1>1, <1>2, MqCells
    <2>2. /\ Cardinality(Held') = Cardinality(Held) + 1
          /\ HandCells' = HandCells \cup {Head(free)}
      BY <1>0, <1>1, <1>2, <1>3, <1>5, CellTaken
    <2>3. /\ entry' = Len(queue')
          /\ Len(queue') + Len(free') + Cardinality(Held') = Size
      BY <1>1, <1>4, <1>5, <2>1, <2>2, HeldCount
    <2>4. ToSet(queue') \cup ToSet(free') \cup HandCells' = Cells
      BY <1>1, <1>5, <2>1, <2>2
    <2> QED BY <2>3, <2>4 DEF CellsConserved, Held, HandCells
  <1>16. CellsApart'
    <2>1. /\ Distinct(queue) /\ Distinct(free) /\ ToSet(queue) \cap ToSet(free) = {}
          /\ \A u \in Threads : hand[u] # NoCell => hand[u] \notin ToSet(queue) \cup ToSet(free)
      BY <1>2 DEF CellsApart
    <2>2. /\ Distinct(queue') /\ Distinct(free') /\ ToSet(queue') \cap ToSet(free') = {}
          /\ \A u \in Threads : hand'[u] # NoCell => hand'[u] \notin ToSet(queue') \cup ToSet(free')
      BY <1>1, <1>5, <1>7, <2>1
    <2>3. \A u \in Threads : u # s => hand[u] # hand'[s]
      BY <1>5, <1>7, <1>8, <2>1
    <2> QED BY <1>0, <1>2, <1>7, <2>2, <2>3, HandsApart
  <1>17. LinkedIsCopied'
    <2>1. \A u \in Threads : u # s => msg'[u] = msg[u]
      BY <1>0, <1>1, <1>2 DEF TypeOK
    <2> QED BY <1>1, <1>2, <1>6, <1>7, <2>1 DEF LinkedIsCopied
  <1> QED BY <1>1, <1>9, <1>10, <1>11, <1>12, <1>13, <1>14, <1>15, <1>16, <1>17, NoRing
       DEF QueueInv, WaitInv, CountInv, CellInv

LEMMA MqSendKeeps ==
    ASSUME QueueInv, NEW s \in Senders, NEW m \in Msgs, NEW left, MqSend(s, left, m)
    PROVE  QueueInv'
  <1>1. pc[s] \in {"idle", "back"} /\ TakeCell(s, m) /\ urgent' = urgent
    BY DEF MqSend, EnterSend, Enter
  <1> QED BY <1>1, TakeCellKeeps

LEMMA MqUrgentKeeps ==
    ASSUME QueueInv, NEW s \in Senders, NEW m \in Msgs, MqUrgent(s, m)
    PROVE  QueueInv'
  <1>1. pc[s] \in {"idle", "back"} /\ TakeCell(s, m) /\ urgent' = urgent \cup {s}
    BY DEF MqUrgent
  <1> QED BY <1>1, TakeCellKeeps

(* rt_mq_recv takes the first cell of the queue. *)
LEMMA MqRecvKeeps ==
    ASSUME QueueInv, NEW r \in Receivers, NEW left, MqRecv(r, left)
    PROVE  QueueInv'
  <1>0. r \in Threads /\ r \notin Senders /\ Senders \subseteq Threads /\ Receivers \subseteq Threads
    BY ThreadFacts
  <1>1. /\ kind = "mq" /\ kind' = kind /\ pc[r] \in {"idle", "back"} /\ entry > 0
        /\ hand' = [hand EXCEPT ![r] = Head(queue)] /\ queue' = Tail(queue)
        /\ entry' = entry - 1 /\ pc' = [pc EXCEPT ![r] = "copy"]
        /\ tmo' = [tmo EXCEPT ![r] = "none"] /\ pool' = pool /\ inOff' = inOff /\ outOff' = outOff
        /\ free' = free /\ rlist' = rlist /\ slist' = slist /\ timer' = timer
        /\ msg' = msg /\ urgent' = urgent
    BY DEF MqRecv, Enter
  <1>2. /\ TypeOK /\ WaitersListed /\ TimerWaits /\ Places /\ NoForgottenReceiver /\ NoForgottenSender
        /\ CellsConserved /\ CellsApart /\ LinkedIsCopied
    BY DEF QueueInv, WaitInv, CountInv, CellInv
  <1>3. /\ pc[r] # "wait" /\ hand[r] = NoCell /\ r \notin urgent /\ ~timer[r]
    BY <1>0, <1>1, CallerFacts
  <1>4. /\ free \in Seq(Cells) /\ queue \in Seq(Cells) /\ entry \in 0 .. Size /\ Size \in Nat
        /\ pc \in [Threads -> {"idle", "wait", "back", "failed", "copy", "link", "free"}]
        /\ hand \in [Threads -> Cells \cup {NoCell}]
    BY <1>2, QueueAssumption DEF TypeOK
  <1>c. /\ entry = Len(queue)
        /\ Len(queue) + Len(free) + Cardinality(Held) = Size
        /\ ToSet(queue) \cup ToSet(free) \cup HandCells = Cells
    BY <1>1, <1>2, MqCells
  <1>d. queue # <<>>
    BY <1>1, <1>4, <1>c
  <1>5. /\ Head(queue) \in Cells /\ queue' \in Seq(Cells) /\ Len(queue) = Len(queue') + 1
        /\ ToSet(queue) = {Head(queue)} \cup ToSet(queue')
        /\ Distinct(queue) => Distinct(queue') /\ Head(queue) \notin ToSet(queue')
    BY <1>1, <1>4, <1>d, TailProperties, HeadListed
  <1>6. /\ pc' \in [Threads -> {"idle", "wait", "back", "failed", "copy", "link", "free"}]
        /\ pc'[r] = "copy" /\ \A u \in Threads : u # r => pc'[u] = pc[u]
    BY <1>0, <1>1, <1>4
  <1>7. /\ hand' \in [Threads -> Cells \cup {NoCell}]
        /\ hand'[r] = Head(queue) /\ \A u \in Threads : u # r => hand'[u] = hand[u]
    BY <1>0, <1>1, <1>4, <1>5
  <1>8. Head(queue) # NoCell
    BY <1>5, QueueAssumption DEF Cells
  <1>e. entry' \in 0 .. Size /\ entry' \in Int /\ entry' <= entry - 1
    BY <1>1, <1>4
  <1>r. ret' \in [Senders -> Results]
    BY DEF QueueInv, TypeOK, MqRecv
  <1>9. TypeOK'
    <2>1. tmo' \in [Threads -> {"none", "ticks", "forever"}]
      BY <1>1, <1>2 DEF TypeOK
    <2> QED BY <1>1, <1>2, <1>5, <1>6, <1>7, <1>e, <2>1, <1>r DEF TypeOK
  <1>10. WaitersListed'
    BY <1>1, <1>2, <1>3, <1>6 DEF WaitersListed
  <1>11. TimerWaits'
    BY <1>1, <1>2, <1>3, <1>6 DEF TimerWaits
  <1>12. Places'
    BY <1>0, <1>1, <1>2, <1>3, <1>6, <1>7, <1>8 DEF Places
  <1>13. NoForgottenReceiver'
    <2>1. /\ Resumed(Receivers) \ {r} \subseteq Resumed(Receivers)'
          /\ rlist' # <<>> => rlist # <<>>
      BY <1>0, <1>1, <1>6 DEF Resumed
    <2> QED BY <1>2, <1>e, <2>1, ReceiversSuffice
  <1>14. NoForgottenSender'
    <2>1. Resumed(Senders)' = Resumed(Senders) /\ Room' = Room
      BY <1>0, <1>1, <1>6 DEF Resumed, Room
    <2> QED BY <1>1, <1>2, <2>1 DEF NoForgottenSender
  <1>15. CellsConserved'
    <2>1. /\ Cardinality(Held') = Cardinality(Held) + 1
          /\ HandCells' = HandCells \cup {Head(queue)}
      BY <1>0, <1>1, <1>2, <1>3, <1>5, CellTaken
    <2>2. /\ entry' = Len(queue')
          /\ Len(queue') + Len(free') + Cardinality(Held') = Size
      BY <1>1, <1>4, <1>5, <1>c, <2>1, HeldCount
    <2>3. ToSet(queue') \cup ToSet(free') \cup HandCells' = Cells
      BY <1>1, <1>5, <1>c, <2>1
    <2> QED BY <2>2, <2>3 DEF CellsConserved, Held, HandCells
  <1>16. CellsApart'
    <2>1. /\ Distinct(queue) /\ Distinct(free) /\ ToSet(queue) \cap ToSet(free) = {}
          /\ \A u \in Threads : hand[u] # NoCell => hand[u] \notin ToSet(queue) \cup ToSet(free)
      BY <1>2 DEF CellsApart
    <2>2. /\ Distinct(queue') /\ Distinct(free') /\ ToSet(queue') \cap ToSet(free') = {}
          /\ \A u \in Threads : hand'[u] # NoCell => hand'[u] \notin ToSet(queue') \cup ToSet(free')
      BY <1>1, <1>5, <1>7, <2>1
    <2>3. \A u \in Threads : u # r => hand[u] # hand'[r]
      BY <1>5, <1>7, <1>8, <2>1
    <2> QED BY <1>0, <1>2, <1>7, <2>2, <2>3, HandsApart
  <1>17. LinkedIsCopied'
    BY <1>1, <1>2, <1>6, <1>7 DEF LinkedIsCopied
  <1> QED BY <1>1, <1>9, <1>10, <1>11, <1>12, <1>13, <1>14, <1>15, <1>16, <1>17, NoRing
       DEF QueueInv, WaitInv, CountInv, CellInv

(* A thread that copies holds a cell of a message queue. *)
LEMMA HolderFacts ==
    ASSUME QueueInv, NEW t \in Threads, pc[t] \in {"copy", "link", "free"}
    PROVE  /\ kind = "mq" /\ hand[t] # NoCell /\ hand[t] \in Cells
           /\ pc[t] # "wait" /\ ~timer[t] /\ t \notin Resumed(Senders) /\ t \notin Resumed(Receivers)
           /\ pc[t] = "link" => t \in Senders
           /\ pc[t] = "free" => t \in Receivers /\ t \notin urgent
           /\ \A u \in Threads : u # t => hand[u] # hand[t]
  <1>1. kind = "mq"
    BY QueueAssumption DEF QueueInv, TypeOK, CellInv, Ring
  <1>2. hand[t] # NoCell /\ hand[t] \in Cells
    BY DEF QueueInv, WaitInv, Places, TypeOK
  <1>3. pc[t] # "wait" /\ pc[t] # "back"
    OBVIOUS
  <1>4. ~timer[t]
    BY <1>3 DEF QueueInv, WaitInv, TimerWaits
  <1>5. /\ pc[t] = "link" => t \in Senders
        /\ pc[t] = "free" => t \in Receivers /\ t \notin urgent
    BY DEF QueueInv, WaitInv, Places
  <1>6. \A u \in Threads : u # t => hand[u] # hand[t]
    BY <1>2 DEF QueueInv, CellInv, CellsApart
  <1> QED BY <1>1, <1>2, <1>3, <1>4, <1>5, <1>6 DEF Resumed

(* rt_memcpy into the cell *)
LEMMA MqCopyInKeeps ==
    ASSUME QueueInv, NEW s \in Threads, MqCopyIn(s)
    PROVE  QueueInv'
  <1>1. /\ s \in Senders /\ pc[s] = "copy" /\ pool' = [pool EXCEPT ![hand[s]] = msg[s]]
        /\ pc' = [pc EXCEPT ![s] = "link"] /\ kind' = kind /\ inOff' = inOff /\ outOff' = outOff
        /\ queue' = queue /\ free' = free /\ entry' = entry /\ rlist' = rlist /\ slist' = slist
        /\ timer' = timer /\ tmo' = tmo /\ msg' = msg /\ urgent' = urgent /\ hand' = hand
    BY DEF MqCopyIn, local
  <1>2. /\ TypeOK /\ WaitersListed /\ TimerWaits /\ Places /\ NoForgottenReceiver /\ NoForgottenSender
        /\ CellsConserved /\ CellsApart /\ LinkedIsCopied
    BY DEF QueueInv, WaitInv, CountInv, CellInv
  <1>3. /\ kind = "mq" /\ hand[s] # NoCell /\ hand[s] \in Cells /\ ~timer[s]
        /\ \A u \in Threads : u # s => hand[u] # hand[s]
    BY <1>1, HolderFacts
  <1>4. /\ pc' \in [Threads -> {"idle", "wait", "back", "failed", "copy", "link", "free"}]
        /\ pc'[s] = "link" /\ \A u \in Threads : u # s => pc'[u] = pc[u]
    BY <1>1, <1>2 DEF TypeOK
  <1>5. /\ pool' \in [Cells -> Msgs \cup {NoMsg}] /\ pool'[hand[s]] = msg[s]
        /\ \A c \in Cells : c # hand[s] => pool'[c] = pool[c]
    BY <1>1, <1>2, <1>3 DEF TypeOK
  <1>r. ret' \in [Senders -> Results]
    BY DEF QueueInv, TypeOK, MqCopyIn, local
  <1>6. TypeOK'
    BY <1>1, <1>2, <1>4, <1>5, <1>r DEF TypeOK
  <1>7. WaitersListed' /\ TimerWaits'
    BY <1>1, <1>2, <1>3, <1>4 DEF WaitersListed, TimerWaits
  <1>8. Places'
    BY <1>1, <1>2, <1>3, <1>4 DEF Places
  <1>9. CountInv'
    <2>1. Resumed(Senders)' = Resumed(Senders) /\ Resumed(Receivers)' = Resumed(Receivers)
      BY <1>1, <1>4, ThreadFacts DEF Resumed
    <2>2. Room' = Room
      BY <1>1 DEF Room
    <2> QED BY <1>1, <1>2, <2>1, <2>2 DEF CountInv, NoForgottenReceiver, NoForgottenSender
  <1>10. CellsConserved' /\ CellsApart'
    BY <1>1, <1>2 DEF CellsConserved, Held, CellsApart
  <1>11. LinkedIsCopied'
    <2> SUFFICES ASSUME NEW u \in Threads, pc'[u] = "link"
                 PROVE  pool'[hand[u]] = msg[u]
      BY <1>1 DEF LinkedIsCopied
    <2>1. CASE u = s
      BY <1>5, <2>1
    <2>2. CASE u # s
      <3>1. pc[u] = "link" /\ pool[hand[u]] = msg[u]
        BY <1>2, <1>4, <2>2 DEF LinkedIsCopied
      <3>2. hand[u] \in Cells /\ hand[u] # hand[s]
        BY <1>3, <2>2, <3>1, HolderFacts
      <3> QED BY <1>5, <3>1, <3>2
    <2> QED BY <2>1, <2>2
  <1> QED BY <1>1, <1>3, <1>6, <1>7, <1>8, <1>9, <1>10, <1>11, NoRing DEF QueueInv, WaitInv, CellInv

(* rt_memcpy out of the cell *)
LEMMA MqCopyOutKeeps ==
    ASSUME QueueInv, NEW r \in Threads, MqCopyOut(r)
    PROVE  QueueInv'
  <1>1. /\ r \in Receivers /\ pc[r] = "copy" /\ msg' = [msg EXCEPT ![r] = pool[hand[r]]]
        /\ pc' = [pc EXCEPT ![r] = "free"] /\ kind' = kind /\ storage' = storage
        /\ rlist' = rlist /\ slist' = slist
        /\ timer' = timer /\ tmo' = tmo /\ urgent' = urgent /\ hand' = hand
    BY DEF MqCopyOut
  <1>2. /\ TypeOK /\ WaitersListed /\ TimerWaits /\ Places
        /\ CellsConserved /\ CellsApart /\ LinkedIsCopied
    BY DEF QueueInv, WaitInv, CellInv
  <1>3. /\ kind = "mq" /\ hand[r] # NoCell /\ hand[r] \in Cells /\ ~timer[r]
    BY <1>1, HolderFacts
  <1>4. /\ pc' \in [Threads -> {"idle", "wait", "back", "failed", "copy", "link", "free"}]
        /\ pc'[r] = "free" /\ \A u \in Threads : u # r => pc'[u] = pc[u]
    BY <1>1, <1>2 DEF TypeOK
  <1>5. /\ msg' \in [Threads -> Msgs \cup {NoMsg}] /\ \A u \in Threads : u # r => msg'[u] = msg[u]
    BY <1>1, <1>2, <1>3 DEF TypeOK
  <1>r. ret' \in [Senders -> Results]
    BY DEF QueueInv, TypeOK, MqCopyOut
  <1>6. TypeOK'
    BY <1>1, <1>2, <1>4, <1>5, <1>r DEF TypeOK, storage
  <1>7. WaitersListed' /\ TimerWaits'
    BY <1>1, <1>2, <1>3, <1>4 DEF WaitersListed, TimerWaits
  <1>8. Places'
    <2>1. r \notin Senders /\ r \notin urgent
      BY <1>1, <1>2, ThreadFacts DEF TypeOK
    <2> QED BY <1>1, <1>2, <1>3, <1>4, <1>5, <2>1 DEF Places
  <1>9. CountInv'
    BY <1>1, <1>2, <1>4, CountsKept DEF QueueInv
  <1>10. CellsConserved' /\ CellsApart'
    BY <1>1, <1>2 DEF CellsConserved, Held, CellsApart, storage
  <1>11. LinkedIsCopied'
    BY <1>1, <1>2, <1>4, <1>5 DEF LinkedIsCopied, storage
  <1> QED BY <1>1, <1>3, <1>6, <1>7, <1>8, <1>9, <1>10, <1>11, NoRing DEF QueueInv, WaitInv, CellInv

(* The sender links its cell. *)
LEMMA MqLinkKeeps ==
    ASSUME QueueInv, NEW s \in Threads, MqLink(s)
    PROVE  QueueInv'
  <1>1. /\ pc[s] = "link" /\ kind' = kind
        /\ queue' = <<hand[s]>> \o queue \/ queue' = Append(queue, hand[s])
        /\ entry' = entry + 1 /\ WakeReceiver(s, "idle")
        /\ hand' = [hand EXCEPT ![s] = NoCell] /\ msg' = [msg EXCEPT ![s] = NoMsg]
        /\ urgent' = urgent \ {s} /\ tmo' = tmo
        /\ pool' = pool /\ inOff' = inOff /\ outOff' = outOff /\ free' = free
    BY DEF MqLink
  <1>2. /\ TypeOK /\ WaitersListed /\ TimerWaits /\ Places /\ NoForgottenReceiver /\ NoForgottenSender
        /\ CellsConserved /\ CellsApart /\ LinkedIsCopied
    BY DEF QueueInv, WaitInv, CountInv, CellInv
  <1>3. /\ kind = "mq" /\ hand[s] # NoCell /\ hand[s] \in Cells /\ pc[s] # "wait"
        /\ s \in Senders /\ s \notin Resumed(Senders)
        /\ \A u \in Threads : u # s => hand[u] # hand[s]
    BY <1>1, HolderFacts
  <1>4. /\ pc' \in [Threads -> {"idle", "wait", "back", "failed", "copy", "link", "free"}]
        /\ timer' \in [Threads -> BOOLEAN]
        /\ rlist' \in Seq(Receivers) /\ slist' = slist
        /\ WaitersListed' /\ TimerWaits'
        /\ \A u \in Threads : u # s => pc'[u] = pc[u] \/ (pc[u] = "wait" /\ pc'[u] = "back")
        /\ pc'[s] = "idle"
        /\ Resumed(Senders)' = Resumed(Senders) \ {s}
    BY <1>1, <1>2, <1>3, WakeReceiverKeeps
  <1>5. /\ free \in Seq(Cells) /\ queue \in Seq(Cells) /\ entry \in 0 .. Size /\ Size \in Nat
        /\ hand \in [Threads -> Cells \cup {NoCell}] /\ msg \in [Threads -> Msgs \cup {NoMsg}]
    BY <1>2, QueueAssumption DEF TypeOK
  <1>6. /\ hand[s] \notin ToSet(queue) /\ hand[s] \notin ToSet(free)
        /\ Distinct(queue) /\ Distinct(free) /\ ToSet(queue) \cap ToSet(free) = {}
        /\ \A u \in Threads : hand[u] # NoCell => hand[u] \notin ToSet(queue) \cup ToSet(free)
    BY <1>2, <1>3 DEF CellsApart
  <1>7. /\ queue' \in Seq(Cells) /\ Len(queue') = Len(queue) + 1
        /\ ToSet(queue') = ToSet(queue) \cup {hand[s]} /\ Distinct(queue')
    <2>1. CASE queue' = <<hand[s]>> \o queue
      BY <1>3, <1>5, <1>6, <2>1, PushListed
    <2>2. CASE queue' = Append(queue, hand[s])
      BY <1>3, <1>5, <1>6, <2>2, AppendListed
    <2> QED BY <1>1, <2>1, <2>2
  <1>8. /\ hand' \in [Threads -> Cells \cup {NoCell}] /\ hand'[s] = NoCell
        /\ \A u \in Threads : u # s => hand'[u] = hand[u]
        /\ msg' \in [Threads -> Msgs \cup {NoMsg}] /\ msg'[s] = NoMsg
        /\ \A u \in Threads : u # s => msg'[u] = msg[u]
    BY <1>1, <1>5
  <1>9. CellsConserved' /\ entry' \in 0 .. Size
    <2>1. /\ entry = Len(queue)
          /\ Len(queue) + Len(free) + Cardinality(Held) = Size
          /\ ToSet(queue) \cup ToSet(free) \cup HandCells = Cells
      BY <1>2, <1>3, MqCells
    <2>2. /\ Cardinality(Held') = Cardinality(Held) - 1
          /\ HandCells = HandCells' \cup {hand[s]}
      BY <1>1, <1>2, <1>3, CellGiven
    <2>3. s \in Held /\ Cardinality(Held) > 0
      <3>1. s \in Held
        BY <1>3 DEF Held
      <3> QED BY <3>1, HeldCount, FS_EmptySet
    <2>4. /\ entry' = Len(queue') /\ entry' \in 0 .. Size
          /\ Len(queue') + Len(free') + Cardinality(Held') = Size
      BY <1>1, <1>5, <1>7, <2>1, <2>2, <2>3, HeldCount
    <2>5. ToSet(queue') \cup ToSet(free') \cup HandCells' = Cells
      BY <1>1, <1>7, <2>1, <2>2
    <2> QED BY <2>4, <2>5 DEF CellsConserved, Held, HandCells
  <1>r. ret' \in [Senders -> Results]
    BY DEF QueueInv, TypeOK, MqLink, Returns, Results
  <1>10. TypeOK'
    BY <1>1, <1>2, <1>4, <1>7, <1>8, <1>9, <1>r DEF TypeOK
  <1>11. Places'
    BY <1>1, <1>2, <1>4, <1>8 DEF Places
  <1>12. NoForgottenReceiver'
    BY <1>1, <1>2, <1>3, MessageAdded
  <1>13. NoForgottenSender'
    <2>1. Resumed(Senders)' = Resumed(Senders) /\ Room' = Room
      BY <1>1, <1>3, <1>4 DEF Room
    <2> QED BY <1>2, <1>4, <2>1 DEF NoForgottenSender
  <1>14. CellsApart'
    <2>1. /\ Distinct(queue') /\ Distinct(free') /\ ToSet(queue') \cap ToSet(free') = {}
          /\ \A u \in Threads : hand'[u] # NoCell => hand'[u] \notin ToSet(queue') \cup ToSet(free')
      BY <1>1, <1>3, <1>6, <1>7, <1>8
    <2> QED BY <1>2, <1>8, <2>1, HandsApart
  <1>15. LinkedIsCopied'
    BY <1>1, <1>2, <1>4, <1>8 DEF LinkedIsCopied
  <1> QED BY <1>1, <1>3, <1>4, <1>9, <1>10, <1>11, <1>12, <1>13, <1>14, <1>15, NoRing
       DEF QueueInv, WaitInv, CountInv, CellInv

(* The receiver frees its cell. *)
LEMMA MqFreeKeeps ==
    ASSUME QueueInv, NEW r \in Threads, MqFree(r)
    PROVE  QueueInv'
  <1>1. /\ pc[r] = "free" /\ kind' = kind /\ free' = <<hand[r]>> \o free
        /\ hand' = [hand EXCEPT ![r] = NoCell] /\ WakeSender(r, "idle")
        /\ pool' = pool /\ inOff' = inOff /\ outOff' = outOff /\ queue' = queue /\ entry' = entry
        /\ tmo' = tmo /\ msg' = msg /\ urgent' = urgent
    BY DEF MqFree
  <1>2. /\ TypeOK /\ WaitersListed /\ TimerWaits /\ Places /\ NoForgottenReceiver /\ NoForgottenSender
        /\ CellsConserved /\ CellsApart /\ LinkedIsCopied
    BY DEF QueueInv, WaitInv, CountInv, CellInv
  <1>3. /\ kind = "mq" /\ hand[r] # NoCell /\ hand[r] \in Cells /\ pc[r] # "wait"
        /\ r \in Receivers /\ r \notin urgent /\ r \notin Resumed(Receivers)
        /\ \A u \in Threads : u # r => hand[u] # hand[r]
    BY <1>1, HolderFacts
  <1>4. /\ pc' \in [Threads -> {"idle", "wait", "back", "failed", "copy", "link", "free"}]
        /\ timer' \in [Threads -> BOOLEAN]
        /\ slist' \in Seq(Senders) /\ rlist' = rlist
        /\ WaitersListed' /\ TimerWaits'
        /\ \A u \in Threads : u # r => pc'[u] = pc[u] \/ (pc[u] = "wait" /\ pc'[u] = "back")
        /\ pc'[r] = "idle"
        /\ Resumed(Receivers)' = Resumed(Receivers) \ {r}
    BY <1>1, <1>2, <1>3, WakeSenderKeeps
  <1>5. /\ free \in Seq(Cells) /\ queue \in Seq(Cells) /\ entry \in 0 .. Size /\ Size \in Nat
        /\ hand \in [Threads -> Cells \cup {NoCell}]
    BY <1>2, QueueAssumption DEF TypeOK
  <1>6. /\ hand[r] \notin ToSet(queue) /\ hand[r] \notin ToSet(free)
        /\ Distinct(queue) /\ Distinct(free) /\ ToSet(queue) \cap ToSet(free) = {}
        /\ \A u \in Threads : hand[u] # NoCell => hand[u] \notin ToSet(queue) \cup ToSet(free)
    BY <1>2, <1>3 DEF CellsApart
  <1>7. /\ free' \in Seq(Cells) /\ Len(free') = Len(free) + 1
        /\ ToSet(free') = ToSet(free) \cup {hand[r]} /\ Distinct(free')
    BY <1>1, <1>3, <1>5, <1>6, PushListed
  <1>8. /\ hand' \in [Threads -> Cells \cup {NoCell}] /\ hand'[r] = NoCell
        /\ \A u \in Threads : u # r => hand'[u] = hand[u]
    BY <1>1, <1>5
  <1>9. CellsConserved'
    <2>1. /\ entry = Len(queue)
          /\ Len(queue) + Len(free) + Cardinality(Held) = Size
          /\ ToSet(queue) \cup ToSet(free) \cup HandCells = Cells
      BY <1>2, <1>3, MqCells
    <2>2. /\ Cardinality(Held') = Cardinality(Held) - 1
          /\ HandCells = HandCells' \cup {hand[r]}
      BY <1>1, <1>2, <1>3, CellGiven
    <2>3. /\ entry' = Len(queue')
          /\ Len(queue') + Len(free') + Cardinality(Held') = Size
      BY <1>1, <1>5, <1>7, <2>1, <2>2, HeldCount
    <2>4. ToSet(queue') \cup ToSet(free') \cup HandCells' = Cells
      BY <1>1, <1>7, <2>1, <2>2
    <2> QED BY <2>3, <2>4 DEF CellsConserved, Held, HandCells
  <1>r. ret' \in [Senders -> Results]
    BY DEF QueueInv, TypeOK, MqFree
  <1>10. TypeOK'
    BY <1>1, <1>2, <1>4, <1>7, <1>8, <1>r DEF TypeOK
  <1>11. Places'
    <2>1. r \notin Senders
      BY <1>3, ThreadFacts
    <2> QED BY <1>1, <1>2, <1>3, <1>4, <1>8, <2>1 DEF Places
  <1>12. NoForgottenSender'
    <2>1. Room' = Room + 1
      BY <1>1, <1>3, <1>7 DEF Room
    <2> QED BY <1>1, <1>2, <1>3, <2>1, RoomAdded
  <1>13. NoForgottenReceiver'
    <2>1. Resumed(Receivers)' = Resumed(Receivers)
      BY <1>3, <1>4
    <2> QED BY <1>1, <1>2, <1>4, <2>1 DEF NoForgottenReceiver
  <1>14. CellsApart'
    <2>1. /\ Distinct(queue') /\ Distinct(free') /\ ToSet(queue') \cap ToSet(free') = {}
          /\ \A u \in Threads : hand'[u] # NoCell => hand'[u] \notin ToSet(queue') \cup ToSet(free')
      BY <1>1, <1>3, <1>6, <1>7, <1>8
    <2> QED BY <1>2, <1>8, <2>1, HandsApart
  <1>15. LinkedIsCopied'
    BY <1>1, <1>2, <1>4, <1>8 DEF LinkedIsCopied
  <1> QED BY <1>1, <1>3, <1>4, <1>9, <1>10, <1>11, <1>12, <1>13, <1>14, <1>15, NoRing
       DEF QueueInv, WaitInv, CountInv, CellInv

(* rt_mb_control, rt_mq_control *)
LEMMA ResetKeeps ==
    ASSUME QueueInv, Reset
    PROVE  QueueInv'
  <1> DEFINE W == ToSet(rlist) \cup ToSet(slist)
  <1>1. /\ pc' = [t \in Threads |-> IF t \in W THEN "failed" ELSE pc[t]]
        /\ timer' = [t \in Threads |-> timer[t] /\ t \notin W]
        /\ rlist' = <<>> /\ slist' = <<>> /\ entry' = 0 /\ inOff' = 0 /\ outOff' = 0
        /\ free' = Reverse(queue) \o free /\ queue' = <<>>
        /\ kind' = kind /\ pool' = pool /\ tmo' = tmo
        /\ msg' = msg /\ urgent' = urgent /\ hand' = hand
    BY DEF Reset, local
  <1>2. /\ TypeOK /\ WaitersListed /\ TimerWaits /\ Places /\ Ring
        /\ CellsConserved /\ CellsApart /\ LinkedIsCopied
    BY DEF QueueInv, WaitInv, CellInv
  <1>3. \A t \in Threads : t \in W <=> pc[t] = "wait"
    BY <1>2 DEF WaitersListed
  <1> HIDE DEF W
  <1>4. /\ pc' \in [Threads -> {"idle", "wait", "back", "failed", "copy", "link", "free"}]
        /\ \A t \in Threads : pc'[t] # "wait" /\ (pc'[t] = pc[t] \/ (pc[t] = "wait" /\ pc'[t] = "failed"))
    BY <1>1, <1>2, <1>3 DEF TypeOK
  <1>5. /\ timer' \in [Threads -> BOOLEAN]
    BY <1>1, Zenon
  <1>6. \A t \in Threads : ~timer'[t]
    BY <1>1, <1>2, <1>3 DEF TimerWaits
  <1>7. /\ free \in Seq(Cells) /\ queue \in Seq(Cells) /\ Size \in Nat \ {0}
    BY <1>2, QueueAssumption DEF TypeOK
  <1>8. /\ Distinct(queue) /\ Distinct(free) /\ ToSet(queue) \cap ToSet(free) = {}
        /\ \A u \in Threads : hand[u] # NoCell => hand[u] \notin ToSet(queue) \cup ToSet(free)
    BY <1>2 DEF CellsApart
  <1>9. /\ Reverse(queue) \in Seq(Cells) /\ Len(Reverse(queue)) = Len(queue)
        /\ ToSet(Reverse(queue)) = ToSet(queue) /\ Distinct(Reverse(queue))
    BY <1>7, <1>8, ReverseListed
  <1>10. /\ free' \in Seq(Cells) /\ Len(free') = Len(queue) + Len(free)
         /\ ToSet(free') = ToSet(queue) \cup ToSet(free) /\ Distinct(free')
    <2>1. /\ Reverse(queue) \o free \in Seq(Cells)
          /\ Len(Reverse(queue) \o free) = Len(Reverse(queue)) + Len(free)
          /\ ToSet(Reverse(queue) \o free) = ToSet(Reverse(queue)) \cup ToSet(free)
      BY <1>7, <1>9, ConcatListed
    <2>2. Distinct(Reverse(queue) \o free)
      BY <1>7, <1>8, <1>9, ConcatListed
    <2> QED BY <1>1, <1>9, <2>1, <2>2
  <1>11. queue' \in Seq(Cells) /\ Len(queue') = 0 /\ ToSet(queue') = {} /\ Distinct(queue')
    BY <1>1 DEF ToSet, Distinct
  <1>r. ret' \in [Senders -> Results]
    BY DEF QueueInv, TypeOK, Reset, local
  <1>12. TypeOK'
    BY <1>1, <1>2, <1>4, <1>5, <1>7, <1>10, <1>11, <1>r DEF TypeOK, Cells
  <1>13. WaitersListed' /\ TimerWaits'
    BY <1>1, <1>4, <1>6 DEF WaitersListed, TimerWaits, ToSet
  <1>14. Places'
    BY <1>1, <1>2, <1>4 DEF Places
  <1>15. CountInv'
    BY <1>1 DEF CountInv, NoForgottenReceiver, NoForgottenSender
  <1>16. CellsConserved'
    <2> SUFFICES ASSUME kind' = "mq" PROVE CellsConserved'
      BY DEF CellsConserved
    <2>1. /\ entry = Len(queue)
          /\ Len(queue) + Len(free) + Cardinality(Held) = Size
          /\ ToSet(queue) \cup ToSet(free) \cup HandCells = Cells
      BY <1>1, <1>2, MqCells
    <2>2. Held' = Held /\ HandCells' = HandCells
      BY <1>1 DEF Held, HandCells
    <2>3. /\ entry' = Len(queue')
          /\ Len(queue') + Len(free') + Cardinality(Held') = Size
      BY <1>1, <1>7, <1>10, <1>11, <2>1, <2>2, HeldCount
    <2>4. ToSet(queue') \cup ToSet(free') \cup HandCells' = Cells
      BY <1>10, <1>11, <2>1, <2>2
    <2> QED BY <2>3, <2>4 DEF CellsConserved, Held, HandCells
  <1>17. CellsApart'
    <2>1. \A t, u \in Threads : hand[t] # NoCell /\ hand[t] = hand[u] => t = u
      BY <1>2 DEF CellsApart
    <2> QED BY <1>1, <1>8, <1>10, <1>11, <2>1 DEF CellsApart
  <1>18. LinkedIsCopied'
    BY <1>1, <1>2, <1>4 DEF LinkedIsCopied
  <1>19. Ring'
    <2> SUFFICES ASSUME kind = "mailbox" PROVE Ring'
      BY <1>1 DEF Ring
    <2>1. queue = <<>> /\ free = <<>> /\ \A t \in Threads : pc[t] \notin {"copy", "link", "free"}
      BY <1>2 DEF Ring
    <2>2. free' = <<>>
      BY <1>10, <2>1
    <2>3. (0 + 0) % Size = 0
      <3>1. 0 \in Cells /\ 0 \in 0 .. Size
        BY <1>7 DEF Cells
      <3> QED BY <1>7, <3>1, RingPlace
    <2> QED BY <1>1, <1>4, <2>1, <2>2, <2>3 DEF Ring
  <1> QED BY <1>12, <1>13, <1>14, <1>15, <1>16, <1>17, <1>18, <1>19
       DEF QueueInv, WaitInv, CellInv

-----------------------------------------------------------------------------
(* rt_mb_init and rt_mq_init establish the invariant. *)
LEMMA InitQueueInv == Init => QueueInv
  <1> SUFFICES ASSUME Init PROVE QueueInv
    OBVIOUS
  <1>0. Size \in Nat \ {0} /\ Kinds \subseteq {"mailbox", "mq"}
    BY QueueAssumption
  <1>1. /\ kind \in Kinds /\ queue = <<>> /\ entry = 0 /\ inOff = 0 /\ outOff = 0
        /\ rlist = <<>> /\ slist = <<>> /\ urgent = {}
        /\ pc = [t \in Threads |-> "idle"] /\ timer = [t \in Threads |-> FALSE]
        /\ hand = [t \in Threads |-> NoCell] /\ msg = [t \in Threads |-> NoMsg]
        /\ pool = [c \in Cells |-> NoMsg] /\ tmo = [t \in Threads |-> "none"]
        /\ ret = [t \in Senders |-> "none"]
        /\ kind = "mq" => free = [i \in 1 .. Size |-> Size - i]
        /\ kind # "mq" => free = <<>>
    BY DEF Init
  <1>2. /\ free \in Seq(Cells) /\ Distinct(free)
        /\ kind = "mq" => Len(free) = Size /\ ToSet(free) = Cells
    <2>1. CASE kind # "mq"
      BY <1>1, <2>1 DEF Distinct
    <2>2. CASE kind = "mq"
      <3>1. free = [i \in 1 .. Size |-> Size - i]
        BY <1>1, <2>2
      <3>2. \A i \in 1 .. Size : Size - i \in Cells
        BY <1>0 DEF Cells
      <3>3. free \in Seq(Cells) /\ Len(free) = Size /\ DOMAIN free = 1 .. Size
        BY <1>0, <3>1, <3>2
      <3>4. Distinct(free)
        BY <1>0, <3>1 DEF Distinct
      <3>5. ToSet(free) = Cells
        <4>1. \A c \in Cells : Size - c \in 1 .. Size /\ free[Size - c] = c
          BY <1>0, <3>1 DEF Cells
        <4>2. \A i \in 1 .. Size : free[i] \in Cells
          BY <3>1, <3>2
        <4> QED BY <3>3, <4>1, <4>2 DEF ToSet
      <3> QED BY <3>3, <3>4, <3>5
    <2> QED BY <2>1, <2>2
  <1>3. TypeOK
    <2>1. timer \in [Threads -> BOOLEAN]
      BY <1>1, Zenon
    <2>2. 0 \in Cells /\ 0 \in 0 .. Size
      BY <1>0 DEF Cells
    <2> QED BY <1>1, <1>2, <2>1, <2>2 DEF TypeOK, Results
  <1>4. WaitersListed /\ TimerWaits
    BY <1>1 DEF WaitersListed, TimerWaits, ToSet
  <1>5. Places
    BY <1>1 DEF Places
  <1>6. CountInv
    BY <1>1 DEF CountInv, NoForgottenReceiver, NoForgottenSender
  <1>7. CellsConserved
    <2>1. Held = {} /\ HandCells = {}
      BY <1>1 DEF Held, HandCells
    <2>2. Cardinality(Held) = 0
      BY <2>1, FS_EmptySet
    <2>3. ToSet(queue) = {} /\ Len(queue) = 0
      BY <1>1 DEF ToSet
    <2>4. kind = "mq" => /\ entry = Len(queue)
                         /\ Len(queue) + Len(free) + Cardinality(Held) = Size
                         /\ ToSet(queue) \cup ToSet(free) \cup HandCells = Cells
      BY <1>0, <1>1, <1>2, <2>1, <2>2, <2>3
    <2> QED BY <2>4 DEF CellsConserved, Held, HandCells
  <1>8. CellsApart /\ LinkedIsCopied
    BY <1>1, <1>2 DEF CellsApart, LinkedIsCopied, Distinct, ToSet
  <1>9. Ring
    <2>1. (0 + 0) % Size = 0
      <3>1. 0 \in Cells /\ 0 \in 0 .. Size
        BY <1>0 DEF Cells
      <3> QED BY <1>0, <3>1, RingPlace
    <2> QED BY <1>1, <2>1 DEF Ring
  <1> QED BY <1>3, <1>4, <1>5, <1>6, <1>7, <1>8, <1>9 DEF QueueInv, WaitInv, CellInv

(* Every operation keeps it. *)
LEMMA NextQueueInv == QueueInv /\ [Next]_vars => QueueInv'
  <1> SUFFICES ASSUME QueueInv, [Next]_vars PROVE QueueInv'
    OBVIOUS
  <1>1. CASE UNCHANGED vars
    <2>1. /\ UNCHANGED <<kind, pool, inOff, outOff, queue, free, entry, rlist, slist, pc, timer, tmo, msg>>
          /\ UNCHANGED <<urgent, hand, ret>>
      BY <1>1 DEF vars, storage, local
    <2>2. TypeOK' /\ WaitInv'
      BY <2>1 DEF QueueInv, TypeOK, WaitInv, WaitersListed, TimerWaits, Places
    <2>3. CountInv'
      BY <2>1 DEF QueueInv, CountInv, NoForgottenReceiver, NoForgottenSender, Room, Resumed
    <2>4. CellInv'
      BY <2>1 DEF QueueInv, CellInv, Ring, CellsConserved, Held, CellsApart, LinkedIsCopied
    <2> QED BY <2>2, <2>3, <2>4 DEF QueueInv
  <1>2. ASSUME NEW s \in Senders, NEW m \in Msgs, NEW left \in {"none", "ticks", "forever"},
               MbSend(s, left, m) \/ MqSend(s, left, m) \/ SendWait(s, left, m)
        PROVE  QueueInv'
    BY <1>2, MbSendKeeps, MqSendKeeps, SendWaitKeeps
  <1>3. ASSUME NEW s \in Senders, NEW m \in Msgs, MbUrgent(s, m) \/ MqUrgent(s, m)
        PROVE  QueueInv'
    BY <1>3, MbUrgentKeeps, MqUrgentKeeps
  <1>u. ASSUME NEW s \in Senders, UrgentFull(s) PROVE QueueInv'
    BY <1>u, UrgentFullKeeps
  <1>4. ASSUME NEW r \in Receivers, NEW left \in {"none", "ticks", "forever"},
               MbRecv(r, left) \/ MqRecv(r, left) \/ RecvWait(r, left)
        PROVE  QueueInv'
    BY <1>4, MbRecvKeeps, MqRecvKeeps, RecvWaitKeeps
  <1>5. ASSUME NEW t \in Threads,
               MqCopyIn(t) \/ MqLink(t) \/ MqCopyOut(t) \/ MqFree(t) \/ Timeout(t) \/ Fail(t)
        PROVE  QueueInv'
    BY <1>5, MqCopyInKeeps, MqLinkKeeps, MqCopyOutKeeps, MqFreeKeeps, TimeoutKeeps, FailKeeps
  <1>6. CASE Reset
    BY <1>6, ResetKeeps
  <1> QED BY <1>1, <1>2, <1>3, <1>4, <1>5, <1>6, <1>u DEF Next

(* The inductive invariant of both queues: what the runs check, with where *)
(* the ring's entries end, that no cell is in two places, and what a cell  *)
(* in a sender's hand contains.                                            *)
THEOREM QueueInvariant == Spec => []QueueInv
  BY InitQueueInv, NextQueueInv, PTL DEF Spec

(* The types: the offsets stay inside the pool and entry within its size,  *)
(* though rt_mq_send_wait never compares entry with max_msgs.              *)
THEOREM QueueTypeOK == Spec => []TypeOK
  <1>1. QueueInv => TypeOK
    BY DEF QueueInv
  <1> QED BY <1>1, QueueInvariant, PTL

(* The lists hold exactly who is suspended, after every mix of wake-ups,   *)
(* timeouts and resets.                                                    *)
THEOREM QueueWaitersListed == Spec => []WaitersListed
  <1>1. QueueInv => WaitersListed
    BY DEF QueueInv, WaitInv
  <1> QED BY <1>1, QueueInvariant, PTL

(* rt_mb_send_wait and rt_mq_send_wait resume one receiver per message,    *)
(* and that is enough.                                                     *)
THEOREM QueueNoForgottenReceiver == Spec => []NoForgottenReceiver
  <1>1. QueueInv => NoForgottenReceiver
    BY DEF QueueInv, CountInv
  <1> QED BY <1>1, QueueInvariant, PTL

(* rt_mb_recv and rt_mq_recv resume one sender per place, and that is      *)
(* enough.                                                                 *)
THEOREM QueueNoForgottenSender == Spec => []NoForgottenSender
  <1>1. QueueInv => NoForgottenSender
    BY DEF QueueInv, CountInv
  <1> QED BY <1>1, QueueInvariant, PTL

(* No cell of the message queue is lost or in two places, also when a      *)
(* reset finds cells in the hands of threads that copy.                    *)
THEOREM QueueCellsConserved == Spec => []CellsConserved
  <1>1. QueueInv => CellsConserved
    BY DEF QueueInv, CellInv
  <1> QED BY <1>1, QueueInvariant, PTL

-----------------------------------------------------------------------------
(* The refinement: what RtQueue has for the variables of BoundedQueue *)
Values == Msgs \cup {NoMsg}
RingOf(p, out, n) == [i \in 1 .. n |-> p[(out + i - 1) % Size]]
CellsOf(p, l) == [i \in 1 .. Len(l) |-> p[l[i]]]
QueueOf == IF kind = "mailbox" THEN RingOf(pool, outOff, entry) ELSE CellsOf(pool, queue)
OfferOf == [s \in Senders |-> [msg |-> msg[s], urgent |-> s \in urgent]]
RefusedOf == {s \in Senders : pc[s] = "failed"}
GotOf == [r \in Receivers |-> IF pc[r] = "copy" THEN pool[hand[r]] ELSE msg[r]]

(* When one sequence is another with a first or a last element more. *)
LEMMA AppendIs ==
    ASSUME NEW S, NEW a \in Seq(S), NEW b \in Seq(S), NEW e \in S,
           Len(b) = Len(a) + 1, \A i \in 1 .. Len(a) : b[i] = a[i], b[Len(a) + 1] = e
    PROVE  b = Append(a, e)
  OBVIOUS

LEMMA PushIs ==
    ASSUME NEW S, NEW a \in Seq(S), NEW b \in Seq(S), NEW e \in S,
           Len(b) = Len(a) + 1, \A i \in 1 .. Len(a) : b[i + 1] = a[i], b[1] = e
    PROVE  b = <<e>> \o a
  <1> DEFINE c == <<e>> \o a
             n == Len(a)
  <1>1. c \in Seq(S) /\ Len(c) = n + 1 /\ n \in Nat
    OBVIOUS
  <1>2. c[1] = e /\ \A i \in 2 .. n + 1 : c[i] = a[i - 1]
    OBVIOUS
  <1> HIDE DEF c
  <1>3. \A i \in 2 .. n + 1 : b[i] = a[i - 1]
    <2> TAKE i \in 2 .. n + 1
    <2>1. i - 1 \in 1 .. Len(a) /\ i = (i - 1) + 1
      BY <1>1
    <2> QED BY <2>1
  <1>4. \A i \in 1 .. n + 1 : b[i] = c[i]
    BY <1>1, <1>2, <1>3
  <1> HIDE DEF n
  <1>5. b = c
    BY <1>1, <1>4 DEF n
  <1> QED BY <1>5 DEF c

LEMMA TailIs ==
    ASSUME NEW S, NEW a \in Seq(S), NEW b \in Seq(S), a # <<>>,
           Len(a) = Len(b) + 1, \A i \in 1 .. Len(b) : b[i] = a[i + 1]
    PROVE  b = Tail(a)
  OBVIOUS

(* Different entries of the ring are at different places. *)
LEMMA RingApart ==
    ASSUME NEW a \in Cells, NEW i \in 0 .. Size, NEW j \in 0 .. Size, i < j, j < Size
    PROVE  (a + i) % Size # (a + j) % Size
  <1>1. Size \in Nat /\ a \in Nat /\ a < Size
    BY QueueAssumption DEF Cells
  <1>2. (a + i) % Size = IF a + i < Size THEN a + i ELSE a + i - Size
    BY RingPlace
  <1>3. (a + j) % Size = IF a + j < Size THEN a + j ELSE a + j - Size
    BY RingPlace
  <1> QED BY <1>1, <1>2, <1>3

(* The messages of the ring as a sequence *)
LEMMA RingSeq ==
    ASSUME NEW p \in [Cells -> Values], NEW a \in Cells, NEW n \in 0 .. Size
    PROVE  /\ RingOf(p, a, n) \in Seq(Values) /\ Len(RingOf(p, a, n)) = n
           /\ \A i \in 1 .. n : /\ (a + (i - 1)) % Size \in Cells
                                /\ RingOf(p, a, n)[i] = p[(a + (i - 1)) % Size]
  <1>1. Size \in Nat \ {0} /\ a \in Nat /\ a < Size /\ n \in Nat /\ n <= Size
    BY QueueAssumption DEF Cells
  <1>2. ASSUME NEW i \in 1 .. n
        PROVE  (a + (i - 1)) % Size \in Cells /\ a + i - 1 = a + (i - 1)
    <2>1. i - 1 \in 0 .. Size /\ a + i - 1 = a + (i - 1)
      BY <1>1
    <2>2. (a + (i - 1)) % Size = IF a + (i - 1) < Size THEN a + (i - 1) ELSE a + (i - 1) - Size
      BY <2>1, RingPlace
    <2> QED BY <1>1, <2>1, <2>2 DEF Cells
  <1>3. \A i \in 1 .. n : p[(a + i - 1) % Size] \in Values
    BY <1>2
  <1> QED BY <1>1, <1>2, <1>3 DEF RingOf

(* Storing at the end of the ring appends. *)
LEMMA RingAppend ==
    ASSUME NEW p \in [Cells -> Values], NEW a \in Cells, NEW n \in 0 .. Size, n < Size,
           NEW m \in Values
    PROVE  RingOf([p EXCEPT ![(a + n) % Size] = m], a, n + 1) = Append(RingOf(p, a, n), m)
  <1> DEFINE e == (a + n) % Size
             p2 == [p EXCEPT ![e] = m]
             r == RingOf(p, a, n)
             r2 == RingOf(p2, a, n + 1)
  <1>0. Size \in Nat \ {0} /\ n \in Nat /\ n + 1 \in 0 .. Size /\ a \in Nat /\ a < Size
    BY QueueAssumption DEF Cells
  <1>1. e \in Cells
    <2>1. e = IF a + n < Size THEN a + n ELSE a + n - Size
      BY RingPlace
    <2> HIDE DEF e
    <2> QED BY <1>0, <2>1 DEF Cells
  <1>2. /\ r \in Seq(Values) /\ Len(r) = n
        /\ \A i \in 1 .. n : (a + (i - 1)) % Size \in Cells /\ r[i] = p[(a + (i - 1)) % Size]
    BY RingSeq
  <1>3. p2 \in [Cells -> Values] /\ p2[e] = m /\ \A c \in Cells : c # e => p2[c] = p[c]
    BY <1>1
  <1> HIDE DEF p2
  <1>4. /\ r2 \in Seq(Values) /\ Len(r2) = n + 1
        /\ \A i \in 1 .. n + 1 : r2[i] = p2[(a + (i - 1)) % Size]
    BY ZenonT(30), <1>0, <1>3, RingSeq
  <1>5. \A i \in 1 .. n : (a + (i - 1)) % Size # e
    <2> TAKE i \in 1 .. n
    <2>1. i - 1 \in 0 .. Size /\ i - 1 < n
      BY <1>0
    <2> QED BY <2>1, RingApart
  <1>6. \A i \in 1 .. n : r2[i] = r[i]
    <2> TAKE i \in 1 .. n
    <2>1. i \in 1 .. n + 1
      BY <1>0
    <2> QED BY <1>2, <1>3, <1>4, <1>5, <2>1
  <1>7. r2[n + 1] = m
    <2>1. n + 1 \in 1 .. n + 1 /\ (n + 1) - 1 = n
      BY <1>0
    <2>2. r2[n + 1] = p2[(a + ((n + 1) - 1)) % Size]
      BY <1>4, <2>1
    <2> QED BY <1>3, <2>1, <2>2
  <1> HIDE DEF r, r2
  <1>8. r2 = Append(r, m)
    BY <1>2, <1>4, <1>6, <1>7, AppendIs
  <1> QED BY <1>8 DEF r, r2, p2

(* Receiving takes the first message of the ring. *)
LEMMA RingTail ==
    ASSUME NEW p \in [Cells -> Values], NEW a \in Cells, NEW n \in 0 .. Size, n > 0
    PROVE  /\ RingOf(p, a, n) # <<>> /\ Head(RingOf(p, a, n)) = p[a]
           /\ RingOf(p, NextOff(a), n - 1) = Tail(RingOf(p, a, n))
  <1> DEFINE b == NextOff(a)
             r == RingOf(p, a, n)
             r2 == RingOf(p, b, n - 1)
  <1>0. Size \in Nat \ {0} /\ n \in Nat /\ n - 1 \in 0 .. Size /\ a \in Nat /\ a < Size
    BY QueueAssumption DEF Cells
  <1>1. b \in Cells
    BY NextOffPlace
  <1>2. /\ r \in Seq(Values) /\ Len(r) = n
        /\ \A i \in 1 .. n : r[i] = p[(a + (i - 1)) % Size]
    BY RingSeq
  <1> HIDE DEF b
  <1>3. /\ r2 \in Seq(Values) /\ Len(r2) = n - 1
        /\ \A i \in 1 .. n - 1 : r2[i] = p[(b + (i - 1)) % Size]
    BY <1>0, <1>1, RingSeq
  <1>4. \A i \in 1 .. n - 1 : r2[i] = r[i + 1]
    <2> TAKE i \in 1 .. n - 1
    <2>1. i \in 0 .. Size /\ i > 0 /\ i + 1 \in 1 .. n /\ (i + 1) - 1 = i
      BY <1>0
    <2>2. (b + (i - 1)) % Size = (a + i) % Size
      BY <2>1, NextOffPlace DEF b
    <2> QED BY <1>2, <1>3, <2>1, <2>2
  <1>5. r[1] = p[a]
    <2>1. 1 \in 1 .. n /\ (a + (1 - 1)) = a /\ a + 0 = a /\ 0 \in 0 .. Size
      BY <1>0
    <2>2. (a + 0) % Size = a
      BY <1>0, <2>1, RingPlace
    <2> QED BY <1>2, <2>1, <2>2
  <1> HIDE DEF r, r2
  <1>6. r # <<>> /\ Head(r) = p[a]
    BY <1>0, <1>2, <1>5
  <1>7. r2 = Tail(r)
    <2>1. Len(r) = Len(r2) + 1 /\ \A i \in 1 .. Len(r2) : r2[i] = r[i + 1]
      BY <1>0, <1>2, <1>3, <1>4
    <2> QED BY <1>2, <1>3, <1>6, <2>1, TailIs
  <1> QED BY <1>6, <1>7 DEF r, r2, b

(* Storing before its first message puts a message in front. *)
LEMMA RingPush ==
    ASSUME NEW p \in [Cells -> Values], NEW a \in Cells, NEW n \in 0 .. Size, n < Size,
           NEW m \in Values, NEW b \in Cells, NextOff(b) = a
    PROVE  RingOf([p EXCEPT ![b] = m], b, n + 1) = <<m>> \o RingOf(p, a, n)
  <1> DEFINE p2 == [p EXCEPT ![b] = m]
             r == RingOf(p, a, n)
             r2 == RingOf(p2, b, n + 1)
  <1>0. Size \in Nat \ {0} /\ n \in Nat /\ n + 1 \in 0 .. Size /\ b \in Nat /\ b < Size
    BY QueueAssumption DEF Cells
  <1>1. p2 \in [Cells -> Values] /\ p2[b] = m /\ \A c \in Cells : c # b => p2[c] = p[c]
    OBVIOUS
  <1>2. /\ r \in Seq(Values) /\ Len(r) = n
        /\ \A i \in 1 .. n : (a + (i - 1)) % Size \in Cells /\ r[i] = p[(a + (i - 1)) % Size]
    BY RingSeq
  <1> HIDE DEF p2
  <1>3. /\ r2 \in Seq(Values) /\ Len(r2) = n + 1
        /\ \A i \in 1 .. n + 1 : r2[i] = p2[(b + (i - 1)) % Size]
    BY <1>0, <1>1, RingSeq
  <1>4. (b + 0) % Size = b
    BY <1>0, RingPlace
  <1>5. \A i \in 1 .. n : r2[i + 1] = r[i]
    <2> TAKE i \in 1 .. n
    <2>1. /\ i \in 0 .. Size /\ 0 \in 0 .. Size /\ i > 0 /\ i < Size
          /\ i + 1 \in 1 .. n + 1 /\ (i + 1) - 1 = i
      BY <1>0
    <2>2. (a + (i - 1)) % Size = (b + i) % Size
      BY <2>1, NextOffPlace
    <2>3. (b + i) % Size # b
      BY <1>4, <2>1, RingApart
    <2> QED BY <1>1, <1>2, <1>3, <2>1, <2>2, <2>3
  <1>6. r2[1] = m
    <2>1. 1 \in 1 .. n + 1 /\ 1 - 1 = 0
      BY <1>0
    <2>2. r2[1] = p2[(b + (1 - 1)) % Size]
      BY <1>3, <2>1
    <2> QED BY <1>1, <1>4, <2>1, <2>2
  <1> HIDE DEF r, r2
  <1>7. r2 = <<m>> \o r
    BY <1>2, <1>3, <1>5, <1>6, PushIs
  <1> QED BY <1>7 DEF r, r2, p2

(* The messages in the linked cells as a sequence, and what linking and    *)
(* unlinking a cell does to it                                             *)
LEMMA CellsSeq ==
    ASSUME NEW p \in [Cells -> Values], NEW l \in Seq(Cells)
    PROVE  /\ CellsOf(p, l) \in Seq(Values) /\ Len(CellsOf(p, l)) = Len(l)
           /\ \A i \in 1 .. Len(l) : CellsOf(p, l)[i] = p[l[i]]
  <1>1. Len(l) \in Nat /\ \A i \in 1 .. Len(l) : p[l[i]] \in Values
    OBVIOUS
  <1> QED BY <1>1 DEF CellsOf

LEMMA CellsAppend ==
    ASSUME NEW p \in [Cells -> Values], NEW l \in Seq(Cells), NEW c \in Cells
    PROVE  CellsOf(p, Append(l, c)) = Append(CellsOf(p, l), p[c])
  <1> DEFINE l2 == Append(l, c)
  <1>1. /\ l2 \in Seq(Cells) /\ Len(l2) = Len(l) + 1 /\ l2[Len(l) + 1] = c
        /\ \A i \in 1 .. Len(l) : l2[i] = l[i]
    OBVIOUS
  <1> HIDE DEF l2
  <1>2. /\ CellsOf(p, l) \in Seq(Values) /\ Len(CellsOf(p, l)) = Len(l)
        /\ \A i \in 1 .. Len(l) : CellsOf(p, l)[i] = p[l[i]]
    BY CellsSeq
  <1>3. /\ CellsOf(p, l2) \in Seq(Values) /\ Len(CellsOf(p, l2)) = Len(l2)
        /\ \A i \in 1 .. Len(l2) : CellsOf(p, l2)[i] = p[l2[i]]
    BY <1>1, CellsSeq
  <1>4. CellsOf(p, l2) = Append(CellsOf(p, l), p[c])
    <2>1. \A i \in 1 .. Len(l) : CellsOf(p, l2)[i] = CellsOf(p, l)[i]
      BY <1>1, <1>2, <1>3
    <2>2. CellsOf(p, l2)[Len(l) + 1] = p[c]
      BY <1>1, <1>3
    <2>3. p[c] \in Values
      OBVIOUS
    <2> QED BY <1>1, <1>2, <1>3, <2>1, <2>2, <2>3, AppendIs
  <1> QED BY <1>4 DEF l2

LEMMA CellsPush ==
    ASSUME NEW p \in [Cells -> Values], NEW l \in Seq(Cells), NEW c \in Cells
    PROVE  CellsOf(p, <<c>> \o l) = <<p[c]>> \o CellsOf(p, l)
  <1> DEFINE l2 == <<c>> \o l
  <1>1. /\ l2 \in Seq(Cells) /\ Len(l2) = Len(l) + 1 /\ l2[1] = c
        /\ \A i \in 1 .. Len(l) : l2[i + 1] = l[i]
    OBVIOUS
  <1> HIDE DEF l2
  <1>2. /\ CellsOf(p, l) \in Seq(Values) /\ Len(CellsOf(p, l)) = Len(l)
        /\ \A i \in 1 .. Len(l) : CellsOf(p, l)[i] = p[l[i]]
    BY CellsSeq
  <1>3. /\ CellsOf(p, l2) \in Seq(Values) /\ Len(CellsOf(p, l2)) = Len(l2)
        /\ \A i \in 1 .. Len(l2) : CellsOf(p, l2)[i] = p[l2[i]]
    BY <1>1, CellsSeq
  <1>4. CellsOf(p, l2) = <<p[c]>> \o CellsOf(p, l)
    <2>1. \A i \in 1 .. Len(l) : CellsOf(p, l2)[i + 1] = CellsOf(p, l)[i]
      <3> TAKE i \in 1 .. Len(l)
      <3>1. i + 1 \in 1 .. Len(l2)
        BY <1>1
      <3> QED BY <1>1, <1>2, <1>3, <3>1
    <2>2. CellsOf(p, l2)[1] = p[c]
      BY <1>1, <1>3
    <2>3. p[c] \in Values
      OBVIOUS
    <2> DEFINE x == CellsOf(p, l)
               y == CellsOf(p, l2)
               e == p[c]
    <2>4. /\ x \in Seq(Values) /\ y \in Seq(Values) /\ e \in Values
          /\ Len(y) = Len(x) + 1 /\ \A i \in 1 .. Len(x) : y[i + 1] = x[i]
          /\ y[1] = e
      BY <1>1, <1>2, <1>3, <2>1, <2>2, <2>3
    <2> HIDE DEF x, y, e
    <2>5. y = <<e>> \o x
      BY <2>4, PushIs
    <2> QED BY <2>5 DEF x, y, e
  <1> QED BY <1>4 DEF l2

LEMMA CellsTail ==
    ASSUME NEW p \in [Cells -> Values], NEW l \in Seq(Cells), l # <<>>
    PROVE  /\ CellsOf(p, l) # <<>> /\ Head(CellsOf(p, l)) = p[Head(l)]
           /\ CellsOf(p, Tail(l)) = Tail(CellsOf(p, l))
  <1> DEFINE l2 == Tail(l)
  <1>1. /\ l2 \in Seq(Cells) /\ Len(l) = Len(l2) + 1 /\ Head(l) = l[1] /\ Len(l) \in Nat
        /\ \A i \in 1 .. Len(l2) : l2[i] = l[i + 1]
    OBVIOUS
  <1> HIDE DEF l2
  <1>2. /\ CellsOf(p, l) \in Seq(Values) /\ Len(CellsOf(p, l)) = Len(l)
        /\ \A i \in 1 .. Len(l) : CellsOf(p, l)[i] = p[l[i]]
    BY CellsSeq
  <1>3. /\ CellsOf(p, l2) \in Seq(Values) /\ Len(CellsOf(p, l2)) = Len(l2)
        /\ \A i \in 1 .. Len(l2) : CellsOf(p, l2)[i] = p[l2[i]]
    BY <1>1, CellsSeq
  <1>4. CellsOf(p, l) # <<>> /\ Head(CellsOf(p, l)) = p[Head(l)]
    BY <1>1, <1>2
  <1>5. CellsOf(p, l2) = Tail(CellsOf(p, l))
    <2>1. \A i \in 1 .. Len(l2) : CellsOf(p, l2)[i] = CellsOf(p, l)[i + 1]
      <3> TAKE i \in 1 .. Len(l2)
      <3>1. i + 1 \in 1 .. Len(l)
        BY <1>1
      <3> QED BY <1>1, <1>2, <1>3, <3>1
    <2> QED BY <1>1, <1>2, <1>3, <1>4, <2>1, TailIs
  <1> QED BY <1>4, <1>5 DEF l2

(* The number of messages never passes the size. *)
LEMMA QueueOfType ==
    ASSUME QueueInv
    PROVE  QueueOf \in Seq(Values) /\ Len(QueueOf) = entry
  <1>1. /\ pool \in [Cells -> Values] /\ outOff \in Cells /\ entry \in 0 .. Size
        /\ queue \in Seq(Cells) /\ kind \in Kinds
    BY DEF QueueInv, TypeOK, Values
  <1>2. CASE kind = "mailbox"
    BY <1>1, <1>2, RingSeq DEF QueueOf
  <1>3. CASE kind # "mailbox"
    <2>1. kind = "mq" /\ entry = Len(queue)
      BY <1>1, <1>3, QueueAssumption DEF QueueInv, CellInv, CellsConserved
    <2> QED BY <1>1, <1>3, <2>1, CellsSeq DEF QueueOf
  <1> QED BY <1>2, <1>3

(* What the mapping is made of *)
LEMMA HeldStays ==
    ASSUME hand' = hand
    PROVE  Held' = Held
  BY DEF Held

LEMMA RefusedStays ==
    ASSUME \A s \in Senders : pc'[s] = "failed" <=> pc[s] = "failed"
    PROVE  RefusedOf' = RefusedOf
  BY DEF RefusedOf

(* Full means that there is no room. *)
LEMMA RoomIs ==
    ASSUME QueueInv
    PROVE  /\ Room \in Int
           /\ Full => Room = 0
           /\ ~Full => Room > 0
  <1>1. /\ kind \in {"mailbox", "mq"} /\ entry \in 0 .. Size /\ free \in Seq(Cells)
        /\ Size \in Nat /\ queue \in Seq(Cells)
    BY QueueAssumption DEF QueueInv, TypeOK
  <1> QED BY <1>1 DEF Room, Full

LEMMA QueueStays ==
    ASSUME UNCHANGED <<kind, pool, outOff, entry, queue>>
    PROVE  QueueOf' = QueueOf
  BY DEF QueueOf, RingOf, CellsOf

LEMMA GotStays ==
    ASSUME \A r \in Receivers : /\ pc'[r] = "copy" <=> pc[r] = "copy"
                                /\ pc[r] # "copy" => msg'[r] = msg[r]
                                /\ pc[r] = "copy" => pool'[hand'[r]] = pool[hand[r]]
    PROVE  GotOf' = GotOf
  BY DEF GotOf

LEMMA OfferStays ==
    ASSUME \A s \in Senders : msg'[s] = msg[s] /\ (s \in urgent' <=> s \in urgent)
    PROVE  OfferOf' = OfferOf
  BY DEF OfferOf

LEMMA OfferMade ==
    ASSUME NEW s \in Senders, NEW m, NEW u \in BOOLEAN, msg'[s] = m, (s \in urgent') = u,
           \A t \in Senders : t # s => msg'[t] = msg[t] /\ (t \in urgent') = (t \in urgent)
    PROVE  OfferOf' = [OfferOf EXCEPT ![s] = [msg |-> m, urgent |-> u]]
  <1> DEFINE o == [msg |-> m, urgent |-> u]
             f == [t \in Senders |-> [msg |-> msg'[t], urgent |-> t \in urgent']]
             g == [t \in Senders |-> [msg |-> msg[t], urgent |-> t \in urgent]]
  <1>1. f[s] = o
    BY Zenon
  <1>2. \A t \in Senders : t # s => f[t] = g[t]
    BY Zenon
  <1>3. f = [t \in Senders |-> f[t]] /\ g = [t \in Senders |-> g[t]]
    OBVIOUS
  <1>4. OfferOf' = f /\ OfferOf = g
    BY DEF OfferOf
  <1> HIDE DEF f, g, o
  <1>5. f = [g EXCEPT ![s] = o]
    BY <1>1, <1>2, <1>3
  <1> QED BY <1>4, <1>5 DEF o

(* A sender has an offer exactly while it has a message. *)
LEMMA OfferOpen ==
    ASSUME QueueInv, NEW s \in Senders
    PROVE  /\ pc[s] = "idle" => OfferOf[s] = [msg |-> NoMsg, urgent |-> FALSE]
           /\ pc[s] # "idle" => OfferOf[s] # [msg |-> NoMsg, urgent |-> FALSE]
           /\ OfferOf[s] = [msg |-> msg[s], urgent |-> s \in urgent]
  <1>1. s \in Threads /\ (msg[s] # NoMsg <=> pc[s] # "idle") /\ (s \in urgent => pc[s] # "idle")
    BY ThreadFacts DEF QueueInv, WaitInv, Places
  <1>2. OfferOf[s] = [msg |-> msg[s], urgent |-> s \in urgent]
    BY Zenon DEF OfferOf
  <1>3. ASSUME pc[s] = "idle" PROVE OfferOf[s] = [msg |-> NoMsg, urgent |-> FALSE]
    <2>1. msg[s] = NoMsg /\ (s \in urgent) = FALSE
      BY <1>1, <1>3
    <2> QED BY <1>2, <2>1, Zenon
  <1>4. ASSUME pc[s] # "idle" PROVE OfferOf[s] # [msg |-> NoMsg, urgent |-> FALSE]
    <2>1. OfferOf[s].msg = msg[s]
      BY <1>2
    <2> QED BY <1>1, <1>4, <2>1
  <1> QED BY <1>2, <1>3, <1>4

(* The steps of BoundedQueue, in terms of the mapping *)
NoOfferOf == [msg |-> NoMsg, urgent |-> FALSE]
Entered(o) == QueueOf' = IF o.urgent THEN <<o.msg>> \o QueueOf ELSE Append(QueueOf, o.msg)

LEMMA IsSendNow ==
    ASSUME NEW s \in Senders, NEW o \in [msg : Msgs, urgent : BOOLEAN], OfferOf[s] = NoOfferOf,
           \/ Room > 0 /\ Room' = Room - 1 /\ Entered(o) /\ ret' = [ret EXCEPT ![s] = "ok"]
           \/ Room = 0 /\ Room' = Room /\ QueueOf' = QueueOf /\ ret' = [ret EXCEPT ![s] = "error"],
           OfferOf' = OfferOf, GotOf' = GotOf, Held' = Held, RefusedOf' = RefusedOf
    PROVE  Abstract!Next
  <1>1. Abstract!SendNow(s, o)
    BY DEF Abstract!SendNow, Abstract!Enter, Abstract!Result, Abstract!NoOffer,
           Entered, NoOfferOf, QueueOf, RingOf, CellsOf, OfferOf, GotOf, RefusedOf
  <1> QED BY <1>1 DEF Abstract!Next, Abstract!Offers

LEMMA IsOffer ==
    ASSUME NEW s \in Senders, NEW o \in [msg : Msgs, urgent : BOOLEAN], OfferOf[s] = NoOfferOf,
           OfferOf' = [OfferOf EXCEPT ![s] = o],
           \/ Room > 0 /\ Room' = Room - 1 /\ Held' = Held \cup {s}
           \/ Room = 0 /\ Room' = Room /\ Held' = Held,
           ret' = [ret EXCEPT ![s] = "none"],
           QueueOf' = QueueOf, GotOf' = GotOf, RefusedOf' = RefusedOf
    PROVE  Abstract!Next
  <1>1. Abstract!Offer(s, o)
    BY DEF Abstract!Offer, Abstract!Result, Abstract!NoOffer, NoOfferOf, QueueOf, RingOf, CellsOf, OfferOf, GotOf, RefusedOf
  <1> QED BY <1>1 DEF Abstract!Next, Abstract!Offers

LEMMA IsPlace ==
    ASSUME NEW s \in Senders, OfferOf[s] # NoOfferOf, s \notin Held \cup RefusedOf,
           Room > 0, Room' = Room - 1,
           Held' = Held \cup {s},
           QueueOf' = QueueOf, OfferOf' = OfferOf, GotOf' = GotOf, RefusedOf' = RefusedOf, ret' = ret
    PROVE  Abstract!Next
  <1>1. Abstract!Place(s)
    BY DEF Abstract!Place, Abstract!NoOffer, NoOfferOf, QueueOf, RingOf, CellsOf, OfferOf, GotOf, RefusedOf
  <1> QED BY <1>1 DEF Abstract!Next

LEMMA IsAccept ==
    ASSUME NEW s \in Senders, OfferOf[s] # NoOfferOf, s \notin RefusedOf,
           \/ s \in Held /\ Held' = Held \ {s} /\ Room' = Room
           \/ s \notin Held /\ Room > 0 /\ Room' = Room - 1 /\ Held' = Held,
           Entered(OfferOf[s]), OfferOf' = [OfferOf EXCEPT ![s] = NoOfferOf],
           ret' = [ret EXCEPT ![s] = "ok"], GotOf' = GotOf, RefusedOf' = RefusedOf
    PROVE  Abstract!Next
  <1>1. Abstract!Accept(s)
    BY DEF Abstract!Accept, Abstract!Enter, Abstract!Result, Abstract!NoOffer,
           Entered, NoOfferOf, QueueOf, RingOf, CellsOf, OfferOf, GotOf, RefusedOf
  <1> QED BY <1>1 DEF Abstract!Next

LEMMA IsRefuse ==
    ASSUME NEW s \in Senders, OfferOf[s] # NoOfferOf, s \notin Held, RefusedOf' = RefusedOf \cup {s},
           QueueOf' = QueueOf, OfferOf' = OfferOf, GotOf' = GotOf, Held' = Held, Room' = Room, ret' = ret
    PROVE  Abstract!Next
  <1>1. Abstract!Refuse(s)
    BY DEF Abstract!Refuse, Abstract!NoOffer, NoOfferOf, QueueOf, RingOf, CellsOf, OfferOf, GotOf, RefusedOf
  <1> QED BY <1>1 DEF Abstract!Next

LEMMA IsFail ==
    ASSUME NEW s \in Senders, OfferOf[s] # NoOfferOf, s \notin Held, s \in RefusedOf \/ Room = 0,
           OfferOf' = [OfferOf EXCEPT ![s] = NoOfferOf], RefusedOf' = RefusedOf \ {s},
           ret' = [ret EXCEPT ![s] = "error"], QueueOf' = QueueOf, GotOf' = GotOf,
           Held' = Held, Room' = Room
    PROVE  Abstract!Next
  <1>1. Abstract!Fail(s)
    BY DEF Abstract!Fail, Abstract!Result, Abstract!NoOffer, NoOfferOf, QueueOf, RingOf, CellsOf, OfferOf, GotOf, RefusedOf
  <1> QED BY <1>1 DEF Abstract!Next

LEMMA IsReceive ==
    ASSUME NEW r \in Receivers, QueueOf # <<>>, r \notin Held,
           GotOf' = [GotOf EXCEPT ![r] = Head(QueueOf)], QueueOf' = Tail(QueueOf),
           \/ Held' = Held /\ Room' = Room + 1
           \/ Held' = Held \cup {r} /\ Room' = Room,
           OfferOf' = OfferOf, RefusedOf' = RefusedOf, ret' = ret
    PROVE  Abstract!Next
  <1>1. Abstract!Receive(r)
    BY DEF Abstract!Receive, QueueOf, RingOf, CellsOf, OfferOf, GotOf, RefusedOf
  <1> QED BY <1>1 DEF Abstract!Next

LEMMA IsFree ==
    ASSUME NEW r \in Receivers, r \in Held, Held' = Held \ {r}, Room' = Room + 1,
           QueueOf' = QueueOf, OfferOf' = OfferOf, GotOf' = GotOf, RefusedOf' = RefusedOf, ret' = ret
    PROVE  Abstract!Next
  <1>1. Abstract!Free(r)
    BY DEF Abstract!Free, QueueOf, RingOf, CellsOf, OfferOf, GotOf, RefusedOf
  <1> QED BY <1>1 DEF Abstract!Next

LEMMA IsReset ==
    ASSUME NEW S \in SUBSET {s \in Senders \ Held : OfferOf[s] # NoOfferOf},
           QueueOf' = <<>>, Room' = Room + Len(QueueOf), RefusedOf' = RefusedOf \cup S,
           OfferOf' = OfferOf, GotOf' = GotOf, Held' = Held, ret' = ret
    PROVE  Abstract!Next
  <1>1. Abstract!Reset
    BY DEF Abstract!Reset, Abstract!NoOffer, NoOfferOf, QueueOf, RingOf, CellsOf, OfferOf, GotOf, RefusedOf
  <1> QED BY <1>1 DEF Abstract!Next

LEMMA IsStutter ==
    ASSUME QueueOf' = QueueOf, OfferOf' = OfferOf, GotOf' = GotOf, Held' = Held,
           Room' = Room, RefusedOf' = RefusedOf, ret' = ret
    PROVE  UNCHANGED Abstract!vars
  BY DEF Abstract!vars, QueueOf, RingOf, CellsOf, OfferOf, GotOf, RefusedOf

-----------------------------------------------------------------------------
(* Every step of RtQueue is a step of BoundedQueue, or none. *)

(* A call that is not finished has no result yet. *)
Running == \A s \in Senders : pc[s] # "idle" => ret[s] = "none"

LEMMA RunningKept == QueueInv /\ Running /\ [Next]_vars => Running'
  <1> SUFFICES ASSUME QueueInv, Running, [Next]_vars PROVE Running'
    OBVIOUS
  <1>0. /\ pc \in [Threads -> {"idle", "wait", "back", "failed", "copy", "link", "free"}]
        /\ ret \in [Senders -> Results]
        /\ Senders \subseteq Threads /\ Receivers \subseteq Threads
    BY ThreadFacts DEF QueueInv, TypeOK
  <1>w. TypeOK /\ WaitersListed /\ TimerWaits
    BY DEF QueueInv, WaitInv
  <1>1. CASE UNCHANGED vars
    BY <1>1 DEF vars, local, Running
  <1>2. ASSUME NEW t \in Threads, NEW to, pc' = [pc EXCEPT ![t] = to], to = "idle" \/ pc[t] # "idle",
               ret' = ret
        PROVE  Running'
    BY <1>0, <1>2 DEF Running
  <1>3. ASSUME NEW t \in Threads, pc[t] # "wait", NEW v,
               WakeReceiver(t, "idle") \/ WakeSender(t, "idle"),
               ret' = ret \/ ret' = [ret EXCEPT ![t] = v]
        PROVE  Running'
    <2>1. pc'[t] = "idle" /\ \A u \in Threads : u # t => pc'[u] = pc[u] \/ (pc[u] = "wait" /\ pc'[u] = "back")
      BY <1>3, <1>w, WakeReceiverKeeps, WakeSenderKeeps
    <2>2. \A u \in Senders : u # t => ret'[u] = ret[u]
      BY <1>0, <1>3
    <2> QED BY <1>0, <2>1, <2>2 DEF Running
  <1>4. ASSUME NEW s \in Senders, NEW to, pc' = [pc EXCEPT ![s] = to],
               \/ ret' = [ret EXCEPT ![s] = "none"]
               \/ to = "idle" /\ ret' = [ret EXCEPT ![s] = "error"]
        PROVE  Running'
    BY <1>0, <1>4 DEF Running
  <1>5. ASSUME NEW s \in Senders, NEW m \in Msgs, NEW left, MbSend(s, left, m) PROVE Running'
    BY <1>0, <1>3, <1>5 DEF MbSend, EnterSend, Enter, Returns
  <1>6. ASSUME NEW s \in Senders, NEW m \in Msgs, MbUrgent(s, m) PROVE Running'
    BY <1>0, <1>3, <1>6 DEF MbUrgent, Returns
  <1>7. ASSUME NEW s \in Senders, NEW m \in Msgs, TakeCell(s, m) PROVE Running'
    BY <1>4, <1>7 DEF TakeCell, Returns
  <1>8. ASSUME NEW s \in Senders, NEW m \in Msgs, NEW left, SendWait(s, left, m) PROVE Running'
    BY <1>4, <1>8 DEF SendWait, Wait, GiveUp, Returns
  <1>9. ASSUME NEW s \in Senders, UrgentFull(s) PROVE Running'
    BY <1>0, <1>9 DEF UrgentFull, Returns, Running
  <1>10. ASSUME NEW r \in Receivers, NEW left, MbRecv(r, left) PROVE Running'
    BY <1>0, <1>3, <1>10 DEF MbRecv, Enter
  <1>11. ASSUME NEW r \in Receivers, NEW left, MqRecv(r, left) \/ RecvWait(r, left) PROVE Running'
    <2>1. ret' = ret /\ \E to : pc' = [pc EXCEPT ![r] = to]
      BY <1>11 DEF MqRecv, RecvWait, Wait, GiveUp, local
    <2>2. \A u \in Senders : pc'[u] = pc[u]
      BY <1>0, <2>1, ThreadFacts
    <2> QED BY <2>1, <2>2 DEF Running
  <1>12. ASSUME NEW t \in Threads, MqCopyIn(t) \/ MqCopyOut(t) \/ Timeout(t) PROVE Running'
    <2>1. pc[t] # "idle" /\ ret' = ret
      BY <1>w, <1>12 DEF MqCopyIn, MqCopyOut, Timeout, TimerWaits, local
    <2> QED BY <1>2, <1>12, <2>1 DEF MqCopyIn, MqCopyOut, Timeout
  <1>13. ASSUME NEW t \in Threads, MqLink(t) \/ MqFree(t) PROVE Running'
    BY <1>3, <1>13 DEF MqLink, MqFree, Returns
  <1>14. ASSUME NEW t \in Threads, Fail(t) PROVE Running'
    BY <1>2, <1>4, <1>14 DEF Fail, Returns
  <1>15. CASE Reset
    <2>1. ret' = ret /\ \A u \in Threads : pc'[u] = pc[u] \/ u \in ToSet(rlist) \cup ToSet(slist)
      BY <1>0, <1>15 DEF Reset, local
    <2> QED BY <1>0, <1>w, <2>1 DEF Running, WaitersListed
  <1> QED BY <1>1, <1>5, <1>6, <1>7, <1>8, <1>9, <1>10, <1>11, <1>12, <1>13, <1>14, <1>15
          DEF Next, MqSend, MqUrgent

(* Waking threads up refuses nobody. *)
LEMMA RefusedKept ==
    ASSUME NEW t \in Threads, pc[t] # "failed", pc'[t] # "failed",
           \A u \in Threads : u # t => pc'[u] = pc[u] \/ (pc[u] = "wait" /\ pc'[u] = "back")
    PROVE  RefusedOf' = RefusedOf
  BY ThreadFacts DEF RefusedOf

LEMMA MbSendRefines ==
    ASSUME QueueInv, NEW s \in Senders, NEW m \in Msgs, NEW left, MbSend(s, left, m)
    PROVE  Abstract!Next
  <1>0. s \in Threads /\ s \notin Receivers /\ Receivers \subseteq Threads /\ Senders \subseteq Threads
    BY ThreadFacts
  <1>1. /\ kind = "mailbox" /\ kind' = kind /\ entry # Size
        /\ (pc[s] = "idle" \/ (pc[s] = "back" /\ m = msg[s]))
        /\ pool' = [pool EXCEPT ![inOff] = m] /\ outOff' = outOff
        /\ entry' = entry + 1 /\ WakeReceiver(s, "idle")
        /\ msg' = [msg EXCEPT ![s] = NoMsg]
        /\ queue' = queue /\ urgent' = urgent /\ hand' = hand
        /\ ret' = [ret EXCEPT ![s] = "ok"]
    BY DEF MbSend, EnterSend, Enter, Full, Returns
  <1>2. TypeOK /\ WaitersListed /\ TimerWaits /\ Ring
    BY DEF QueueInv, WaitInv, CellInv
  <1>3. pc[s] # "wait" /\ s \notin urgent /\ pc[s] \in {"idle", "back"}
    BY <1>0, <1>1, CallerFacts
  <1>4. /\ pc'[s] = "idle"
        /\ \A u \in Threads : u # s => pc'[u] = pc[u] \/ (pc[u] = "wait" /\ pc'[u] = "back")
    BY <1>0, <1>1, <1>2, <1>3, WakeReceiverKeeps
  <1>5. /\ pool \in [Cells -> Values] /\ outOff \in Cells /\ entry \in 0 .. Size /\ entry < Size
        /\ m \in Values /\ inOff = (outOff + entry) % Size
        /\ msg \in [Threads -> Values]
    BY <1>1, <1>2, QueueAssumption DEF TypeOK, Ring, Values
  <1>6. Len(QueueOf) < Size /\ QueueOf' = Append(QueueOf, m)
    <2>1. RingOf([pool EXCEPT ![inOff] = m], outOff, entry + 1) = Append(RingOf(pool, outOff, entry), m)
      BY <1>5, RingAppend
    <2>2. QueueOf' = Append(QueueOf, m)
      BY <1>1, <2>1 DEF QueueOf
    <2> QED BY <1>5, <2>2, QueueOfType
  <1>7. GotOf' = GotOf
    <2>1. \A r \in Receivers : r # s /\ pc[r] # "copy" /\ pc'[r] # "copy" /\ msg'[r] = msg[r]
      BY <1>0, <1>1, <1>2, <1>4, <1>5 DEF Ring
    <2> QED BY <2>1, GotStays
  <1>8. msg'[s] = NoMsg /\ \A t \in Senders : t # s => msg'[t] = msg[t] /\ (t \in urgent') = (t \in urgent)
    BY <1>0, <1>1, <1>5
  <1>r. /\ Held' = Held /\ s \notin Held
        /\ RefusedOf' = RefusedOf /\ s \notin RefusedOf
        /\ Room > 0 /\ Room' = Room - 1
    <2>1. Held' = Held /\ s \notin Held
      BY <1>0, <1>1, <1>3, HeldStays, CallerFacts DEF Held
    <2>2. RefusedOf' = RefusedOf /\ s \notin RefusedOf
      BY <1>0, <1>3, <1>4, RefusedKept DEF RefusedOf
    <2> QED BY <1>1, <1>5, <2>1, <2>2, QueueAssumption DEF Room
  <1> DEFINE o == [msg |-> m, urgent |-> FALSE]
  <1>9. Entered(o)
    BY <1>6 DEF Entered
  <1>10. CASE pc[s] = "idle"
    <2>1. OfferOf[s] = NoOfferOf /\ msg[s] = NoMsg
      BY <1>0, <1>10, OfferOpen DEF NoOfferOf, QueueInv, WaitInv, Places
    <2>2. OfferOf' = OfferOf
      BY <1>1, <1>8, <2>1, OfferStays
    <2>3. o \in [msg : Msgs, urgent : BOOLEAN]
      OBVIOUS
    <2> HIDE DEF o
    <2> QED BY <1>1, <1>7, <1>9, <1>r, <2>1, <2>2, <2>3, IsSendNow
  <1>11. CASE pc[s] = "back"
    <2>1. OfferOf[s] # NoOfferOf /\ OfferOf[s] = [msg |-> msg[s], urgent |-> s \in urgent]
      BY <1>11, OfferOpen DEF NoOfferOf
    <2>2. OfferOf[s] = o
      <3>1. m = msg[s] /\ (s \in urgent) = FALSE
        BY <1>1, <1>3, <1>11
      <3> QED BY <2>1, <3>1, Zenon
    <2>3. (s \in urgent') = FALSE /\ FALSE \in BOOLEAN
      BY <1>1, <1>3
    <2>4. OfferOf' = [OfferOf EXCEPT ![s] = NoOfferOf]
      BY <1>8, <2>3, OfferMade DEF NoOfferOf
    <2> HIDE DEF o
    <2> QED BY <1>1, <1>7, <1>9, <1>r, <2>1, <2>2, <2>4, IsAccept
  <1> QED BY <1>1, <1>10, <1>11

LEMMA MbUrgentRefines ==
    ASSUME QueueInv, NEW s \in Senders, NEW m \in Msgs, MbUrgent(s, m)
    PROVE  Abstract!Next
  <1>0. s \in Threads /\ s \notin Receivers /\ Receivers \subseteq Threads /\ Senders \subseteq Threads
    BY ThreadFacts
  <1>1. /\ kind = "mailbox" /\ kind' = kind /\ entry # Size /\ pc[s] = "idle"
        /\ outOff' = IF outOff > 0 THEN outOff - 1 ELSE Size - 1
        /\ pool' = [pool EXCEPT ![outOff'] = m]
        /\ entry' = entry + 1 /\ WakeReceiver(s, "idle")
        /\ msg' = msg /\ queue' = queue /\ urgent' = urgent /\ hand' = hand
        /\ ret' = [ret EXCEPT ![s] = "ok"]
    BY DEF MbUrgent, Full, Returns
  <1>2. TypeOK /\ WaitersListed /\ TimerWaits /\ Ring
    BY DEF QueueInv, WaitInv, CellInv
  <1>3. /\ pc'[s] = "idle"
        /\ \A u \in Threads : u # s => pc'[u] = pc[u] \/ (pc[u] = "wait" /\ pc'[u] = "back")
    BY <1>0, <1>1, <1>2, WakeReceiverKeeps
  <1>4. /\ pool \in [Cells -> Values] /\ outOff \in Cells /\ entry \in 0 .. Size /\ entry < Size
        /\ m \in Values
    BY <1>1, <1>2, QueueAssumption DEF TypeOK, Values
  <1>5. outOff' \in Cells /\ NextOff(outOff') = outOff
    BY <1>1, <1>4, QueueAssumption DEF Cells, NextOff
  <1>6. Len(QueueOf) < Size /\ QueueOf' = <<m>> \o QueueOf
    <2>1. RingOf([pool EXCEPT ![outOff'] = m], outOff', entry + 1) = <<m>> \o RingOf(pool, outOff, entry)
      BY <1>4, <1>5, RingPush
    <2>2. QueueOf' = <<m>> \o QueueOf
      BY <1>1, <2>1 DEF QueueOf
    <2> QED BY <1>4, <2>2, QueueOfType
  <1>7. GotOf' = GotOf
    <2>1. \A r \in Receivers : r # s /\ pc[r] # "copy" /\ pc'[r] # "copy" /\ msg'[r] = msg[r]
      BY <1>0, <1>1, <1>2, <1>3 DEF Ring
    <2> QED BY <2>1, GotStays
  <1>8. OfferOf[s] = NoOfferOf /\ OfferOf' = OfferOf
    BY <1>1, OfferOpen, OfferStays DEF NoOfferOf
  <1>r. Held' = Held /\ RefusedOf' = RefusedOf /\ Room > 0 /\ Room' = Room - 1
    <2>1. Held' = Held /\ RefusedOf' = RefusedOf
      BY <1>0, <1>1, <1>3, HeldStays, RefusedKept
    <2> QED BY <1>1, <1>4, <2>1, QueueAssumption DEF Room
  <1> DEFINE o == [msg |-> m, urgent |-> TRUE]
  <1>9. Entered(o) /\ o \in [msg : Msgs, urgent : BOOLEAN]
    BY <1>6 DEF Entered
  <1> HIDE DEF o
  <1> QED BY <1>1, <1>7, <1>8, <1>9, <1>r, IsSendNow

(* An urgent message that finds no room fails. *)
LEMMA UrgentFullRefines ==
    ASSUME QueueInv, NEW s \in Senders, UrgentFull(s)
    PROVE  [Abstract!Next]_(Abstract!vars)
  <1>1. /\ pc[s] = "idle" /\ Full /\ ret' = [ret EXCEPT ![s] = "error"]
        /\ UNCHANGED <<kind, pool, outOff, queue, free, entry, pc, msg, urgent, hand>>
    BY DEF UrgentFull, Returns, storage
  <1>2. /\ QueueOf' = QueueOf /\ OfferOf' = OfferOf /\ GotOf' = GotOf
        /\ Held' = Held /\ RefusedOf' = RefusedOf
    BY <1>1, QueueStays, OfferStays, GotStays, HeldStays, RefusedStays
  <1>3. Room = 0 /\ Room' = Room
    BY <1>1, RoomIs DEF Room
  <1>4. OfferOf[s] = NoOfferOf
    BY <1>1, OfferOpen DEF NoOfferOf
  <1>5. PICK m \in Msgs : TRUE
    BY QueueAssumption
  <1>6. [msg |-> m, urgent |-> TRUE] \in [msg : Msgs, urgent : BOOLEAN]
    OBVIOUS
  <1>7. Abstract!Next
    BY <1>1, <1>2, <1>3, <1>4, <1>6, IsSendNow
  <1> QED BY <1>7

LEMMA MbRecvRefines ==
    ASSUME QueueInv, NEW r \in Receivers, NEW left, MbRecv(r, left)
    PROVE  Abstract!Next
  <1>0. r \in Threads /\ r \notin Senders /\ Receivers \subseteq Threads /\ Senders \subseteq Threads
    BY ThreadFacts
  <1>1. /\ kind = "mailbox" /\ kind' = kind /\ entry > 0 /\ pc[r] \in {"idle", "back"}
        /\ msg' = [msg EXCEPT ![r] = pool[outOff]] /\ outOff' = NextOff(outOff)
        /\ entry' = entry - 1 /\ WakeSender(r, "idle")
        /\ pool' = pool /\ queue' = queue /\ urgent' = urgent /\ hand' = hand /\ ret' = ret
    BY DEF MbRecv, Enter
  <1>2. TypeOK /\ WaitersListed /\ TimerWaits /\ Ring
    BY DEF QueueInv, WaitInv, CellInv
  <1>3. /\ pc'[r] = "idle"
        /\ \A u \in Threads : u # r => pc'[u] = pc[u] \/ (pc[u] = "wait" /\ pc'[u] = "back")
    BY <1>0, <1>1, <1>2, WakeSenderKeeps
  <1>4. /\ pool \in [Cells -> Values] /\ outOff \in Cells /\ entry \in 0 .. Size
        /\ msg \in [Threads -> Values]
    BY <1>1, <1>2 DEF TypeOK, Values
  <1>5. QueueOf # <<>> /\ Head(QueueOf) = pool[outOff] /\ QueueOf' = Tail(QueueOf)
    <2>1. /\ RingOf(pool, outOff, entry) # <<>> /\ Head(RingOf(pool, outOff, entry)) = pool[outOff]
          /\ RingOf(pool, NextOff(outOff), entry - 1) = Tail(RingOf(pool, outOff, entry))
      BY <1>1, <1>4, RingTail
    <2> QED BY <1>1, <2>1 DEF QueueOf
  <1>6. GotOf' = [GotOf EXCEPT ![r] = Head(QueueOf)]
    <2>1. \A u \in Receivers : /\ pc[u] # "copy" /\ pc'[u] # "copy"
                               /\ msg'[u] = IF u = r THEN pool[outOff] ELSE msg[u]
      BY <1>0, <1>1, <1>2, <1>3, <1>4 DEF Ring
    <2> QED BY <1>5, <2>1 DEF GotOf
  <1>7. OfferOf' = OfferOf
    <2>1. \A s \in Senders : msg'[s] = msg[s] /\ (s \in urgent' <=> s \in urgent)
      BY <1>0, <1>1, <1>4
    <2> QED BY <2>1, OfferStays
  <1>8. r \notin Held /\ Held' = Held /\ RefusedOf' = RefusedOf /\ Room' = Room + 1
    <2>1. r \notin Held /\ Held' = Held
      BY <1>0, <1>1, HeldStays, CallerFacts DEF Held
    <2>2. RefusedOf' = RefusedOf
      BY <1>0, <1>1, <1>3, RefusedKept
    <2> QED BY <1>1, <1>4, <2>1, <2>2, QueueAssumption DEF Room
  <1> QED BY <1>1, <1>5, <1>6, <1>7, <1>8, IsReceive

(* A message on offer that stays one: the sender goes on with it. *)
LEMMA SendWaitRefines ==
    ASSUME QueueInv, Running, NEW s \in Senders, NEW m \in Msgs, NEW left, SendWait(s, left, m)
    PROVE  [Abstract!Next]_(Abstract!vars)
  <1>0. s \in Threads /\ s \notin Receivers /\ Receivers \subseteq Threads /\ Senders \subseteq Threads
    BY ThreadFacts
  <1>1. /\ pc[s] = "idle" \/ (pc[s] = "back" /\ m = msg[s])
        /\ kind' = kind /\ storage' = storage /\ urgent' = urgent /\ hand' = hand /\ Full
        /\ \/ /\ pc' = [pc EXCEPT ![s] = "wait"] /\ msg' = [msg EXCEPT ![s] = m]
              /\ ret' = [ret EXCEPT ![s] = "none"]
           \/ /\ pc' = [pc EXCEPT ![s] = "idle"] /\ msg' = [msg EXCEPT ![s] = NoMsg]
              /\ ret' = [ret EXCEPT ![s] = "error"]
    BY DEF SendWait, EnterSend, Enter, Wait, GiveUp, Returns
  <1>2. TypeOK
    BY DEF QueueInv
  <1>3. s \notin urgent
    BY <1>0, <1>1, CallerFacts
  <1>4. /\ msg \in [Threads -> Values]
        /\ pc \in [Threads -> {"idle", "wait", "back", "failed", "copy", "link", "free"}]
    BY <1>2 DEF TypeOK, Values
  <1>5. \A t \in Threads : t # s => pc'[t] = pc[t] /\ msg'[t] = msg[t]
    BY <1>0, <1>1, <1>4
  <1>6. QueueOf' = QueueOf
    BY <1>1, QueueStays DEF storage
  <1>7. GotOf' = GotOf
    <2>1. \A u \in Receivers : pc'[u] = pc[u] /\ msg'[u] = msg[u] /\ pool'[hand'[u]] = pool[hand[u]]
      BY <1>0, <1>1, <1>5 DEF storage
    <2> QED BY <2>1, GotStays
  <1>8. /\ \A t \in Senders : t # s => msg'[t] = msg[t] /\ (t \in urgent') = (t \in urgent)
        /\ (s \in urgent') = FALSE /\ FALSE \in BOOLEAN
    BY <1>0, <1>1, <1>3, <1>5
  <1>9. /\ Held' = Held /\ s \notin Held /\ RefusedOf' = RefusedOf /\ s \notin RefusedOf
        /\ Room = 0 /\ Room' = Room
    <2>1. Held' = Held /\ s \notin Held
      BY <1>0, <1>1, HeldStays, CallerFacts DEF Held
    <2>2. RefusedOf' = RefusedOf /\ s \notin RefusedOf
      BY <1>0, <1>1, <1>4 DEF RefusedOf
    <2>3. Room = 0 /\ Room' = Room
      BY <1>1, RoomIs DEF Room, storage
    <2> QED BY <2>1, <2>2, <2>3
  <1> DEFINE o == [msg |-> m, urgent |-> FALSE]
  <1>10. o \in [msg : Msgs, urgent : BOOLEAN]
    OBVIOUS
  <1>11. CASE pc'[s] = "wait" /\ pc[s] = "idle"
    <2>1. msg'[s] = m /\ ret' = [ret EXCEPT ![s] = "none"]
      BY <1>0, <1>1, <1>4, <1>11
    <2>2. OfferOf' = [OfferOf EXCEPT ![s] = o]
      BY <1>8, <2>1, OfferMade
    <2>3. OfferOf[s] = NoOfferOf
      BY <1>11, OfferOpen DEF NoOfferOf
    <2> HIDE DEF o
    <2>4. Abstract!Next
      BY <1>6, <1>7, <1>9, <1>10, <2>1, <2>2, <2>3, IsOffer
    <2> QED BY <2>4
  <1>12. CASE pc'[s] = "wait" /\ pc[s] = "back"
    <2>1. msg' = [msg EXCEPT ![s] = m] /\ m = msg[s] /\ ret' = [ret EXCEPT ![s] = "none"]
      BY <1>0, <1>1, <1>4, <1>12
    <2>2. \A t \in Senders : msg'[t] = msg[t] /\ (t \in urgent' <=> t \in urgent)
      BY <1>0, <1>1, <1>4, <2>1
    <2>3. OfferOf' = OfferOf
      BY <2>2, OfferStays
    <2>4. ret' = ret
      BY <1>2, <1>12, <2>1 DEF Running, TypeOK
    <2> QED BY <1>6, <1>7, <1>9, <2>3, <2>4, IsStutter
  <1>13. CASE pc'[s] = "idle" /\ pc[s] = "idle"
    <2>1. msg'[s] = NoMsg /\ ret' = [ret EXCEPT ![s] = "error"]
      BY <1>0, <1>1, <1>4, <1>13
    <2>2. msg[s] = NoMsg
      BY <1>0, <1>13 DEF QueueInv, WaitInv, Places
    <2>3. OfferOf' = OfferOf
      BY <1>1, <1>8, <2>1, <2>2, OfferStays
    <2>4. OfferOf[s] = NoOfferOf
      BY <1>13, OfferOpen DEF NoOfferOf
    <2> HIDE DEF o
    <2>5. Abstract!Next
      BY <1>6, <1>7, <1>9, <1>10, <2>1, <2>3, <2>4, IsSendNow
    <2> QED BY <2>5
  <1>14. CASE pc'[s] = "idle" /\ pc[s] = "back"
    <2>1. msg'[s] = NoMsg /\ ret' = [ret EXCEPT ![s] = "error"]
      BY <1>0, <1>1, <1>4, <1>14
    <2>2. OfferOf' = [OfferOf EXCEPT ![s] = NoOfferOf]
      BY <1>8, <2>1, OfferMade DEF NoOfferOf
    <2>3. OfferOf[s] # NoOfferOf
      BY <1>14, OfferOpen DEF NoOfferOf
    <2>4. RefusedOf' = RefusedOf \ {s}
      BY <1>9
    <2>5. Abstract!Next
      BY <1>6, <1>7, <1>9, <2>1, <2>2, <2>3, <2>4, IsFail
    <2> QED BY <2>5
  <1>15. pc'[s] = "wait" \/ pc'[s] = "idle"
    BY <1>0, <1>1, <1>4
  <1> QED BY <1>1, <1>11, <1>12, <1>13, <1>14, <1>15

(* A cell is taken: the message is on offer until the cell is linked. *)
LEMMA TakeCellRefines ==
    ASSUME QueueInv, Running, NEW s \in Senders, NEW m \in Msgs, NEW u \in BOOLEAN, TakeCell(s, m),
           \/ pc[s] = "idle"
           \/ pc[s] = "back" /\ m = msg[s] /\ u = FALSE,
           urgent' = IF u THEN urgent \cup {s} ELSE urgent
    PROVE  [Abstract!Next]_(Abstract!vars)
  <1>0. s \in Threads /\ s \notin Receivers /\ Receivers \subseteq Threads /\ Senders \subseteq Threads
    BY ThreadFacts
  <1>1. /\ kind' = kind /\ free # <<>> /\ hand' = [hand EXCEPT ![s] = Head(free)] /\ kind = "mq"
        /\ msg' = [msg EXCEPT ![s] = m] /\ pc' = [pc EXCEPT ![s] = "copy"]
        /\ pool' = pool /\ outOff' = outOff /\ queue' = queue /\ entry' = entry
        /\ free' = Tail(free) /\ ret' = [ret EXCEPT ![s] = "none"]
    BY DEF TakeCell, Full, Returns
  <1>2. TypeOK
    BY DEF QueueInv
  <1>3. s \notin urgent
    BY <1>0, CallerFacts
  <1>4. /\ msg \in [Threads -> Values] /\ hand \in [Threads -> Cells \cup {NoCell}]
        /\ pc \in [Threads -> {"idle", "wait", "back", "failed", "copy", "link", "free"}]
    BY <1>2 DEF TypeOK, Values
  <1>5. /\ \A t \in Threads : t # s => pc'[t] = pc[t] /\ msg'[t] = msg[t] /\ hand'[t] = hand[t]
        /\ msg'[s] = m
    BY <1>0, <1>1, <1>4
  <1>6. QueueOf' = QueueOf
    BY <1>1, QueueStays
  <1>7. GotOf' = GotOf
    <2>1. \A r \in Receivers : pc'[r] = pc[r] /\ msg'[r] = msg[r] /\ pool'[hand'[r]] = pool[hand[r]]
      BY <1>0, <1>1, <1>5
    <2> QED BY <2>1, GotStays
  <1>8. /\ \A t \in Senders : t # s => msg'[t] = msg[t] /\ (t \in urgent') = (t \in urgent)
        /\ (s \in urgent') = u
    BY <1>0, <1>3, <1>5
  <1>r. /\ Held' = Held \cup {s} /\ s \notin Held
        /\ RefusedOf' = RefusedOf /\ s \notin RefusedOf
        /\ Room > 0 /\ Room' = Room - 1
    <2>1. free \in Seq(Cells) /\ NoCell \notin Cells
      BY <1>2, QueueAssumption DEF TypeOK, Cells
    <2>2. Head(free) \in Cells /\ Len(Tail(free)) = Len(free) - 1 /\ Len(free) > 0
      BY <1>1, <2>1
    <2>3. Held' = Held \cup {s} /\ s \notin Held
      BY <1>0, <1>1, <1>4, <2>1, <2>2, CallerFacts DEF Held
    <2>4. RefusedOf' = RefusedOf /\ s \notin RefusedOf
      BY <1>0, <1>1, <1>4 DEF RefusedOf
    <2> QED BY <1>1, <2>2, <2>3, <2>4 DEF Room
  <1>9. CASE pc[s] = "idle"
    <2>1. OfferOf' = [OfferOf EXCEPT ![s] = [msg |-> m, urgent |-> u]]
      BY <1>5, <1>8, OfferMade
    <2>2. OfferOf[s] = NoOfferOf
      BY <1>9, OfferOpen DEF NoOfferOf
    <2>3. [msg |-> m, urgent |-> u] \in [msg : Msgs, urgent : BOOLEAN]
      OBVIOUS
    <2>4. Abstract!Next
      BY <1>1, <1>6, <1>7, <1>r, <2>1, <2>2, <2>3, IsOffer
    <2> QED BY <2>4
  <1>10. CASE pc[s] = "back" /\ m = msg[s] /\ u = FALSE
    <2>1. \A t \in Senders : msg'[t] = msg[t] /\ (t \in urgent' <=> t \in urgent)
      BY <1>0, <1>5, <1>10
    <2>2. OfferOf' = OfferOf
      BY <2>1, OfferStays
    <2>3. OfferOf[s] # NoOfferOf
      BY <1>10, OfferOpen DEF NoOfferOf
    <2>4. ret' = ret
      BY <1>1, <1>2, <1>10 DEF Running, TypeOK
    <2>5. Abstract!Next
      BY <1>6, <1>7, <1>r, <2>2, <2>3, <2>4, IsPlace
    <2> QED BY <2>5
  <1> QED BY <1>9, <1>10

LEMMA MqSendRefines ==
    ASSUME QueueInv, Running, NEW s \in Senders, NEW m \in Msgs, NEW left, MqSend(s, left, m)
    PROVE  [Abstract!Next]_(Abstract!vars)
  <1>1. /\ TakeCell(s, m) /\ urgent' = IF FALSE THEN urgent \cup {s} ELSE urgent
        /\ pc[s] = "idle" \/ (pc[s] = "back" /\ m = msg[s] /\ FALSE = FALSE)
    BY DEF MqSend, EnterSend, Enter
  <1> QED BY <1>1, TakeCellRefines

LEMMA MqUrgentRefines ==
    ASSUME QueueInv, Running, NEW s \in Senders, NEW m \in Msgs, MqUrgent(s, m)
    PROVE  [Abstract!Next]_(Abstract!vars)
  <1>1. TakeCell(s, m) /\ urgent' = (IF TRUE THEN urgent \cup {s} ELSE urgent) /\ pc[s] = "idle"
    BY DEF MqUrgent
  <1> QED BY <1>1, TakeCellRefines

LEMMA MqRecvRefines ==
    ASSUME QueueInv, NEW r \in Receivers, NEW left, MqRecv(r, left)
    PROVE  Abstract!Next
  <1>0. r \in Threads /\ r \notin Senders /\ Receivers \subseteq Threads /\ Senders \subseteq Threads
    BY ThreadFacts
  <1>1. /\ kind = "mq" /\ kind' = kind /\ entry > 0 /\ pc[r] \in {"idle", "back"}
        /\ hand' = [hand EXCEPT ![r] = Head(queue)] /\ queue' = Tail(queue)
        /\ pc' = [pc EXCEPT ![r] = "copy"] /\ pool' = pool /\ msg' = msg /\ urgent' = urgent
        /\ free' = free /\ ret' = ret
    BY DEF MqRecv, Enter
  <1>2. TypeOK /\ CellsConserved
    BY DEF QueueInv, CellInv
  <1>3. /\ pool \in [Cells -> Values] /\ queue \in Seq(Cells)
        /\ hand \in [Threads -> Cells \cup {NoCell}]
        /\ pc \in [Threads -> {"idle", "wait", "back", "failed", "copy", "link", "free"}]
    BY <1>2 DEF TypeOK, Values
  <1>4. queue # <<>>
    BY <1>1, <1>2, <1>3 DEF CellsConserved
  <1>5. /\ QueueOf # <<>> /\ Head(QueueOf) = pool[Head(queue)] /\ QueueOf' = Tail(QueueOf)
    <2>1. /\ CellsOf(pool, queue) # <<>> /\ Head(CellsOf(pool, queue)) = pool[Head(queue)]
          /\ CellsOf(pool, Tail(queue)) = Tail(CellsOf(pool, queue))
      BY <1>3, <1>4, CellsTail
    <2> QED BY <1>1, <2>1 DEF QueueOf
  <1>6. GotOf' = [GotOf EXCEPT ![r] = Head(QueueOf)]
    <2>1. /\ pc'[r] = "copy" /\ hand'[r] = Head(queue)
          /\ \A u \in Receivers : u # r => pc'[u] = pc[u] /\ hand'[u] = hand[u]
      BY <1>0, <1>1, <1>3
    <2>2. \A u \in Receivers : (IF pc'[u] = "copy" THEN pool'[hand'[u]] ELSE msg'[u]) =
             IF u = r THEN Head(QueueOf) ELSE IF pc[u] = "copy" THEN pool[hand[u]] ELSE msg[u]
      BY <1>1, <1>5, <2>1
    <2>3. GotOf' = [u \in Receivers |-> IF u = r THEN Head(QueueOf) ELSE GotOf[u]]
      BY <2>2 DEF GotOf
    <2>4. GotOf = [u \in Receivers |-> GotOf[u]]
      BY DEF GotOf
    <2> QED BY <2>3, <2>4
  <1>7. OfferOf' = OfferOf
    BY <1>1, OfferStays
  <1>8. /\ r \notin Held /\ Held' = Held \cup {r}
        /\ RefusedOf' = RefusedOf /\ Room' = Room
    <2>1. Head(queue) \in Cells /\ NoCell \notin Cells
      BY <1>3, <1>4, QueueAssumption DEF Cells
    <2>2. r \notin Held /\ Held' = Held \cup {r}
      BY <1>0, <1>1, <1>3, <2>1, CallerFacts DEF Held
    <2> QED BY <1>0, <1>1, <1>3, <2>2 DEF RefusedOf, Room
  <1> QED BY <1>1, <1>5, <1>6, <1>7, <1>8, IsReceive

(* Filling a cell that is in nobody else's hand and in no list *)
LEMMA MqCopyInRefines ==
    ASSUME QueueInv, NEW s \in Threads, MqCopyIn(s)
    PROVE  UNCHANGED Abstract!vars
  <1>1. /\ s \in Senders /\ pc[s] = "copy" /\ pool' = [pool EXCEPT ![hand[s]] = msg[s]]
        /\ pc' = [pc EXCEPT ![s] = "link"] /\ kind' = kind
        /\ queue' = queue /\ msg' = msg /\ urgent' = urgent /\ hand' = hand
        /\ free' = free /\ entry' = entry /\ ret' = ret
    BY DEF MqCopyIn, local
  <1>2. TypeOK /\ CellsApart
    BY DEF QueueInv, CellInv
  <1>3. /\ kind = "mq" /\ hand[s] # NoCell /\ hand[s] \in Cells
        /\ \A u \in Threads : u # s => hand[u] # hand[s]
    BY <1>1, HolderFacts
  <1>4. /\ pool \in [Cells -> Values] /\ queue \in Seq(Cells)
        /\ pc \in [Threads -> {"idle", "wait", "back", "failed", "copy", "link", "free"}]
    BY <1>2 DEF TypeOK, Values
  <1>5. \A c \in Cells : c # hand[s] => pool'[c] = pool[c]
    BY <1>1, <1>4
  <1>6. QueueOf' = QueueOf
    <2>1. \A i \in 1 .. Len(queue) : queue[i] \in ToSet(queue) /\ queue[i] \in Cells
      BY <1>4 DEF ToSet
    <2>2. hand[s] \notin ToSet(queue)
      BY <1>2, <1>3 DEF CellsApart
    <2>3. \A i \in 1 .. Len(queue) : pool'[queue[i]] = pool[queue[i]]
      BY <1>5, <2>1, <2>2
    <2>4. CellsOf(pool', queue) = CellsOf(pool, queue)
      BY <2>3 DEF CellsOf
    <2> QED BY <1>1, <1>3, <2>4 DEF QueueOf
  <1>7. GotOf' = GotOf
    <2>1. ASSUME NEW r \in Receivers
          PROVE  pc'[r] = pc[r] /\ (pc[r] = "copy" => pool'[hand'[r]] = pool[hand[r]])
      <3>1. r \in Threads /\ r # s
        BY <1>1, ThreadFacts
      <3>2. pc'[r] = pc[r]
        BY <1>1, <1>4, <3>1
      <3>3. ASSUME pc[r] = "copy" PROVE pool'[hand[r]] = pool[hand[r]]
        <4>1. hand[r] \in Cells /\ hand[r] # hand[s]
          BY <1>3, <3>1, <3>3, HolderFacts
        <4> QED BY <1>5, <4>1
      <3> QED BY <1>1, <3>2, <3>3
    <2> QED BY <1>1, <2>1, GotStays
  <1>8. OfferOf' = OfferOf
    BY <1>1, OfferStays
  <1>9. Held' = Held /\ RefusedOf' = RefusedOf /\ Room' = Room
    BY <1>1, <1>4, ThreadFacts DEF Held, RefusedOf, Room
  <1> QED BY <1>1, <1>6, <1>7, <1>8, <1>9, IsStutter

LEMMA MqCopyOutRefines ==
    ASSUME QueueInv, NEW r \in Threads, MqCopyOut(r)
    PROVE  UNCHANGED Abstract!vars
  <1>1. /\ r \in Receivers /\ pc[r] = "copy" /\ msg' = [msg EXCEPT ![r] = pool[hand[r]]]
        /\ pc' = [pc EXCEPT ![r] = "free"] /\ kind' = kind /\ storage' = storage
        /\ urgent' = urgent /\ hand' = hand /\ ret' = ret
    BY DEF MqCopyOut
  <1>2. /\ msg \in [Threads -> Values]
        /\ pc \in [Threads -> {"idle", "wait", "back", "failed", "copy", "link", "free"}]
    BY DEF QueueInv, TypeOK, Values
  <1>3. /\ pc'[r] = "free" /\ msg'[r] = pool[hand[r]]
        /\ \A u \in Threads : u # r => pc'[u] = pc[u] /\ msg'[u] = msg[u]
    BY <1>1, <1>2
  <1>4. QueueOf' = QueueOf
    BY <1>1, QueueStays DEF storage
  <1>5. GotOf' = GotOf
    <2>1. \A u \in Receivers : (IF pc'[u] = "copy" THEN pool'[hand'[u]] ELSE msg'[u])
                               = (IF pc[u] = "copy" THEN pool[hand[u]] ELSE msg[u])
      BY <1>1, <1>3, ThreadFacts DEF storage
    <2> QED BY <2>1 DEF GotOf
  <1>6. OfferOf' = OfferOf
    <2>1. \A s \in Senders : msg'[s] = msg[s] /\ (s \in urgent' <=> s \in urgent)
      BY <1>1, <1>3, ThreadFacts
    <2> QED BY <2>1, OfferStays
  <1>7. Held' = Held /\ RefusedOf' = RefusedOf /\ Room' = Room
    BY <1>1, <1>2, ThreadFacts DEF Held, RefusedOf, Room, storage
  <1> QED BY <1>1, <1>4, <1>5, <1>6, <1>7, IsStutter

(* The offer enters the queue when its cell is linked. *)
LEMMA MqLinkRefines ==
    ASSUME QueueInv, NEW s \in Threads, MqLink(s)
    PROVE  Abstract!Next
  <1>1. /\ pc[s] = "link" /\ kind' = kind
        /\ queue' = IF s \in urgent THEN <<hand[s]>> \o queue ELSE Append(queue, hand[s])
        /\ WakeReceiver(s, "idle")
        /\ hand' = [hand EXCEPT ![s] = NoCell] /\ msg' = [msg EXCEPT ![s] = NoMsg]
        /\ urgent' = urgent \ {s} /\ pool' = pool /\ free' = free
        /\ ret' = [ret EXCEPT ![s] = "ok"]
    BY DEF MqLink, Returns
  <1>2. TypeOK /\ WaitersListed /\ TimerWaits /\ CellsConserved /\ LinkedIsCopied
    BY DEF QueueInv, WaitInv, CellInv
  <1>3. /\ kind = "mq" /\ hand[s] # NoCell /\ hand[s] \in Cells /\ pc[s] # "wait" /\ s \in Senders
    BY <1>1, HolderFacts
  <1>4. /\ pc'[s] = "idle"
        /\ \A u \in Threads : u # s => pc'[u] = pc[u] \/ (pc[u] = "wait" /\ pc'[u] = "back")
    BY <1>1, <1>2, <1>3, WakeReceiverKeeps
  <1>5. /\ pool \in [Cells -> Values] /\ queue \in Seq(Cells) /\ free \in Seq(Cells)
        /\ hand \in [Threads -> Cells \cup {NoCell}] /\ msg \in [Threads -> Values]
        /\ entry \in 0 .. Size /\ Size \in Nat
    BY <1>2, QueueAssumption DEF TypeOK, Values
  <1>6. /\ hand'[s] = NoCell /\ msg'[s] = NoMsg
        /\ \A u \in Threads : u # s => hand'[u] = hand[u] /\ msg'[u] = msg[u]
    BY <1>1, <1>5
  <1>7. /\ s \in Held /\ Held' = Held \ {s} /\ Room' = Room
        /\ RefusedOf' = RefusedOf /\ s \notin RefusedOf
    <2>1. s \in Held /\ Held' = Held \ {s}
      BY <1>3, <1>6 DEF Held
    <2>2. RefusedOf' = RefusedOf /\ s \notin RefusedOf
      BY <1>1, <1>4, RefusedKept DEF RefusedOf
    <2> QED BY <1>1, <1>3, <2>1, <2>2 DEF Room
  <1>8. pool[hand[s]] = msg[s]
    BY <1>1, <1>2 DEF LinkedIsCopied
  <1>9. /\ s \in urgent => QueueOf' = <<msg[s]>> \o QueueOf
        /\ s \notin urgent => QueueOf' = Append(QueueOf, msg[s])
    <2>1. CellsOf(pool, <<hand[s]>> \o queue) = <<msg[s]>> \o CellsOf(pool, queue)
      BY <1>3, <1>5, <1>8, CellsPush
    <2>2. CellsOf(pool, Append(queue, hand[s])) = Append(CellsOf(pool, queue), msg[s])
      BY <1>3, <1>5, <1>8, CellsAppend
    <2> QED BY <1>1, <1>3, <2>1, <2>2 DEF QueueOf
  <1>10. OfferOf[s] # NoOfferOf /\ OfferOf[s] = [msg |-> msg[s], urgent |-> s \in urgent]
    BY <1>1, <1>3, OfferOpen DEF NoOfferOf
  <1>11. Entered(OfferOf[s])
    <2>1. OfferOf[s].msg = msg[s]
      BY <1>10
    <2>2. CASE s \in urgent
      <3>1. OfferOf[s] = [msg |-> msg[s], urgent |-> TRUE]
        BY <1>10, <2>2, Zenon
      <3>2. OfferOf[s].urgent
        BY <3>1
      <3> QED BY <1>9, <2>1, <2>2, <3>2 DEF Entered
    <2>3. CASE s \notin urgent
      <3>1. (s \in urgent) = FALSE
        BY <2>3
      <3>2. OfferOf[s] = [msg |-> msg[s], urgent |-> FALSE]
        BY <1>10, <3>1, Zenon
      <3>3. ~OfferOf[s].urgent
        BY <3>2
      <3> QED BY <1>9, <2>1, <2>3, <3>3 DEF Entered
    <2> QED BY <2>2, <2>3
  <1>12. OfferOf' = [OfferOf EXCEPT ![s] = NoOfferOf]
    <2>1. (s \in urgent') = FALSE /\ FALSE \in BOOLEAN
      BY <1>1
    <2>2. \A t \in Senders : t # s => msg'[t] = msg[t] /\ (t \in urgent') = (t \in urgent)
      BY <1>1, <1>6, ThreadFacts
    <2> QED BY <1>3, <1>6, <2>1, <2>2, OfferMade DEF NoOfferOf
  <1>13. GotOf' = GotOf
    <2>1. \A r \in Receivers : r \in Threads /\ r # s
      BY <1>3, ThreadFacts
    <2>2. \A r \in Receivers : /\ pc'[r] = "copy" <=> pc[r] = "copy"
                               /\ msg'[r] = msg[r] /\ hand'[r] = hand[r]
      BY <1>4, <1>6, <2>1
    <2> QED BY <1>1, <2>2, GotStays
  <1> QED BY <1>1, <1>3, <1>7, <1>10, <1>11, <1>12, <1>13, IsAccept

LEMMA MqFreeRefines ==
    ASSUME QueueInv, NEW r \in Threads, MqFree(r)
    PROVE  Abstract!Next
  <1>1. /\ pc[r] = "free" /\ kind' = kind /\ hand' = [hand EXCEPT ![r] = NoCell]
        /\ WakeSender(r, "idle") /\ pool' = pool /\ outOff' = outOff /\ queue' = queue /\ entry' = entry
        /\ msg' = msg /\ urgent' = urgent /\ free' = <<hand[r]>> \o free /\ ret' = ret
    BY DEF MqFree
  <1>2. TypeOK /\ WaitersListed /\ TimerWaits
    BY DEF QueueInv, WaitInv
  <1>3. pc'[r] = "idle" /\ \A u \in Threads : u # r => pc'[u] = pc[u] \/ (pc[u] = "wait" /\ pc'[u] = "back")
    BY <1>1, <1>2, WakeSenderKeeps
  <1>4. \A u \in Threads : u # r => hand'[u] = hand[u]
    BY <1>1, <1>2 DEF TypeOK
  <1>5. QueueOf' = QueueOf
    BY <1>1, QueueStays
  <1>6. GotOf' = GotOf
    <2>1. \A u \in Receivers : /\ pc'[u] = "copy" <=> pc[u] = "copy"
                               /\ pc[u] = "copy" => hand'[u] = hand[u]
      BY <1>1, <1>3, <1>4, ThreadFacts
    <2> QED BY <1>1, <2>1, GotStays
  <1>7. OfferOf' = OfferOf
    BY <1>1, OfferStays
  <1>8. r \in Receivers /\ hand[r] \in Cells /\ hand[r] # NoCell /\ kind = "mq"
    BY <1>1, HolderFacts
  <1>9. /\ r \in Held /\ Held' = Held \ {r}
        /\ RefusedOf' = RefusedOf /\ Room' = Room + 1
    <2>1. r \in Held /\ Held' = Held \ {r}
      BY <1>1, <1>2, <1>8 DEF Held, TypeOK
    <2>2. RefusedOf' = RefusedOf
      BY <1>1, <1>3, RefusedKept
    <2>3. free \in Seq(Cells) /\ Len(<<hand[r]>> \o free) = Len(free) + 1
      BY <1>2, <1>8 DEF TypeOK
    <2> QED BY <1>1, <1>8, <2>1, <2>2, <2>3 DEF Room
  <1> QED BY <1>1, <1>5, <1>6, <1>7, <1>8, <1>9, IsFree

LEMMA RecvWaitRefines ==
    ASSUME QueueInv, NEW r \in Receivers, NEW left, RecvWait(r, left)
    PROVE  UNCHANGED Abstract!vars
  <1>1. /\ pc[r] \in {"idle", "back"} /\ kind' = kind /\ storage' = storage
        /\ msg' = msg /\ urgent' = urgent /\ hand' = hand /\ ret' = ret
        /\ pc' = [pc EXCEPT ![r] = "wait"] \/ pc' = [pc EXCEPT ![r] = "idle"]
    BY DEF RecvWait, Enter, Wait, GiveUp, local
  <1>2. \A u \in Receivers : pc'[u] = "copy" <=> pc[u] = "copy"
    BY <1>1, ThreadFacts DEF QueueInv, TypeOK
  <1>3. QueueOf' = QueueOf
    BY <1>1, QueueStays DEF storage
  <1>4. GotOf' = GotOf
    BY <1>1, <1>2, GotStays DEF storage
  <1>5. OfferOf' = OfferOf
    BY <1>1, OfferStays
  <1>6. Held' = Held /\ RefusedOf' = RefusedOf /\ Room' = Room
    BY <1>1, ThreadFacts DEF Held, RefusedOf, Room, storage, QueueInv, TypeOK
  <1> QED BY <1>1, <1>3, <1>4, <1>5, <1>6, IsStutter

LEMMA TimeoutRefines ==
    ASSUME QueueInv, NEW t \in Threads, Timeout(t)
    PROVE  [Abstract!Next]_(Abstract!vars)
  <1>1. /\ timer[t] /\ pc' = [pc EXCEPT ![t] = "failed"] /\ kind' = kind /\ storage' = storage
        /\ msg' = msg /\ urgent' = urgent /\ hand' = hand /\ ret' = ret
    BY DEF Timeout, local
  <1>2. pc[t] = "wait"
    BY <1>1 DEF QueueInv, WaitInv, TimerWaits
  <1>3. \A u \in Receivers : pc'[u] = "copy" <=> pc[u] = "copy"
    BY <1>1, <1>2, ThreadFacts DEF QueueInv, TypeOK
  <1>4. QueueOf' = QueueOf
    BY <1>1, QueueStays DEF storage
  <1>5. GotOf' = GotOf
    BY <1>1, <1>3, GotStays DEF storage
  <1>6. OfferOf' = OfferOf
    BY <1>1, OfferStays
  <1>7. Held' = Held /\ Room' = Room
    BY <1>1 DEF Held, Room, storage
  <1>8. CASE t \in Senders
    <2>1. OfferOf[t] # NoOfferOf
      BY <1>2, <1>8, OfferOpen DEF NoOfferOf
    <2>2. t \notin Held
      BY <1>2 DEF QueueInv, WaitInv, Places, Held
    <2>3. RefusedOf' = RefusedOf \cup {t}
      BY <1>1, <1>8, ThreadFacts DEF RefusedOf, QueueInv, TypeOK
    <2>4. Abstract!Next
      BY <1>1, <1>4, <1>5, <1>6, <1>7, <1>8, <2>1, <2>2, <2>3, IsRefuse
    <2> QED BY <2>4
  <1>9. CASE t \notin Senders
    <2>1. RefusedOf' = RefusedOf
      BY <1>1, <1>9, ThreadFacts DEF RefusedOf, QueueInv, TypeOK
    <2> QED BY <1>1, <1>4, <1>5, <1>6, <1>7, <2>1, IsStutter
  <1> QED BY <1>8, <1>9

LEMMA FailRefines ==
    ASSUME QueueInv, NEW t \in Threads, Fail(t)
    PROVE  [Abstract!Next]_(Abstract!vars)
  <1>1. /\ pc[t] = "failed" /\ pc' = [pc EXCEPT ![t] = "idle"] /\ kind' = kind /\ storage' = storage
        /\ msg' = IF t \in Senders THEN [msg EXCEPT ![t] = NoMsg] ELSE msg
        /\ ret' = IF t \in Senders THEN [ret EXCEPT ![t] = "error"] ELSE ret
        /\ urgent' = urgent /\ hand' = hand
    BY DEF Fail, Returns
  <1>2. /\ msg \in [Threads -> Values]
        /\ pc \in [Threads -> {"idle", "wait", "back", "failed", "copy", "link", "free"}]
    BY DEF QueueInv, TypeOK, Values
  <1>3. \A u \in Receivers : msg'[u] = msg[u] /\ (pc'[u] = "copy" <=> pc[u] = "copy")
    BY <1>1, <1>2, ThreadFacts
  <1>4. QueueOf' = QueueOf
    BY <1>1, QueueStays DEF storage
  <1>5. GotOf' = GotOf
    BY <1>1, <1>3, GotStays DEF storage
  <1>8. Held' = Held /\ Room' = Room
    BY <1>1 DEF Held, Room, storage
  <1>6. CASE t \notin Senders
    <2>1. OfferOf' = OfferOf
      BY <1>1, <1>6, OfferStays
    <2>2. RefusedOf' = RefusedOf
      BY <1>1, <1>2, <1>6, ThreadFacts DEF RefusedOf
    <2> QED BY <1>1, <1>4, <1>5, <1>6, <1>8, <2>1, <2>2, IsStutter
  <1>7. CASE t \in Senders
    <2>1. msg'[t] = NoMsg /\ \A u \in Senders : u # t => msg'[u] = msg[u] /\ (u \in urgent') = (u \in urgent)
      BY <1>1, <1>2, <1>7, ThreadFacts
    <2>2. t \notin urgent
      BY <1>1 DEF QueueInv, WaitInv, Places
    <2>3. (t \in urgent') = FALSE /\ FALSE \in BOOLEAN
      BY <1>1, <2>2
    <2>4. OfferOf' = [OfferOf EXCEPT ![t] = NoOfferOf]
      BY <1>7, <2>1, <2>3, OfferMade DEF NoOfferOf
    <2>5. OfferOf[t] # NoOfferOf
      BY <1>1, <1>7, OfferOpen DEF NoOfferOf
    <2>6. t \in RefusedOf /\ RefusedOf' = RefusedOf \ {t}
      BY <1>1, <1>2, <1>7, ThreadFacts DEF RefusedOf
    <2>7. t \notin Held
      BY <1>1 DEF QueueInv, WaitInv, Places, Held
    <2>8. Abstract!Next
      BY <1>1, <1>4, <1>5, <1>7, <1>8, <2>4, <2>5, <2>6, <2>7, IsFail
    <2> QED BY <2>8
  <1> QED BY <1>6, <1>7

LEMMA ResetRefines ==
    ASSUME QueueInv, Reset
    PROVE  Abstract!Next
  <1> DEFINE W == ToSet(rlist) \cup ToSet(slist)
  <1>1. /\ pc' = [t \in Threads |-> IF t \in W THEN "failed" ELSE pc[t]]
        /\ entry' = 0 /\ queue' = <<>> /\ kind' = kind /\ pool' = pool
        /\ msg' = msg /\ urgent' = urgent /\ hand' = hand /\ ret' = ret
        /\ free' = Reverse(queue) \o free
    BY DEF Reset, local
  <1>2. \A t \in Threads : t \in W <=> pc[t] = "wait"
    BY DEF QueueInv, WaitInv, WaitersListed
  <1> HIDE DEF W
  <1>3. \A r \in Receivers : pc'[r] = "copy" <=> pc[r] = "copy"
    BY <1>1, <1>2, ThreadFacts
  <1>4. QueueOf' = <<>>
    BY <1>1 DEF QueueOf, RingOf, CellsOf
  <1>5. GotOf' = GotOf
    BY <1>1, <1>3, GotStays
  <1>6. OfferOf' = OfferOf
    BY <1>1, OfferStays
  <1>7. Held' = Held
    BY <1>1, HeldStays
  <1>8. Room' = Room + Len(QueueOf)
    <2>1. /\ kind \in {"mailbox", "mq"} /\ entry \in 0 .. Size /\ Size \in Nat
          /\ queue \in Seq(Cells) /\ free \in Seq(Cells)
      BY QueueAssumption DEF QueueInv, TypeOK
    <2>2. Len(QueueOf) = entry
      BY QueueOfType
    <2>3. CASE kind = "mailbox"
      BY <1>1, <2>1, <2>2, <2>3 DEF Room
    <2>4. CASE kind = "mq"
      <3>1. entry = Len(queue)
        BY <2>4 DEF QueueInv, CellInv, CellsConserved
      <3>2. Reverse(queue) \in Seq(Cells) /\ Len(Reverse(queue)) = Len(queue)
        BY <2>1, ReverseListed
      <3>3. Len(Reverse(queue) \o free) = Len(queue) + Len(free)
        BY <2>1, <3>2
      <3> QED BY <1>1, <2>2, <2>4, <3>1, <3>3, <2>1 DEF Room
    <2> QED BY <2>1, <2>3, <2>4
  <1> DEFINE S == {s \in Senders : pc[s] = "wait"}
  <1>9. S \in SUBSET {s \in Senders \ Held : OfferOf[s] # NoOfferOf}
    <2>1. \A s \in S : s \notin Held
      BY ThreadFacts DEF QueueInv, WaitInv, Places, Held
    <2>2. \A s \in S : OfferOf[s] # NoOfferOf
      BY OfferOpen DEF NoOfferOf
    <2> QED BY <2>1, <2>2
  <1>10. RefusedOf' = RefusedOf \cup S
    BY <1>1, <1>2, ThreadFacts DEF RefusedOf
  <1> HIDE DEF S
  <1> QED BY <1>1, <1>4, <1>5, <1>6, <1>7, <1>8, <1>9, <1>10, IsReset

LEMMA InitRefines == Init => Abstract!Init
  <1> SUFFICES ASSUME Init PROVE Abstract!Init
    OBVIOUS
  <1>1. /\ queue = <<>> /\ entry = 0 /\ urgent = {} /\ pc = [t \in Threads |-> "idle"]
        /\ msg = [t \in Threads |-> NoMsg] /\ hand = [t \in Threads |-> NoCell]
        /\ ret = [s \in Senders |-> "none"]
    BY DEF Init
  <1>2. QueueOf = <<>>
    BY <1>1 DEF QueueOf, RingOf, CellsOf
  <1>3. OfferOf = [s \in Senders |-> NoOfferOf]
    <2>1. \A s \in Senders : msg[s] = NoMsg /\ (s \in urgent) = FALSE
      BY <1>1, ThreadFacts
    <2> QED BY <2>1, Zenon DEF OfferOf, NoOfferOf
  <1>4. GotOf = [r \in Receivers |-> NoMsg]
    <2>1. \A r \in Receivers : pc[r] # "copy" /\ msg[r] = NoMsg
      BY <1>1, ThreadFacts
    <2> QED BY <2>1 DEF GotOf
  <1>5. Held = {} /\ RefusedOf = {}
    BY <1>1, ThreadFacts DEF Held, RefusedOf
  <1>6. Room = Size
    <2>1. kind = "mq" => free \in Seq(Int) /\ Len(free) = Size
      BY QueueAssumption DEF Init
    <2> QED BY <1>1, <2>1, QueueAssumption DEF Room, Init
  <1> QED BY <1>1, <1>2, <1>3, <1>4, <1>5, <1>6 DEF Abstract!Init, Abstract!NoOffer, NoOfferOf,
                                  QueueOf, RingOf, CellsOf, OfferOf, GotOf, RefusedOf

LEMMA NextRefines == QueueInv /\ Running /\ [Next]_vars => [Abstract!Next]_(Abstract!vars)
  <1> SUFFICES ASSUME QueueInv, Running, [Next]_vars PROVE [Abstract!Next]_(Abstract!vars)
    OBVIOUS
  <1>1. CASE UNCHANGED vars
    <2>1. UNCHANGED <<kind, pool, outOff, queue, free, entry, pc, msg, urgent, hand, ret>>
      BY <1>1 DEF vars, storage, local
    <2>2. /\ QueueOf' = QueueOf /\ OfferOf' = OfferOf /\ GotOf' = GotOf
          /\ Held' = Held /\ RefusedOf' = RefusedOf /\ Room' = Room /\ ret' = ret
      BY <2>1, QueueStays, OfferStays, GotStays DEF Held, RefusedOf, Room
    <2> QED BY <2>2, IsStutter
  <1>2. ASSUME NEW s \in Senders, NEW m \in Msgs, NEW left,
               MbSend(s, left, m) \/ MqSend(s, left, m) \/ SendWait(s, left, m)
        PROVE  [Abstract!Next]_(Abstract!vars)
    BY <1>2, MbSendRefines, MqSendRefines, SendWaitRefines
  <1>3. ASSUME NEW s \in Senders, NEW m \in Msgs, MbUrgent(s, m) \/ MqUrgent(s, m)
        PROVE  [Abstract!Next]_(Abstract!vars)
    BY <1>3, MbUrgentRefines, MqUrgentRefines
  <1>u. ASSUME NEW s \in Senders, UrgentFull(s)
        PROVE  [Abstract!Next]_(Abstract!vars)
    BY <1>u, UrgentFullRefines
  <1>4. ASSUME NEW r \in Receivers, NEW left,
               MbRecv(r, left) \/ MqRecv(r, left) \/ RecvWait(r, left)
        PROVE  [Abstract!Next]_(Abstract!vars)
    BY <1>4, MbRecvRefines, MqRecvRefines, RecvWaitRefines
  <1>5. ASSUME NEW t \in Threads,
               MqCopyIn(t) \/ MqLink(t) \/ MqCopyOut(t) \/ MqFree(t) \/ Timeout(t) \/ Fail(t)
        PROVE  [Abstract!Next]_(Abstract!vars)
    BY <1>5, MqCopyInRefines, MqLinkRefines, MqCopyOutRefines, MqFreeRefines, TimeoutRefines, FailRefines
  <1>6. CASE Reset
    BY <1>6, ResetRefines
  <1> QED BY <1>1, <1>2, <1>3, <1>4, <1>5, <1>6, <1>u DEF Next

(* Mailbox and message queue implement BoundedQueue: whatever senders and  *)
(* receivers do at the same time, a call returns RT_EOK exactly when its   *)
(* message has entered the queue, once, an error only for want of room or  *)
(* when its waiting was ended, and a message leaves the queue once,        *)
(* unchanged, and in order.                                                *)
THEOREM QueueRefines == Spec => IsBoundedQueue
  <1>1. Init => Abstract!Init /\ Running
    BY InitRefines, ThreadFacts DEF Init, Running
  <1>2. QueueInv /\ Running /\ [Next]_vars => Running'
    BY RunningKept
  <1>3. QueueInv /\ Running /\ [Next]_vars => [Abstract!Next]_(Abstract!vars)
    BY NextRefines
  <1> QED BY <1>1, <1>2, <1>3, QueueInvariant, PTL DEF Spec, IsBoundedQueue, Abstract!Spec
=============================================================================
