------------------------------ MODULE RtQueue ------------------------------
(***************************************************************************)
(* The mailbox and the message queue (ipc.c).  Both block senders while    *)
(* they are full and receivers while they are empty, with the same loops:  *)
(* a thread that was resumed only looks again, and whoever came first has  *)
(* the message or the room.  They differ in where the messages are:        *)
(*   mailbox   a ring of words, filled and emptied under the lock          *)
(*   mq        cells that move between a free list and a linked queue; a   *)
(*             cell is taken under the lock, copied to or from without it, *)
(*             and linked or freed under the lock again                    *)
(* A step is what runs under rt_hw_interrupt_disable, or one copy.  The    *)
(* lists of waiting threads are RT_IPC_FLAG_FIFO (RtSem has the other).    *)
(***************************************************************************)
EXTENDS Integers, Sequences, FiniteSets, IpcList

CONSTANTS
    Senders, Receivers, Msgs,
    Size,        \* mb->size, mq->max_msgs
    Kinds,       \* "mailbox", "mq"
    Timeouts,    \* how callers wait: "none", "ticks", "forever"
    NoMsg, NoCell

ASSUME QueueAssumption ==
    /\ Senders \cap Receivers = {} /\ IsFiniteSet(Senders) /\ IsFiniteSet(Receivers)
    /\ Msgs # {} /\ NoMsg \notin Msgs
    /\ Size \in Nat \ {0} /\ NoCell \notin 0 .. Size - 1
    /\ Kinds \subseteq {"mailbox", "mq"}
    /\ Timeouts \subseteq {"none", "ticks", "forever"}

Threads == Senders \cup Receivers
Results == {"none", "ok", "error"}
Cells == 0 .. Size - 1

VARIABLES
    kind,
    pool,          \* msg_pool: the ring's words, or the contents of the cells
    inOff, outOff, \* mb->in_offset, mb->out_offset
    queue, free,   \* mq: the cells from msg_queue_head, from msg_queue_free
    entry,
    rlist, slist,  \* parent.suspend_thread, suspend_sender_thread
    pc,            \* "idle"; "wait", then "back" or (thread->error set) "failed";
                   \* "copy", then "link" or "free" (mq)
    timer,         \* is thread_timer running
    tmo,           \* the timeout left, in the waiting loop
    msg,           \* the sender's message, the receiver's buffer
    urgent,        \* senders in rt_mq_urgent
    hand,          \* the cell a thread copies to or from
    ret            \* what a sender's last call returned; "none" while it runs

storage == <<pool, inOff, outOff, queue, free, entry>>
local == <<msg, urgent, hand, ret>>
vars == <<kind, storage, rlist, slist, pc, timer, tmo, local>>

(* rt_mb_init, rt_mq_init: each cell is pushed on the free list *)
Init ==
    /\ kind \in Kinds
    /\ pool = [c \in Cells |-> NoMsg]
    /\ inOff = 0 /\ outOff = 0
    /\ queue = <<>>
    /\ free = IF kind = "mq" THEN [i \in 1 .. Size |-> Size - i] ELSE <<>>
    /\ entry = 0
    /\ rlist = <<>> /\ slist = <<>>
    /\ pc = [t \in Threads |-> "idle"]
    /\ timer = [t \in Threads |-> FALSE]
    /\ tmo = [t \in Threads |-> "none"]
    /\ msg = [t \in Threads |-> NoMsg]
    /\ urgent = {}
    /\ hand = [t \in Threads |-> NoCell]
    /\ ret = [s \in Senders |-> "none"]

-----------------------------------------------------------------------------
(* The first thread of a list, which _ipc_list_resume makes ready *)
First(list) == IF list = <<>> THEN {} ELSE {Head(list)}

(* t goes to a place and the threads in woken are resumed without error *)
Step(t, to, woken) ==
    /\ pc' = [u \in Threads |-> IF u \in woken THEN "back"
                                ELSE IF u = t THEN to ELSE pc[u]]
    /\ timer' = [u \in Threads |-> timer[u] /\ u \notin woken]

Returns(s, v) == ret' = [ret EXCEPT ![s] = v]

Full == IF kind = "mailbox" THEN entry = Size ELSE free = <<>>

Rest(list) == IF list = <<>> THEN <<>> ELSE Tail(list)

(* Mutation: a receiver is woken only by a message into an empty queue. *)
WakeReceiverFromEmpty(t, to) ==
    /\ Step(t, to, IF entry = 0 THEN First(rlist) ELSE {})
    /\ rlist' = IF entry = 0 THEN Rest(rlist) ELSE rlist
    /\ UNCHANGED slist

(* "resume suspended thread": one receiver for each message *)
WakeReceiver(t, to) ==
    /\ Step(t, to, First(rlist))
    /\ rlist' = Rest(rlist)
    /\ UNCHANGED slist

(* Mutation: a sender is woken only by the first room. *)
WakeSenderFromFull(t, to) ==
    /\ Step(t, to, IF Full THEN First(slist) ELSE {})
    /\ slist' = IF Full THEN Rest(slist) ELSE slist
    /\ UNCHANGED rlist

(* One sender for each place that becomes free *)
WakeSender(t, to) ==
    /\ Step(t, to, First(slist))
    /\ slist' = Rest(slist)
    /\ UNCHANGED rlist

(* A call enters the loop, or a resumed thread looks again with what is    *)
(* left of its timeout, perhaps nothing.                                   *)
Enter(t, left) ==
    \/ pc[t] = "idle" /\ left \in Timeouts
    \/ pc[t] = "back" /\ left = tmo[t]
    \/ pc[t] = "back" /\ tmo[t] = "ticks" /\ left = "none"

EnterSend(s, left, m) ==
    /\ Enter(s, left)
    /\ IF pc[s] = "idle" THEN m \in Msgs ELSE m = msg[s]

(* The body of both loops: suspend, start the timer, schedule *)
Wait(t, left) ==
    /\ left # "none"
    /\ tmo' = [tmo EXCEPT ![t] = left]
    /\ pc' = [pc EXCEPT ![t] = "wait"]
    /\ timer' = [timer EXCEPT ![t] = (left = "ticks")]

(* ... or, with no time left, -RT_EFULL or -RT_ETIMEOUT *)
GiveUp(t, left) ==
    /\ left = "none"
    /\ pc' = [pc EXCEPT ![t] = "idle"]
    /\ tmo' = [tmo EXCEPT ![t] = "none"]
    /\ UNCHANGED timer

SendWait(s, left, m) ==
    /\ EnterSend(s, left, m)
    /\ Full
    /\ \/ /\ Wait(s, left)
          /\ slist' = Append(slist, s)
          /\ msg' = [msg EXCEPT ![s] = m]
          /\ Returns(s, "none")
       \/ /\ GiveUp(s, left)
          /\ msg' = [msg EXCEPT ![s] = NoMsg]
          /\ Returns(s, "error")
          /\ UNCHANGED slist
    /\ UNCHANGED <<kind, storage, rlist, urgent, hand>>

(* rt_mb_urgent and rt_mq_urgent never wait: -RT_EFULL *)
UrgentFull(s) ==
    /\ pc[s] = "idle"
    /\ Full
    /\ Returns(s, "error")
    /\ UNCHANGED <<kind, storage, rlist, slist, pc, timer, tmo, msg, urgent, hand>>

-----------------------------------------------------------------------------
(* The mailbox *)

(* Mutation: the offset wraps one word too late. *)
NextOffLate(i) == IF i + 1 > Size THEN 0 ELSE i + 1

(* ++ offset; if (offset >= size) offset = 0 *)
NextOff(i) == IF i + 1 >= Size THEN 0 ELSE i + 1

(* rt_mb_send_wait with room *)
MbSend(s, left, m) ==
    /\ kind = "mailbox"
    /\ EnterSend(s, left, m)
    /\ ~Full
    /\ pool' = [pool EXCEPT ![inOff] = m]
    /\ inOff' = NextOff(inOff)
    /\ entry' = entry + 1
    /\ WakeReceiver(s, "idle")
    /\ tmo' = [tmo EXCEPT ![s] = "none"]
    /\ msg' = [msg EXCEPT ![s] = NoMsg]
    /\ Returns(s, "ok")
    /\ UNCHANGED <<kind, outOff, queue, free, urgent, hand>>

(* Mutation: the message is stored before the offset is rewound. *)
MbUrgentNoRewind(s, m) ==
    /\ kind = "mailbox"
    /\ pc[s] = "idle"
    /\ ~Full
    /\ pool' = [pool EXCEPT ![outOff] = m]
    /\ outOff' = IF outOff > 0 THEN outOff - 1 ELSE Size - 1
    /\ entry' = entry + 1
    /\ WakeReceiver(s, "idle")
    /\ Returns(s, "ok")
    /\ UNCHANGED <<kind, inOff, queue, free, tmo, msg, urgent, hand>>

(* rt_mb_urgent: in front of the message to be received next; it never waits *)
MbUrgent(s, m) ==
    /\ kind = "mailbox"
    /\ pc[s] = "idle"
    /\ ~Full
    /\ outOff' = IF outOff > 0 THEN outOff - 1 ELSE Size - 1
    /\ pool' = [pool EXCEPT ![outOff'] = m]
    /\ entry' = entry + 1
    /\ WakeReceiver(s, "idle")
    /\ Returns(s, "ok")
    /\ UNCHANGED <<kind, inOff, queue, free, tmo, msg, urgent, hand>>

(* rt_mb_recv of a message *)
MbRecv(r, left) ==
    /\ kind = "mailbox"
    /\ Enter(r, left)
    /\ entry > 0
    /\ msg' = [msg EXCEPT ![r] = pool[outOff]]
    /\ outOff' = NextOff(outOff)
    /\ entry' = entry - 1
    /\ WakeSender(r, "idle")
    /\ tmo' = [tmo EXCEPT ![r] = "none"]
    /\ UNCHANGED <<kind, pool, inOff, queue, free, urgent, hand, ret>>

-----------------------------------------------------------------------------
(* The message queue *)

(* The first free cell, to be filled by s *)
TakeCell(s, m) ==
    /\ kind = "mq"
    /\ ~Full
    /\ hand' = [hand EXCEPT ![s] = Head(free)]
    /\ free' = Tail(free)
    /\ msg' = [msg EXCEPT ![s] = m]
    /\ pc' = [pc EXCEPT ![s] = "copy"]
    /\ tmo' = [tmo EXCEPT ![s] = "none"]
    /\ Returns(s, "none")
    /\ UNCHANGED <<kind, pool, inOff, outOff, queue, entry, rlist, slist, timer>>

(* rt_mq_send_wait, up to the copy *)
MqSend(s, left, m) ==
    EnterSend(s, left, m) /\ TakeCell(s, m) /\ UNCHANGED urgent

(* rt_mq_urgent, up to the copy; it never waits *)
MqUrgent(s, m) ==
    pc[s] = "idle" /\ TakeCell(s, m) /\ urgent' = urgent \cup {s}

(* rt_memcpy(msg + 1, buffer, size) *)
MqCopyIn(s) ==
    /\ s \in Senders /\ pc[s] = "copy"
    /\ pool' = [pool EXCEPT ![hand[s]] = msg[s]]
    /\ pc' = [pc EXCEPT ![s] = "link"]
    /\ UNCHANGED <<kind, inOff, outOff, queue, free, entry, rlist, slist, timer, tmo, local>>

(* The second locked region of rt_mq_send_wait and rt_mq_urgent *)
MqLink(s) ==
    /\ pc[s] = "link"
    /\ queue' = IF s \in urgent THEN <<hand[s]>> \o queue ELSE Append(queue, hand[s])
    /\ entry' = entry + 1
    /\ WakeReceiver(s, "idle")
    /\ hand' = [hand EXCEPT ![s] = NoCell]
    /\ msg' = [msg EXCEPT ![s] = NoMsg]
    /\ urgent' = urgent \ {s}
    /\ Returns(s, "ok")
    /\ UNCHANGED <<kind, pool, inOff, outOff, free, tmo>>

(* Mutation: the cell goes back to the free list before it is copied. *)
MqRecvFreesFirst(r, left) ==
    /\ kind = "mq"
    /\ Enter(r, left)
    /\ entry > 0
    /\ hand' = [hand EXCEPT ![r] = Head(queue)]
    /\ queue' = Tail(queue)
    /\ free' = <<Head(queue)>> \o free
    /\ entry' = entry - 1
    /\ pc' = [pc EXCEPT ![r] = "copy"]
    /\ tmo' = [tmo EXCEPT ![r] = "none"]
    /\ UNCHANGED <<kind, pool, inOff, outOff, rlist, slist, timer, msg, urgent, ret>>

(* rt_mq_recv of a message, up to the copy *)
MqRecv(r, left) ==
    /\ kind = "mq"
    /\ Enter(r, left)
    /\ entry > 0
    /\ hand' = [hand EXCEPT ![r] = Head(queue)]
    /\ queue' = Tail(queue)
    /\ entry' = entry - 1
    /\ pc' = [pc EXCEPT ![r] = "copy"]
    /\ tmo' = [tmo EXCEPT ![r] = "none"]
    /\ UNCHANGED <<kind, pool, inOff, outOff, free, rlist, slist, timer, msg, urgent, ret>>

(* rt_memcpy(buffer, msg + 1, size) *)
MqCopyOut(r) ==
    /\ r \in Receivers /\ pc[r] = "copy"
    /\ msg' = [msg EXCEPT ![r] = pool[hand[r]]]
    /\ pc' = [pc EXCEPT ![r] = "free"]
    /\ UNCHANGED <<kind, storage, rlist, slist, timer, tmo, urgent, hand, ret>>

(* The second locked region of rt_mq_recv *)
MqFree(r) ==
    /\ pc[r] = "free"
    /\ free' = <<hand[r]>> \o free
    /\ hand' = [hand EXCEPT ![r] = NoCell]
    /\ WakeSender(r, "idle")
    /\ UNCHANGED <<kind, pool, inOff, outOff, queue, entry, tmo, msg, urgent, ret>>

-----------------------------------------------------------------------------
(* An empty mailbox or queue: the loop of rt_mb_recv and rt_mq_recv *)
RecvWait(r, left) ==
    /\ Enter(r, left)
    /\ entry = 0
    /\ \/ Wait(r, left) /\ rlist' = Append(rlist, r)
       \/ GiveUp(r, left) /\ UNCHANGED rlist
    /\ UNCHANGED <<kind, storage, slist, local>>

(* Mutation: a thread that timed out stays listed. *)
TimeoutStaysListed(t) ==
    /\ timer[t]
    /\ timer' = [timer EXCEPT ![t] = FALSE]
    /\ pc' = [pc EXCEPT ![t] = "failed"]
    /\ UNCHANGED <<kind, storage, rlist, slist, tmo, local>>

(* _thread_timeout *)
Timeout(t) ==
    /\ timer[t]
    /\ timer' = [timer EXCEPT ![t] = FALSE]
    /\ pc' = [pc EXCEPT ![t] = "failed"]
    /\ rlist' = ListRemove(rlist, t)
    /\ slist' = ListRemove(slist, t)
    /\ UNCHANGED <<kind, storage, tmo, local>>

(* Back from rt_schedule with an error, which is returned *)
Fail(t) ==
    /\ pc[t] = "failed"
    /\ pc' = [pc EXCEPT ![t] = "idle"]
    /\ tmo' = [tmo EXCEPT ![t] = "none"]
    /\ IF t \in Senders THEN msg' = [msg EXCEPT ![t] = NoMsg] /\ Returns(t, "error")
       ELSE UNCHANGED <<msg, ret>>
    /\ UNCHANGED <<kind, storage, rlist, slist, timer, urgent, hand>>

(* rt_mb_control, rt_mq_control: everyone who waits fails, every message    *)
(* in the queue is dropped; cells in a thread's hand stay there             *)
Reset ==
    /\ LET woken == ToSet(rlist) \cup ToSet(slist) IN
       /\ pc' = [t \in Threads |-> IF t \in woken THEN "failed" ELSE pc[t]]
       /\ timer' = [t \in Threads |-> timer[t] /\ t \notin woken]
    /\ rlist' = <<>> /\ slist' = <<>>
    /\ entry' = 0
    /\ inOff' = 0 /\ outOff' = 0
    /\ free' = Reverse(queue) \o free
    /\ queue' = <<>>
    /\ UNCHANGED <<kind, pool, tmo, local>>

Next ==
    \/ \E s \in Senders, m \in Msgs, left \in {"none", "ticks", "forever"} :
          MbSend(s, left, m) \/ MqSend(s, left, m) \/ SendWait(s, left, m)
    \/ \E s \in Senders, m \in Msgs : MbUrgent(s, m) \/ MqUrgent(s, m)
    \/ \E s \in Senders : UrgentFull(s)
    \/ \E r \in Receivers, left \in {"none", "ticks", "forever"} :
          MbRecv(r, left) \/ MqRecv(r, left) \/ RecvWait(r, left)
    \/ \E t \in Threads :
          \/ MqCopyIn(t) \/ MqLink(t) \/ MqCopyOut(t) \/ MqFree(t)
          \/ Timeout(t) \/ Fail(t)
    \/ Reset

Spec == Init /\ [][Next]_vars

-----------------------------------------------------------------------------
TypeOK ==
    /\ kind \in Kinds
    /\ pool \in [Cells -> Msgs \cup {NoMsg}]
    /\ inOff \in Cells /\ outOff \in Cells
    /\ queue \in Seq(Cells) /\ free \in Seq(Cells)
    /\ entry \in 0 .. Size
    /\ rlist \in Seq(Receivers) /\ slist \in Seq(Senders)
    /\ pc \in [Threads -> {"idle", "wait", "back", "failed", "copy", "link", "free"}]
    /\ timer \in [Threads -> BOOLEAN]
    /\ tmo \in [Threads -> {"none", "ticks", "forever"}]
    /\ msg \in [Threads -> Msgs \cup {NoMsg}]
    /\ urgent \subseteq Senders
    /\ hand \in [Threads -> Cells \cup {NoCell}]
    /\ ret \in [Senders -> Results]

(* The two lists hold exactly the suspended receivers and senders, each    *)
(* once: a message or a place is never announced to a thread that has      *)
(* given up, and nobody is suspended where no one would look for it.       *)
WaitersListed ==
    /\ \A t \in Threads :
          t \in ToSet(rlist) \cup ToSet(slist) <=> pc[t] = "wait"
    /\ \A i, j \in DOMAIN rlist : rlist[i] = rlist[j] => i = j
    /\ \A i, j \in DOMAIN slist : slist[i] = slist[j] => i = j

Resumed(T) == {t \in T : pc[t] = "back"}

(* No receiver is forgotten: while one is suspended, every message in the  *)
(* queue has a resumed receiver on its way to it, also when messages come  *)
(* faster than receivers run and when others take what they were woken for. *)
NoForgottenReceiver == rlist # <<>> => entry <= Cardinality(Resumed(Receivers))

(* The same for senders and room; cells that are being copied are no room. *)
Room == IF kind = "mailbox" THEN Size - entry ELSE Len(free)
NoForgottenSender == slist # <<>> => Room <= Cardinality(Resumed(Senders))

(* Who holds a cell outside the lists *)
Held == {t \in Threads : hand[t] # NoCell}

(* Every cell is in exactly one place: free, in the queue, or in the hand  *)
(* of one thread; and entry, which rt_mq_recv tests before it follows      *)
(* msg_queue_head, counts the linked ones.                                 *)
CellsConserved ==
    kind = "mq" =>
        /\ entry = Len(queue)
        /\ Len(queue) + Len(free) + Cardinality(Held) = Size
        /\ ToSet(queue) \cup ToSet(free) \cup {hand[t] : t \in Held} = Cells

(* Both are bounded queues: a call that returns RT_EOK has put its message *)
(* into the queue once, one that returns an error has not, and fails only  *)
(* for want of room or when its waiting was ended; what is sent is         *)
(* received once, unchanged, in order, urgent messages first.  For the mq  *)
(* a message is what its cell contains, from the moment it is linked until *)
(* it has been copied out.                                                 *)
Abstract == INSTANCE BoundedQueue WITH
    q <- IF kind = "mailbox"
         THEN [i \in 1 .. entry |-> pool[(outOff + i - 1) % Size]]
         ELSE [i \in 1 .. Len(queue) |-> pool[queue[i]]],
    offer <- [s \in Senders |-> [msg |-> msg[s], urgent |-> s \in urgent]],
    got <- [r \in Receivers |-> IF pc[r] = "copy" THEN pool[hand[r]] ELSE msg[r]],
    room <- Room,
    out <- Held,
    refused <- {s \in Senders : pc[s] = "failed"}
IsBoundedQueue == Abstract!Spec
=============================================================================
