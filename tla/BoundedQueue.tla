--------------------------- MODULE BoundedQueue ---------------------------
(***************************************************************************)
(* What a mailbox or a message queue promises.  A message enters the queue *)
(* exactly when its sending succeeds: once, at the end or, when urgent, in *)
(* front.  A sending fails only when there is no room or the waiting call  *)
(* was refused, by its timeout or a reset.  A receiver gets the first      *)
(* message, unchanged, and nobody else gets it; nothing else but a reset   *)
(* takes messages away.                                                    *)
(***************************************************************************)
EXTENDS Integers, Sequences

CONSTANTS Senders, Receivers, Msgs, Size, NoMsg
VARIABLES
    q,       \* the messages in the queue
    offer,   \* per sender: the message of a call not finished, and is it urgent
    got,     \* per receiver: the last message received
    room,    \* the places that are free
    out,     \* who holds one of the places outside the queue, to copy
    refused, \* senders whose waiting is over without room
    ret      \* per sender: the result of the last call, "none" while it runs

vars == <<q, offer, got, room, out, refused, ret>>

Offers == [msg : Msgs, urgent : BOOLEAN]
NoOffer == [msg |-> NoMsg, urgent |-> FALSE]

Init ==
    /\ q = <<>>
    /\ offer = [s \in Senders |-> NoOffer]
    /\ got = [r \in Receivers |-> NoMsg]
    /\ room = Size /\ out = {} /\ refused = {}
    /\ ret = [s \in Senders |-> "none"]

Enter(o) == q' = IF o.urgent THEN <<o.msg>> \o q ELSE Append(q, o.msg)
Result(s, v) == ret' = [ret EXCEPT ![s] = v]

(* A call that ends at once *)
SendNow(s, o) ==
    /\ offer[s] = NoOffer
    /\ \/ room > 0 /\ room' = room - 1 /\ Enter(o) /\ Result(s, "ok")
       \/ room = 0 /\ UNCHANGED <<q, room>> /\ Result(s, "error")
    /\ UNCHANGED <<offer, got, out, refused>>

(* A call that goes on, with a place for its message or without *)
Offer(s, o) ==
    /\ offer[s] = NoOffer
    /\ offer' = [offer EXCEPT ![s] = o]
    /\ \/ room > 0 /\ room' = room - 1 /\ out' = out \cup {s}
       \/ room = 0 /\ UNCHANGED <<room, out>>
    /\ Result(s, "none")
    /\ UNCHANGED <<q, got, refused>>

Place(s) ==
    /\ offer[s] # NoOffer /\ s \notin out \cup refused
    /\ room > 0 /\ room' = room - 1
    /\ out' = out \cup {s}
    /\ UNCHANGED <<q, offer, got, refused, ret>>

Accept(s) ==
    /\ offer[s] # NoOffer /\ s \notin refused
    /\ \/ s \in out /\ out' = out \ {s} /\ UNCHANGED room
       \/ s \notin out /\ room > 0 /\ room' = room - 1 /\ UNCHANGED out
    /\ Enter(offer[s])
    /\ offer' = [offer EXCEPT ![s] = NoOffer]
    /\ Result(s, "ok")
    /\ UNCHANGED <<got, refused>>

(* The timeout of a call that waits *)
Refuse(s) ==
    /\ offer[s] # NoOffer /\ s \notin out
    /\ refused' = refused \cup {s}
    /\ UNCHANGED <<q, offer, got, room, out, ret>>

Fail(s) ==
    /\ offer[s] # NoOffer /\ s \notin out
    /\ s \in refused \/ room = 0
    /\ offer' = [offer EXCEPT ![s] = NoOffer]
    /\ refused' = refused \ {s}
    /\ Result(s, "error")
    /\ UNCHANGED <<q, got, room, out>>

(* The place of the message is free at once, or when it has been copied *)
Receive(r) ==
    /\ q # <<>> /\ r \notin out
    /\ got' = [got EXCEPT ![r] = Head(q)]
    /\ q' = Tail(q)
    /\ \/ room' = room + 1 /\ UNCHANGED out
       \/ out' = out \cup {r} /\ UNCHANGED room
    /\ UNCHANGED <<offer, refused, ret>>

Free(r) ==
    /\ r \in out
    /\ room' = room + 1 /\ out' = out \ {r}
    /\ UNCHANGED <<q, offer, got, refused, ret>>

(* The queue is emptied and calls that wait are refused *)
Reset ==
    /\ q' = <<>> /\ room' = room + Len(q)
    /\ \E S \in SUBSET {s \in Senders \ out : offer[s] # NoOffer} : refused' = refused \cup S
    /\ UNCHANGED <<offer, got, out, ret>>

Next == \/ \E s \in Senders : \/ \E o \in Offers : SendNow(s, o) \/ Offer(s, o)
                              \/ Place(s) \/ Accept(s) \/ Refuse(s) \/ Fail(s)
        \/ \E r \in Receivers : Receive(r) \/ Free(r)
        \/ Reset

Spec == Init /\ [][Next]_vars
=============================================================================
