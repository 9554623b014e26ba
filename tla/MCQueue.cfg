\* A mailbox and a message queue for two messages.
CONSTANTS
    Senders = {s1, s2}
    Receivers = {r1, r2}
    Msgs = {m1, m2}
    Size = 2
    Kinds = {"mailbox", "mq"}
    Timeouts = {"none", "ticks", "forever"}
    NoMsg = NoMsg
    NoCell = NoCell
SPECIFICATION Spec
SYMMETRY Symmetry
INVARIANTS TypeOK WaitersListed NoForgottenReceiver NoForgottenSender CellsConserved
PROPERTIES IsBoundedQueue
