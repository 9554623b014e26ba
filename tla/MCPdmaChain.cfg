\* Transfers of one to three descriptors, in any sequence, on one channel.
CONSTANTS
    NumChannels = 1
    MaxTxCnt = 3
    Counts = {0, 1, 3, 4, 5, 7}
    Widths = {1, 2}
    Addrs = {0, 1, 16}
    Kinds = {"MEM", "RX"}
    MallocFails = TRUE
    LiveBound = 6
SPECIFICATION Spec
CONSTRAINT BoundedHeap
INVARIANTS TypeOK MovesExactly BusyIsAwaited
PROPERTIES TransfersLeakNothing
CHECK_DEADLOCK FALSE
