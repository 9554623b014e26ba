\* A long transfer whose count is a multiple of NU_PDMA_MAX_TXCNT.
CONSTANTS
    NumChannels = 1
    MaxTxCnt = 3
    Counts = {5, 6}
    Widths = {1, 2}
    Addrs = {0, 1, 16}
    Kinds = {"MEM", "RX"}
    MallocFails = TRUE
    LiveBound = 6
SPECIFICATION Spec
CONSTRAINT BoundedHeap
INVARIANTS MovesExactly
CHECK_DEADLOCK FALSE
