\* An owner waits for a second mutex.
CONSTANTS
    high = high
    middle = middle
    low = low
    a = a
    b = b
    Threads = {high, middle, low}
    Mutexes = {a, b}
    InitPrio <- ThreeLevels
    NoPrio = 4
    HoldMax = 2
    Setups <- NestedOnly
    NoThread = NoThread
    NoMutex = NoMutex
SPECIFICATION Spec
INVARIANTS SuspendsOnlyItself
CHECK_DEADLOCK FALSE
