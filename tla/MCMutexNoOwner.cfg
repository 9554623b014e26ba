\* The owner releases between a timeout and the waiter's next step.
CONSTANTS
    high = high
    middle = middle
    low = low
    a = a
    b = b
    Threads = {high, middle, low}
    Mutexes = {a, b}
    InitPrio <- ThreeLevels
    NoPrio = 4
    HoldMax = 2
    Setups <- TimedOnly
    NoThread = NoThread
    NoMutex = NoMutex
SPECIFICATION Spec
INVARIANTS OwnerWhenWaitFails
CHECK_DEADLOCK FALSE
