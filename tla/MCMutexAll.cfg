\* Flat use with every disturbance, and chains of owners.
CONSTANTS
    high = high
    middle = middle
    low = low
    a = a
    b = b
    Threads = {high, middle, low}
    Mutexes = {a, b}
    InitPrio <- ThreeLevels
    NoPrio = 4
    HoldMax = 2
    Setups <- FlatOrChain
    NoThread = NoThread
    NoMutex = NoMutex
SPECIFICATION Spec
INVARIANTS TypeOK WaitersListed NoInversion HandedToMostUrgent ExactInheritance
CHECK_DEADLOCK FALSE
