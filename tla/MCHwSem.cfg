\* Two threads of the A35, one of them bound to its core, and one of the M4.
CONSTANTS
    A35 = {bound, roaming}
    M4 = {rtp}
    Bound = bound
    Affinity <- BoundAndRoaming
    HoldMod = 4
    MaxDepth = 2
    None = None
SPECIFICATION FairSpec
INVARIANTS TypeOK Exclusive BoundCanRelease NoOrphan
PROPERTIES FreeIsTaken
CHECK_DEADLOCK FALSE
