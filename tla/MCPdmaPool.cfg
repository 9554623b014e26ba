\* Two callers, two actors, a peripheral channel that also times out.
CONSTANTS
    Threads = {t1, t2}
    NumActors = 2
    Periph = {7}
    IdleTimed = {7}
    Aborts = FALSE
    Counts = {1}
    MaxTxCnt = 2
    NoThread = NoThread
    TokenBound = 1
SPECIFICATION Spec
SYMMETRY Symmetry
CONSTRAINT BoundedTokens
INVARIANTS ActorExclusive
CHECK_DEADLOCK FALSE
