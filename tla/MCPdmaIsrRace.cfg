\* A peripheral channel with an idle timeout on the same module.
CONSTANTS
    Threads = {t1, t2}
    NumActors = 1
    Periph = {7}
    IdleTimed = {7}
    Aborts = FALSE
    Counts = {1}
    MaxTxCnt = 2
    NoThread = NoThread
    TokenBound = 3
SPECIFICATION Spec
CONSTRAINT BoundedTokens
INVARIANTS WaitItDone
