\* One contended actor, aborts, and requests nu_pdma_transfer refuses.
CONSTANTS
    Threads = {t1, t2}
    NumActors = 1
    Periph = {}
    IdleTimed = {}
    Aborts = TRUE
    Counts = {0, 2, 3, 4}
    MaxTxCnt = 2
    NoThread = NoThread
    TokenBound = 3
SPECIFICATION FairSpec
INVARIANTS TypeOK EmployFindsActor WaitItDone TruthfulCount
PROPERTIES MemfunReturns
CHECK_DEADLOCK FALSE
