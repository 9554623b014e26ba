\* Every operation: takes, timeouts, releases, resets, priority changes, detach.
CONSTANTS
    Threads = {t1, t2, t3}
    Prios = {1, 2}
    Flags = {"FIFO", "PRIO"}
    ValueMax = 2
    Timeouts = {"ticks", "forever"}
    Resets = {0, 1}
    MayChangePrio = TRUE
    MayDetach = TRUE
SPECIFICATION FairSpec
INVARIANTS TypeOK ListIsWaiters TimerOnlyWhileSuspended NoWaitWithToken QueueInPrioOrder
PROPERTIES IsCountingSem TakeReturns
CHECK_DEADLOCK FALSE
