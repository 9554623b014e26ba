\* Two soft timers, a hard one and the timer thread's own; ticks modulo 8.
CONSTANTS
    Soft = {once, beat}
    Hard = {hw}
    Self = self
    Periodic = {beat}
    Times = {1, 2}
    TickMod = 8
    LateMax = 2
    None = None
SPECIFICATION Spec
INVARIANTS TypeOK HardOnTime InOrder ActiveIsListed OwnTimerOnlyAsleep SleepsInTime
PROPERTIES NeverEarly
