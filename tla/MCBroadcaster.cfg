\* Two callers and two listeners; three broadcasts, so that a listener can
\* fall two generations behind while asleep, woken or outside Wait.
CONSTANTS
    Callers = {c1, c2}
    Listeners = {l1, l2}
    Values = {v1, v2}
    NoValue = NoValue
    Free = Free
    MaxGeneration = 3
SPECIFICATION FairSpec
INVARIANTS TypeOK NoInconsistentState NoLostWakeup
PROPERTIES RegisterSpec WaitReturns
