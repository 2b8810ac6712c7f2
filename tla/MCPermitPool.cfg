SPECIFICATION FairSpec
CONSTANTS
    Tasks = {t1, t2, t3, t4, t5}
    Cancellable = {t1, t2}
    Dead = Dead
    MaxPermits = 3
    Requests = {0, 2, 5}
    MaxAbandoned = 2
INVARIANTS
    NoLostWakeup
PROPERTIES
    ImplementsSemaphore
    WaitersServed
