SPECIFICATION WindowSpec
CONSTANTS
    Terminals = {t1, t2}
    Starts = {s1, s2, s3}
    None = None
SYMMETRY Interchangeable
CHECK_DEADLOCK FALSE
INVARIANTS
    NoOrphans
    NothingUnderLock
    SlotIsOpen
    CountSoonRight
    HubServesRunning
