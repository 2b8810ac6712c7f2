SPECIFICATION FairSpec
CONSTANTS
    f1 = f1
    f2 = f2
    b1 = b1
    Files = {f1, f2}
    Batches = {b1}
    Plan <- OnePlan
    Chunks <- MCChunks
    Unsized = {f2}
    MaxPermits = 2
    Requests = {1, 2}
CHECK_DEADLOCK FALSE
INVARIANTS
    RunningRowsListed
    ToastTruthful
PROPERTIES
    VerdictsFinal
    CancelStopsWrites
    BatchEnds
