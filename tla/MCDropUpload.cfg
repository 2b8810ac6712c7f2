SPECIFICATION FairSpec
CONSTANTS
    f1 = f1
    f2 = f2
    b1 = b1
    Files = {f1, f2}
    Drops = {b1}
    Plan <- OneDrop
    Chunks <- OneChunk
    Unsized = {f2}
    MaxSuffix = 1
    Taken = {0}
    Foreign = Foreign
    Absent = Absent
    MaxPermits = 2
    Requests = {1, 2}
CHECK_DEADLOCK FALSE
INVARIANTS
    UploadsKept
    RowsMatchWorkers
    LastWordTrue
PROPERTIES
    DropsEnd
