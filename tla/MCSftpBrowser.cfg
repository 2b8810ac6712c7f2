SPECIFICATION Spec
CONSTANTS
    d = d
    f = f
    Names <- SmallNames
    Paths <- SmallPaths
    DirNames = {d}
    Others <- FileInside
    None = None
    MaxUnderWay = 2
CHECK_DEADLOCK FALSE
INVARIANTS
    RowsInStep
    ListingsCurrent
    ChangesFollowedUp
