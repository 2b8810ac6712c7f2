SPECIFICATION DownloadSpec
CONSTANTS
    a = a
    b = b
    d = d
    Ids = {a, b, d}
    Download = d
    Length = 2
    Groups = {g, h}
    NoGroup = NoGroup
    Totals = {0, 1, 2, 3}
    Reported <- SmallReports
SYMMETRY Symmetry
CHECK_DEADLOCK FALSE
INVARIANTS
    IndexExact
    TotalsTrue
    RowTellsTruth
PROPERTIES
    DismissKeepsTotals
