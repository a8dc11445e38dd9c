SPECIFICATION Spec
CONSTANTS
    Ids = {1, 2, 3}
    Keys = {k1, k2, k3}
    NoRow = NoRow
    MaxBatch = 2
    Tables = {tbl}
    Tags = {g1, g2}
    MaxLimit = 2
    DefaultLimit = 1
    MaxUsize = 3
    None = None
    BadCursor = BadCursor
    NoTable = NoTable
    tbl = tbl
    k1 = k1
    k2 = k2
    g1 = g1
    g2 = g2
    Calls <- MCCalls
    ManyCalls <- MCManyCalls
    Readings <- MCReadings
INVARIANTS
    KeysUnique
    PagesSkipNothing
    PagesRepeatNothing
    BatchIsItsChanges
PROPERTIES
    ReadingEnds
