SPECIFICATION Spec
CONSTANTS
    CallIds = {c1, c2}
    Ids = {1, 2}
    Keys = {k1, k2}
    NoRow = NoRow
    MaxBatch = 2
    Tables = {tbl}
    Tags = {g1}
    MaxLimit = 2
    DefaultLimit = 1
    MaxUsize = 3
    None = None
    BadCursor = BadCursor
    Alien = Alien
    Huge = Huge
    tbl = tbl
    k1 = k1
    k2 = k2
    g1 = g1
    v1 = v1
    v2 = v2
    odd = odd
    bad = bad
    Versions = {v1, v2, odd, bad}
    Declared <- MCDeclared
    BadNames = {}
    Requests <- MCRequests
INVARIANTS
    AnswerTellsEffect
    EffectsInRealTime
    RowsFitTheirTable
    RetriedAddOnce
PROPERTIES
    CallsEnd
CHECK_DEADLOCK FALSE
