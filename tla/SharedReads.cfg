SPECIFICATION Spec
CONSTANTS
    Ids = {1, 2}
    Keys = {k1, k2}
    NoRow = NoRow
    MaxBatch = 1
    t1 = t1
    t2 = t2
    k1 = k1
    k2 = k2
    Threads = {t1, t2}
    Calls <- MCCalls
    None = None
    MaxRevision = 3
SYMMETRY Symmetry
INVARIANTS
    RefreshedCachesCurrent
    AnswersAreCommitted
    ScansAreExact
