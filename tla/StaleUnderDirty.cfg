SPECIFICATION Spec
CONSTANTS
    Handles = {h1, h2}
    Tables = {a}
    Ids = {i1}
    Keys = {k1, k2}
    None = None
    Dirty = Dirty
    NoRow = NoRow
    Operations = {"write"}
    Tears = {}
    FaultKinds = {}
    MaxTx = 3
    MaxBatch = 1
    MaxFaults = 0
SYMMETRY Symmetry
INVARIANTS
    CachesCurrent
