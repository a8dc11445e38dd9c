SPECIFICATION Spec
CONSTANTS
    Handles = {h1, h2}
    Tables = {a, b}
    Ids = {i1}
    Keys = {k1}
    None = None
    Dirty = Dirty
    NoRow = NoRow
    Operations = {"write", "rebuild"}
    Tears = {"line"}
    FaultKinds = {"crash"}
    MaxTx = 2
    MaxBatch = 1
    MaxFaults = 2
SYMMETRY Symmetry
INVARIANTS
    CleanCachesCurrent
    WriterSeesDisk
    RevisionNamesLog
    TxUnique
    CleanMeansNoTornTail
