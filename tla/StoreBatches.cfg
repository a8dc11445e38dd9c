SPECIFICATION Spec
CONSTANTS
    Handles = {h1, h2}
    Tables = {a}
    Ids = {i1, i2}
    Keys = {k1, k2}
    None = None
    Dirty = Dirty
    NoRow = NoRow
    Operations = {"write", "init"}
    Tears = {"line", "prefix", "header"}
    FaultKinds = {"crash", "write", "save"}
    MaxTx = 2
    MaxBatch = 2
    MaxFaults = 1
SYMMETRY Symmetry
INVARIANTS
    TypeOK
    UniqueUnlessPartial
    AppendsAtCompleteTail
    MetadataBehindChunks
PROPERTIES
    RefinesTableDb
