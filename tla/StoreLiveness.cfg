SPECIFICATION RetrySpec
CONSTANTS
    Handles = {h1}
    Tables = {a, b}
    Ids = {i1}
    Keys = {k1}
    None = None
    Dirty = Dirty
    NoRow = NoRow
    Operations = {"write", "init"}
    Tears = {"line", "header"}
    FaultKinds = {"crash", "write", "save"}
    MaxTx = 2
    MaxBatch = 1
    MaxFaults = 2
PROPERTIES
    OperationsEnd
    TornTailHealed
