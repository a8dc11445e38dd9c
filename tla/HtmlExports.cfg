SPECIFICATION Spec
CONSTANTS
  a = a
  b = b
  r = r
  e1 = e1
  e2 = e2
  TableOrder <- MCTableOrder
  Ids = {r}
  Exporters = {e1, e2}
  ChunkLines = 1
  MaxBatch = 2
  MaxTx = 2
  MaxStops = 1
  MaxExports = 2
  None = None
  Partial = Partial
  Dirty = Dirty
SYMMETRY Symmetry
INVARIANTS
  PageIsRecent
  RevisionCoversPage
CHECK_DEADLOCK FALSE
