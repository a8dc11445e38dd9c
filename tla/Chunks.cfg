SPECIFICATION Spec
CONSTANTS
  h1 = h1
  h2 = h2
  Handles = {h1, h2}
  Ids = {1, 2}
  Rows = {2}
  None = None
  Dirty = Dirty
  Base = 2
  Width = 2
  Preamble = 1
  Capacity = 4
  Operations = {"init", "compact"}
  MaxBatch = 2
  MaxTx = 3
  MaxFaults = 1
CONSTRAINT UpToLapse
SYMMETRY HandleSymmetry
INVARIANTS
  TransactionsInReadOrder
  PointersReadLiveRows
PROPERTIES
  LinesOnlyAppended
  NoOldRowReturns
