SPECIFICATION Spec
CONSTANTS
  Ids = {1, 2}
  Fields = {"slug", "color"}
  UniqueFields = {"slug"}
  a = a
  b = b
  Vals = {a, b}
  None = None
  MaxBatch = 2
  MaxLines = 4
SYMMETRY KeySymmetry
INVARIANTS
  RuntimeIsRebuilt
  WorkingIsRebuilt
  AcceptsOnlyValid
  LookupsAnswerLines
PROPERTIES
  RefusesOnlyInvalid
CHECK_DEADLOCK FALSE
