SPECIFICATION Spec
CONSTANTS
    Characters <- MCCharacters
    Ids <- MCIds
    Values <- MCValues
    MaxBatch = 2
    MaxTx = 2
    MaxNumber = 50
    NumberByte <- MCNumberByte
INVARIANTS
    ScanIsWritten
    EntriesReadBack
    AcceptedIndexIsCurrent
    CuttingKeepsLines
CHECK_DEADLOCK FALSE
