------------------------------- MODULE TableRows -------------------------------
(***************************************************************************)
(* What a sequence of `.6` lines means and when a write batch is valid:    *)
(* scan_table_files (store.rs) and the checks of append_batch_inner        *)
(* (store/append.rs).  A row is its id and the key of its unique lookup.   *)
(***************************************************************************)
EXTENDS Integers, Sequences

CONSTANTS
    Ids,        \* row ids
    Keys,       \* values of the unique lookup field
    NoRow,      \* the "key" of a row that does not exist, and of a delete
    MaxBatch    \* bound: operations per write batch

ASSUME NoRowAssumption == NoRow \notin Keys

RowSet  == [Ids -> Keys \cup {NoRow}]
Change  == [id : Ids, key : Keys \cup {NoRow}]
Line    == [tx : Nat \ {0}, id : Ids, key : Keys \cup {NoRow}]
Batches == UNION {[1..n -> Change] : n \in 1..MaxBatch}

EmptyRows == [id \in Ids |-> NoRow]

\* The last position of id in a sequence of lines or changes, as a set.
LastAt(s, id) ==
    {i \in DOMAIN s : s[i].id = id /\ \A j \in DOMAIN s : s[j].id = id => j <= i}

\* The rows after the lines s: a later put replaces, a delete removes.
Replay(old, s) ==
    [id \in Ids |-> IF LastAt(s, id) = {} THEN old[id]
                    ELSE s[CHOOSE i \in LastAt(s, id) : TRUE].key]

Rows(s) == Replay(EmptyRows, s)

\* validate_unique_lookups: no two live rows share a key.
UniqueKeys(r) == \A i, j \in Ids : i # j /\ r[i] # NoRow => r[i] # r[j]

\* Mutant of ValidBatch: two puts of one batch may share a key.
ValidAgainstRows(r, b, only) ==
    /\ \A i, j \in DOMAIN b : i # j => b[i].id # b[j].id
    /\ only => \A i \in DOMAIN b : r[b[i].id] = NoRow
    /\ \A i \in DOMAIN b : b[i].key # NoRow =>
         \A id \in Ids : r[id] = b[i].key => \E j \in DOMAIN b : b[j].id = id

\* The checks of append_batch_inner against the rows r: no id twice, an insert
\* meets no row, a put's key is neither that of a row the batch leaves alone
\* nor that of another put.
ValidBatch(r, b, only) ==
    /\ \A i, j \in DOMAIN b : i # j => b[i].id # b[j].id
    /\ only => \A i \in DOMAIN b : r[b[i].id] = NoRow
    /\ \A i \in DOMAIN b : b[i].key # NoRow =>
         /\ \A id \in Ids : r[id] = b[i].key => \E j \in DOMAIN b : b[j].id = id
         /\ \A j \in DOMAIN b : j # i => b[j].key # b[i].key

\* Transaction ids are handed out one per operation.
Stamped(b, tx0) ==
    [i \in 1..Len(b) |-> [tx |-> tx0 + i - 1, id |-> b[i].id, key |-> b[i].key]]

Prefix(s, n) == [i \in 1..n |-> s[i]]
===============================================================================
