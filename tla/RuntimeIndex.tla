----------------------------- MODULE RuntimeIndex -----------------------------
(***************************************************************************)
(* The generated index of one table in one handle: the maps of RuntimeSixb *)
(* (store/index.rs), built from the `.6` lines, loaded from the `.6b` file *)
(* or kept up to date operation by operation by append_batch_inner, and    *)
(* the row cache the incremental update relies on.                         *)
(*                                                                         *)
(* `lines` are the complete data lines of the table in read order; the     *)
(* position of a line stands for its row pointer.  A source hash stands    *)
(* for the lines hashed.  The implicit lookup on `id` is left out: it      *)
(* repeats rows_by_id.  Other handles append to the table too; that their  *)
(* commits drop the caches of this handle is what SixpackStore shows.      *)
(***************************************************************************)
EXTENDS Integers, Sequences

CONSTANTS
    Ids,            \* row ids, ordered
    Fields,         \* lookup fields
    UniqueFields,   \* the unique ones
    Vals,           \* lookup keys
    None,           \* an absent value; the row of a delete
    MaxBatch,       \* bound: operations per write batch
    MaxLines        \* bound: lines of the table

Row       == [Fields -> Vals]
Operation == [id : Ids, row : Row \cup {None}]
Batches   == UNION {[1..n -> Operation] : n \in 1..MaxBatch}
LookupKey == Fields \X Vals

\* Sets of ids are ordered: BTreeSet::first exists.
ASSUME IdAssumption ==
    /\ Ids \subseteq Nat
    /\ \A S \in SUBSET Ids : S # {} => \E m \in S : \A n \in S : m <= n

\* Every table has a lookup, if only the implicit one.
ASSUME FieldAssumption == UniqueFields \subseteq Fields /\ Fields # {}

ASSUME NoneAssumption ==
    /\ None \notin Row /\ None \notin Nat /\ None \notin Ids
    /\ \A S \in SUBSET LookupKey : None # S

ASSUME BoundAssumption == MaxBatch \in Nat /\ MaxLines \in Nat

VARIABLES
    lines,          \* the data lines of the table
    sixb,           \* the `.6b` file
    snapshot,       \* sixb_cache
    runtime,        \* runtime_sixb_cache
    records,        \* row_cache
    \* append_batch_inner
    phase,          \* which of its loops is running
    done,           \* operations that loop has handled
    batch,
    insertOnly,
    working,        \* cache: the index the batch is applied to
    validation,     \* validation_cache: the index without the rows of the batch
    claimed         \* batch_unique: keys of the puts checked so far, with their rows

caches == <<sixb, snapshot, runtime, records>>
append == <<phase, done, batch, insertOnly, working, validation, claimed>>
vars   == <<lines, caches, append>>

-------------------------------------------------------------------------------
(* The rows of a table and its index, rebuilt. *)

IsLast(s, id, i) == s[i].id = id /\ \A j \in i+1..Len(s) : s[j].id # id

\* scan_table_files: the last line of an id says whether it is live, and where.
Live(s) ==
    [id \in Ids |-> IF \E i \in DOMAIN s : IsLast(s, id, i)
                    THEN s[CHOOSE i \in DOMAIN s : IsLast(s, id, i)].row ELSE None]
Pointers(s) ==
    [id \in Ids |-> IF Live(s)[id] # None
                    THEN CHOOSE i \in DOMAIN s : IsLast(s, id, i) ELSE None]

KeysOf(row) == {<<f, row[f]>> : f \in Fields}

\* The SixbCache of rebuild_sixb_inner.
BuildCache(s) ==
    [source  |-> s,
     ptr     |-> Pointers(s),
     lookups |-> {e \in LookupKey \X Ids :
                    Live(s)[e[2]] # None /\ e[1] \in KeysOf(Live(s)[e[2]])}]

\* RuntimeSixb::from_cache and to_cache.
FromCache(c) ==
    [source |-> c.source,
     ptr    |-> c.ptr,
     ids    |-> [k \in LookupKey |-> {id \in Ids : <<k, id>> \in c.lookups}],
     keys   |-> [id \in Ids |->
                   IF \E k \in LookupKey : <<k, id>> \in c.lookups
                   THEN {k \in LookupKey : <<k, id>> \in c.lookups} ELSE None]]

ToCache(x) ==
    [source  |-> x.source,
     ptr     |-> x.ptr,
     lookups |-> {e \in LookupKey \X Ids : e[2] \in x.ids[e[1]]}]

IndexOf(s) == FromCache(BuildCache(s))

\* validate_unique_lookups
UniqueLookups(s) ==
    \A f \in UniqueFields : \A i, j \in Ids :
      /\ Live(s)[i] # None
      /\ Live(s)[j] # None
      /\ Live(s)[i][f] = Live(s)[j][f]
      => i = j

-------------------------------------------------------------------------------
(* The index, kept. *)

\* remove_lookup_keys
RemoveKeys(x, id, ks) ==
    [x EXCEPT !.ids = [k \in LookupKey |-> IF k \in ks THEN x.ids[k] \ {id} ELSE x.ids[k]],
              !.keys[id] = None]

\* remove_record_lookups: by the old record, else by the keys kept for the row,
\* else from every key.
RemoveLookups(x, id, old) ==
    RemoveKeys(x, id, IF old # None THEN KeysOf(old)
                      ELSE IF x.keys[id] # None THEN x.keys[id]
                      ELSE LookupKey)

\* insert_record_lookups
InsertLookups(x, id, row) ==
    [x EXCEPT !.ids = [k \in LookupKey |->
                         IF k \in KeysOf(row) THEN x.ids[k] \cup {id} ELSE x.ids[k]],
              !.keys[id] = KeysOf(row)]

\* Mutant of ApplyOperation: a put over a live row leaves its old keys behind.
ApplyAsInsert(x, op, p, old) ==
    IF op.row # None THEN InsertLookups([x EXCEPT !.ptr[op.id] = p], op.id, op.row)
    ELSE RemoveLookups([x EXCEPT !.ptr[op.id] = None], op.id, old)

\* apply_operation
ApplyOperation(x, op, p, old) ==
    IF op.row # None
    THEN LET y == IF x.ptr[op.id] # None THEN RemoveLookups(x, op.id, old) ELSE x
         IN  InsertLookups([y EXCEPT !.ptr[op.id] = p], op.id, op.row)
    ELSE RemoveLookups([x EXCEPT !.ptr[op.id] = None], op.id, old)

\* Mutant of WithoutRow: the keys of the row stay.
WithoutPointer(x, id) == [x EXCEPT !.ptr[id] = None]

\* remove_row_for_validation
WithoutRow(x, id) ==
    IF x.ptr[id] # None THEN RemoveLookups([x EXCEPT !.ptr[id] = None], id, None) ELSE x

\* first_lookup_id
FirstId(S) == CHOOSE m \in S : \A n \in S : m <= n

-------------------------------------------------------------------------------
(* Caches. *)

Invalidate ==
    /\ snapshot' = None
    /\ runtime' = None
    /\ records' = [id \in Ids |-> None]

\* rebuild_sixb_inner fails on rows that clash.
Rebuildable == UniqueLookups(lines)

Rebuilt ==
    [sixb |-> BuildCache(lines), snapshot |-> BuildCache(lines),
     runtime |-> IndexOf(lines), records |-> Live(lines)]

FileCurrent == sixb # None /\ sixb.source = lines

\* Mutant of Ensured: the source hash of the `.6b` file is not compared.
EnsuredFromAnyFile ==
    IF runtime # None
      THEN [sixb |-> sixb, snapshot |-> ToCache(runtime), runtime |-> runtime, records |-> records]
    ELSE IF snapshot # None
      THEN [sixb |-> sixb, snapshot |-> snapshot, runtime |-> runtime, records |-> records]
    ELSE IF sixb # None
      THEN [sixb |-> sixb, snapshot |-> sixb, runtime |-> runtime, records |-> records]
    ELSE Rebuilt

\* ensure_sixb_snapshot: from the runtime index, the snapshot cache, the `.6b`
\* file, or rebuilt.
Ensurable == runtime # None \/ snapshot # None \/ FileCurrent \/ Rebuildable

Ensured ==
    LET kept == [sixb |-> sixb, snapshot |-> snapshot, runtime |-> runtime, records |-> records]
    IN  IF runtime # None       THEN [kept EXCEPT !.snapshot = ToCache(runtime)]
        ELSE IF snapshot # None THEN kept
        ELSE IF FileCurrent     THEN [kept EXCEPT !.snapshot = sixb]
        ELSE Rebuilt

\* read_row_entry for the rows ids: the cached record, else the line pointed at,
\* which is then remembered.
Fetched(c, ids, ptr) ==
    [id \in Ids |-> IF id \in ids /\ c[id] = None THEN lines[ptr[id]].row ELSE c[id]]

-------------------------------------------------------------------------------
(* Reads, explicit rebuilds, other handles. *)

\* Reads that find the runtime index answer from it.
ReadRuntime(ids) ==
    /\ phase = "idle"
    /\ runtime # None
    /\ ids \subseteq {id \in Ids : runtime.ptr[id] # None}
    /\ records' = Fetched(records, ids, runtime.ptr)
    /\ UNCHANGED <<lines, sixb, snapshot, runtime, append>>

\* The others, and a read of an id the runtime index has not got, ask for a
\* snapshot.
ReadSnapshot(ids) ==
    /\ phase = "idle"
    /\ Ensurable
    /\ ids \subseteq {id \in Ids : Ensured.snapshot.ptr[id] # None}
    /\ runtime # None => ids = {}
    /\ sixb' = Ensured.sixb
    /\ snapshot' = Ensured.snapshot
    /\ runtime' = Ensured.runtime
    /\ records' = Fetched(Ensured.records, ids, Ensured.snapshot.ptr)
    /\ UNCHANGED <<lines, append>>

\* rebuild_sixb
Rebuild ==
    /\ phase = "idle"
    /\ Rebuildable
    /\ sixb' = Rebuilt.sixb
    /\ snapshot' = Rebuilt.snapshot
    /\ runtime' = Rebuilt.runtime
    /\ records' = Rebuilt.records
    /\ UNCHANGED <<lines, append>>

\* Another revision, or another schema.
DropCaches ==
    /\ phase = "idle"
    /\ Invalidate
    /\ UNCHANGED <<lines, sixb, append>>

\* get_by_lookup_inner: the rows whose id the index has under a key.
Served == IF runtime # None THEN [index |-> runtime, records |-> records]
          ELSE [index |-> FromCache(Ensured.snapshot), records |-> Ensured.records]

LookupIds(k) == {id \in Served.index.ids[k] : Served.index.ptr[id] # None}

LookupRows(k) ==
    {<<id, Fetched(Served.records, {id}, Served.index.ptr)[id]>> : id \in LookupIds(k)}

\* What append_batch_inner promises to accept.
ValidBatch(rows, b, only) ==
    /\ \A i, j \in DOMAIN b : i # j => b[i].id # b[j].id
    /\ only => \A i \in DOMAIN b : rows[b[i].id] = None
    /\ \A i \in DOMAIN b, f \in UniqueFields : b[i].row # None =>
         /\ \A id \in Ids : rows[id] # None /\ rows[id][f] = b[i].row[f]
                              => \E j \in DOMAIN b : b[j].id = id
         /\ \A j \in DOMAIN b \ {i} : b[j].row # None => b[j].row[f] # b[i].row[f]

\* Another handle appends a batch, or a part of it.
OtherAppend ==
    /\ phase = "idle"
    /\ \E b \in Batches : \E n \in 1..Len(b) :
         /\ ValidBatch(Live(lines), b, FALSE)
         /\ Len(lines) + n <= MaxLines
         /\ lines' = lines \o SubSeq(b, 1, n)
    /\ Invalidate
    /\ UNCHANGED <<sixb, append>>

-------------------------------------------------------------------------------
(* append_batch_inner *)

Idle ==
    /\ phase' = "idle"
    /\ done' = 0
    /\ batch' = <<>>
    /\ insertOnly' = FALSE
    /\ working' = None
    /\ validation' = None
    /\ claimed' = {}

\* The batch is refused: resolve_and_append drops the caches.
Refuse ==
    /\ Invalidate
    /\ Idle
    /\ UNCHANGED <<lines, sixb>>

\* take_runtime_sixb_for_write: the index is taken out of its cache, which a
\* rebuild fills again.
Begin ==
    /\ phase = "idle"
    /\ Ensurable
    /\ \E b \in Batches, only \in BOOLEAN :
         /\ only => \A i \in DOMAIN b : b[i].row # None
         /\ Len(lines) + Len(b) <= MaxLines
         /\ batch' = b
         /\ insertOnly' = only
    /\ IF runtime # None
       THEN /\ working' = runtime
            /\ runtime' = None
            /\ UNCHANGED <<sixb, snapshot, records>>
       ELSE /\ working' = FromCache(Ensured.snapshot)
            /\ runtime' = Ensured.runtime
            /\ snapshot' = None
            /\ sixb' = Ensured.sixb
            /\ records' = Ensured.records
    /\ validation' = working'
    /\ phase' = "remove"
    /\ UNCHANGED <<lines, done, claimed>>

\* The index cannot be taken.
BeginFails ==
    /\ phase = "idle"
    /\ ~Ensurable
    /\ Invalidate
    /\ UNCHANGED <<lines, sixb, append>>

Current == batch[done + 1]

\* Goes on with the next operation, or with the next loop.
Advance(next) ==
    IF done + 1 < Len(batch)
    THEN done' = done + 1 /\ UNCHANGED phase
    ELSE done' = 0 /\ phase' = next

Exists(op) == insertOnly /\ working.ptr[op.id] # None

RemoveOperation ==
    /\ phase = "remove"
    /\ ~Exists(Current)
    /\ validation' = WithoutRow(validation, Current.id)
    /\ Advance("check")
    /\ UNCHANGED <<lines, caches, batch, insertOnly, working, claimed>>

RefuseExisting ==
    /\ phase = "remove"
    /\ Exists(Current)
    /\ Refuse

Repeated(op) == \E j \in 1..done : batch[j].id = op.id

UniqueKeysOf(op) == {<<f, op.row[f]>> : f \in UniqueFields}

\* Mutant of Conflicts: keys of the same batch are not compared.
ConflictsWithRows(op) ==
    /\ op.row # None
    /\ \E k \in UniqueKeysOf(op) :
         validation.ids[k] # {} /\ FirstId(validation.ids[k]) # op.id

\* validate_put_unique_lookup_conflicts
Conflicts(op) ==
    /\ op.row # None
    /\ \E k \in UniqueKeysOf(op) :
         \/ validation.ids[k] # {} /\ FirstId(validation.ids[k]) # op.id
         \/ \E id \in Ids \ {op.id} : <<k, id>> \in claimed

CheckOperation ==
    /\ phase = "check"
    /\ ~Repeated(Current) /\ ~Conflicts(Current)
    /\ claimed' = IF Current.row # None
                  THEN claimed \cup (UniqueKeysOf(Current) \X {Current.id}) ELSE claimed
    /\ Advance("apply")
    /\ UNCHANGED <<lines, caches, batch, insertOnly, working, validation>>

RefuseClash ==
    /\ phase = "check"
    /\ Repeated(Current) \/ Conflicts(Current)
    /\ Refuse

OldRecord(id) == IF working.ptr[id] # None THEN records[id] ELSE None

Extend(x, op) == [x EXCEPT !.source = Append(@, op)]

ApplyNext ==
    /\ phase = "apply"
    /\ working' = Extend(ApplyOperation(working, Current, Len(lines) + done + 1,
                                        OldRecord(Current.id)), Current)
    /\ Advance("write")
    /\ UNCHANGED <<lines, caches, batch, insertOnly, validation, claimed>>

\* The batch is in the chunk.
Written ==
    [id \in Ids |-> IF \E i \in DOMAIN batch : batch[i].id = id
                    THEN batch[CHOOSE i \in DOMAIN batch : batch[i].id = id].row
                    ELSE records[id]]

\* Mutant of Write: the runtime cache stays as the index was taken from it.
WriteKeepingRuntime ==
    /\ phase = "write"
    /\ lines' = lines \o batch
    /\ snapshot' = None
    /\ records' = Written
    /\ Idle
    /\ UNCHANGED <<sixb, runtime>>

\* Mutant of Write: the row cache is not told of the append.
WriteKeepingRecords ==
    /\ phase = "write"
    /\ lines' = lines \o batch
    /\ snapshot' = None
    /\ runtime' = working
    /\ Idle
    /\ UNCHANGED <<sixb, records>>

Write ==
    /\ phase = "write"
    /\ lines' = lines \o batch
    /\ snapshot' = None
    /\ runtime' = working
    /\ records' = Written
    /\ Idle
    /\ UNCHANGED sixb

\* The write fails, after some lines.
WriteFails ==
    /\ phase = "write"
    /\ \E n \in 0..Len(batch) : lines' = lines \o SubSeq(batch, 1, n)
    /\ Invalidate
    /\ Idle
    /\ UNCHANGED sixb

-------------------------------------------------------------------------------
Init ==
    /\ lines = <<>>
    /\ sixb = None
    /\ snapshot = None
    /\ runtime = None
    /\ records = [id \in Ids |-> None]
    /\ phase = "idle"
    /\ done = 0
    /\ batch = <<>>
    /\ insertOnly = FALSE
    /\ working = None
    /\ validation = None
    /\ claimed = {}

Next ==
    \/ \E ids \in SUBSET Ids : ReadRuntime(ids) \/ ReadSnapshot(ids)
    \/ Rebuild \/ DropCaches \/ OtherAppend
    \/ Begin \/ BeginFails
    \/ RemoveOperation \/ RefuseExisting
    \/ CheckOperation \/ RefuseClash
    \/ ApplyNext
    \/ Write \/ WriteFails

Spec == Init /\ [][Next]_vars
-------------------------------------------------------------------------------
(* Properties. *)

Cache == [source : Seq(Operation), ptr : [Ids -> {None} \cup Nat],
          lookups : SUBSET (LookupKey \X Ids)]
Index == [source : Seq(Operation), ptr : [Ids -> {None} \cup Nat],
          ids : [LookupKey -> SUBSET Ids], keys : [Ids -> {None} \cup SUBSET LookupKey]]

\* Every variable has its type; a batch is under way except when idle.
TypeOK ==
    /\ lines \in Seq(Operation)
    /\ sixb \in {None} \cup Cache
    /\ snapshot \in {None} \cup Cache
    /\ runtime \in {None} \cup Index
    /\ records \in [Ids -> Row \cup {None}]
    /\ phase \in {"idle", "remove", "check", "apply", "write"}
    /\ batch \in Seq(Operation)
    /\ insertOnly \in BOOLEAN
    /\ done \in Nat
    /\ phase \in {"remove", "check", "apply"} => done < Len(batch)
    /\ phase # "idle" => working \in Index /\ validation \in Index /\ Len(batch) > 0
    /\ claimed \subseteq (UniqueFields \X Vals) \X Ids

\* The maps of the cached index, kept operation by operation, are those a
\* rebuild makes of the lines on disk.
RuntimeIsRebuilt == runtime # None => runtime = IndexOf(lines)

\* So is the snapshot cache, which appends bypass.
SnapshotIsRebuilt == snapshot # None => snapshot = BuildCache(lines)

\* A cached row is the live row. The update of the index trusts it: a stale one
\* would leave lookup keys of a row behind.
RecordsAreLive == \A id \in Ids : records[id] \in {None, Live(lines)[id]}

\* A lookup answers exactly the live rows with the key, with their contents, and
\* counts no other, wherever index and rows come from.
LookupsAnswerLines ==
    phase = "idle" /\ Ensurable =>
      \A k \in LookupKey :
        LET matches == {id \in Ids : Live(lines)[id] # None /\ k \in KeysOf(Live(lines)[id])}
        IN  /\ Served.index.ids[k] = matches
            /\ LookupRows(k) = {<<id, Live(lines)[id]>> : id \in matches}

\* The index a batch is applied to is that of the lines as they will be.
WorkingIsRebuilt ==
    phase \in {"apply", "write"} =>
      working = IndexOf(lines \o (IF phase = "apply" THEN SubSeq(batch, 1, done) ELSE batch))

\* A batch is applied only if no unique key will be used twice and no insert
\* meets a live row: looking the keys up in the index is enough.
AcceptsOnlyValid ==
    phase \in {"apply", "write"} => ValidBatch(Live(lines), batch, insertOnly)

\* And no valid batch is refused.
RefusesOnlyInvalid ==
    [][(phase \in {"remove", "check"} /\ phase' = "idle") =>
         ~ValidBatch(Live(lines), batch, insertOnly)]_vars

(* The inductive invariant of the proofs, in parts. *)

\* The lookup maps of x are those of rows.
IdsUnder(rows) ==
    [k \in LookupKey |-> {id \in Ids : rows[id] # None /\ k \in KeysOf(rows[id])}]
KeysHeld(rows) ==
    [id \in Ids |-> IF rows[id] # None THEN KeysOf(rows[id]) ELSE None]
Holds(x, rows) == x.ids = IdsUnder(rows) /\ x.keys = KeysHeld(rows)

\* Every cache, and the file, is as rebuilt from the lines it names.
CachesInv ==
    /\ RuntimeIsRebuilt
    /\ SnapshotIsRebuilt
    /\ RecordsAreLive
    /\ sixb # None => sixb = BuildCache(sixb.source)

\* The working index is that of the lines until operations are applied.
WorkingInv ==
    /\ phase \in {"remove", "check"} => working = IndexOf(lines)
    /\ WorkingIsRebuilt

RowsBut(n) ==
    [id \in Ids |-> IF \E j \in 1..n : batch[j].id = id THEN None ELSE Live(lines)[id]]
Seen == IF phase = "remove" THEN done ELSE Len(batch)

\* The validation index is that of the rows the batch leaves alone; an insert
\* has met no row.
ValidationInv ==
    phase \in {"remove", "check"} =>
      /\ Holds(validation, RowsBut(Seen))
      /\ \A id \in Ids : validation.ptr[id] # None <=> RowsBut(Seen)[id] # None
      /\ insertOnly => \A j \in 1..Seen : Live(lines)[batch[j].id] = None

\* The first n operations clash with no row and not with each other.
CheckedTo(n) ==
    /\ \A i, j \in 1..n : i # j => batch[i].id # batch[j].id
    /\ \A i \in 1..n, f \in UniqueFields : batch[i].row # None =>
         /\ \A id \in Ids : Live(lines)[id] # None /\ Live(lines)[id][f] = batch[i].row[f]
                              => \E j \in DOMAIN batch : batch[j].id = id
         /\ \A j \in 1..n \ {i} : batch[j].row # None => batch[j].row[f] # batch[i].row[f]

\* The operations checked are in order, and exactly their keys are claimed.
ClaimedInv ==
    /\ phase = "idle" => done = 0
    /\ phase \in {"idle", "remove"} => claimed = {}
    /\ phase = "check" =>
         /\ CheckedTo(done)
         /\ \A k \in UniqueFields \X Vals, id \in Ids :
              <<k, id>> \in claimed <=>
                \E j \in 1..done : /\ batch[j].id = id /\ batch[j].row # None
                                  /\ k \in UniqueKeysOf(batch[j])

IndexInv ==
    TypeOK /\ CachesInv /\ WorkingInv /\ ValidationInv /\ ClaimedInv /\ AcceptsOnlyValid
===============================================================================
