----------------------------- MODULE SharedHandle -----------------------------
(***************************************************************************)
(* One LocalStore shared by the threads of a process (every clone of it    *)
(* has the same caches) while other processes commit to the same           *)
(* workspace.  Readers share the workspace lock, so they run at the same   *)
(* time; every cache has a lock of its own that is held for one access     *)
(* only.  A read is therefore many steps: compare the revision, drop the   *)
(* caches one by one, activate the schema, take the index, read the rows.  *)
(*                                                                         *)
(* One table with one lookup that is not unique: a row is its id and the   *)
(* key it is found by.  A commit excludes the readers and is one step; its *)
(* own steps and its failures are those of SixpackStore.                   *)
(***************************************************************************)
EXTENDS TableRows, FiniteSets

CONSTANTS
    Threads,        \* threads that share the handle
    Calls,          \* the read calls they make
    None,           \* an absent value
    MaxRevision     \* bound: commits

ASSUME IdsAssumption == Ids \subseteq Int /\ IsFiniteSet(Ids)

ASSUME CallsAssumption ==
    Calls \subseteq [kind : {"get", "lookup", "matches", "scan", "page", "count"},
                     id : Ids, key : Keys]

ASSUME MaxRevisionAssumption == MaxRevision \in Nat

Files == [source : 0..MaxRevision, rows : RowSet]

ASSUME MissingAssumption ==
    None \notin RowSet /\ None \notin Nat /\ None \notin Files /\ None \notin Calls

VARIABLES
    \* on disk
    rows,           \* the committed rows
    revision,       \* the revision file
    file,           \* the `.6b` file: an index and the revision of its source hash, or None
    \* in the handle
    observed,       \* observed_revision
    active,         \* active_schema_hash is that of the schema
    sixb,           \* sixb_cache: an index, or None
    runtime,        \* runtime_sixb_cache: an index, or None
    cached,         \* row_cache: NoRow for a row that is not there
    \* in each thread
    at,             \* the next step of its read
    call,           \* the call it makes
    after,          \* where it goes on when the caches are dropped
    held,           \* the index entries in its hands, None if it asks runtime for each
    left,           \* ids whose rows it has still to read
    found,          \* rows it has read
    total           \* the count it has taken

disk    == <<rows, revision, file>>
handle  == <<observed, active, sixb, runtime, cached>>
caches  == <<sixb, runtime, cached>>
answer  == <<held, left, found, total>>
threads == <<at, call, after, answer>>
vars    == <<disk, handle, threads>>

-------------------------------------------------------------------------------
Live(r) == {id \in Ids : r[id] # NoRow}

\* The ids in the answer of the call c over the rows r.
Wanted(r, c) ==
    {id \in Live(r) : /\ c.kind = "get" => id = c.id
                      /\ c.kind \in {"lookup", "matches"} => r[id] = c.key}

\* The rows of the ids in s.
Only(r, s) == [id \in Ids |-> IF id \in s THEN r[id] ELSE NoRow]

\* scan_page counts first and then reads the rows.
Counting(t) == \/ call[t].kind \in {"matches", "count"}
               \/ call[t].kind = "page" /\ total[t] = None

Goto(t, s) == at' = [at EXCEPT ![t] = s]

Init ==
    /\ rows = EmptyRows
    /\ revision = 0
    /\ file = None
    /\ observed = None
    /\ active = FALSE
    /\ sixb = None
    /\ runtime = None
    /\ cached = EmptyRows
    /\ at = [t \in Threads |-> "idle"]
    /\ call = [t \in Threads |-> None]
    /\ after = [t \in Threads |-> "activate"]
    /\ held = [t \in Threads |-> None]
    /\ left = [t \in Threads |-> {}]
    /\ found = [t \in Threads |-> EmptyRows]
    /\ total = [t \in Threads |-> None]

-------------------------------------------------------------------------------
(* Entering a read: the shared lock, then refresh_if_revision_changed.     *)

Enter(t) ==
    /\ at[t] = "idle"
    /\ \E c \in Calls : call' = [call EXCEPT ![t] = c]
    /\ Goto(t, "compare")
    /\ UNCHANGED <<disk, handle, after, answer>>

\* Mutant of Compare: the revision counts as observed before the caches go.
CompareObserving(t) ==
    /\ at[t] = "compare"
    /\ Goto(t, IF observed = revision THEN "activate"
               ELSE IF observed = None THEN "observe" ELSE "drop sixb")
    /\ observed' = revision
    /\ after' = [after EXCEPT ![t] = "observe"]
    /\ UNCHANGED <<disk, active, caches, call, answer>>

\* The thread that finds another revision drops the caches; the first read of
\* a handle has nothing to drop.
Compare(t) ==
    /\ at[t] = "compare"
    /\ Goto(t, IF observed = revision THEN "activate"
               ELSE IF observed = None THEN "observe" ELSE "drop sixb")
    /\ after' = [after EXCEPT ![t] = "observe"]
    /\ UNCHANGED <<disk, handle, call, answer>>

\* invalidate_cached_state
DropSixb(t) ==
    /\ at[t] = "drop sixb"
    /\ sixb' = None
    /\ Goto(t, "drop runtime")
    /\ UNCHANGED <<disk, observed, active, runtime, cached, call, after, answer>>

\* Mutant of DropRuntime: the runtime index is forgotten.
KeepRuntime(t) ==
    /\ at[t] = "drop runtime"
    /\ Goto(t, "drop rows")
    /\ UNCHANGED <<disk, handle, call, after, answer>>

DropRuntime(t) ==
    /\ at[t] = "drop runtime"
    /\ runtime' = None
    /\ Goto(t, "drop rows")
    /\ UNCHANGED <<disk, observed, active, sixb, cached, call, after, answer>>

DropRows(t) ==
    /\ at[t] = "drop rows"
    /\ cached' = EmptyRows
    /\ Goto(t, after[t])
    /\ UNCHANGED <<disk, observed, active, sixb, runtime, call, after, answer>>

Observe(t) ==
    /\ at[t] = "observe"
    /\ observed' = revision
    /\ Goto(t, "activate")
    /\ UNCHANGED <<disk, active, caches, call, after, answer>>

\* activate_schema holds its lock while it drops the caches.
Activating(u) ==
    after[u] = "activated" /\ at[u] \in {"drop sixb", "drop runtime", "drop rows", "activated"}

Activate(t) ==
    /\ at[t] = "activate"
    /\ \A u \in Threads : ~Activating(u)
    /\ Goto(t, IF active THEN "read" ELSE "drop sixb")
    /\ after' = [after EXCEPT ![t] = "activated"]
    /\ UNCHANGED <<disk, handle, call, answer>>

Activated(t) ==
    /\ at[t] = "activated"
    /\ active' = TRUE
    /\ Goto(t, "read")
    /\ UNCHANGED <<disk, observed, caches, call, after, answer>>

-------------------------------------------------------------------------------
(* The index: that of the runtime cache, else what ensure_sixb_snapshot    *)
(* returns.                                                                *)

\* The counts and ids an index gives for the call.
Take(t, r) ==
    IF Counting(t)
    THEN /\ total' = [total EXCEPT ![t] = Cardinality(Wanted(r, call[t]))]
         /\ Goto(t, IF call[t].kind = "page" THEN "read" ELSE "done")
         /\ UNCHANGED left
    ELSE /\ left' = [left EXCEPT ![t] = Wanted(r, call[t])]
         /\ Goto(t, "rows")
         /\ UNCHANGED total

\* get_by_id_inner goes on to the snapshot when the runtime index has no entry.
InRuntime(t) == runtime # None /\ (call[t].kind = "get" => runtime[call[t].id] # NoRow)

\* get_by_lookup_inner takes only the ids and asks for each entry again.
FromRuntime(t) ==
    /\ at[t] = "read"
    /\ InRuntime(t)
    /\ Take(t, runtime)
    /\ held' = [held EXCEPT ![t] = IF call[t].kind = "lookup" THEN None ELSE runtime]
    /\ UNCHANGED <<disk, handle, call, after, found>>

Ensure(t) ==
    /\ at[t] = "read"
    /\ ~InRuntime(t)
    /\ Goto(t, "from runtime")
    /\ UNCHANGED <<disk, handle, call, after, answer>>

Snapshot(t, r) ==
    /\ held' = [held EXCEPT ![t] = r]
    /\ Goto(t, "snapshot")
    /\ UNCHANGED <<left, found, total>>

SnapshotOfRuntime(t) ==
    /\ at[t] = "from runtime"
    /\ IF runtime # None
       THEN Snapshot(t, runtime) /\ sixb' = runtime
       ELSE Goto(t, "from cache") /\ UNCHANGED <<sixb, answer>>
    /\ UNCHANGED <<disk, observed, active, runtime, cached, call, after>>

SnapshotOfCache(t) ==
    /\ at[t] = "from cache"
    /\ IF sixb # None THEN Snapshot(t, sixb) ELSE Goto(t, "from file") /\ UNCHANGED answer
    /\ UNCHANGED <<disk, handle, call, after>>

\* Mutant of FileMatches: the source hash is not compared.
FileExists == file # None

\* The `.6b` file counts when its source hash is that of the chunks.
FileMatches == file # None /\ file.source = revision

\* The `.6b` file rebuild_sixb_inner writes.
Built == [source |-> revision, rows |-> rows]

SnapshotOfFile(t) ==
    /\ at[t] = "from file"
    /\ IF FileMatches
       THEN Snapshot(t, file.rows) /\ sixb' = file.rows
       ELSE Goto(t, "rebuild rows") /\ UNCHANGED <<sixb, answer>>
    /\ UNCHANGED <<disk, observed, active, runtime, cached, call, after>>

\* rebuild_sixb_inner: the rows of the scan, the `.6b` file, the runtime index.
RebuildRows(t) ==
    /\ at[t] = "rebuild rows"
    /\ cached' = rows
    /\ Goto(t, "rebuild file")
    /\ UNCHANGED <<disk, observed, active, sixb, runtime, call, after, answer>>

RebuildFile(t) ==
    /\ at[t] = "rebuild file"
    /\ file' = Built
    /\ sixb' = rows
    /\ Goto(t, "rebuild runtime")
    /\ UNCHANGED <<rows, revision, observed, active, runtime, cached, call, after, answer>>

RebuildRuntime(t) ==
    /\ at[t] = "rebuild runtime"
    /\ runtime' = rows
    /\ sixb' = rows
    /\ Snapshot(t, rows)
    /\ UNCHANGED <<disk, observed, active, cached, call, after>>

FromSnapshot(t) ==
    /\ at[t] = "snapshot"
    /\ Take(t, held[t])
    /\ UNCHANGED <<disk, handle, call, after, held, found>>

-------------------------------------------------------------------------------
(* The rows, one by one in the order of their ids.                         *)

\* The entry of a row: in hand, or asked of the runtime index, which another
\* thread may have dropped.
Entry(t, id) ==
    IF held[t] # None THEN held[t][id]
    ELSE IF runtime # None THEN runtime[id]
    ELSE NoRow

\* read_row_entry: the cached row, else the row the entry points to.
RowAt(entry, id) == IF cached[id] # NoRow THEN cached[id] ELSE entry

\* Without an entry get_by_lookup_inner leaves the row out.
ReadRow(t) ==
    /\ at[t] = "rows"
    /\ \E id \in left[t] :
         /\ \A other \in left[t] : id <= other
         /\ left' = [left EXCEPT ![t] = @ \ {id}]
         /\ IF Entry(t, id) = NoRow THEN UNCHANGED <<found, cached>>
            ELSE /\ found' = [found EXCEPT ![t][id] = RowAt(Entry(t, id), id)]
                 /\ cached' = [cached EXCEPT ![id] = RowAt(Entry(t, id), id)]
    /\ UNCHANGED <<disk, observed, active, sixb, runtime, at, call, after, held, total>>

\* lookup_page counts the rows it read.
Complete(t) ==
    /\ at[t] = "rows"
    /\ left[t] = {}
    /\ Goto(t, "done")
    /\ total' = IF call[t].kind = "lookup"
                THEN [total EXCEPT ![t] = Cardinality(Live(found[t]))] ELSE total
    /\ UNCHANGED <<disk, handle, call, after, held, left, found>>

\* The answer is returned and the lock released.
Leave(t) ==
    /\ at[t] = "done"
    /\ Goto(t, "idle")
    /\ call' = [call EXCEPT ![t] = None]
    /\ after' = [after EXCEPT ![t] = "activate"]
    /\ held' = [held EXCEPT ![t] = None]
    /\ left' = [left EXCEPT ![t] = {}]
    /\ found' = [found EXCEPT ![t] = EmptyRows]
    /\ total' = [total EXCEPT ![t] = None]
    /\ UNCHANGED <<disk, handle>>

-------------------------------------------------------------------------------
(* Commits hold the lock exclusively: no thread is inside a read.          *)

\* A change of one row: a put, or the delete of a row that is there.
Put(id, key) ==
    /\ rows[id] # NoRow \/ key # NoRow
    /\ rows' = [rows EXCEPT ![id] = key]

Exclusive ==
    /\ \A t \in Threads : at[t] = "idle"
    /\ revision < MaxRevision
    /\ revision' = revision + 1

\* Another process commits.
ForeignCommit ==
    /\ Exclusive
    /\ \E id \in Ids, key \in Keys \cup {NoRow} : Put(id, key)
    /\ UNCHANGED <<file, handle, threads>>

\* A reader of another process rebuilds the `.6b` file, under the shared lock.
ForeignRebuild ==
    /\ ~FileMatches
    /\ file' = Built
    /\ UNCHANGED <<rows, revision, handle, threads>>

\* Does a commit of this handle find its caches dropped?
Dropped == ~active \/ (observed # None /\ observed # revision)

IndexInMemory == ~Dropped /\ (runtime # None \/ sixb # None)

\* take_runtime_sixb_for_write: the index the commit extends.
Base == IF Dropped THEN rows
        ELSE IF runtime # None THEN runtime
        ELSE IF sixb # None THEN sixb
        ELSE rows

BaseRows == IF ~IndexInMemory /\ ~FileMatches THEN rows
            ELSE IF Dropped THEN EmptyRows
            ELSE cached

\* The caches after append_batch_inner put or deleted the row id.
Extended(id, key) ==
    /\ runtime' = [Base EXCEPT ![id] = key]
    /\ cached' = [BaseRows EXCEPT ![id] = key]
    /\ sixb' = None

\* resolve_and_append of a thread of this process.
Commit ==
    /\ Exclusive
    /\ \E id \in Ids, key \in Keys \cup {NoRow} :
         /\ Put(id, key)
         /\ Extended(id, key)
    /\ file' = IF IndexInMemory THEN file ELSE Built
    /\ observed' = revision + 1
    /\ active' = TRUE
    /\ UNCHANGED threads

-------------------------------------------------------------------------------
ReadStep(t) ==
    \/ Enter(t) \/ Compare(t)
    \/ DropSixb(t) \/ DropRuntime(t) \/ DropRows(t)
    \/ Observe(t) \/ Activate(t) \/ Activated(t)
    \/ FromRuntime(t) \/ Ensure(t)
    \/ SnapshotOfRuntime(t) \/ SnapshotOfCache(t) \/ SnapshotOfFile(t)
    \/ RebuildRows(t) \/ RebuildFile(t) \/ RebuildRuntime(t)
    \/ FromSnapshot(t) \/ ReadRow(t) \/ Complete(t) \/ Leave(t)

Next ==
    \/ ForeignCommit \/ ForeignRebuild \/ Commit
    \/ \E t \in Threads : ReadStep(t)

Spec == Init /\ [][Next]_vars

-------------------------------------------------------------------------------
(* Type invariant. *)

Indexes == RowSet \cup {None}

Steps == {"idle", "compare", "drop sixb", "drop runtime", "drop rows", "observe",
          "activate", "activated", "read", "from runtime", "from cache", "from file",
          "rebuild rows", "rebuild file", "rebuild runtime", "snapshot", "rows", "done"}

TypeOK ==
    /\ rows \in RowSet
    /\ revision \in 0..MaxRevision
    /\ file \in Files \cup {None}
    /\ observed \in (0..MaxRevision) \cup {None}
    /\ active \in BOOLEAN
    /\ sixb \in Indexes /\ runtime \in Indexes /\ cached \in RowSet
    /\ at \in [Threads -> Steps]
    /\ call \in [Threads -> Calls \cup {None}]
    /\ after \in [Threads -> {"observe", "activate", "activated"}]
    /\ held \in [Threads -> Indexes]
    /\ left \in [Threads -> SUBSET Ids]
    /\ found \in [Threads -> RowSet]
    /\ total \in [Threads -> Nat \cup {None}]

-------------------------------------------------------------------------------
(* Safety. *)

\* A cached index is that of the committed rows, a cached row is committed.
Current == /\ sixb \in {None, rows}
           /\ runtime \in {None, rows}
           /\ \A id \in Ids : cached[id] \in {NoRow, rows[id]}

Refreshing == {"compare", "drop sixb", "drop runtime", "drop rows", "observe"}

\* Has the thread compared the revision and dropped what was stale?
Refreshed(t) == at[t] # "idle" /\ (at[t] \in Refreshing => after[t] = "activated")

\* Once any thread is past refresh_if_revision_changed the caches hold nothing
\* of an earlier revision, whatever the other threads still drop or rebuild
\* (coordination.rs: the caches are dropped one by one, each under its own
\* lock, before the revision counts as observed).
RefreshedCachesCurrent == \A t \in Threads : Refreshed(t) => Current /\ observed = revision

\* Rows of an answer are committed rows that match the call: no thread answers
\* from an index or a row of an earlier revision, and a row is found under its
\* current key (read.rs: entries, rows and snapshots are fetched one by one).
AnswersAreCommitted ==
    \A t \in Threads : at[t] \in {"rows", "done"} =>
        \A id \in Live(found[t]) : id \in Wanted(rows, call[t]) /\ found[t][id] = rows[id]

\* The whole answer: every wanted row, and the count of them.
Exact(t) ==
    LET wanted == Wanted(rows, call[t]) IN
    /\ call[t].kind \notin {"matches", "count"} => found[t] = Only(rows, wanted)
    /\ call[t].kind \in {"matches", "count", "page", "lookup"} => total[t] = Cardinality(wanted)

\* Every read but a lookup answers with exactly the committed rows, and the
\* total of a scanned page is the number of its table's rows though they are
\* taken from the index one after the other (read.rs, scan_page: "from the
\* same store snapshot").
ScansAreExact ==
    \A t \in Threads : at[t] = "done" /\ call[t].kind # "lookup" => Exact(t)

\* read.rs says of lookup_page: "Reads one lookup page and its total from the
\* same store snapshot."
LookupsAreExact ==
    \A t \in Threads : at[t] = "done" /\ call[t].kind = "lookup" => Exact(t)
===============================================================================
