----------------------------- MODULE SixpackStore -----------------------------
(***************************************************************************)
(* The commit protocol of packages/sixpack-store: several handles (a       *)
(* LocalStore of some process each) share one workspace on one file        *)
(* system.  On disk are the append-only `.6` chunks of every table, the    *)
(* generated `.6b` index of every table, the metadata file and the         *)
(* revision file; in every handle are the caches that the revision file    *)
(* keeps honest.  Writers, `init` and `rebuild_sixb` hold the workspace    *)
(* lock exclusively, readers share it.                                     *)
(*                                                                         *)
(* A chunk is abstracted to its complete data lines; all chunks of a table *)
(* in read order are one sequence.  A row is its id and the key of its     *)
(* unique lookup.  What cannot be read as a complete line is kept as two   *)
(* flags of the table's last chunk: `torn` (it does not end in a newline)  *)
(* and `header` (its preamble is complete).                                *)
(***************************************************************************)
EXTENDS TableRows

CONSTANTS
    Handles,        \* LocalStore handles, one per process
    Tables,         \* tables of the schema
    None,           \* an absent value: no cache, no lock holder, no file
    Dirty,          \* the revision u64::MAX
    Operations,     \* the exclusive operations handles use: "write", "init", "rebuild"
    Tears,          \* what an interrupted append may leave: "line", "prefix", "header"
    FaultKinds,     \* "crash": a lock holder dies; "write": its write to a chunk
                    \* fails; "save": its write of the metadata or revision fails
    MaxTx,          \* bound: transaction ids handed out
    MaxFaults       \* bound: crashes of a lock holder and failed I/O calls

ASSUME SentinelAssumption ==
    /\ None \notin Handles /\ None \notin Nat /\ None # Dirty
    /\ Dirty \notin Nat
    /\ None \notin [Ids -> Keys \cup {NoRow}]

ASSUME BoundAssumption == MaxTx \in Nat /\ MaxFaults \in Nat

VARIABLES
    \* on disk
    log,            \* table -> its complete data lines, oldest first
    torn,           \* table -> the last chunk ends in an incomplete line
    header,         \* table -> the preamble of the last chunk is complete
    sixb,           \* table -> the lines its `.6b` file was built from
    metaTx,         \* next_tx in the metadata file
    revision,       \* the revision file
    \* in each handle
    observed,       \* observed_revision
    rows,           \* the cached index and rows of each table
    nextTx,         \* next_tx_cache
    layout,         \* layout_cache: tables whose chunk headers were verified
    \* the operation of the lock holder
    writer,         \* who holds the workspace lock exclusively
    step,           \* how far it has come
    target,         \* the table it writes
    todo,           \* tables it has still to recover or rebuild
    batch,          \* the resolved batch
    insertOnly,     \* WriteBatchMode::InsertOnly
    \* observers
    faults,         \* faults so far
    partial         \* tables in which a proper prefix of a batch survived

disk    == <<log, torn, header, sixb, metaTx, revision>>
memory  == <<observed, rows, nextTx, layout>>
request == <<writer, step, target, todo, batch, insertOnly>>
history == <<faults, partial>>
vars    == <<disk, memory, request, history>>

-------------------------------------------------------------------------------
(* Transaction ids. *)

\* The transaction ids in the chunks, and 0.
Txs == {0} \cup UNION {{log[t][i].tx : i \in DOMAIN log[t]} : t \in Tables}

\* Mutant of DiscoveredTx: the last transaction instead of the next.
LastTx == CHOOSE m \in Txs : \A n \in Txs : n <= m

DiscoveredTx == (CHOOSE m \in Txs : \A n \in Txs : n <= m) + 1

\* next_tx_id: the cached value, else the larger of metadata and chunks.
NextTxOf(h) ==
    IF nextTx[h] # None THEN nextTx[h]
    ELSE IF metaTx # None /\ metaTx > DiscoveredTx THEN metaTx
    ELSE DiscoveredTx

-------------------------------------------------------------------------------
(* Caches. *)

NoRows == [t \in Tables |-> None]

\* Mutant of Stale: only a larger revision is another one.
OlderThanDisk(h) ==
    /\ observed[h] # None /\ observed[h] # revision /\ observed[h] # Dirty
    /\ revision = Dirty \/ observed[h] < revision

\* refresh_if_revision_changed drops the caches of a handle that saw another
\* revision; a handle that saw none yet has nothing to drop.
Stale(h) == observed[h] # revision /\ observed[h] # None

RefreshedRows(h) == IF Stale(h) THEN NoRows ELSE rows[h]
RefreshedTx(h)   == IF Stale(h) THEN None ELSE nextTx[h]

Refresh(h, r) ==
    /\ observed' = [observed EXCEPT ![h] = revision]
    /\ rows'     = [rows EXCEPT ![h] = r]
    /\ nextTx'   = [nextTx EXCEPT ![h] = RefreshedTx(h)]

Invalidate(h) ==
    /\ rows'   = [rows EXCEPT ![h] = NoRows]
    /\ nextTx' = [nextTx EXCEPT ![h] = None]

\* A scan of the chunks succeeds, and a rebuild from that scan.
Scannable(t)   == header[t]
Rebuildable(t) == Scannable(t) /\ UniqueKeys(Rows(log[t]))

\* ensure_sixb_snapshot without a memory cache: the `.6b` file if its source
\* hash is that of the chunks, else a rebuild, which writes the `.6b` file.
Loadable(t)   == Scannable(t) /\ (sixb[t] = log[t] \/ Rebuildable(t))
Load(t)       == sixb' = [sixb EXCEPT ![t] = log[t]]

\* The rows an operation of h works with, from memory or loaded.
Available(r, t) == r[t] # None \/ Loadable(t)
RowsOf(r, t)    == IF r[t] # None THEN r[t] ELSE Rows(log[t])
LoadUnlessCached(r, t) == IF r[t] # None THEN UNCHANGED sixb ELSE Load(t)

LayoutOk(h, t) == t \in layout[h] \/ header[t]

-------------------------------------------------------------------------------
(* The lock. *)

Begin(h, s) == writer = None /\ writer' = h /\ step' = s

At(h, s) == writer = h /\ step = s

Release ==
    /\ writer' = None
    /\ step' = "idle"
    /\ target' = None
    /\ todo' = {}
    /\ batch' = <<>>
    /\ insertOnly' = FALSE

Fault(kind) ==
    /\ kind \in FaultKinds
    /\ faults < MaxFaults
    /\ faults' = faults + 1

-------------------------------------------------------------------------------
(* Reads hold the lock shared: they run while nobody holds it exclusively. *)

Read(h, t) ==
    /\ writer = None
    /\ Available(RefreshedRows(h), t)
    /\ LoadUnlessCached(RefreshedRows(h), t)
    /\ Refresh(h, [RefreshedRows(h) EXCEPT ![t] = RowsOf(RefreshedRows(h), t)])
    /\ UNCHANGED <<log, torn, header, metaTx, revision, layout, request, history>>

ReadFails(h, t) ==
    /\ writer = None
    /\ ~Available(RefreshedRows(h), t)
    /\ Refresh(h, RefreshedRows(h))
    /\ UNCHANGED <<disk, layout, request, history>>

\* rebuild_sixb scans the chunks whatever is cached.
Rebuild(h, t) ==
    /\ "rebuild" \in Operations
    /\ writer = None
    /\ Rebuildable(t)
    /\ Load(t)
    /\ Refresh(h, [RefreshedRows(h) EXCEPT ![t] = Rows(log[t])])
    /\ UNCHANGED <<log, torn, header, metaTx, revision, layout, request, history>>

-------------------------------------------------------------------------------
(* resolve_and_append *)

\* Mutant of BeginWrite: the tail of the target is not checked.
BeginWriteUnchecked(h, t) ==
    /\ "write" \in Operations
    /\ revision # Dirty
    /\ LayoutOk(h, t)
    /\ Begin(h, "resolve")
    /\ target' = t
    /\ Refresh(h, RefreshedRows(h))
    /\ layout' = [layout EXCEPT ![h] = @ \cup {t}]
    /\ UNCHANGED <<disk, todo, batch, insertOnly, history>>

\* A clean workspace: only the target table is checked.
BeginWrite(h, t) ==
    /\ "write" \in Operations
    /\ revision # Dirty
    /\ LayoutOk(h, t)
    /\ ~torn[t]
    /\ Begin(h, "resolve")
    /\ target' = t
    /\ Refresh(h, RefreshedRows(h))
    /\ layout' = [layout EXCEPT ![h] = @ \cup {t}]
    /\ UNCHANGED <<disk, todo, batch, insertOnly, history>>

RefuseWrite(h, t) ==
    /\ "write" \in Operations
    /\ writer = None
    /\ revision # Dirty
    /\ ~LayoutOk(h, t) \/ torn[t]
    /\ Refresh(h, RefreshedRows(h))
    /\ layout' = IF LayoutOk(h, t) THEN [layout EXCEPT ![h] = @ \cup {t}] ELSE layout
    /\ UNCHANGED <<disk, request, history>>

\* A dirty workspace: every table is checked and its torn tail cut off.
BeginRecovery(h, t) ==
    /\ "write" \in Operations
    /\ revision = Dirty
    /\ Begin(h, "recover")
    /\ target' = t
    /\ todo' = Tables
    /\ Refresh(h, RefreshedRows(h))
    /\ UNCHANGED <<disk, layout, batch, insertOnly, history>>

\* Mutant of RecoverTable: the last complete line is cut off with the tail.
RecoverOneLineShort(h) ==
    /\ At(h, "recover")
    /\ \E t \in todo :
         /\ LayoutOk(h, t)
         /\ layout' = [layout EXCEPT ![h] = @ \cup {t}]
         /\ log' = IF torn[t] /\ log[t] # <<>> THEN [log EXCEPT ![t] = Prefix(@, Len(@) - 1)]
                   ELSE log
         /\ torn' = [torn EXCEPT ![t] = FALSE]
         /\ todo' = todo \ {t}
    /\ UNCHANGED <<header, sixb, metaTx, revision, observed, rows, nextTx,
                   writer, step, target, batch, insertOnly, history>>

\* Mutant of RecoverTable: only the target table's tail is cut off.
RecoverTarget(h) ==
    /\ At(h, "recover")
    /\ LayoutOk(h, target)
    /\ layout' = [layout EXCEPT ![h] = @ \cup {target}]
    /\ torn' = [torn EXCEPT ![target] = FALSE]
    /\ todo # {}
    /\ todo' = {}
    /\ UNCHANGED <<log, header, sixb, metaTx, revision, observed, rows, nextTx,
                   writer, step, target, batch, insertOnly, history>>

RecoverTable(h) ==
    /\ At(h, "recover")
    /\ \E t \in todo :
         /\ LayoutOk(h, t)
         /\ layout' = [layout EXCEPT ![h] = @ \cup {t}]
         /\ torn' = [torn EXCEPT ![t] = FALSE]
         /\ todo' = todo \ {t}
    /\ UNCHANGED <<log, header, sixb, metaTx, revision, observed, rows, nextTx,
                   writer, step, target, batch, insertOnly, history>>

\* Mutant of FinishRecovery: the caches outlive the recovery.
FinishRecoveryKeepingCaches(h) ==
    /\ At(h, "recover")
    /\ todo = {}
    /\ step' = "resolve"
    /\ UNCHANGED <<disk, memory, writer, target, todo, batch, insertOnly, history>>

FinishRecovery(h) ==
    /\ At(h, "recover")
    /\ todo = {}
    /\ step' = "resolve"
    /\ Invalidate(h)
    /\ UNCHANGED <<disk, observed, layout, writer, target, todo, batch, insertOnly, history>>

\* Mutant of FailRecovery: starts over, with the lock held.
RetryRecovery(h) ==
    /\ At(h, "recover")
    /\ \E t \in todo : ~LayoutOk(h, t)
    /\ todo' = Tables
    /\ UNCHANGED <<disk, memory, writer, step, target, batch, insertOnly, history>>

FailRecovery(h) ==
    /\ At(h, "recover")
    /\ \E t \in todo : ~LayoutOk(h, t)
    /\ Release
    /\ UNCHANGED <<disk, memory, history>>

\* The resolver reads through the WriteSnapshot, under the writer's lock.
ResolverReads(h, t) ==
    /\ At(h, "resolve")
    /\ Available(rows[h], t)
    /\ LoadUnlessCached(rows[h], t)
    /\ rows' = [rows EXCEPT ![h][t] = RowsOf(rows[h], t)]
    /\ UNCHANGED <<log, torn, header, metaTx, revision, observed, nextTx, layout,
                   request, history>>

\* The resolver returns an error, an empty batch or an invalid record.
ResolverFails(h) ==
    /\ At(h, "resolve")
    /\ Release
    /\ UNCHANGED <<disk, memory, history>>

\* Mutant of MarkDirty: the metadata is saved ahead of the append.
MarkDirtySavingMetadata(h) ==
    /\ At(h, "resolve")
    /\ \E b \in Batches :
         /\ DiscoveredTx + Len(b) - 1 <= MaxTx
         /\ batch' = b
         /\ metaTx' = NextTxOf(h) + Len(b)
    /\ revision' = Dirty
    /\ observed' = [observed EXCEPT ![h] = Dirty]
    /\ step' = "append"
    /\ UNCHANGED <<log, torn, header, sixb, rows, nextTx, layout,
                   writer, target, todo, insertOnly, history>>

\* The dirty marker is published before append_batch_inner runs.
MarkDirty(h) ==
    /\ At(h, "resolve")
    /\ \E b \in Batches, only \in BOOLEAN :
         /\ only => \A i \in DOMAIN b : b[i].key # NoRow
         /\ DiscoveredTx + Len(b) - 1 <= MaxTx
         /\ batch' = b
         /\ insertOnly' = only
    /\ revision' = Dirty
    /\ observed' = [observed EXCEPT ![h] = Dirty]
    /\ step' = "append"
    /\ UNCHANGED <<log, torn, header, sixb, metaTx, rows, nextTx, layout,
                   writer, target, todo, history>>

\* append_batch_inner refuses the batch, or cannot load the table: the caches
\* go, the revision stays dirty.
Reject(h) ==
    /\ At(h, "append")
    /\ \/ /\ ~Available(rows[h], target)
          /\ UNCHANGED sixb
       \/ /\ Available(rows[h], target)
          /\ ~ValidBatch(RowsOf(rows[h], target), batch, insertOnly)
          /\ LoadUnlessCached(rows[h], target)
    /\ Invalidate(h)
    /\ Release
    /\ UNCHANGED <<log, torn, header, metaTx, revision, observed, layout, history>>

\* append_batch_inner up to its write to the chunk.
Accepted(h) ==
    /\ At(h, "append")
    /\ Available(rows[h], target)
    /\ ValidBatch(RowsOf(rows[h], target), batch, insertOnly)
    /\ LoadUnlessCached(rows[h], target)

\* The whole batch reaches the chunk, and the caches follow it.
AppendBatch(h) ==
    /\ Accepted(h)
    /\ log' = [log EXCEPT ![target] = @ \o Stamped(batch, NextTxOf(h))]
    /\ rows' = [rows EXCEPT ![h][target] = Replay(RowsOf(rows[h], target), batch)]
    /\ nextTx' = [nextTx EXCEPT ![h] = NextTxOf(h) + Len(batch)]
    /\ step' = "save"
    /\ UNCHANGED <<torn, header, metaTx, revision, observed, layout,
                   writer, target, todo, batch, insertOnly, history>>

\* An append that stops after n complete lines, possibly inside the next one,
\* or inside the preamble of a new chunk.
PartialAppend(h) ==
    /\ Accepted(h)
    /\ \E n \in 0..Len(batch) :
         /\ log' = [log EXCEPT ![target] = @ \o Prefix(Stamped(batch, NextTxOf(h)), n)]
         /\ \/ /\ "line" \in Tears /\ n < Len(batch)
               /\ torn' = [torn EXCEPT ![target] = TRUE]
               /\ UNCHANGED header
            \/ /\ n \in {0, Len(batch)} \/ "prefix" \in Tears
               /\ UNCHANGED <<torn, header>>
            \/ /\ "header" \in Tears /\ n = 0
               /\ \E cut \in BOOLEAN : torn' = [torn EXCEPT ![target] = cut]
               /\ header' = [header EXCEPT ![target] = FALSE]
         /\ partial' = IF n \in 1..(Len(batch) - 1) THEN partial \cup {target} ELSE partial

\* The metadata file: by a batch of several rows, by init, or when it is missing.
MetadataDue == Len(batch) # 1 \/ metaTx = None

SaveMetadata(h) ==
    /\ At(h, "save")
    /\ nextTx' = [nextTx EXCEPT ![h] = NextTxOf(h)]
    /\ metaTx' = IF MetadataDue THEN NextTxOf(h) ELSE metaTx
    /\ step' = "publish"
    /\ UNCHANGED <<log, torn, header, sixb, revision, observed, rows, layout,
                   writer, target, todo, batch, insertOnly, history>>

\* Mutant of PublishClean: publishes what the metadata file says.
PublishMetadataTx(h) ==
    /\ At(h, "publish")
    /\ revision' = metaTx
    /\ observed' = [observed EXCEPT ![h] = metaTx]
    /\ Release
    /\ UNCHANGED <<log, torn, header, sixb, metaTx, rows, nextTx, layout, history>>

PublishClean(h) ==
    /\ At(h, "publish")
    /\ revision' = nextTx[h]
    /\ observed' = [observed EXCEPT ![h] = nextTx[h]]
    /\ Release
    /\ UNCHANGED <<log, torn, header, sixb, metaTx, rows, nextTx, layout, history>>

-------------------------------------------------------------------------------
(* init: verify and rebuild every table, save the metadata, publish. *)

BeginInit(h) ==
    /\ "init" \in Operations
    /\ Begin(h, "rebuild")
    /\ todo' = Tables
    /\ Refresh(h, RefreshedRows(h))
    /\ UNCHANGED <<disk, layout, target, batch, insertOnly, history>>

InitTable(h) ==
    /\ At(h, "rebuild")
    /\ \E t \in todo :
         /\ Rebuildable(t)
         /\ Load(t)
         /\ rows' = [rows EXCEPT ![h][t] = Rows(log[t])]
         /\ layout' = [layout EXCEPT ![h] = @ \cup {t}]
         /\ todo' = todo \ {t}
    /\ UNCHANGED <<log, torn, header, metaTx, revision, observed, nextTx,
                   writer, step, target, batch, insertOnly, history>>

FinishInit(h) ==
    /\ At(h, "rebuild")
    /\ todo = {}
    /\ step' = "save"
    /\ UNCHANGED <<disk, memory, writer, target, todo, batch, insertOnly, history>>

FailInit(h) ==
    /\ At(h, "rebuild")
    /\ \E t \in todo :
         /\ ~Rebuildable(t)
         /\ layout' = IF LayoutOk(h, t) THEN [layout EXCEPT ![h] = @ \cup {t}] ELSE layout
    /\ Release
    /\ UNCHANGED <<disk, observed, rows, nextTx, history>>

-------------------------------------------------------------------------------
(* Faults and restarts. *)

Forget(h) ==
    /\ observed' = [observed EXCEPT ![h] = None]
    /\ rows'     = [rows EXCEPT ![h] = NoRows]
    /\ nextTx'   = [nextTx EXCEPT ![h] = None]
    /\ layout'   = [layout EXCEPT ![h] = {}]

\* A process ends without the lock and another one takes its place.
Restart(h) ==
    /\ writer # h
    /\ Forget(h)
    /\ UNCHANGED <<disk, request, history>>

\* The lock holder dies between two steps; the system releases its lock.
Crash(h) ==
    /\ writer = h
    /\ Fault("crash")
    /\ Forget(h)
    /\ Release
    /\ UNCHANGED <<disk, partial>>

\* The lock holder dies inside the write to the chunk.
CrashInAppend(h) ==
    /\ Fault("crash")
    /\ PartialAppend(h)
    /\ Forget(h)
    /\ Release
    /\ UNCHANGED <<metaTx, revision>>

\* The write to the chunk fails: the handle lives on, without its caches.
FailAppend(h) ==
    /\ Fault("write")
    /\ PartialAppend(h)
    /\ Invalidate(h)
    /\ Release
    /\ UNCHANGED <<metaTx, revision, observed, layout>>

\* Saving the metadata fails; a write drops its caches, init does not.
FailSave(h) ==
    /\ At(h, "save")
    /\ MetadataDue
    /\ Fault("save")
    /\ IF batch # <<>> THEN Invalidate(h)
       ELSE /\ nextTx' = [nextTx EXCEPT ![h] = NextTxOf(h)]
            /\ UNCHANGED rows
    /\ Release
    /\ UNCHANGED <<disk, observed, layout, partial>>

\* Publishing the clean revision fails; the caches stay.
FailPublish(h) ==
    /\ At(h, "publish")
    /\ Fault("save")
    /\ Release
    /\ UNCHANGED <<disk, memory, partial>>

-------------------------------------------------------------------------------
Init ==
    /\ log = [t \in Tables |-> <<>>]
    /\ torn = [t \in Tables |-> FALSE]
    /\ header = [t \in Tables |-> TRUE]
    /\ sixb = [t \in Tables |-> None]
    /\ metaTx = None
    /\ revision = 0
    /\ observed = [h \in Handles |-> None]
    /\ rows = [h \in Handles |-> NoRows]
    /\ nextTx = [h \in Handles |-> None]
    /\ layout = [h \in Handles |-> {}]
    /\ writer = None
    /\ step = "idle"
    /\ target = None
    /\ todo = {}
    /\ batch = <<>>
    /\ insertOnly = FALSE
    /\ faults = 0
    /\ partial = {}

\* The steps of the lock holder on its way to the release.
Progress(h) ==
    \/ RecoverTable(h) \/ FinishRecovery(h) \/ FailRecovery(h)
    \/ ResolverFails(h) \/ MarkDirty(h)
    \/ Reject(h) \/ AppendBatch(h)
    \/ SaveMetadata(h) \/ PublishClean(h)
    \/ InitTable(h) \/ FinishInit(h) \/ FailInit(h)

Interrupt(h) ==
    \/ Crash(h) \/ CrashInAppend(h)
    \/ FailAppend(h) \/ FailSave(h) \/ FailPublish(h)

Next ==
    \E h \in Handles :
      \/ \E t \in Tables :
           \/ Read(h, t) \/ ReadFails(h, t) \/ Rebuild(h, t)
           \/ BeginWrite(h, t) \/ RefuseWrite(h, t) \/ BeginRecovery(h, t)
           \/ ResolverReads(h, t)
      \/ BeginInit(h)
      \/ Progress(h)
      \/ Interrupt(h)
      \/ Restart(h)

Spec == Init /\ [][Next]_vars

\* Lock holders run on until they release, or die.
FairSpec == Spec /\ \A h \in Handles : WF_vars(Progress(h))

\* Besides, some process keeps writing.
RetrySpec ==
    FairSpec /\ \A t \in Tables : SF_vars(\E h \in Handles : BeginRecovery(h, t))

-------------------------------------------------------------------------------
(* Properties. *)

Steps == {"idle", "recover", "resolve", "append", "save", "publish", "rebuild"}

\* Every variable has its type; the tables still to do are tables.
TypeOK ==
    /\ log \in [Tables -> Seq(Line)]
    /\ torn \in [Tables -> BOOLEAN]
    /\ header \in [Tables -> BOOLEAN]
    /\ sixb \in [Tables -> Seq(Line) \cup {None}]
    /\ metaTx \in Nat \cup {None}
    /\ revision \in Nat \cup {Dirty}
    /\ observed \in [Handles -> Nat \cup {Dirty, None}]
    /\ rows \in [Handles -> [Tables -> RowSet \cup {None}]]
    /\ nextTx \in [Handles -> (Nat \ {0}) \cup {None}]
    /\ layout \in [Handles -> SUBSET Tables]
    /\ writer \in Handles \cup {None}
    /\ step \in Steps
    /\ target \in Tables \cup {None}
    /\ todo \in SUBSET Tables
    /\ batch \in Seq(Change)
    /\ insertOnly \in BOOLEAN
    /\ faults \in Nat
    /\ partial \in SUBSET Tables

Coherent(h)  == \A t \in Tables : rows[h][t] \in {None, Rows(log[t])}
TxCurrent(h) == nextTx[h] \in {None, DiscoveredTx}

\* A revision that stands for the lines now in the chunks; 0 is no file.
NamesLog(r) == r = DiscoveredTx \/ (r = 0 /\ DiscoveredTx = 1)

\* refresh_if_revision_changed is enough: a handle that observed the clean
\* revision now on disk has cached nothing but the rows now on disk.
CleanCachesCurrent ==
    revision # Dirty => \A h \in Handles : observed[h] = revision => Coherent(h)

\* The rows append_batch_inner validates a batch against are those on disk,
\* also after the recovery of a dirty workspace.
WriterSeesDisk == step \in {"resolve", "append"} => Coherent(writer)

\* A clean revision names the log: it is one more than the last transaction in
\* any chunk, so two states with one clean revision have the same rows.
RevisionNamesLog == revision # Dirty => NamesLog(revision)

\* No transaction id is used twice, in any table, and they increase in a table.
TxUnique ==
    \A t, u \in Tables : \A i \in DOMAIN log[t], j \in DOMAIN log[u] :
      /\ t # u => log[t][i].tx # log[u][j].tx
      /\ t = u /\ i < j => log[t][i].tx < log[t][j].tx

\* Only a surviving proper prefix of a batch can break a unique lookup.
UniqueUnlessPartial == \A t \in Tables \ partial : UniqueKeys(Rows(log[t]))

\* No batch is appended behind an incomplete line or preamble.
AppendsAtCompleteTail ==
    step = "append" => ~torn[target] /\ (header[target] \/ rows[writer][target] = None)

\* The torn tails of all tables are cut off before a clean revision is published
\* again.  Writers see to it; init does not.
CleanMeansNoTornTail == revision # Dirty => \A t \in Tables : ~torn[t]

\* The metadata file never runs ahead of the chunks, whatever crashed.
MetadataBehindChunks == metaTx # None => metaTx <= DiscoveredTx

-------------------------------------------------------------------------------
(* The inductive invariant behind CleanCachesCurrent, WriterSeesDisk,      *)
(* RevisionNamesLog, TxUnique and RefinesTableDb: what a handle knows, by  *)
(* the revision it observed, and what the lock holder knows, by its step.  *)

\* No handle has seen a revision the chunks have not reached; one that has seen
\* the revision of these chunks, be it published again or not, is current.
ObservedOk(h) ==
    /\ observed[h] \in Nat => observed[h] <= DiscoveredTx
    /\ observed[h] \in Nat /\ NamesLog(observed[h]) => Coherent(h) /\ TxCurrent(h)
    /\ observed[h] = None => rows[h] = NoRows /\ nextTx[h] = None

\* The dirty marker does not tell one commit from the next, so a handle that
\* init could run in keeps no transaction counter across it.
DirtyOk(h) ==
    observed[h] = Dirty /\ (writer = h => step \in {"recover", "resolve", "rebuild"})
      => nextTx[h] = None

ObservedInv == \A h \in Handles : ObservedOk(h)
DirtyInv    == "init" \in Operations => \A h \in Handles : DirtyOk(h)

\* The lock is held from the first step of an operation to its release.
RequestInv ==
    /\ writer = None <=> step = "idle"
    /\ step \in {"recover", "resolve", "append"} => target \in Tables
    /\ step = "append" => batch \in Batches /\ revision = Dirty /\ observed[writer] = Dirty
    /\ step = "publish" => nextTx[writer] # None

\* What the lock holder has cached is current from the resolver on; init makes
\* it so table by table.
WriterInv ==
    /\ writer # None => observed[writer] # None
    /\ step \in {"resolve", "append", "save", "publish"} => Coherent(writer)
    /\ step \in {"resolve", "append", "save", "rebuild"} => TxCurrent(writer)
    /\ step = "rebuild" => \A t \in Tables \ todo : rows[writer][t] = Rows(log[t])
    /\ step = "publish" => nextTx[writer] = DiscoveredTx

\* The chunks hold a largest transaction id.
LogInv == \E m \in Txs : \A n \in Txs : n <= m

\* All of it together is inductive as long as no failed init leaves a stale
\* transaction counter behind.
CoherenceInv ==
    /\ LogInv
    /\ TxUnique
    /\ MetadataBehindChunks
    /\ RevisionNamesLog
    /\ ObservedInv
    /\ DirtyInv
    /\ RequestInv
    /\ WriterInv

-------------------------------------------------------------------------------
\* Whatever the revision, a handle that observed it serves the rows on disk.
CachesCurrent ==
    \A h \in Handles, t \in Tables :
      observed[h] = revision /\ writer = None => rows[h][t] \in {None, Rows(log[t])}

\* The batch between the dirty marker and the answer to it.
Submitted ==
    IF step = "append" THEN {[table |-> target, changes |-> batch, only |-> insertOnly]}
    ELSE {}

Db == INSTANCE TableDb WITH
        db <- [t \in Tables |-> Rows(log[t])],
        pending <- Submitted,
        Interruptible <- FaultKinds # {}

\* The tables change by the submitted batch, at most once, and only if it is
\* valid for the rows it changes; no recovery, init or rebuild loses, repeats or
\* reorders a row.
RefinesTableDb == Db!Spec

\* Whoever takes the workspace lock exclusively gives it back.
OperationsEnd == \A h \in Handles : writer = h ~> writer # h

InitPublishes == step = "publish" /\ batch = <<>>

\* A torn tail that lies under a dirty marker somebody left behind is cut off by
\* the writers that follow, whichever tables they write and whatever is refused or
\* interrupted meanwhile, unless an init publishes over it or an incomplete
\* preamble blocks the recovery.  What init has published over stays torn: the
\* table's writes are refused until somebody leaves the dirty marker again.
TornTailHealed ==
    \A t \in Tables :
      torn[t] /\ revision = Dirty /\ writer = None ~>
        ~torn[t] \/ InitPublishes \/ \E u \in Tables : ~header[u]
===============================================================================
