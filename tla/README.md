# TLA+ models of sixpack

sixpack is an embedded, local, append-only record store with a typed schema.
This directory holds TLA+ models of its storage engine and of what is built on
it, the TLC configurations that check them on small instances, and TLAPS proofs
of the main results for every value of the constants. `PROJECT.json` lists
components, runs, mutants, the source lines behind every definition, findings,
hazards and theorems.

## 1. Inventory

| component | where (under `packages/`) | state | operations |
|---|---|---|---|
| store: commit protocol | `sixpack-store/src/store.rs`, `store/{coordination,write,append}.rs` | on disk: `.6` chunks per table, `sixpack.toml`, `engine/revision`, the file lock; per handle: observed revision, caches | `resolve_and_append` (all writes), `init`, recovery of a dirty workspace |
| store: generated indexes | `store/{projection,cache,index}.rs` | `.6b` file per table; `sixb_cache`, `runtime_sixb_cache`, `row_cache` | `rebuild_sixb`, `ensure_sixb_snapshot`, incremental `apply_operation`, `compact_table` (feature) |
| store: reads | `store/read.rs` | none of its own | get by id, by lookup, pages, counts, under a shared lock |
| store: chunk files | `store/files.rs`, `append_target` | chunk names, next chunk counter, chunk length cache | rollover at 1 MiB, scan in read order, row pointers |
| database and plans | `sixpack/src/{database,request}.rs` | the store handle and a schema | insert, upsert, patch, remove, `write_many`, get, find, scan, count with a cursor |
| HTML data projection | `sixpack/src/projection.rs`, `sixpack/assets/data-projection.html` | `projection.html`, temporary files, a counter | a read of all chunks and the revision without the lock; the page replays the chunks |
| six format | `sixpack-format` | none | escaping, line and preamble codec, `.6b` codec |
| core types and schema | `sixpack-core` | none | runtime schema, its checks, its hash |
| schema compiler | `sixpack-schema-compiler` | none | parse, validate and hash a schema file; Rust and TypeScript output |
| command line and bridge | `sixpack-cli` | none; one process per call | init, generate, project; JSON request on stdin, response on stdout |
| TypeScript client | `sixpack-typescript` | the pending child | one child process per call, exit and output become an answer |
| test kit, applications, templates, benchmarks | `sixpack-testkit`, `apps`, `benchmark`, templates of the CLI | not part of the engine | |

How they interact. Every process opens its own handle (`LocalStore`); a handle
may be cloned and used by several threads, which then share its caches. Handles
meet only on the file system: an advisory lock on `engine/workspace.lock`
(shared for reads, exclusive for `resolve_and_append`, `init`, `rebuild_sixb`
and compaction) and the file `engine/revision`. At the start of every operation
`refresh_if_revision_changed` compares that file with the revision the handle
saw last and drops all caches when they differ. A write publishes the revision
`u64::MAX` (the *dirty marker*) before it touches the chunk and the next
transaction id after it; a writer that finds the marker recovers first. The
database resolves its plans inside that critical section. The bridge is one
more process per call of the TypeScript client; the export of `projection.html`
reads the files of all of them and takes no lock.

What is hard here: several processes and crashes between any two file system
calls; caches whose only guard is one number; one marker value for all
interrupted commits; two ways to compute the same index (incremental and
rebuilt) and the same transaction id (cached, metadata, chunks); operations
that fail half way and leave a living handle behind; cursors and client answers
that outlive the state they were computed from.

What makes each component correct:

* commit protocol: no committed row is lost or changed, transaction ids are
  unique, caches equal the disk when they are used, a batch is all or (after a
  crash) a prefix, the workspace always recovers, the lock is released;
* generated indexes: the incremental index is the rebuilt one, a lookup and the
  rows it names agree, an index file that is old or cut short is not used;
* reads: a page and its total are one snapshot, also with several threads;
* chunk files: a pointer names exactly its line, read order is write order,
  rollover never splits or repeats a line;
* six format: what is scanned is what was written, whatever it contains and
  wherever an append stopped;
* plans: a patch or a remove acts on the row as it is when it is written, a
  batch means its changes in any order, pages neither skip nor repeat;
* bridge and client: an answer tells what happened, every call is answered;
* schema: one table holds rows of one shape;
* HTML projection: a page shows tables the database went through, completely,
  and names a revision that covers them.

## 2. Plan

Done, in this order:

1. `TableRows`, `TableDb`, `SixpackStore` with proofs: the commit protocol and
   the abstract database it implements.
2. `RuntimeIndex` with proofs: the lookup maps and row cache, kept
   incrementally and rebuilt; justifies that `SixpackStore` abstracts a cache to
   its rows and a batch's validation to `ValidBatch`.
3. `ChunkFiles` with proofs: chunk counter from cache, metadata and directory, rollover,
   pointers, chunk caches, compaction; justifies that a table is one sequence of
   lines.
4. `SharedHandle` with proofs: the threads of one handle, step by step.
5. `Plans` and `Pages` with proofs: the database API, batches, and paging by
   offset under concurrent writes.
6. `SixFormat` with proofs: the bytes of chunks and index files.
7. `SchemaFiles` and `Bridge` with proofs: client calls, child processes, schema
   edits.
8. `Projection` with proofs: the export without the lock.

Left: the schema hash switching of one handle (`activate_schema`).

## 3. Modules

`TableRows` says what a sequence of `.6` lines means. A row is its id and the
key of one unique lookup; everything else in a record does not influence the
protocol. `Replay` is what a scan does with puts and deletes, `ValidBatch` the
checks of `append_batch_inner`.

`TableDb` is the promise: the rows of every table, which change by whole valid
batches of one table, one submitted batch (`pending`) at a time and each once,
checked against the rows they change; where appends can be interrupted, by a
prefix of such a batch.

**`SixpackStore`** is the commit protocol. Its state and the code:

| variable | code |
|---|---|
| `log`, `torn`, `header` | the chunks of a table: complete data lines, whether the last chunk lacks its final newline, whether its preamble is complete |
| `sixb` | the `.6b` file, as the lines whose hash it carries |
| `metaTx` | `next_tx` in `sixpack.toml` |
| `revision` | `engine/revision`; `Dirty` is `u64::MAX`, 0 no file |
| `observed`, `rows`, `nextTx`, `layout` | `observed_revision`; `sixb_cache`, `runtime_sixb_cache` and `row_cache` together; `next_tx_cache`; `layout_cache` |
| `writer`, `step`, `target`, `todo`, `batch`, `insertOnly` | the holder of the exclusive lock and where in its function it is |
| `faults`, `partial` | observers: faults so far, tables in which a proper prefix of a batch survived |

A write is `BeginWrite` or `BeginRecovery`, `RecoverTable` per table and
`FinishRecovery`; `ResolverReads`; `MarkDirty`; `AppendBatch` or `Reject`;
`SaveMetadata`; `PublishClean`. `init` is `BeginInit`, `InitTable` per table,
`FinishInit`, then the same two last steps. The steps are cut where a crash or a
failed call leaves a different state behind: all of it happens under the
exclusive lock. A read holds the shared lock and is one step. `Crash` may happen
at every step, `CrashInAppend` inside the write to the chunk; `FailAppend`,
`FailSave` and `FailPublish` are calls that return an error to a handle that
lives on. (A dirty marker that cannot be published leaves the state
`ResolverFails` leaves.) What an interrupted append leaves is chosen from
`Tears`: part of a line, a prefix of the batch in complete lines, a new chunk
with an incomplete preamble.

**`RuntimeIndex`** looks inside the caches of one handle for one table:

| variable | code |
|---|---|
| `lines` | the complete data lines of the table in read order; a position stands for a row pointer |
| `sixb` | the `.6b` file: ids with pointers, lookup entries, and the source hash, which is the lines hashed |
| `snapshot`, `runtime`, `records` | `sixb_cache`, `runtime_sixb_cache`, `row_cache` |
| `phase`, `done`, `batch`, `insertOnly` | where `append_batch_inner` is: its loops over the batch, in order *remove*, *check*, *apply*, then *write* |
| `working`, `validation`, `claimed` | its `cache`, `validation_cache` and `batch_unique` |

`BuildCache` is `rebuild_sixb_inner`, `FromCache` and `ToCache` are the
conversions of `RuntimeSixb`, `ApplyOperation` and `WithoutRow` its updates,
`Ensured` is `ensure_sixb_snapshot`. Each operation of a batch is a step of each
loop, so that the order of the operations and the state of the maps in between
are those of the code; nothing else runs meanwhile, because a write holds the
exclusive lock and the handle's caches are not read without it. `WriteFails`
leaves some lines; `OtherAppend` is a commit of another handle, which drops the
caches (that it does is the subject of `SixpackStore`). The implicit lookup on
`id` is left out: it repeats the map of ids.

**`ChunkFiles`** looks inside the chunk directory of one table:

| variable | code |
|---|---|
| `files` | counter -> chunk: whether its preamble can be read, its complete lines, whether it ends in an incomplete one |
| `metaChunk`, `revision` | `next_chunk` in `sixpack.toml`, `engine/revision` |
| `nextTx` | what `next_tx_id` returns, wherever it is cached |
| `observed`, `cache` | per handle `observed_revision`; `next_chunk_cache`, `chunk_len_cache`, `chunk_cache` and the pointers of the index |
| `lapsed` | history: a revision was published that does not name the lines on disk |

`Digits` is `encode_fixed_base36`, `ChunkName` `encode_reverse_base36`, `ReadBefore` the reversed
sort of `six_files_in_read_order`, `NextChunk` is `next_chunk_counter`,
`AppendTarget` is `append_target`, `LineUnder` is `read_row_pointer`: a pointer
reads a line only if its offset and length, sums of line sizes, are exactly
those of the line. A line has the size of its row, a chunk the size of its
preamble and lines. Operations are single steps here, because the lock keeps
others out; `InterruptWrite` and `InterruptPreamble` leave what a crash or a
failed call may leave. Two steps of the code publish a revision that does not
name what is on disk (section 7): `init` over the dirty marker and compaction of
a table without live rows. Both are actions; they set `lapsed`, after which the
properties promise nothing, and the run stops there (`CONSTRAINT UpToLapse`). So
does a compaction that stops: `InterruptCompaction` leaves the chunks that were
not yet removed (`AfterRemoving`, in the order of `six_files_in_read_order`), or
the compacted chunk that no metadata and no revision names. It may lose rows,
which the code does not promise to prevent; `NoOldRowReturns` says what it cannot
do, bring a row back that was deleted or replaced. A
handle keeps a chunk counter only through `Remembered`, `InitStore` and
`CompactTable`; a metadata write on behalf of another table, which counts the
chunks of this one too, is left out.

**`SharedHandle`** takes the reads apart: the threads of one handle hold the
workspace lock shared, so they run at the same time, and every cache has a lock
that is held for one access only. The workspace is clean here and has one
schema. On disk are `rows`, `revision` and the `.6b`
`file`; in the handle `observed`, `active`, `sixb`, `runtime` and `cached` (the
row cache); per thread `at`, `call`, `after`, `held`, `left`, `found`, `total`,
where its read is and what it has in its hands. There is one action per step:
`Compare`, one drop per cache, `Observe`, `Activate`, then the sources of an
index in the order in which `ensure_sixb_snapshot` and the runtime index try
them, then one row at a time. `Commit` (by this handle), `ForeignCommit` and
`ForeignRebuild` need the exclusive lock and are single steps.

**`SixFormat`** is the byte level of a chunk (`chunk`) and an index file
(`sixb`): escaping, columns, lines, the preamble, `scan_six_file`,
`raw_six_data_lines` (what the source hash is taken over), row pointers, the cut
of a torn tail, the encoding and reading of `.6b`. `written` is the history of
operations whose lines are complete. An append may stop after any byte. A byte
is a one-letter string and numbers are one byte, so that files stay short; a
character of two bytes keeps UTF-8 visible. `AppendBatch`, `InterruptedPreamble`
and `InterruptedAppend` are `append_batch_inner` when it is not, or is,
stopped; `truncate_incomplete_tail` and `rebuild_sixb` are named as in the code;
`LoseSixbTail` is what may be left of a file that was renamed without a sync.
Reading an index is a chain of readers, as in `BinaryReader`: each call takes
bytes behind the last one or fails, and a failure stays (`Take`, `RowFields`,
`Entries`). Loops over characters, lines and entries are recursive functions
over prefixes (`Concat`, `SplitN`, `Unescaped`, `Ascending`, `Entries`). Only
text fields are modelled, and of the lookups only the declared one.

**`Plans`** has the operators of the database API: `PlanCode` and `ManyCode` say
with which code a plan or a batch of plans is refused, `Resolved` into which
change a plan turns in the rows of one snapshot, `Changed` what the rows are
afterwards, `PageOf` and `Ahead` what a page holds and what is left for its
cursor. **`Pages`** is the machine: `Make` executes any call, a single plan or a
`write_many`, as one step (the critical section); one reader starts with a find
or a scan plan and asks for page after page (`ReadPage`) while calls change the
rows between. `reader` also keeps what the properties are about: how often each
row was `seen`, which rows `stayed` selected, whether one `joined` or `left`.

**`SchemaFiles`** has the operators that say what a schema file means: the
checks of the compiler (`Compiles`), its hash, the checks of the runtime schema
built from it (`Builds`), the preamble of a table. **`Bridge`** extends it and
`Plans`: the clients' `calls` with what each client and child process knows,
the `rows`, the preamble of each table's chunks (`shape`), the schema `file`,
and the history `commits`. `Issue` encodes a request and spawns a child,
`ReadSchema` and `Execute` are the two steps of the child, `InterruptedWrite`
its death or failure inside the store, `Kill` its death elsewhere, `Answer` what
the client makes of its exit and output, `EditSchema` another version of the
file. A child that dies before it has read a request larger than the pipe may
end the client instead: nobody listens to errors of `child.stdin`. `BreakPipe`
is that event; it takes the client's process with all the calls it waits for
(`gone`). What a prefix of a batch is comes from `SixpackStore`.

**`Projection`** is the export of `projection.html`, one action per file
operation: `Start` lists the tables, `ListTable` the chunks of one, `ReadChunk`
reads one, `ReadRevision`, then `OpenTemp`, `FillTemp` and `Publish` (the
rename); `ExportFails` at any point, and `Restart` kills the exports of the
process and resets its counter. Beside them a writer appends line by line
(`BeginWrite`, `CreateChunk`, `WritePreamble`, `AppendLine`, `EndWrite`) or stops
(`StopWrite`). `Shown` is the page's own replay of the chunks. A chunk is read
in one step although the operating system may take several: it only grows while
an export reads it, but for the cut of a torn tail, which is left out. `since`
is history: per table, the transactions that were there when the export began.

`SixpackStore_proofs`, `RuntimeIndex_proofs`, `ChunkFiles_proofs`,
`SharedHandle_proofs`, `SixFormat_proofs`, `Pages_proofs`, `Bridge_proofs` and
`Projection_proofs` hold the theorems and lemmas; the `MC*`
modules the definitions and symmetry sets of the runs.

How the modules fit together. `SixpackStore` implements `TableDb` (a refinement
that is checked and proved). `RuntimeIndex`, `ChunkFiles`, `SharedHandle` and
`SixFormat` open what `SixpackStore` takes for one step or one value: a cache,
a sequence of lines, a read, a line. `Pages` and `Bridge` use the store as
`TableDb` promises it. `TableRows` is shared by `TableDb`, `SixpackStore` and
`SharedHandle`, and `Plans` restates its `ValidBatch` for rows with two lookups.

## 4. Runs

| run | instance | shows |
|---|---|---|
| `StoreRecovery` | 2 handles, 2 tables, 2 transactions, 2 crashes, rebuild | caches of a handle that saw the clean revision equal the disk; a batch is validated against the disk; a clean revision names the log, and is published only after the torn tails are cut; ids are unique |
| `StoreBatches` | 2 handles, 2 ids, 2 keys, batches of 2, 1 fault of any kind, every tear, init | refinement of `TableDb`; metadata never runs ahead; only a surviving prefix breaks a unique lookup; nothing is appended behind a torn line |
| `StoreLiveness` | 1 handle that dies and comes back, 2 tables, writes and init, 2 transactions, torn lines and preambles, 2 faults of any kind | whoever holds the lock releases it; a torn tail under a dirty marker that was left behind is cut as long as somebody writes, unless an init publishes over it or an incomplete preamble blocks the recovery |
| `IndexUpdates` | 2 ids, a unique and a plain lookup with 2 keys each, batches of 2, 4 lines | the index kept by operation is the rebuilt one; the checks of a batch accept the valid ones and refuse no other; a lookup answers and counts the live rows with the key, from any cache or file |
| `Chunks` | 2 handles, 4 chunk names of 2 binary digits, chunks of 4 units, 3 transactions, batches of 2, 1 interruption of a write or a compaction, init, compaction | lines are read in commit order; pointers read live rows; a step adds lines behind all others or leaves every row as it was; a compaction that stops brings no old row back |
| `SharedReads` | 2 threads, 2 rows, 2 keys, 3 revisions, every kind of read | once a thread is past its refresh the caches hold nothing old; answers are committed rows; scans, counts and reads by id are exact |
| `SixBytes` | values with every escaped character, one an escape ends in, one of two bytes; 2 transactions, batches of 2 | the scan returns what was written; pointers and hash agree with it; an old or cut index file is not accepted; cutting the tail loses no line |
| `Pages` | 3 rows, 3 keys, 2 tags, pages of 1 or 2, cursors up to `MaxUsize`, every call and pair of calls | unique keys; a cursor skips nothing while rows only come, repeats nothing while they only go; the order in a batch does not matter; reading ends |
| `BridgeCalls` | 2 calls, 2 rows, 4 versions of the schema file (2 good, 1 that does not compile, 1 the runtime refuses) | what an answer says about the effect; awaited calls are in order; rows fit their table; a repeated add adds once; every call is answered, or its client died of a broken pipe |
| `HtmlExports` | 2 tables, 2 exports of one process, chunks of 1 line, batches of 2, 2 transactions, 1 stopped write | pages are whole and each table on them is one the database went through since the export began; a clean revision on a page covers its rows |
| `StaleUnderDirty`, `LookupDropsRows` | minimal | the findings (section 7) |

Bounds. Two handles are enough for every pairwise interplay of a cache with
another process's commit; commits of two others look to a cache like two commits
of one. Two tables show recovery of a table that is not written. Two
transactions allow a commit after an interrupted one, two faults a crash during
the recovery of a crash. `init` runs in `StoreBatches` and `StoreLiveness`; that
ids stay unique under `init` is proved for every bound, as far as it is true
(section 5). `StoreLiveness` has one handle: the properties are about the chunks
and the lock, nobody else takes part while the lock is held, and the next holder
differs from the last one by its caches, which a crash empties. In
`IndexUpdates` four lines allow two batches of two operations, so that two rows
exist and a later batch swaps their unique keys, replaces one and deletes the
other, or fails half way; both rows may hold one key of the plain lookup, and
one of them lose it. In `Chunks` a chunk holds one put and one delete or three
deletes, so that three transactions make one, two or three chunks, whose names
cross a digit, or leave one for a compaction; the last of the four names is not
reached. In `SharedReads` three revisions let a thread be overtaken by two
commits. In `Pages` three rows and pages of one or two give readings of up to
three pages, with insertions and deletions before, at and behind the cursor. In
`BridgeCalls` two calls overlap, follow one another or repeat one another; the
schema may be edited between any two steps. That a row may be added again after
a remove, the exception in `RetriedAddOnce`, takes a third call: TLC does not
reach it, the proof covers it. In `HtmlExports` a row has two
versions in two chunks, or two tables one each; a batch of two overfills a
chunk; MaxExports = 2 is the least at which temporary files can meet. Symmetry
is used for handles, tables, ids, keys, calls' keys and exporters, only in runs
without liveness. Runs in which everybody may stop (bounded transactions, calls
answered, exports done) do not check deadlock; that nobody waits for ever is
what `OperationsEnd`, `CallsEnd` and `ReadingEnds` say.

Fairness. `FairSpec` assumes that a lock holder that can continue does
(`WF` of its next steps): they are straight-line code. It assumes nothing of
faults, reads or new operations. `RetrySpec` adds that writers keep coming
(`SF` of `BeginRecovery`, because reads and other writers take the lock in
between). `StoreLiveness` runs under it because `TornTailHealed` states what
retries achieve; `OperationsEnd` needs only what `FairSpec` assumes. In `Pages`
the reader keeps asking (`WF` of `ReadPage`); nothing makes the callers act. In
`Bridge` a spawned child runs (`WF` of its two steps; the store's lock is
released, see `OperationsEnd`) and node delivers the end of a child (`WF` of
`Answer`); nothing is assumed of kills, broken pipes and edits.

## 5. Proofs

`SixpackStore_proofs` proves, for any sets of handles, tables, ids, keys and
any bounds: `TypeOK`; and, under the hypothesis `InitNeverFailsToSave` (no
save of the metadata or the revision fails, or no process runs `init`), the
invariants `CleanCachesCurrent`,
`WriterSeesDisk`, `TxUnique`, `RevisionNamesLog`, `MetadataBehindChunks`,
`UniqueUnlessPartial` and the refinement `RefinesTableDb`. The hypothesis is
needed: otherwise ids may be given twice (section 7).

None of these is inductive alone. `CoherenceInv` says in addition what a handle
knows by the revision it observed (`ObservedOk`: no handle has seen a revision
the chunks have not reached, and one that saw the revision of these very chunks
is current, even while the workspace is dirty), that a handle that saw the dirty
marker keeps no transaction counter where init could publish it (`DirtyOk`), and
what the lock holder knows at each step (`WriterInv`). The key fact is
that a clean revision is one more than the largest transaction in the chunks
(`RevisionNamesLog`), so that equal clean revisions mean equal chunks. The
refinement follows from `WriterSeesDisk` and the lemma that replaying a log with
a stamped batch appended is replaying the batch on the log's rows
(`ReplayAppended`).

`AppendsAtCompleteTail` holds under the same hypothesis, with `TailInv` on top.
A torn line is cut off, or refused, before the lock holder resolves a batch
(`TornInv`). A preamble that a crash cut short stays, and no cache is told of
it: that nobody appends behind one rests on the caches. Whoever has cached rows
of the table would skip the scan that refuses; but the crash left the dirty
marker, and the next clean revision is one that no such handle has observed
(`PublishesNews`), so whoever observed it has cached nothing of that table
(`CleanSees`).

`CleanMeansNoTornTail` is proved under a stronger hypothesis, that no process
runs `init` (`CleanTailsCorrect`): with it the property is false (section 7).
`CutInv` follows the tails through the steps of a writer:
a recovery has cut those of the tables it is done with; from the resolver on
every tail is cut; and an append, which alone tears one, runs under the dirty
marker, so that a writer that dies leaves the marker with the tail.

`RuntimeIndex_proofs` proves, for any ids, lookups, keys and bounds and without
further hypothesis: `TypeOK`, `RuntimeIsRebuilt`, `WorkingIsRebuilt`,
`RecordsAreLive`, `AcceptsOnlyValid`, `RefusesOnlyInvalid` and
`LookupsAnswerLines`. The inductive invariant `IndexInv` adds that the `.6b`
file is what a rebuild of the lines it names makes, that the validation index is
that of the rows the batch leaves alone (`ValidationInv`), and that exactly the
keys of the puts checked so far are claimed (`ClaimedInv`). The argument has
three layers: what `Live` and `Pointers` are after one more line (`LiveAppend`)
or a batch (`LiveConcat`); that each update of the maps takes the index of some
rows to the index of the changed rows (`Removed`, `Inserted`, `Applied`), which
needs the old record to be the live row or absent, hence `RecordsAreLive`; and
`ConflictMeans`, which reads the lookups of
`validate_put_unique_lookup_conflicts` as statements about rows and puts.

`ChunkFiles_proofs` proves, for any base and number of digits of the names, any
chunk size, handles, rows and batches: `TransactionsInReadOrder`,
`PointersReadLiveRows` and `LinesOnlyAppended`, each as long as `lapsed` is
false, as the properties say, and `NoOldRowReturns` of the step that ends this. The argument has four layers. Names: dividing and
taking remainders writes the digits that numbers are compared by
(`DigitsInOrder`), so the names in reverse are the chunks in the order of their
counters (`NamesInOrder`). Offsets: the ends of the lines of a chunk do not move
when lines are added (`EndsOfPrefix`), and the added lines end where a chunk of
their own would put them, moved by the old end (`EndsOfAdded`); `append_batch`
computes its pointers in this way. Growth: a chunk that grows at the end of the
last one keeps every line, puts the new ones behind all others and changes the
rows and pointers of their ids only (`GrownPlaces`, `GrownRows`). The invariant:
chunks are the first counters and metadata names no later one (`FilesInv`); the
next transaction is one above the largest written, so that a scan finds it
(`DiscoveredIs`); a clean revision is that transaction, and nobody has observed a
later one (`RevisionInv`); a handle that observed the clean revision caches what
the chunks hold (`CacheOk`), which is why its counter, length and offset are
those of the last chunk whatever it has read before (`TargetFacts`). A write or a
compaction publishes a revision that nobody has observed, so no other cache has
to be current. Compaction numbers the live ids by how many are smaller, which
names each of them once (`RankFacts`). A compaction that stops has removed the
chunks up to some counter, so a line that is left is followed by the same lines
as before, and the latest line of an id, which is the only one (`OneLatest`), is
the latest still or gone (`RemovedRows`). The induction over digits, lines and
counters that this needs is a lemma about sets of numbers (`UpwardsTo`). The
assumptions are those of the module: two digits or more, sizes that are positive
numbers, finitely many ids, sentinels that are no numbers or pointers.

`SharedHandle_proofs` proves, for any number of threads, rows, keys, calls and
commits: `TypeOK`, `RefreshedCachesCurrent`, `AnswersAreCommitted` and
`ScansAreExact`. The inductive invariant says of the handle that its
caches are current when it observed the revision on disk (`HandleInv`), of a thread in the
middle of its refresh that what it has emptied so far is still empty or current
again, because only threads past their refresh fill caches and a commit needs
all readers to be gone (`RefreshInv`), and of a
thread that answers that what it holds and has found is of the committed rows
(`AnswerInv`).

`Pages_proofs` proves, for any tables, rows, calls, batches and readings:
`TypeOK`, `KeysUnique`, `PagesSkipNothing`, `PagesRepeatNothing` and
`BatchIsItsChanges`. Uniqueness
follows because every accepted plan or batch resolves to changes that pass
`ValidBatch` (`StoreAccepts`, `PlanAccepts`). For the pages, the rank of a row
in the sorted selection can only grow while rows come and only shrink while
they go (`RankMonotone`); `SkipInv` therefore says that a row that stayed and is
behind the cursor was seen, and `AheadInv` that a row that is ahead of it was not.
That a batch is its changes rests on the uniqueness of keys *after* its first
change: a patch or remove resolved in the old rows or in the new ones finds by
its unique lookup the same single row (`ResolvedSame`), since the row it named is
not the changed one. The proofs assume that a plan's "no lookup" is not the name
of a lookup (`NoneIsNoLookup`). The facts about plans and batches that `Bridge_proofs`
needs too are repeated there.

`Bridge_proofs` proves, for any calls, clients, versions and edits of the schema
file: `AnswerTellsEffect`, `EffectsInRealTime`, `RowsFitTheirTable` and
`RetriedAddOnce`. `AnswerInv` says what each child and client can know before an
answer: nothing is in effect and nothing is responded until the child has
ended, and its response tells what is in effect. A broken pipe changes the
records of several calls at once, but in each only what these parts leave open
(`PipeInv`). `OrderInv` says that a call answered when another was made never
commits again. `SchemaInv` says that a child that is ready holds the schema its
client was generated from, because the hash is compared after the file is read,
and that the tables of those that committed have its preamble. `AddedInv` says
that a row once added is there until a remove of its table is committed, so that
a second add with the same id is refused. The assumptions on the constants are
that requests are such as the generated clients make (`RequestsAsk`: one plan of
the request's operation, or the plans of a `write_many`, with values of the
fields' types unless they hold one of the two values that no type takes) and
that the sentinel `None` is no version (`NoneIsNothing`).

`Projection_proofs` proves, for any tables, exporters, batches and chunk sizes:
`PageIsRecent` and `RevisionCoversPage`. Chunks only grow, and only the newest
of a table (`Grown`). An export lists a table's chunks and reads the newest one
first; `Copied` says that its copies are the listed chunks, the first of them
perhaps without lines that came after it was read, and that they hold every line
of `since`. It survives growth (`CopiedGrows`), because what is appended to the
newest listed chunk, or to chunks after it, comes behind the end of the first
copy. Turned over, the copies of a whole listing are the table up to some line
(`CopiedShown`). `BelowOk` says that the copies are below the next transaction
while tables are read; the revision is read last, and a clean one is the next
transaction (`CleanInv`), since a writer sets the dirty marker before its first
line. `NamesInv` says that two exports never hold the same temporary name. The
assumptions are that `TableOrder` lists each table once and that the sentinels
are no pages, batches or revisions.

`SixFormat_proofs` proves, for any characters, ids, values and batches:
`ScanIsWritten`, `EntriesReadBack`, `AcceptedIndexIsCurrent` and
`CuttingKeepsLines`. Neither invariant is about a step: both say what a file can
be. `ChunkInv` says that the chunk is empty, or a part of the preamble, or the
preamble, the lines of `written`, numbered 1, 2, ..., and a part of one line
more. `SixbInv` says that the index file is a prefix of the file that a rebuild
made of the first *m* operations, for some *m*. Each property then follows from
what reading makes of such a file:

* Values: an escaped text holds no tab and no line break (`Safe`), and reading
  it gives back the text (`UnescapeMore`), also if it ends in a backslash or in
  a letter of an escape. So a line splits at its own tabs and decodes to its
  operation (`DecodeEncode`).
* Lines: bytes that are lines with their newlines and a rest without one are
  split into just these, the rest being the tail (`HoldsScanned`). A line of the
  preamble is told from an operation by its first byte, and no line ends in a
  carriage return that trimming would take away.
* Characters: the bytes of a text are UTF-8 and are read back as the text; a
  tail that ends inside a character is not, which is why the first two
  properties have the hypothesis `Readable` and the cut needs none.
* Index: a reader over the bytes of an entry returns the entry, or fails when
  the file ends before it does (`ReadsEntry`), by induction over the entries. A
  prefix of an index file therefore decodes only if it is the whole file, and
  then to the index it was made of; the source then tells whether *m* is all of
  `written`. Offsets and lengths fit into their numbers because the chunk does
  (`MaxNumber`).

What a recursive function over a sequence computes is not reachable by the
induction theorems of the library, which take an operator as a parameter. The
induction is a lemma about sets instead (`UpwardsTo`, `ByAppending`: a set of
sequences that holds the empty one and with each its extensions holds all), and
that a recursive function exists and is the only one is a lemma too
(`Recursion`, `Alike`), from which `ConcatAppend`, `SplitNAppend`,
`UnescapedAppend` and the like give each operator's value on a sequence with one
element more. The assumptions are those of the module: the digits of different
numbers differ and are no separators, and ids and values are texts.

Only model-checked: the liveness properties (`OperationsEnd`, `TornTailHealed`,
`ReadingEnds`, `CallsEnd`), which are out of the prover's reach, and the two
findings, which are counterexamples. Every other property of a passing run is
proved, those of the store under the hypotheses named above.
The inductive invariants are in no run: their parts that say something of the
program are, and the proofs cover the rest.

## 6. Not modelled

* Power loss: `sync_data` is taken to work, and directory entries are taken to
  be durable; a crash is the death of a process.
* Hash collisions of the 64-bit source hash and of the schema hash.
* Transaction ids near `u64::MAX`, and the last of the 46656 chunk names.
* Several schemas used with one handle at a time; `Bridge` has several
  schemas, but one per process.
* What a table is worth after a compaction stopped half way, beyond
  `NoOldRowReturns`, and an export of `projection.html` during a compaction. The
  feature is experimental and off by default, and the docs say that its crash
  boundary is not hardened; between the removal of the old chunks and the rename
  of the new one a reader without the lock finds no rows.
* The legacy lines without a tag, which are read but not written, and the text
  form of `.6b`.
* The lexer and parser of schema files, the Rust and TypeScript emitters, the
  typed macros, `starter.rs`: text to text without state.
* The layout, the search box and the reloading of `projection.html`.
* Test kit, applications, templates and benchmarks: users of the public
  interface, whose requests are the calls of `Pages` and `Bridge`.

## 7. Where the code and what is said of it part

Two runs show a disagreement with the repository's own words:

* `StaleUnderDirty`: the dirty marker is one value for all refused or
  interrupted commits. A handle that read under one of them keeps its caches
  under the next, although another process committed in between.
* `LookupDropsRows`: a lookup takes its ids and then the entry of each id from
  the shared runtime index. If another thread drops that index between the two,
  the rows are left out without an error.

Others were met while modelling. They are behaviours of the models above, which
the properties except by name or by a hypothesis or history variable, or details
the models leave out:

* `init` over a dirty marker publishes a clean revision without cutting the torn
  tail of an interrupted append. From then on `ensure_complete_tail` refuses
  every write of that table ("incomplete .6 tail in clean workspace",
  `append.rs:232-253`) and no writer recovers, until some other write is refused
  or interrupted after it set the marker, so that the next one cuts the tail.
  `TornTailHealed` excepts it (`InitPublishes`), `CleanTailsCorrect` excludes it:
  TLC violates `CleanMeansNoTornTail` with one handle, one table, writes, `init`
  and one crash. That nothing is appended behind such a tail is
  `AppendsAtCompleteTail`.
* A chunk torn inside its preamble fails the header check before the recovery can
  cut it, and blocks the writes of all tables until somebody repairs it.
  `TornTailHealed` excepts it (`header`). A preamble that lacks only its last
  newline passes the check, is cut, and is refused from then on; `SixpackStore`
  refuses it at once.
* A handle whose `init` failed to save, or whose write failed only to publish,
  keeps its transaction counter under the dirty marker. Another process commits
  and has a batch refused; the first handle finds the marker it observed, its
  next `init` publishes the old counter, and its next write repeats a
  transaction id. `InitNeverFailsToSave` excludes it: TLC violates `TxUnique`
  with two handles, `init`, three transactions and one failing save.
* A child that dies before it has read its request may end the client by an
  unhandled EPIPE of `child.stdin` instead of failing the call with
  `bridge_failed` (`gone`, the exception in `CallsEnd`).
* A handle that observed the same revision before an `init` over a dirty marker
  keeps the lengths of chunks that have grown since (`lapsed` in `ChunkFiles`).
* Compaction of a table without live rows publishes the revision that is
  already on disk, so that other handles keep their caches (`lapsed`).
* A refused batch leaves the dirty marker behind, and with it a recovery for the
  next writer, although nothing was written.
* A prefix of a batch that survives a crash may hold a put without the change
  that freed its unique key (`partial`, `UniqueUnlessPartial`).
* A scan decodes a torn last line before it ignores it, and fails if the line
  ends inside a character; a write cuts it off. `docs/file-format.md` says that
  recovery ignores the line. `SixpackStore` always ignores it.
* Of two overlapping exports the one that began earlier may be renamed last, so
  that `projection.html` can become older than it was (`PageIsRecent` bounds how
  old: no older than the start of its export).
