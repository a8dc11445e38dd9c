------------------------------ MODULE ChunkFiles ------------------------------
(***************************************************************************)
(* The `.6` chunk files of one table, which SixpackStore and RuntimeIndex  *)
(* take for one sequence of lines: how chunks are named and ordered, how   *)
(* an append chooses between the current chunk and a new one, what a       *)
(* handle caches of them (counter, lengths, bytes, row pointers) and       *)
(* compaction.  An operation holds the workspace lock, so it is one step;  *)
(* SixpackStore takes it apart.  Failures inside init are left out; of     *)
(* what follows a failure inside compaction nothing is claimed, here or in *)
(* the docs.                                                               *)
(*                                                                         *)
(* A chunk is its complete data lines behind a preamble.  A line has a     *)
(* size, and offsets, lengths and the capacity of a chunk are sums of      *)
(* sizes.  Left out, being the subject of the other modules: the `.6b`     *)
(* file, whose pointers are those of a scan, the row cache, and how each   *)
(* handle finds the next transaction id.                                   *)
(***************************************************************************)
EXTENDS Integers, Sequences, FiniteSets

CONSTANTS
    Handles,        \* LocalStore handles, one per process
    Ids,            \* row ids, ordered
    Rows,           \* row values; a value is the size of its line
    None,           \* an absent value; the row of a delete
    Dirty,          \* the revision u64::MAX
    Base, Width,    \* CHUNK_BASE and CHUNK_WIDTH: digits of a chunk name
    Preamble,       \* size of the preamble of a chunk
    Capacity,       \* MAX_SIX_CHUNK_BYTES
    Operations,     \* what handles do beside reads and writes: "init", "compact"
    MaxBatch,       \* bound: operations per write batch
    MaxTx,          \* bound: transaction ids handed out
    MaxFaults       \* bound: interrupted writes

Line    == [tx : Nat \ {0}, id : Ids, row : Rows \cup {None}]
Change  == [id : Ids, row : Rows \cup {None}]
\* A batch touches no id twice; the other checks are those of RuntimeIndex.
Batches == {b \in UNION {[1..n -> Change] : n \in 1..MaxBatch} :
              \A i, j \in DOMAIN b : i # j => b[i].id # b[j].id}

ASSUME NameAssumption     == Base \in Nat \ {0, 1} /\ Width \in Nat \ {0}
ASSUME SizeAssumption     == Rows \subseteq Nat \ {0} /\ Preamble \in Nat \ {0} /\ Capacity \in Nat
ASSUME SentinelAssumption ==
    /\ None \notin Nat /\ Dirty \notin Nat /\ None # Dirty
    /\ None \notin [chunk : Nat, offset : Nat, len : Nat]
ASSUME IdAssumption       == Ids \subseteq Nat /\ IsFiniteSet(Ids)
ASSUME BoundAssumption    == MaxBatch \in Nat /\ MaxTx \in Nat /\ MaxFaults \in Nat

VARIABLES
    files,          \* chunk counter -> chunk, for the chunks of the table directory
    metaChunk,      \* next_chunk in the metadata file
    revision,       \* the revision file
    nextTx,         \* the next transaction id
    observed,       \* handle -> observed_revision
    cache,          \* handle -> next_chunk_cache, chunk_len_cache, chunk_cache, index
    faults,         \* interrupted writes so far
    lapsed          \* history: a revision was published that does not name the
                    \* chunks, by compaction of a table without live rows or by
                    \* init over the dirty marker; or a compaction stopped

vars == <<files, metaChunk, revision, nextTx, observed, cache, faults, lapsed>>

-------------------------------------------------------------------------------
(* Names and read order. *)

\* CHUNK_BASE.pow
Power[k \in 0..Width] == IF k = 0 THEN 1 ELSE Base * Power[k - 1]

MaxChunks == Power[Width]
Counters  == 0..MaxChunks-1

\* What encode_fixed_base36 has left of n after each of its divisions.
Rest(n) ==
    LET rest[k \in 0..Width] == IF k = 0 THEN n ELSE rest[k - 1] \div Base
    IN  rest

\* encode_fixed_base36: the last digit comes first.
Digits(n) == [i \in 1..Width |-> Rest(n)[Width - i] % Base]

\* Mutant of ChunkName: the counter is not reversed.
ForwardName == [n \in Counters |-> Digits(n)]

\* encode_reverse_base36: newer chunks have smaller names.
ChunkName == [n \in Counters |-> Digits(MaxChunks - 1 - n)]

\* six_files_in_read_order: names sorted, then reversed.
ReadBefore(a, b) ==
    \E i \in 1..Width :
      /\ ChunkName[a][i] > ChunkName[b][i]
      /\ \A j \in 1..i-1 : ChunkName[a][j] = ChunkName[b][j]

IsLastChunk(f, c) == c \in DOMAIN f /\ \A d \in DOMAIN f : ~ReadBefore(c, d)

-------------------------------------------------------------------------------
(* Lines, places and pointers. *)

Size(line) == IF line.row = None THEN 1 ELSE line.row

\* Where each line of a chunk ends; the preamble is its line 0.
Ends(lines) ==
    LET end[i \in 0..Len(lines)] ==
          IF i = 0 THEN Preamble ELSE end[i - 1] + Size(lines[i])
    IN  end

\* The offset of line n of a chunk, and of its end.
Offset(lines, n) == Ends(lines)[n - 1]

Length(chunk) == Offset(chunk.lines, Len(chunk.lines) + 1) + IF chunk.torn THEN 1 ELSE 0

Places(f)     == UNION {{c} \X DOMAIN f[c].lines : c \in DOMAIN f}
LineAt(f, p)  == f[p[1]].lines[p[2]]
Earlier(p, q) == ReadBefore(p[1], q[1]) \/ (p[1] = q[1] /\ p[2] < q[2])

\* scan_table_files: the last line of an id says whether it is live, and where.
Latest(f, id) ==
    {p \in Places(f) : /\ LineAt(f, p).id = id
                       /\ \A q \in Places(f) : LineAt(f, q).id = id => ~Earlier(p, q)}
LatestPlace(f, id) == CHOOSE p \in Latest(f, id) : TRUE

LiveRow(f, id) ==
    IF Latest(f, id) = {} THEN None ELSE LineAt(f, LatestPlace(f, id)).row

PointerTo(f, p) ==
    [chunk |-> p[1], offset |-> Offset(f[p[1]].lines, p[2]), len |-> Size(LineAt(f, p))]
Index(f) ==
    [id \in Ids |-> IF LiveRow(f, id) = None THEN None
                    ELSE PointerTo(f, LatestPlace(f, id))]

\* read_row_pointer in the bytes of a chunk: the line the pointer covers.
LineUnder(lines, ptr) ==
    {lines[i] : i \in {j \in DOMAIN lines : /\ Offset(lines, j) = ptr.offset
                                            /\ Size(lines[j]) = ptr.len}}

\* verify_header of every chunk.
Readable(f) == \A c \in DOMAIN f : f[c].readable
TornTail(f) == \E c \in DOMAIN f : IsLastChunk(f, c) /\ f[c].torn

-------------------------------------------------------------------------------
(* Caches. *)

Nothing == [c \in {} |-> None]
NoCache == [next |-> None, len |-> Nothing, bytes |-> Nothing, index |-> None]

\* Entries are set and removed chunk by chunk.
With(f, c, v) == [x \in DOMAIN f \cup {c} |-> IF x = c THEN v ELSE f[x]]
Without(f, c) == [x \in DOMAIN f \ {c} |-> f[x]]

\* Mutant of Refreshed: the caches outlive a commit of another handle.
AsCached(h) == cache[h]

\* refresh_if_revision_changed
Refreshed(h) == IF observed[h] \notin {revision, None} THEN NoCache ELSE cache[h]

\* Mutants of NextChunk: the directory is not counted; the last counter for the next.
NextChunkOfMetadata(m) ==
    IF m.next # None THEN m.next ELSE IF metaChunk # None THEN metaChunk ELSE 0
LastChunkCounter(m) ==
    IF m.next # None THEN m.next
    ELSE IF metaChunk # None /\ metaChunk > Cardinality(DOMAIN files) THEN metaChunk
    ELSE Cardinality(DOMAIN files) - 1

\* next_chunk_counter: cached, else the metadata or the number of files.
NextChunk(m) ==
    IF m.next # None THEN m.next
    ELSE IF metaChunk # None /\ metaChunk > Cardinality(DOMAIN files) THEN metaChunk
    ELSE Cardinality(DOMAIN files)

\* read_chunk keeps the bytes and the length it read.
ReadChunk(m, c) ==
    IF c \in DOMAIN m.bytes \/ c \notin DOMAIN files THEN m
    ELSE [m EXCEPT !.bytes = With(@, c, files[c].lines),
                   !.len = With(@, c, Length(files[c]))]

-------------------------------------------------------------------------------
(* Reads. *)

\* An operation that is refused before it changes anything, or needs no chunk.
Observe(h) ==
    /\ observed' = [observed EXCEPT ![h] = revision]
    /\ cache' = [cache EXCEPT ![h] = Refreshed(h)]
    /\ UNCHANGED <<files, metaChunk, revision, nextTx, faults, lapsed>>

\* A read of a row by its pointer, from the cached index or a scan.
Read(h, id) ==
    LET m == Refreshed(h)
        index == IF m.index # None THEN m.index ELSE Index(files)
        n == [m EXCEPT !.index = index]
    IN  /\ m.index # None \/ Readable(files)
        /\ observed' = [observed EXCEPT ![h] = revision]
        /\ cache' = [cache EXCEPT ![h] = IF index[id] = None THEN n
                                         ELSE ReadChunk(n, index[id].chunk)]
        /\ UNCHANGED <<files, metaChunk, revision, nextTx, faults, lapsed>>

-------------------------------------------------------------------------------
(* Writes. *)

\* truncate_incomplete_tail cuts the last chunk only.
CutTail(f) ==
    [c \in DOMAIN f |-> IF IsLastChunk(f, c) THEN [f[c] EXCEPT !.torn = FALSE] ELSE f[c]]

\* prepare_workspace_for_write: a dirty workspace is repaired and the caches
\* dropped, a clean one must end in a complete line.
MayWrite         == revision = Dirty \/ ~TornTail(files)
PreparedFiles    == IF revision = Dirty THEN CutTail(files) ELSE files
PreparedCache(h) == IF revision = Dirty THEN NoCache ELSE Refreshed(h)

\* Transaction ids are handed out one per operation.
Stamped(b) == [i \in DOMAIN b |-> [tx |-> nextTx + i - 1, id |-> b[i].id, row |-> b[i].row]]

BatchSize(lines) == Offset(lines, Len(lines) + 1) - Preamble

\* Mutant of CachedLength: rows are counted without the preamble.
LengthOfRows(m, c) == Length(PreparedFiles[c]) - Preamble

\* The length of a chunk, from the cache or the file.
CachedLength(m, c) == IF c \in DOMAIN m.len THEN m.len[c] ELSE Length(PreparedFiles[c])

\* append_target: the newest chunk if the batch fits, else the next one.
AppendTarget(m, size) ==
    LET next == NextChunk(m)
        last == next - 1
    IN  IF /\ last \in DOMAIN PreparedFiles
           /\ CachedLength(m, last) + size <= Capacity
        THEN [chunk |-> last, offset |-> CachedLength(m, last), next |-> next, isNew |-> FALSE]
        ELSE [chunk |-> next, offset |-> Preamble, next |-> next + 1, isNew |-> TRUE]

TargetOf(h, b) == AppendTarget(PreparedCache(h), BatchSize(Stamped(b)))

\* A batch can be appended as long as there is a chunk for it; create_new fails
\* if the new chunk exists.
Appendable(b) == MayWrite /\ Readable(files) /\ nextTx + Len(b) - 1 <= MaxTx
Available(target) ==
    target.isNew => target.chunk \in Counters /\ target.chunk \notin DOMAIN files

\* The files after the lines were written behind the preamble of a new chunk or
\* at the end of the file, where they are glued to an incomplete line.
Appended(target, lines, torn) ==
    With(PreparedFiles, target.chunk,
         IF target.isNew THEN [readable |-> TRUE, torn |-> torn, lines |-> lines]
         ELSE LET old == PreparedFiles[target.chunk]
              IN  [readable |-> old.readable /\ ~old.torn, torn |-> torn,
                   lines |-> old.lines \o lines])

\* The index after apply_operation of every line.
Applied(index, target, lines) ==
    [id \in Ids |->
       LET touched == {i \in DOMAIN lines : lines[i].id = id}
           i == CHOOSE j \in touched : TRUE
       IN  IF touched = {} THEN index[id]
           ELSE IF lines[i].row = None THEN None
           ELSE [chunk |-> target.chunk, len |-> Size(lines[i]),
                 offset |-> target.offset + Offset(lines, i) - Preamble]]

\* What a handle caches after its append: a new chunk is remembered, one that
\* was extended is forgotten.
Remembered(m, target, lines) ==
    [next  |-> target.next,
     len   |-> IF target.isNew THEN With(m.len, target.chunk, Preamble + BatchSize(lines))
               ELSE Without(m.len, target.chunk),
     bytes |-> IF target.isNew THEN With(m.bytes, target.chunk, lines)
               ELSE Without(m.bytes, target.chunk),
     index |-> Applied(IF m.index # None THEN m.index ELSE Index(PreparedFiles), target, lines)]

\* write_metadata runs only after a batch of several operations, or if there is
\* no metadata yet.
SaveMetadata(b, next) ==
    metaChunk' = IF Len(b) > 1 \/ metaChunk = None THEN next ELSE metaChunk

Publish(h, r) ==
    /\ revision' = r
    /\ observed' = [observed EXCEPT ![h] = r]

\* A batch is committed.  If the clean revision cannot be published, the lines,
\* the metadata and the caches stay.
Write(h, b) ==
    /\ Appendable(b)
    /\ LET target == TargetOf(h, b)
       IN
        /\ Available(target)
        /\ files' = Appended(target, Stamped(b), FALSE)
        /\ cache' = [cache EXCEPT ![h] = Remembered(PreparedCache(h), target, Stamped(b))]
        /\ SaveMetadata(b, target.next)
        /\ nextTx' = nextTx + Len(b)
        /\ \/ Publish(h, nextTx') /\ UNCHANGED faults
           \/ faults < MaxFaults /\ Publish(h, Dirty) /\ faults' = faults + 1
        /\ UNCHANGED lapsed

\* A write refused behind the dirty marker: by the scan of the chunks, by the
\* validation, by a full counter or by an I/O error before the first byte.  A
\* handle that verified the headers earlier gets here past an unreadable chunk.
RefuseWrite(h) ==
    /\ MayWrite
    /\ files' = PreparedFiles
    /\ Publish(h, Dirty)
    /\ cache' = [cache EXCEPT ![h] = NoCache]
    /\ UNCHANGED <<metaChunk, nextTx, faults, lapsed>>

\* The writer dies, or its write or its save of the metadata fails, when n lines
\* and maybe a part of the next are in the chunk.
InterruptWrite(h, b) ==
    /\ faults < MaxFaults
    /\ Appendable(b)
    /\ LET target == TargetOf(h, b)
       IN  /\ Available(target)
           /\ \E n \in 0..Len(b), torn \in BOOLEAN :
                /\ torn => n < Len(b)
                /\ files' = Appended(target, SubSeq(Stamped(b), 1, n), torn)
                /\ nextTx' = nextTx + n
    /\ revision' = Dirty
    /\ observed' \in {[observed EXCEPT ![h] = r] : r \in {Dirty, None}}
    /\ cache' = [cache EXCEPT ![h] = NoCache]
    /\ faults' = faults + 1
    /\ UNCHANGED <<metaChunk, lapsed>>

\* The same inside the preamble of a new chunk, which leaves it unreadable.
InterruptPreamble(h, b) ==
    /\ faults < MaxFaults
    /\ Appendable(b)
    /\ LET target == TargetOf(h, b)
       IN  /\ Available(target)
           /\ target.isNew
           /\ files' = With(PreparedFiles, target.chunk,
                            [readable |-> FALSE, torn |-> TRUE, lines |-> <<>>])
    /\ revision' = Dirty
    /\ observed' \in {[observed EXCEPT ![h] = r] : r \in {Dirty, None}}
    /\ cache' = [cache EXCEPT ![h] = NoCache]
    /\ faults' = faults + 1
    /\ UNCHANGED <<metaChunk, nextTx, lapsed>>

-------------------------------------------------------------------------------
(* init and compact_table. *)

InitStore(h) ==
    LET m == Refreshed(h)
    IN  /\ "init" \in Operations
        /\ Readable(files)
        /\ cache' = [cache EXCEPT ![h] = [m EXCEPT !.index = Index(files), !.next = NextChunk(m)]]
        /\ metaChunk' = NextChunk(m)
        /\ Publish(h, nextTx)
        /\ lapsed' = (lapsed \/ revision = Dirty)
        /\ UNCHANGED <<files, nextTx, faults>>

LiveIds == {id \in Ids : LiveRow(files, id) # None}
Rank(id) == Cardinality({i \in LiveIds : i < id})

\* discovered_next_tx_id
DiscoveredTx ==
    LET txs == {0} \cup {LineAt(files, p).tx : p \in Places(files)}
    IN  (CHOOSE m \in txs : \A n \in txs : n <= m) + 1

CompactedLines ==
    [i \in 1..Cardinality(LiveIds) |->
       LET id == CHOOSE x \in LiveIds : Rank(x) = i - 1
       IN  [tx |-> DiscoveredTx + i - 1, id |-> id, row |-> LiveRow(files, id)]]

\* The live rows are rewritten, in the order of their ids, to chunk 0.
CompactedFiles == [c \in {0} |-> [readable |-> TRUE, torn |-> FALSE, lines |-> CompactedLines]]

CompactedCache ==
    [next  |-> 1,
     len   |-> With(Nothing, 0, Length(CompactedFiles[0])),
     bytes |-> With(Nothing, 0, CompactedLines),
     index |-> Index(CompactedFiles)]

CompactTable(h) ==
    /\ "compact" \in Operations
    /\ Readable(files)
    /\ DiscoveredTx + Cardinality(LiveIds) - 1 <= MaxTx
    /\ files' = CompactedFiles
    /\ nextTx' = DiscoveredTx + Cardinality(LiveIds)
    /\ cache' = [cache EXCEPT ![h] = CompactedCache]
    /\ metaChunk' = 1
    /\ Publish(h, nextTx')
    /\ lapsed' = (lapsed \/ LiveIds = {})
    /\ UNCHANGED faults

\* Mutant of AfterRemoving: the newest chunks are removed first.
AfterRemovingNewest(c) == [d \in {e \in DOMAIN files : ReadBefore(e, c)} |-> files[d]]

\* What is left when the chunks are removed in read order up to c.
AfterRemoving(c) == [d \in {e \in DOMAIN files : ReadBefore(c, e)} |-> files[d]]

\* The handle is gone, or an error leaves it with one of these caches.
Stopped(h, caches) ==
    \/ /\ observed' = [observed EXCEPT ![h] = None]
       /\ cache' = [cache EXCEPT ![h] = NoCache]
    \/ /\ observed' = [observed EXCEPT ![h] = revision]
       /\ cache' \in {[cache EXCEPT ![h] = m] : m \in caches}

\* compact_table dies or fails while it removes the chunks, before the rename, or
\* between the rename and the revision.  The next transaction may then come from
\* metadata older than the chunks.
InterruptCompaction(h) ==
    /\ "compact" \in Operations
    /\ faults < MaxFaults
    /\ Readable(files)
    /\ \/ /\ \E c \in DOMAIN files : files' = AfterRemoving(c)
          /\ nextTx' \in 1..nextTx
          /\ Stopped(h, {Refreshed(h)})
          /\ UNCHANGED metaChunk
       \/ /\ DiscoveredTx + Cardinality(LiveIds) - 1 <= MaxTx
          /\ files' = CompactedFiles
          /\ nextTx' = DiscoveredTx + Cardinality(LiveIds)
          /\ metaChunk' \in {metaChunk, 1}
          /\ Stopped(h, {Refreshed(h), CompactedCache})
    /\ lapsed' = TRUE
    /\ faults' = faults + 1
    /\ UNCHANGED revision

-------------------------------------------------------------------------------
Init ==
    /\ files = Nothing
    /\ metaChunk = None
    /\ revision = 0
    /\ nextTx = 1
    /\ observed = [h \in Handles |-> None]
    /\ cache = [h \in Handles |-> NoCache]
    /\ faults = 0
    /\ lapsed = FALSE

Next ==
    \E h \in Handles :
      \/ Observe(h)
      \/ \E id \in Ids : Read(h, id)
      \/ \E b \in Batches : \/ Write(h, b)
                            \/ InterruptWrite(h, b)
                            \/ InterruptPreamble(h, b)
      \/ RefuseWrite(h)
      \/ InitStore(h)
      \/ CompactTable(h)
      \/ InterruptCompaction(h)

Spec == Init /\ [][Next]_vars

-------------------------------------------------------------------------------
(* Properties. *)

\* A handle that keeps its caches because it observed the clean revision on disk.
Coherent(h) == observed[h] = revision /\ revision # Dirty

\* The lines are read in the order in which they were committed, whatever chunks
\* they are in: a later commit is never replayed before an earlier one.  It fails
\* once a revision does not name the chunks: a handle that observed the same
\* revision before keeps the names and lengths of chunks that are gone.
TransactionsInReadOrder ==
    ~lapsed => \A p, q \in Places(files) : Earlier(p, q) => LineAt(files, p).tx < LineAt(files, q).tx

\* Every pointer in the index of a coherent handle reads the live row of its id,
\* from the cached bytes or the file, and rows without a pointer are not live.
PointersReadLiveRows ==
    ~lapsed => \A h \in Handles : Coherent(h) /\ cache[h].index # None =>
      \A id \in Ids :
        LET ptr   == cache[h].index[id]
            lines == IF ptr.chunk \in DOMAIN cache[h].bytes THEN cache[h].bytes[ptr.chunk]
                     ELSE files[ptr.chunk].lines
        IN  IF ptr = None THEN LiveRow(files, id) = None
            ELSE /\ LiveRow(files, id) # None
                 /\ \E line \in LineUnder(lines, ptr) :
                      line.id = id /\ line.row = LiveRow(files, id)

\* Every step adds lines behind all others or leaves every row as it was: no
\* rollover, recovery or compaction changes a row, unless it is a compaction that
\* stops.
LinesOnlyAppended ==
    [][\/ lapsed
       \/ lapsed' /\ faults' = faults + 1
       \/ \A p \in Places(files) :
            /\ p \in Places(files') /\ LineAt(files', p) = LineAt(files, p)
            /\ \A q \in Places(files') \ Places(files) : Earlier(p, q)
       \/ \A id \in Ids : LiveRow(files', id) = LiveRow(files, id)]_files

\* Wherever a compaction stops, the rows it leaves are live rows as they were: it
\* loses rows, but no removed row and no old version of a row comes back, because
\* a chunk is removed before the chunks that overrule it (compact_table).
NoOldRowReturns ==
    [][~lapsed /\ lapsed' =>
         \A id \in Ids : LiveRow(files', id) \in {LiveRow(files, id), None}]_files
===============================================================================
