------------------------------ MODULE Projection ------------------------------
(***************************************************************************)
(* projection.html: write_data_projection (sixpack/src/projection.rs)      *)
(* copies the chunk files of every table and the revision into one page    *)
(* that the browser replays (assets/data-projection.html).  It takes no    *)
(* lock, so writers of other handles append between its reads, and several *)
(* exports of one process may run at once.                                 *)
(*                                                                         *)
(* A line is its transaction and its row id; what it makes of the row, a   *)
(* record or, for a delete, none, is named by its transaction.  A line     *)
(* exists once its newline is written: the page skips what follows the     *)
(* last newline.                                                           *)
(* init over a dirty marker is SixpackStore's, and compact_table (feature  *)
(* experimental-compaction) is left out.                                   *)
(***************************************************************************)
EXTENDS Integers, SequencesExt

CONSTANTS
    TableOrder,     \* the table directories in path order
    Ids,            \* row ids
    Exporters,      \* threads of one process that export
    ChunkLines,     \* lines that fit into a chunk (MAX_SIX_CHUNK_BYTES)
    MaxBatch,       \* bound: operations per batch
    MaxTx,          \* bound: transactions ever written
    MaxStops,       \* bound: writes that fail or are killed
    MaxExports,     \* bound: exports ever started
    None,           \* no batch, no page, no revision
    Partial,        \* a temporary file that is not written out
    Dirty           \* the revision u64::MAX of an unfinished write

Tables == ToSet(TableOrder)

ASSUME OrderAssumption ==
    /\ TableOrder \in Seq(Tables)
    /\ \A i, j \in DOMAIN TableOrder : TableOrder[i] = TableOrder[j] => i = j

ASSUME BoundAssumption == ChunkLines \in Nat /\ MaxBatch \in Nat /\ MaxTx \in Nat

\* A complete line of a chunk, and a chunk, whose preamble may still be missing.
Line  == [tx : Nat, id : Ids]
Chunk == [ready : BOOLEAN, lines : Seq(Line)]

ASSUME SentinelAssumption ==
    /\ Dirty \notin Nat /\ None \notin Nat
    /\ None \notin [table : Tables, new : BOOLEAN, left : Seq(Line)]
    /\ {None, Partial} \cap [got : [Tables -> Seq(Chunk)], revision : Nat \cup {Dirty, None},
                           since : [Tables -> SUBSET Nat]] = {}

VARIABLES
    chunks,     \* table -> its chunks, oldest first: [ready, lines]
    revision,   \* engine/revision
    writing,    \* the batch being appended: [table, new, left], new: its chunk is not there yet
    exporter,   \* thread -> its export
    counter,    \* TEMP_COUNTER of the process
    temp,       \* counter -> content, the projection.html.<pid>.<counter>.tmp files
    page,       \* projection.html
    started,    \* exports started
    stops       \* writes stopped

vars == <<chunks, revision, writing, exporter, counter, temp, page, started, stops>>

LinesOf(cs)  == [i \in DOMAIN cs |-> cs[i].lines]
LinesIn(cs)  == FlattenSeq(LinesOf(cs))
Readable(cs) == \A i \in DOMAIN cs : cs[i].ready
TxsIn(ss)    == UNION {{ss[i][j].tx : j \in DOMAIN ss[i]} : i \in DOMAIN ss}
Txs(cs)      == TxsIn(LinesOf(cs))
AllTxs       == {0} \cup UNION {Txs(chunks[t]) : t \in Tables}
NextTx       == 1 + Max(AllTxs)

\* The rows that are left when the lines are applied in order.
Applied(lines) ==
    [id \in Ids |->
        LET n == SelectLastInSeq(lines, LAMBDA l : l.id = id)
        IN  IF n = 0 THEN 0 ELSE lines[n].tx]

Idle == [at |-> "idle", todo |-> <<>>, listing |-> <<>>,
         got |-> [t \in Tables |-> <<>>], revision |-> 0, name |-> 0,
         since |-> [t \in Tables |-> {}]]

Init ==
    /\ chunks = [t \in Tables |-> <<>>]
    /\ revision = 1
    /\ writing = None
    /\ exporter = [p \in Exporters |-> Idle]
    /\ counter = 0
    /\ temp = [n \in {} |-> Partial]
    /\ page = None
    /\ started = 0
    /\ stops = 0

-----------------------------------------------------------------------------
(* Writers of this and of other processes, one at a time (write lock).     *)

store  == <<chunks, revision, writing, stops>>
export == <<exporter, counter, temp, page, started>>

Batches == UNION {[1..n -> Ids] : n \in 1..MaxBatch}

Encoded(b) == [i \in DOMAIN b |-> [tx |-> NextTx + i - 1, id |-> b[i]]]

\* append_target: a batch that does not fit the newest chunk gets a new one.
NeedsChunk(t, n) ==
    \/ chunks[t] = <<>>
    \/ Len(Last(chunks[t]).lines) + n > ChunkLines

\* A scan refuses a chunk without a whole preamble, and the write with it; the
\* other tables are not looked at by a handle that has checked them before.
MayWrite(t, n) ==
    /\ writing = None
    /\ Readable(chunks[t])
    /\ NextTx + n - 1 <= MaxTx

\* Mutant of BeginWrite: the lines are appended under the old revision.
BeginUnmarked(t, b) ==
    /\ MayWrite(t, Len(b))
    /\ writing' = [table |-> t, new |-> NeedsChunk(t, Len(b)), left |-> Encoded(b)]
    /\ UNCHANGED <<chunks, revision, stops, export>>

\* resolve_and_append up to the file: the dirty marker, the encoded lines.
BeginWrite(t, b) ==
    /\ MayWrite(t, Len(b))
    /\ revision' = Dirty
    /\ writing' = [table |-> t, new |-> NeedsChunk(t, Len(b)), left |-> Encoded(b)]
    /\ UNCHANGED <<chunks, stops, export>>

\* The new chunk is an empty file, then begins with its preamble.
CreateChunk ==
    /\ writing # None /\ writing.new
    /\ chunks' = [chunks EXCEPT ![writing.table] = Append(@, [ready |-> FALSE, lines |-> <<>>])]
    /\ writing' = [writing EXCEPT !.new = FALSE]
    /\ UNCHANGED <<revision, stops, export>>

WritePreamble ==
    /\ writing # None /\ ~writing.new
    /\ LET cs == chunks[writing.table] IN
        /\ ~Last(cs).ready
        /\ chunks' = [chunks EXCEPT ![writing.table][Len(cs)].ready = TRUE]
    /\ UNCHANGED <<revision, writing, stops, export>>

AppendLine ==
    /\ writing # None /\ ~writing.new /\ writing.left # <<>>
    /\ LET cs == chunks[writing.table] IN
        /\ Last(cs).ready
        /\ chunks' = [chunks EXCEPT ![writing.table][Len(cs)].lines =
                        Append(@, Head(writing.left))]
    /\ writing' = [writing EXCEPT !.left = Tail(@)]
    /\ UNCHANGED <<revision, stops, export>>

\* The committed revision is the last transaction's successor.
EndWrite ==
    /\ writing # None /\ writing.left = <<>>
    /\ revision' = NextTx
    /\ writing' = None
    /\ UNCHANGED <<chunks, stops, export>>

\* The writer fails or is killed: the dirty marker and what it wrote stay.
StopWrite ==
    /\ writing # None /\ stops < MaxStops
    /\ writing' = None
    /\ stops' = stops + 1
    /\ UNCHANGED <<chunks, revision, export>>

-----------------------------------------------------------------------------
(* write_data_projection, one action per file operation.                   *)

Set(p, e) == exporter' = [exporter EXCEPT ![p] = e]

\* The table directories are listed and sorted.
Start(p) ==
    /\ exporter[p].at = "idle" /\ started < MaxExports
    /\ Set(p, [Idle EXCEPT !.at = "tables", !.todo = TableOrder,
                           !.since = [t \in Tables |-> Txs(chunks[t])]])
    /\ started' = started + 1
    /\ UNCHANGED <<store, counter, temp, page>>

Listed(p) == exporter[p].at = "tables" /\ exporter[p].listing = <<>>

\* The chunks of the next table are listed; their names sort newest first.
ListTable(p) ==
    /\ Listed(p) /\ exporter[p].todo # <<>>
    /\ LET t == Head(exporter[p].todo)
       IN  Set(p, [exporter[p] EXCEPT !.todo = Tail(@),
                    !.listing = Reverse([i \in DOMAIN chunks[t] |-> <<t, i>>])])
    /\ UNCHANGED <<store, counter, temp, page, started>>

ReadChunk(p) ==
    /\ exporter[p].listing # <<>>
    /\ LET c == Head(exporter[p].listing)
       IN  Set(p, [exporter[p] EXCEPT !.listing = Tail(@),
                    !.got[c[1]] = Append(@, chunks[c[1]][c[2]])])
    /\ UNCHANGED <<store, counter, temp, page, started>>

\* A revision that cannot be read is no failure: the page shows "-".
ReadRevision(p) ==
    /\ Listed(p) /\ exporter[p].todo = <<>>
    /\ \E seen \in {revision, None} :
        Set(p, [exporter[p] EXCEPT !.at = "open", !.revision = seen])
    /\ UNCHANGED <<store, counter, temp, page, started>>

\* Mutant of TempName: every export writes the same temporary file.
SharedName(c) == 0

TempName(c) == c

\* fs::write opens the temporary file truncated, then fills it.
OpenTemp(p) ==
    /\ exporter[p].at = "open"
    /\ Set(p, [exporter[p] EXCEPT !.at = "fill", !.name = TempName(counter)])
    /\ counter' = counter + 1
    /\ temp' = [n \in DOMAIN temp \cup {TempName(counter)} |->
                    IF n = TempName(counter) THEN Partial ELSE temp[n]]
    /\ UNCHANGED <<store, page, started>>

PageOf(e) == [got |-> e.got, revision |-> e.revision, since |-> e.since]

FillTemp(p) ==
    /\ exporter[p].at = "fill"
    /\ Set(p, [exporter[p] EXCEPT !.at = "rename"])
    /\ temp' = [temp EXCEPT ![exporter[p].name] = PageOf(exporter[p])]
    /\ UNCHANGED <<store, counter, page, started>>

Removed(name) == Restrict(temp, DOMAIN temp \ {name})

Publish(p) ==
    /\ exporter[p].at = "rename" /\ exporter[p].name \in DOMAIN temp
    /\ page' = temp[exporter[p].name]
    /\ temp' = Removed(exporter[p].name)
    /\ Set(p, Idle)
    /\ UNCHANGED <<store, counter, started>>

\* A file operation fails: `?` returns, and only a failed rename cleans up.
ExportFails(p) ==
    /\ exporter[p].at # "idle"
    /\ temp' = IF exporter[p].at = "rename" THEN Removed(exporter[p].name) ELSE temp
    /\ Set(p, Idle)
    /\ UNCHANGED <<store, counter, page, started>>

\* The process ends with its exports; the next one may get the same pid.
Restart ==
    /\ \E p \in Exporters : exporter[p].at # "idle"
    /\ exporter' = [p \in Exporters |-> Idle]
    /\ counter' = 0
    /\ UNCHANGED <<store, temp, page, started>>

Next ==
    \/ \E t \in Tables, b \in Batches : BeginWrite(t, b)
    \/ CreateChunk
    \/ WritePreamble
    \/ AppendLine
    \/ EndWrite
    \/ StopWrite
    \/ \E p \in Exporters :
        \/ Start(p)
        \/ ListTable(p)
        \/ ReadChunk(p)
        \/ ReadRevision(p)
        \/ OpenTemp(p)
        \/ FillTemp(p)
        \/ Publish(p)
        \/ ExportFails(p)
    \/ Restart

Spec == Init /\ [][Next]_vars

-----------------------------------------------------------------------------
(* The browser.                                                            *)

\* parseSixFile refuses the page for one chunk without a whole preamble.
Loads(e) == \A t \in Tables : Readable(e.got[t])

\* projectFiles sorts the paths in descending order: the oldest chunk first.
Shown(e, t) == Applied(LinesIn(Reverse(e.got[t])))

\* The first n chunks, the last of them cut after m lines.
UpTo(cs, n, m) == [i \in 1..n |-> IF i = n THEN SubSeq(cs[i].lines, 1, m) ELSE cs[i].lines]

(***************************************************************************)
(* A page is always one whole export, and each table it shows is as that   *)
(* table really was at some moment since the export began: no older, no    *)
(* line missing in the middle, whatever is appended between the reads,     *)
(* and whichever exports overlap or died before.                           *)
(***************************************************************************)
PageIsRecent ==
    page # None =>
        /\ page # Partial
        /\ Loads(page) => \A t \in Tables :
            \E n \in 0..Len(chunks[t]) :
            \E m \in 0..(IF n = 0 THEN 0 ELSE Len(chunks[t][n].lines)) :
                /\ page.since[t] \subseteq TxsIn(UpTo(chunks[t], n, m))
                /\ Shown(page, t) = Applied(FlattenSeq(UpTo(chunks[t], n, m)))

(***************************************************************************)
(* The revision a page names covers everything it shows: unless it is the  *)
(* dirty marker or missing, each line of each table was committed below    *)
(* it, although the tables are read one after another while writers        *)
(* commit.                                                                 *)
(***************************************************************************)
RevisionCoversPage ==
    page \notin {None, Partial} /\ page.revision \notin {Dirty, None} =>
        \A x \in UNION {Txs(page.got[u]) : u \in Tables} : x < page.revision
===============================================================================
