-------------------------- MODULE SharedHandle_proofs --------------------------
(***************************************************************************)
(* Proofs about SharedHandle, for any threads, rows, calls and commits.    *)
(***************************************************************************)
EXTENDS SharedHandle, FiniteSetTheorems, TLAPS

-------------------------------------------------------------------------------
(* Types. *)

LEMMA WantedTyped ==
    ASSUME NEW r, NEW c
    PROVE  Wanted(r, c) \subseteq Ids /\ Cardinality(Wanted(r, c)) \in Nat
<1>1. Wanted(r, c) \subseteq Ids
  BY DEF Wanted, Live
<1> QED
  BY <1>1, IdsAssumption, FS_Subset, FS_CardinalityType

LEMMA LiveTyped == ASSUME NEW r PROVE Live(r) \subseteq Ids /\ Cardinality(Live(r)) \in Nat
<1>1. Live(r) \subseteq Ids
  BY DEF Live
<1> QED
  BY <1>1, IdsAssumption, FS_Subset, FS_CardinalityType

\* Counting or listing from an index keeps the types of total, left and at.
LEMMA TakeTyped ==
    ASSUME TypeOK, NEW t \in Threads, NEW r, Take(t, r)
    PROVE  /\ total' \in [Threads -> Nat \cup {None}]
           /\ left' \in [Threads -> SUBSET Ids]
           /\ at' \in [Threads -> Steps]
<1>1. Wanted(r, call[t]) \subseteq Ids /\ Cardinality(Wanted(r, call[t])) \in Nat
  BY WantedTyped
<1> QED
  BY <1>1 DEF TypeOK, Take, Goto, Steps

LEMMA InitTyped == Init => TypeOK
<1>1. EmptyRows \in RowSet
  BY DEF EmptyRows, RowSet
<1>2. 0 \in 0..MaxRevision
  BY MaxRevisionAssumption
<1> SUFFICES ASSUME Init PROVE TypeOK
  OBVIOUS
<1>3. /\ rows \in RowSet /\ revision \in 0..MaxRevision /\ file \in Files \cup {None}
      /\ observed \in (0..MaxRevision) \cup {None} /\ active \in BOOLEAN
      /\ sixb \in Indexes /\ runtime \in Indexes /\ cached \in RowSet
  BY <1>1, <1>2 DEF Init, Indexes
<1>4. /\ at \in [Threads -> Steps] /\ call \in [Threads -> Calls \cup {None}]
      /\ after \in [Threads -> {"observe", "activate", "activated"}]
  BY DEF Init, Steps
<1>5. /\ held \in [Threads -> Indexes] /\ left \in [Threads -> SUBSET Ids]
      /\ found \in [Threads -> RowSet] /\ total \in [Threads -> Nat \cup {None}]
  BY <1>1 DEF Init, Indexes
<1> QED
  BY <1>3, <1>4, <1>5 DEF TypeOK

LEMMA CommitTyped == ASSUME TypeOK, Commit PROVE TypeOK'
<1> USE DEF TypeOK, Indexes
<1>1. Base \in RowSet /\ BaseRows \in RowSet
  BY NoRowAssumption DEF Base, BaseRows, RowSet, EmptyRows
<1>2. PICK id \in Ids, key \in Keys \cup {NoRow} : Put(id, key) /\ Extended(id, key)
  BY DEF Commit
<1>3. rows' \in RowSet /\ runtime' \in RowSet /\ cached' \in RowSet
  BY <1>1, <1>2 DEF Put, Extended, RowSet
<1>4. revision' \in 0..MaxRevision /\ observed' \in 0..MaxRevision
  BY MaxRevisionAssumption DEF Commit, Exclusive
<1>5. file' \in Files \cup {None}
  BY DEF Commit, Built, Files
<1> QED
  BY <1>2, <1>3, <1>4, <1>5 DEF Commit, Extended, threads, answer

LEMMA ForeignTyped == ASSUME TypeOK, ForeignCommit \/ ForeignRebuild PROVE TypeOK'
<1> USE DEF TypeOK, handle, caches, threads, answer
<1>1. CASE ForeignCommit
  BY <1>1, MaxRevisionAssumption DEF ForeignCommit, Exclusive, Put, RowSet
<1>2. CASE ForeignRebuild
  BY <1>2 DEF ForeignRebuild, Built, Files
<1> QED
  BY <1>1, <1>2

LEMMA ReadTyped == ASSUME TypeOK, NEW t \in Threads, ReadStep(t) PROVE TypeOK'
<1> USE DEF TypeOK, disk, handle, caches, answer, Goto, Indexes, Steps
<1>1. CASE Enter(t)
  BY <1>1 DEF Enter
<1>2. CASE Compare(t)
  BY <1>2 DEF Compare
<1>3. CASE DropSixb(t) \/ DropRuntime(t) \/ DropRows(t)
  BY <1>3, NoRowAssumption DEF DropSixb, DropRuntime, DropRows, EmptyRows, RowSet
<1>4. CASE Observe(t) \/ Activate(t) \/ Activated(t)
  BY <1>4 DEF Observe, Activate, Activated
<1>5. CASE FromRuntime(t)
  <2>1. PICK r : Take(t, r) /\ UNCHANGED <<disk, handle, call, after, found>>
    BY <1>5 DEF FromRuntime
  <2>2. held' \in [Threads -> Indexes]
    BY <1>5 DEF FromRuntime
  <2> QED
    BY <2>1, <2>2, TakeTyped
<1>6. CASE Ensure(t)
  BY <1>6 DEF Ensure
<1>7. CASE SnapshotOfRuntime(t) \/ SnapshotOfCache(t)
  BY <1>7 DEF SnapshotOfRuntime, SnapshotOfCache, Snapshot
<1>8. CASE SnapshotOfFile(t)
  <2>1. CASE FileMatches
    <3>1. file.rows \in RowSet
      BY <2>1 DEF FileMatches, Files
    <3> QED
      BY <1>8, <2>1, <3>1 DEF SnapshotOfFile, Snapshot
  <2> QED
    BY <1>8, <2>1 DEF SnapshotOfFile
<1>9. CASE RebuildRows(t) \/ RebuildRuntime(t)
  BY <1>9 DEF RebuildRows, RebuildRuntime, Snapshot
<1>10. CASE RebuildFile(t)
  BY <1>10 DEF RebuildFile, Built, Files
<1>11. CASE FromSnapshot(t)
  BY <1>11, TakeTyped DEF FromSnapshot
<1>12. CASE ReadRow(t)
  <2>1. PICK id \in left[t] :
          /\ left' = [left EXCEPT ![t] = @ \ {id}]
          /\ IF Entry(t, id) = NoRow THEN UNCHANGED <<found, cached>>
             ELSE /\ found' = [found EXCEPT ![t][id] = RowAt(Entry(t, id), id)]
                  /\ cached' = [cached EXCEPT ![id] = RowAt(Entry(t, id), id)]
    BY <1>12 DEF ReadRow
  <2>2. id \in Ids
    BY <2>1
  <2>3. Entry(t, id) \in Keys \cup {NoRow}
    BY <2>2 DEF Entry, RowSet
  <2>4. RowAt(Entry(t, id), id) \in Keys \cup {NoRow}
    BY <2>2, <2>3 DEF RowAt, RowSet
  <2>5. found' \in [Threads -> RowSet] /\ cached' \in RowSet
    <3> DEFINE row == RowAt(Entry(t, id), id)
    <3>1. [found[t] EXCEPT ![id] = row] \in RowSet /\ [cached EXCEPT ![id] = row] \in RowSet
      BY <2>2, <2>4 DEF RowSet
    <3>2. \/ UNCHANGED <<found, cached>>
          \/ /\ found' = [found EXCEPT ![t] = [found[t] EXCEPT ![id] = row]]
             /\ cached' = [cached EXCEPT ![id] = row]
      BY <2>1
    <3> HIDE DEF row
    <3> QED
      BY <3>1, <3>2
  <2>6. left' \in [Threads -> SUBSET Ids]
    BY <2>1
  <2> QED
    BY <1>12, <2>5, <2>6 DEF ReadRow
<1>13. CASE Complete(t)
  BY <1>13, LiveTyped DEF Complete
<1>14. CASE Leave(t)
  BY <1>14, NoRowAssumption DEF Leave, EmptyRows, RowSet
<1> QED
  BY <1>1, <1>2, <1>3, <1>4, <1>5, <1>6, <1>7, <1>8, <1>9, <1>10, <1>11, <1>12, <1>13,
     <1>14 DEF ReadStep

\* Every state of the handle and its threads is well-typed.
THEOREM Types == Spec => []TypeOK
<1>1. TypeOK /\ [Next]_vars => TypeOK'
  <2> SUFFICES ASSUME TypeOK, [Next]_vars PROVE TypeOK'
    OBVIOUS
  <2>1. CASE UNCHANGED vars
    BY <2>1 DEF vars, disk, handle, caches, threads, answer, TypeOK
  <2> QED
    BY <2>1, CommitTyped, ForeignTyped, ReadTyped DEF Next
<1> QED
  BY <1>1, InitTyped, PTL DEF Spec

-------------------------------------------------------------------------------
(* The inductive invariant.                                                *)

\* The handle: before its first refresh the caches are empty; while the
\* observed revision is that of the disk they are current; a `.6b` file whose
\* source hash matches holds the index of the committed rows.
HandleInv ==
    /\ observed = None => sixb = None /\ runtime = None /\ cached = EmptyRows
    /\ observed # None => observed <= revision
    /\ observed = revision => Current
    /\ file # None => file.source <= revision
    /\ FileMatches => file.rows = rows

\* A thread that drops stale caches: what it dropped stays dropped or is
\* current again, because only a thread that is past its refresh fills a cache.
RefreshInv(t) ==
    /\ Refreshed(t) => observed = revision
    /\ at[t] \in {"idle", "compare"} => after[t] = "activate"
    /\ at[t] \in {"drop sixb", "drop runtime", "drop rows"} => after[t] # "activate"
    /\ at[t] \in {"drop runtime", "drop rows", "observe"} => sixb \in {None, rows}
    /\ at[t] \in {"drop rows", "observe"} => runtime \in {None, rows}
    /\ at[t] = "observe" => \A id \in Ids : cached[id] \in {NoRow, rows[id]}

Reading == {"read", "from runtime", "from cache", "from file", "rebuild rows",
            "rebuild file", "rebuild runtime", "snapshot"}

CountTaken(t) == total[t] = Cardinality(Wanted(rows, call[t]))

\* What is found so far: committed rows of the answer, all of them unless the
\* call asks the runtime index for each.
FoundInv(t) ==
    /\ left[t] \subseteq Wanted(rows, call[t])
    /\ \A id \in Live(found[t]) : id \in Wanted(rows, call[t]) /\ found[t][id] = rows[id]
    /\ call[t].kind # "lookup" => found[t] = Only(rows, Wanted(rows, call[t]) \ left[t])
    /\ call[t].kind = "page" => CountTaken(t)

AnswerInv(t) ==
    /\ at[t] # "idle" => call[t] \in Calls
    /\ at[t] = "idle" => held[t] = None
    /\ held[t] # None => held[t] = rows
    /\ at[t] = "snapshot" => held[t] # None
    /\ at[t] # "rows" => left[t] = {}
    /\ at[t] \notin {"rows", "done"} => found[t] = EmptyRows
    /\ at[t] \notin Reading \cup {"rows", "done"} => total[t] = None
    /\ at[t] \in Reading => total[t] = None \/ (call[t].kind = "page" /\ CountTaken(t))
    /\ at[t] = "rows" => /\ call[t].kind \notin {"matches", "count"}
                         /\ call[t].kind # "lookup" => held[t] # None
                         /\ FoundInv(t)
    /\ at[t] = "done" => IF call[t].kind \in {"matches", "count"}
                         THEN CountTaken(t) /\ found[t] = EmptyRows
                         ELSE FoundInv(t)

IInv == HandleInv /\ \A t \in Threads : RefreshInv(t) /\ AnswerInv(t)

LEMMA InitInv == Init => IInv
<1> SUFFICES ASSUME Init PROVE IInv
  OBVIOUS
<1>1. HandleInv
  BY MissingAssumption DEF Init, HandleInv, Current, FileMatches
<1>2. ASSUME NEW t \in Threads PROVE RefreshInv(t) /\ AnswerInv(t)
  BY DEF Init, RefreshInv, Refreshed, AnswerInv, Reading
<1> QED
  BY <1>1, <1>2 DEF IInv

\* A commit meets no reader: it extends a current index, or drops it.
LEMMA CommitInv ==
    ASSUME TypeOK, TypeOK', IInv, ForeignCommit \/ Commit PROVE IInv'
<1>1. \A t \in Threads : at[t] = "idle"
  BY DEF ForeignCommit, Commit, Exclusive
<1>2. /\ revision \in Int /\ revision' = revision + 1
      /\ UNCHANGED threads
  BY DEF ForeignCommit, Commit, Exclusive, TypeOK
<1>3. ASSUME NEW t \in Threads PROVE RefreshInv(t)' /\ AnswerInv(t)'
  <2>1. AnswerInv(t) /\ held[t] = None
    BY <1>1 DEF IInv, AnswerInv
  <2>2. /\ at'[t] = "idle" /\ held'[t] = None /\ left'[t] = left[t]
        /\ found'[t] = found[t] /\ total'[t] = total[t]
    BY <1>1, <1>2, <2>1 DEF threads, answer
  <2>3. RefreshInv(t) /\ after'[t] = after[t]
    BY <1>2 DEF IInv, threads
  <2> QED
    BY <1>1, <2>1, <2>2, <2>3 DEF AnswerInv, RefreshInv, Refreshed, Reading
<1>4. HandleInv'
  <2>1. CASE ForeignCommit
    BY <1>2, <2>1, MissingAssumption
       DEF ForeignCommit, IInv, HandleInv, TypeOK, FileMatches, handle, Files
  <2>2. CASE Commit
    <3>1. PICK id \in Ids, key \in Keys \cup {NoRow} :
            /\ rows' = [rows EXCEPT ![id] = key]
            /\ runtime' = [Base EXCEPT ![id] = key]
            /\ cached' = [BaseRows EXCEPT ![id] = key]
            /\ sixb' = None
      BY <2>2 DEF Commit, Put, Extended
    <3>2. Base = rows /\ \A i \in Ids : BaseRows[i] \in {NoRow, rows[i]}
      BY DEF IInv, HandleInv, Current, Base, BaseRows, Dropped, EmptyRows
    <3>3. rows \in RowSet /\ BaseRows \in RowSet
      BY NoRowAssumption DEF TypeOK, BaseRows, RowSet, EmptyRows
    <3>4. Current'
      BY <3>1, <3>2, <3>3 DEF Current, RowSet
    <3>5. observed' = revision' /\ observed' # None
      BY <1>2, <2>2, MissingAssumption DEF Commit, TypeOK
    <3>6. file' # None => file'.source <= revision
      BY <2>2 DEF Commit, Built, IInv, HandleInv, TypeOK
    <3>7. file' # None => file'.source \in Int
      BY DEF TypeOK, Files
    <3> QED
      BY <1>2, <3>4, <3>5, <3>6, <3>7 DEF HandleInv, FileMatches
  <2> QED
    BY <2>1, <2>2
<1> QED
  BY <1>3, <1>4 DEF IInv

LEMMA RebuildInv == ASSUME TypeOK, IInv, ForeignRebuild PROVE IInv'
<1>1. HandleInv'
  BY DEF ForeignRebuild, Built, IInv, HandleInv, Current, FileMatches, handle, TypeOK
<1>2. ASSUME NEW t \in Threads PROVE RefreshInv(t)' /\ AnswerInv(t)'
  BY DEF ForeignRebuild, IInv, RefreshInv, Refreshed, AnswerInv, FoundInv, CountTaken,
         handle, threads, answer
<1> QED
  BY <1>1, <1>2 DEF IInv

\* What a step of a reader may do to the handle: nothing committed changes, a
\* cache is kept, dropped or made current, and filled only past the refresh.
Moves ==
    /\ rows' = rows /\ revision' = revision
    /\ file' \in {file, Built}
    /\ observed' \in {observed, revision}
    /\ sixb' \in {sixb, None, rows}
    /\ runtime' \in {runtime, None, rows}
    /\ \A id \in Ids : cached'[id] \in {cached[id], NoRow, rows[id]}
    /\ observed # revision => /\ sixb' \in {sixb, None}
                              /\ runtime' \in {runtime, None}
                              /\ cached' \in {cached, EmptyRows}
    /\ observed # revision /\ observed' = revision => Current

LEMMA ReadMoves == ASSUME TypeOK, IInv, NEW t \in Threads, ReadStep(t) PROVE Moves
<1> USE DEF Moves, disk, handle, caches
<1>1. RefreshInv(t) /\ AnswerInv(t) /\ HandleInv
  BY DEF IInv
<1>2. CASE Enter(t) \/ Compare(t) \/ Activate(t) \/ Activated(t) \/ Ensure(t) \/ FromRuntime(t)
  BY <1>2 DEF Enter, Compare, Activate, Activated, Ensure, FromRuntime
<1>3. CASE SnapshotOfCache(t) \/ FromSnapshot(t) \/ Complete(t) \/ Leave(t)
  BY <1>3 DEF SnapshotOfCache, FromSnapshot, Complete, Leave
<1>4. CASE DropSixb(t) \/ DropRuntime(t) \/ DropRows(t)
  BY <1>4 DEF DropSixb, DropRuntime, DropRows, EmptyRows
<1>5. CASE Observe(t)
  BY <1>1, <1>5 DEF Observe, RefreshInv, Current
<1>6. CASE SnapshotOfRuntime(t) \/ SnapshotOfFile(t)
  <2>1. observed = revision /\ Current
    BY <1>1, <1>6 DEF SnapshotOfRuntime, SnapshotOfFile, RefreshInv, Refreshed, Refreshing,
                      HandleInv
  <2> QED
    BY <1>1, <1>6, <2>1 DEF SnapshotOfRuntime, SnapshotOfFile, Snapshot, HandleInv, Current
<1>7. CASE RebuildRows(t) \/ RebuildFile(t) \/ RebuildRuntime(t)
  <2>1. observed = revision
    BY <1>1, <1>7 DEF RebuildRows, RebuildFile, RebuildRuntime, RefreshInv, Refreshed, Refreshing
  <2> QED
    BY <1>7, <2>1 DEF RebuildRows, RebuildFile, RebuildRuntime
<1>8. CASE ReadRow(t)
  <2>1. observed = revision /\ Current
    BY <1>1, <1>8 DEF ReadRow, RefreshInv, Refreshed, Refreshing, HandleInv
  <2>2. PICK id \in left[t] :
          IF Entry(t, id) = NoRow THEN cached' = cached
          ELSE cached' = [cached EXCEPT ![id] = RowAt(Entry(t, id), id)]
    BY <1>8 DEF ReadRow
  <2>3. id \in Ids
    BY <2>2 DEF TypeOK
  <2>4. RowAt(Entry(t, id), id) \in {NoRow, rows[id]}
    BY <1>1, <2>1, <2>3 DEF RowAt, Entry, AnswerInv, Current
  <2>5. \A i \in Ids : cached'[i] \in {cached[i], NoRow, rows[i]}
    BY <2>2, <2>3, <2>4 DEF TypeOK, RowSet
  <2> QED
    BY <1>8, <2>1, <2>5 DEF ReadRow
<1> QED
  BY <1>2, <1>3, <1>4, <1>5, <1>6, <1>7, <1>8 DEF ReadStep

LEMMA MovesKeepHandle == ASSUME TypeOK, TypeOK', HandleInv, Moves PROVE HandleInv'
<1>1. observed' = revision' => Current'
  BY DEF Moves, HandleInv, Current
<1>2. observed' = None => sixb' = None /\ runtime' = None /\ cached' = EmptyRows
  BY MissingAssumption DEF Moves, HandleInv, TypeOK
<1>3. observed' # None => observed' <= revision'
  BY DEF Moves, HandleInv, TypeOK
<1>4. file' # None => file'.source <= revision'
  BY DEF Moves, HandleInv, TypeOK, Built
<1>5. FileMatches' => file'.rows = rows'
  BY DEF Moves, HandleInv, FileMatches, Built
<1> QED
  BY <1>1, <1>2, <1>3, <1>4, <1>5 DEF HandleInv

\* The other threads keep their places and what they hold.
LEMMA OtherThreads ==
    ASSUME TypeOK, IInv, NEW t \in Threads, ReadStep(t), NEW u \in Threads, u # t
    PROVE  RefreshInv(u)' /\ AnswerInv(u)'
<1>1. Moves
  BY ReadMoves
<1>2. /\ at'[u] = at[u] /\ call'[u] = call[u] /\ after'[u] = after[u]
      /\ held'[u] = held[u] /\ left'[u] = left[u] /\ found'[u] = found[u]
      /\ total'[u] = total[u]
  BY DEF TypeOK, ReadStep, Enter, Compare, DropSixb, DropRuntime, DropRows, Observe, Activate,
         Activated, FromRuntime, Ensure, SnapshotOfRuntime, SnapshotOfCache, SnapshotOfFile,
         RebuildRows, RebuildFile, RebuildRuntime, FromSnapshot, ReadRow, Complete, Leave,
         Take, Snapshot, Goto, answer
<1>3. RefreshInv(u)'
  <2>1. RefreshInv(u)
    BY DEF IInv
  <2>2. Refreshed(u)' = Refreshed(u)
    BY <1>2 DEF Refreshed
  <2> QED
    BY <1>1, <1>2, <2>1, <2>2 DEF RefreshInv, Moves
<1>4. AnswerInv(u)'
  <2>1. AnswerInv(u)
    BY DEF IInv
  <2>2. FoundInv(u)' = FoundInv(u) /\ CountTaken(u)' = CountTaken(u)
    BY <1>1, <1>2 DEF FoundInv, CountTaken, Moves, Wanted, Live, Only
  <2> QED
    BY <1>1, <1>2, <2>1, <2>2 DEF AnswerInv, Moves
<1> QED
  BY <1>3, <1>4

LEMMA OwnRefresh ==
    ASSUME TypeOK, IInv, NEW t \in Threads, ReadStep(t) PROVE RefreshInv(t)'
<1> USE DEF Refreshed, Refreshing, Goto, TypeOK
<1>1. Moves
  BY ReadMoves
<1>2. RefreshInv(t) /\ HandleInv
  BY DEF IInv
<1>3. CASE Enter(t)
  BY <1>2, <1>3 DEF Enter, RefreshInv
<1>4. CASE Compare(t)
  <2>1. at'[t] = "observe" => observed = None
    BY <1>4 DEF Compare
  <2>2. at'[t] = "activate" => observed = revision
    BY <1>4 DEF Compare
  <2>3. at'[t] \in {"observe", "activate", "drop sixb"} /\ after'[t] = "observe"
    BY <1>4 DEF Compare
  <2>4. observed' = observed /\ sixb' = sixb /\ runtime' = runtime /\ cached' = cached
    BY <1>4 DEF Compare, handle
  <2> QED
    BY <1>1, <1>2, <2>1, <2>2, <2>3, <2>4 DEF RefreshInv, HandleInv, Moves, EmptyRows
<1>5. CASE DropSixb(t) \/ DropRuntime(t)
  BY <1>1, <1>2, <1>5 DEF DropSixb, DropRuntime, RefreshInv, Moves
<1>6. CASE DropRows(t)
  <2>1. /\ at'[t] = after[t] /\ after' = after /\ observed' = observed
        /\ sixb' = sixb /\ runtime' = runtime /\ cached' = EmptyRows
    BY <1>6 DEF DropRows
  <2>2. at[t] = "drop rows" /\ after[t] \in {"observe", "activate", "activated"}
    BY <1>6 DEF DropRows
  <2>3. after[t] # "activate"
    BY <1>2, <2>2 DEF RefreshInv
  <2> QED
    BY <1>1, <1>2, <2>1, <2>2, <2>3 DEF RefreshInv, Moves, EmptyRows
<1>7. CASE Observe(t)
  BY <1>1, <1>7 DEF Observe, RefreshInv, Moves
<1>8. CASE Activate(t) \/ Activated(t)
  BY <1>1, <1>2, <1>8 DEF Activate, Activated, RefreshInv, Moves, handle
<1>9. CASE FromRuntime(t) \/ FromSnapshot(t)
  BY <1>1, <1>2, <1>9 DEF FromRuntime, FromSnapshot, Take, RefreshInv, Moves, handle
<1>10. CASE Ensure(t) \/ SnapshotOfRuntime(t) \/ SnapshotOfCache(t) \/ SnapshotOfFile(t)
  BY <1>1, <1>2, <1>10 DEF Ensure, SnapshotOfRuntime, SnapshotOfCache, SnapshotOfFile,
                           Snapshot, RefreshInv, Moves, handle
<1>11. CASE RebuildRows(t) \/ RebuildFile(t) \/ RebuildRuntime(t)
  BY <1>1, <1>2, <1>11 DEF RebuildRows, RebuildFile, RebuildRuntime, Snapshot, RefreshInv, Moves
<1>12. CASE ReadRow(t) \/ Complete(t) \/ Leave(t)
  BY <1>1, <1>2, <1>12 DEF ReadRow, Complete, Leave, RefreshInv, Moves, handle
<1> QED
  BY <1>3, <1>4, <1>5, <1>6, <1>7, <1>8, <1>9, <1>10, <1>11, <1>12 DEF ReadStep

\* Taking a count or a list of ids from a current index.
LEMMA TakeInv ==
    ASSUME TypeOK, TypeOK', IInv, Moves, NEW t \in Threads,
           at[t] \in {"read", "snapshot"}, Take(t, rows), call' = call, found' = found,
           held'[t] = rows \/ (held'[t] = None /\ call[t].kind = "lookup")
    PROVE  AnswerInv(t)'
<1>1. AnswerInv(t)
  BY DEF IInv
<1>2. /\ call[t] \in Calls /\ left[t] = {} /\ found[t] = EmptyRows
      /\ total[t] = None \/ (call[t].kind = "page" /\ CountTaken(t))
  BY <1>1 DEF AnswerInv, Reading
<1>3. rows' = rows /\ found'[t] = EmptyRows /\ call'[t] = call[t] /\ rows # None
  BY <1>2, MissingAssumption DEF Moves, TypeOK
<1>4. CASE Counting(t)
  <2>1. /\ total'[t] = Cardinality(Wanted(rows, call[t]))
        /\ at'[t] = (IF call[t].kind = "page" THEN "read" ELSE "done")
        /\ left'[t] = {}
    BY <1>2, <1>4 DEF Take, Goto, TypeOK
  <2>2. CountTaken(t)'
    BY <1>3, <2>1 DEF CountTaken
  <2> QED
    BY <1>2, <1>3, <1>4, <2>1, <2>2 DEF AnswerInv, Reading, Counting
<1>5. CASE ~Counting(t)
  <2>1. /\ total' = total /\ at'[t] = "rows"
        /\ left'[t] = Wanted(rows, call[t])
    BY <1>5 DEF Take, Goto, TypeOK
  <2>2. FoundInv(t)'
    <3>1. Live(EmptyRows) = {} /\ Only(rows, {}) = EmptyRows
      BY DEF Live, EmptyRows, Only
    <3>2. call[t].kind = "page" => CountTaken(t)
      BY <1>2, <1>5 DEF Counting
    <3>3. left'[t] \ Wanted(rows, call[t]) = {} /\ Wanted(rows, call[t]) \ left'[t] = {}
      BY <2>1
    <3> QED
      BY <1>3, <2>1, <3>1, <3>2, <3>3 DEF FoundInv, CountTaken
  <2> QED
    BY <1>2, <1>3, <1>5, <2>1, <2>2 DEF AnswerInv, Reading, Counting
<1> QED
  BY <1>4, <1>5

\* Reading one row: the entry in hand or in the runtime index is committed.
LEMMA ReadRowInv ==
    ASSUME TypeOK, IInv, Moves, NEW t \in Threads, ReadRow(t) PROVE AnswerInv(t)'
<1>1. AnswerInv(t) /\ RefreshInv(t) /\ HandleInv
  BY DEF IInv
<1>2. at[t] = "rows" /\ FoundInv(t)
  BY <1>1 DEF AnswerInv, ReadRow
<1>3. PICK id \in left[t] :
        /\ left' = [left EXCEPT ![t] = @ \ {id}]
        /\ IF Entry(t, id) = NoRow THEN UNCHANGED <<found, cached>>
           ELSE /\ found' = [found EXCEPT ![t][id] = RowAt(Entry(t, id), id)]
                /\ cached' = [cached EXCEPT ![id] = RowAt(Entry(t, id), id)]
  BY DEF ReadRow
<1>4. Current
  BY <1>1, <1>2 DEF RefreshInv, Refreshed, Refreshing, HandleInv
<1>5. /\ id \in Ids /\ id \in Wanted(rows, call[t]) /\ rows[id] # NoRow
  BY <1>2, <1>3 DEF TypeOK, FoundInv, Wanted, Live
<1>6. /\ Entry(t, id) \in {NoRow, rows[id]}
      /\ held[t] # None => Entry(t, id) = rows[id]
  BY <1>1, <1>4, <1>5 DEF AnswerInv, Current, Entry
<1>7. Entry(t, id) # NoRow => RowAt(Entry(t, id), id) = rows[id]
  BY <1>4, <1>5, <1>6 DEF RowAt, Current
<1>8. /\ rows' = rows /\ at' = at /\ call' = call /\ held' = held /\ total' = total
      /\ left'[t] = left[t] \ {id}
  BY <1>3 DEF ReadRow, Moves, TypeOK
<1>9. \/ found'[t] = found[t] /\ held[t] = None
      \/ found'[t] = [found[t] EXCEPT ![id] = rows[id]]
  BY <1>3, <1>5, <1>6, <1>7 DEF TypeOK
<1>10. \A i \in Ids : found'[t][i] = found[t][i] \/ (i = id /\ found'[t][i] = rows[i])
  BY <1>5, <1>9 DEF TypeOK, RowSet
<1>11. \A i \in Live(found'[t]) : i \in Wanted(rows, call[t]) /\ found'[t][i] = rows[i]
  BY <1>2, <1>5, <1>10 DEF FoundInv, Live
<1>12. ASSUME call[t].kind # "lookup"
       PROVE  found'[t] = Only(rows, Wanted(rows, call[t]) \ left'[t])
  <2>1. found'[t] = [found[t] EXCEPT ![id] = rows[id]]
    BY <1>1, <1>2, <1>9, <1>12 DEF AnswerInv
  <2>2. found[t] = Only(rows, Wanted(rows, call[t]) \ left[t])
    BY <1>2, <1>12 DEF FoundInv
  <2> QED
    BY <1>3, <1>5, <1>8, <2>1, <2>2 DEF Only
<1>13. FoundInv(t)'
  <2>1. left'[t] \subseteq Wanted(rows, call[t])
    BY <1>2, <1>8 DEF FoundInv
  <2>2. call[t].kind = "page" => CountTaken(t)'
    BY <1>2, <1>8 DEF FoundInv, CountTaken
  <2> QED
    BY <1>8, <1>11, <1>12, <2>1, <2>2 DEF FoundInv
<1> QED
  BY <1>1, <1>2, <1>8, <1>13 DEF AnswerInv, Reading

LEMMA OwnAnswer ==
    ASSUME TypeOK, TypeOK', IInv, NEW t \in Threads, ReadStep(t) PROVE AnswerInv(t)'
<1> USE DEF Goto, TypeOK, answer
<1>1. Moves
  BY ReadMoves
<1>2. AnswerInv(t) /\ RefreshInv(t) /\ HandleInv
  BY DEF IInv
<1>3. Refreshed(t) => Current
  BY <1>2 DEF RefreshInv, HandleInv
<1>4. rows' = rows /\ rows # None
  BY <1>1, MissingAssumption DEF Moves
<1>5. CASE Enter(t) \/ Compare(t) \/ Observe(t) \/ Activate(t) \/ Activated(t)
  BY <1>2, <1>4, <1>5 DEF Enter, Compare, Observe, Activate, Activated, AnswerInv, Reading
<1>6. CASE DropSixb(t) \/ DropRuntime(t) \/ DropRows(t)
  BY <1>2, <1>4, <1>6 DEF DropSixb, DropRuntime, DropRows, AnswerInv, Reading, RefreshInv
<1>7. CASE FromRuntime(t)
  <2>1. runtime = rows
    BY <1>3, <1>7 DEF FromRuntime, InRuntime, Refreshed, Refreshing, Current
  <2> QED
    BY <1>1, <1>7, <2>1, TakeInv DEF FromRuntime
<1>8. CASE FromSnapshot(t)
  <2>1. held[t] = rows
    BY <1>2, <1>8 DEF FromSnapshot, AnswerInv
  <2> QED
    BY <1>1, <1>8, <2>1, TakeInv DEF FromSnapshot
<1>9. CASE Ensure(t) \/ RebuildRows(t) \/ RebuildFile(t)
  BY <1>2, <1>4, <1>9 DEF Ensure, RebuildRows, RebuildFile, AnswerInv, Reading, CountTaken
<1>10. CASE SnapshotOfRuntime(t) \/ SnapshotOfCache(t)
  <2>1. Current
    BY <1>3, <1>10 DEF SnapshotOfRuntime, SnapshotOfCache, Refreshed, Refreshing
  <2> QED
    BY <1>2, <1>4, <1>10, <2>1 DEF SnapshotOfRuntime, SnapshotOfCache, Snapshot, Current,
                                   AnswerInv, Reading, CountTaken
<1>11. CASE SnapshotOfFile(t) \/ RebuildRuntime(t)
  <2>1. FileMatches => file.rows = rows
    BY <1>2 DEF HandleInv
  <2>2. /\ at[t] \in {"from file", "rebuild runtime"} /\ call' = call
        /\ left' = left /\ found' = found /\ total' = total
    BY <1>11 DEF SnapshotOfFile, RebuildRuntime, Snapshot
  <2>3. \/ at'[t] = "snapshot" /\ held'[t] = rows
        \/ at'[t] = "rebuild rows" /\ held' = held
    BY <1>11, <2>1 DEF SnapshotOfFile, RebuildRuntime, Snapshot
  <2>4. CountTaken(t)' = CountTaken(t)
    BY <1>4, <2>2 DEF CountTaken
  <2>5. at'[t] \in Reading /\ at[t] \in Reading
    BY <2>2, <2>3 DEF Reading
  <2>6. held'[t] # None => held'[t] = rows
    BY <1>2, <2>3 DEF AnswerInv
  <2> HIDE DEF TypeOK, Goto
  <2> QED
    BY <1>2, <1>4, <2>2, <2>3, <2>4, <2>5, <2>6 DEF AnswerInv, Reading
<1>12. CASE ReadRow(t)
  BY <1>1, <1>12, ReadRowInv
<1>13. CASE Complete(t)
  <2>1. FoundInv(t) /\ call[t].kind \notin {"matches", "count"}
    BY <1>2, <1>13 DEF Complete, AnswerInv
  <2>2. FoundInv(t)'
    BY <1>4, <1>13, <2>1 DEF Complete, FoundInv, CountTaken
  <2> QED
    BY <1>2, <1>4, <1>13, <2>1, <2>2 DEF Complete, AnswerInv, Reading
<1>14. CASE Leave(t)
  BY <1>2, <1>14 DEF Leave, AnswerInv, Reading
<1> QED
  BY <1>5, <1>6, <1>7, <1>8, <1>9, <1>10, <1>11, <1>12, <1>13, <1>14 DEF ReadStep

LEMMA Invariance == Spec => [](TypeOK /\ IInv)
<1>1. TypeOK /\ IInv /\ TypeOK' /\ [Next]_vars => IInv'
  <2> SUFFICES ASSUME TypeOK, IInv, TypeOK', [Next]_vars PROVE IInv'
    OBVIOUS
  <2>1. ASSUME NEW t \in Threads, ReadStep(t) PROVE IInv'
    <3>1. HandleInv'
      BY <2>1, ReadMoves, MovesKeepHandle DEF IInv
    <3>2. \A u \in Threads : RefreshInv(u)' /\ AnswerInv(u)'
      BY <2>1, OwnRefresh, OwnAnswer, OtherThreads
    <3> QED
      BY <3>1, <3>2 DEF IInv
  <2>2. CASE UNCHANGED vars
    <3> USE <2>2 DEF vars, disk, handle, caches, threads, answer
    <3>1. HandleInv'
      BY DEF IInv, HandleInv, Current, FileMatches
    <3>2. ASSUME NEW u \in Threads PROVE RefreshInv(u)'
      BY DEF IInv, RefreshInv, Refreshed
    <3>3. ASSUME NEW u \in Threads PROVE AnswerInv(u)'
      <4>1. AnswerInv(u)
        BY DEF IInv
      <4>2. FoundInv(u)' = FoundInv(u) /\ CountTaken(u)' = CountTaken(u)
        BY DEF FoundInv, CountTaken
      <4> QED
        BY <4>1, <4>2 DEF AnswerInv
    <3> QED
      BY <3>1, <3>2, <3>3 DEF IInv
  <2> QED
    BY <2>1, <2>2, CommitInv, RebuildInv DEF Next
<1> QED
  BY <1>1, InitInv, Types, PTL DEF Spec

-------------------------------------------------------------------------------
(* The promises. *)

\* A thread that is past refresh_if_revision_changed finds nothing of an
\* earlier revision in the caches it shares (coordination.rs).
THEOREM CachesAreCurrent == Spec => []RefreshedCachesCurrent
<1>1. IInv => RefreshedCachesCurrent
  BY DEF IInv, HandleInv, RefreshInv, RefreshedCachesCurrent
<1> QED
  BY <1>1, Invariance, PTL

\* Every row of an answer is committed and matches its call (read.rs).
THEOREM CommittedAnswers == Spec => []AnswersAreCommitted
<1>1. IInv => AnswersAreCommitted
  <2> SUFFICES ASSUME IInv, NEW t \in Threads, at[t] \in {"rows", "done"},
                      NEW id \in Live(found[t])
               PROVE  id \in Wanted(rows, call[t]) /\ found[t][id] = rows[id]
    BY DEF AnswersAreCommitted
  <2>1. AnswerInv(t)
    BY DEF IInv
  <2>2. FoundInv(t) \/ found[t] = EmptyRows
    BY <2>1 DEF AnswerInv
  <2> QED
    BY <2>2 DEF FoundInv, Live, EmptyRows
<1> QED
  BY <1>1, Invariance, PTL

\* Reads by id, counts and scans answer with exactly the committed rows, and a
\* scanned page carries the number of them (read.rs).
THEOREM ExactScans == Spec => []ScansAreExact
<1>1. IInv => ScansAreExact
  <2> SUFFICES ASSUME IInv, NEW t \in Threads, at[t] = "done", call[t].kind # "lookup"
               PROVE  Exact(t)
    BY DEF ScansAreExact
  <2>1. AnswerInv(t)
    BY DEF IInv
  <2>2. CASE call[t].kind \in {"matches", "count"}
    BY <2>1, <2>2 DEF AnswerInv, CountTaken, Exact
  <2>3. CASE call[t].kind \notin {"matches", "count"}
    <3>1. FoundInv(t) /\ left[t] = {}
      BY <2>1, <2>3 DEF AnswerInv
    <3>2. Wanted(rows, call[t]) \ left[t] = Wanted(rows, call[t])
      BY <3>1
    <3> QED
      BY <2>3, <3>1, <3>2 DEF FoundInv, CountTaken, Exact
  <2> QED
    BY <2>2, <2>3
<1> QED
  BY <1>1, Invariance, PTL
===============================================================================
