--------------------------- MODULE Projection_proofs ---------------------------
(***************************************************************************)
(* A page of projection.html shows each table as it was at one moment, and *)
(* names a revision that covers what it shows, for any tables, exporters,  *)
(* batches and chunk sizes.  The chunks only grow, at the end of the       *)
(* newest one, and an export reads the newest chunk it has listed first:   *)
(* whatever is written after that read is no part of the page.             *)
(***************************************************************************)
EXTENDS Projection, TLAPS

-------------------------------------------------------------------------------
(* Types. *)

Places == {"idle", "tables", "open", "fill", "rename"}

Export ==
    [at : Places, todo : Seq(Tables), listing : Seq(Tables \X (Nat \ {0})),
     got : [Tables -> Seq(Chunk)], revision : Nat \cup {Dirty, None}, name : Nat,
     since : [Tables -> SUBSET Nat]]

Page == [got : [Tables -> Seq(Chunk)], revision : Nat \cup {Dirty, None},
         since : [Tables -> SUBSET Nat]]

Write == [table : Tables, new : BOOLEAN, left : Seq(Line)]

StoreTypes ==
    /\ chunks \in [Tables -> Seq(Chunk)]
    /\ revision \in Nat \cup {Dirty}
    /\ writing \in Write \cup {None}

ExportTypes ==
    /\ exporter \in [Exporters -> Export]
    /\ counter \in Nat
    /\ DOMAIN temp \subseteq Nat

TypeOK == StoreTypes /\ ExportTypes

\* The transaction ids in the chunks are numbers, and there is a largest.
TxInv == AllTxs \subseteq Nat /\ \E m \in AllTxs : \A n \in AllTxs : n <= m

\* A write holds the dirty marker, and has its chunk unless it has still to make it.
WriteInv ==
    writing # None => revision = Dirty /\ (writing.new \/ chunks[writing.table] # <<>>)

\* A clean revision is the next transaction.
CleanInv == revision # Dirty => revision = NextTx

-------------------------------------------------------------------------------
(* Transactions. *)

\* The largest number of a set that has one.
LEMMA MaxIsLargest ==
    ASSUME NEW S \in SUBSET Nat, NEW m \in S, \A n \in S : n <= m
    PROVE  Max(S) \in S /\ \A x \in S : x <= Max(S)
<1>1. \A n \in S : m >= n
  OBVIOUS
<1> DEFINE k == CHOOSE x \in S : \A y \in S : x >= y
<1>2. k \in S /\ \A y \in S : k >= y
  BY <1>1
<1>3. Max(S) = k
  BY DEF Max
<1> HIDE DEF k
<1> QED
  BY <1>2, <1>3

\* The next transaction is above every one in the chunks.
LEMMA NextIsAbove ==
    ASSUME TxInv
    PROVE  NextTx \in Nat \ {0} /\ \A x \in AllTxs : x < NextTx
<1>1. Max(AllTxs) \in AllTxs /\ (\A x \in AllTxs : x <= Max(AllTxs)) /\ AllTxs \subseteq Nat
  BY MaxIsLargest DEF TxInv
<1> DEFINE m == Max(AllTxs)
<1>2. NextTx = 1 + m
  BY DEF NextTx
<1>3. m \in Nat /\ \A x \in AllTxs : x <= m /\ x \in Nat
  BY <1>1
<1> HIDE DEF m
<1> QED
  BY <1>2, <1>3

\* The chunks of a table have lines.
LEMMA ChunkType ==
    ASSUME NEW cs \in Seq(Chunk)
    PROVE  /\ Len(cs) \in Nat /\ DOMAIN cs = 1..Len(cs)
           /\ \A i \in DOMAIN cs :
                /\ cs[i] \in Chunk /\ cs[i].lines \in Seq(Line)
                /\ Len(cs[i].lines) \in Nat /\ DOMAIN cs[i].lines = 1..Len(cs[i].lines)
                /\ \A j \in DOMAIN cs[i].lines : cs[i].lines[j].tx \in Nat
<1>1. Len(cs) \in Nat /\ DOMAIN cs = 1..Len(cs) /\ \A i \in DOMAIN cs : cs[i] \in Chunk
  OBVIOUS
<1>2. ASSUME NEW c \in Chunk
      PROVE  /\ c.lines \in Seq(Line)
             /\ Len(c.lines) \in Nat /\ DOMAIN c.lines = 1..Len(c.lines)
             /\ \A j \in DOMAIN c.lines : c.lines[j].tx \in Nat
  <2>1. c.lines \in Seq(Line)
    BY DEF Chunk
  <2> DEFINE l == c.lines
  <2>2. l \in Seq(Line)
    BY <2>1
  <2> HIDE DEF l
  <2>3. Len(l) \in Nat /\ DOMAIN l = 1..Len(l) /\ \A j \in DOMAIN l : l[j] \in Line
    BY <2>2
  <2>4. \A x \in Line : x.tx \in Nat
    BY DEF Line
  <2> QED
    BY <2>2, <2>3, <2>4 DEF l
<1> QED
  BY <1>1, <1>2

\* The transactions of a table are among all.
LEMMA TxsAreTxs ==
    ASSUME NEW t \in Tables
    PROVE  Txs(chunks[t]) \subseteq AllTxs
  BY DEF AllTxs

\* The transactions of a sequence of chunks, line by line.
LEMMA TxsMembers ==
    ASSUME NEW cs \in Seq(Chunk)
    PROVE  /\ Txs(cs) \subseteq Nat
           /\ \A x : x \in Txs(cs) <=>
                \E i \in DOMAIN cs : \E j \in DOMAIN cs[i].lines : x = cs[i].lines[j].tx
           /\ \A i \in DOMAIN cs : \A j \in DOMAIN cs[i].lines : cs[i].lines[j].tx \in Txs(cs)
<1>1. /\ DOMAIN LinesOf(cs) = DOMAIN cs
      /\ \A i \in DOMAIN cs : LinesOf(cs)[i] = cs[i].lines
  BY DEF LinesOf
<1>2. \A x : x \in Txs(cs) <=>
        \E i \in DOMAIN cs : \E j \in DOMAIN cs[i].lines : x = cs[i].lines[j].tx
  <2> DEFINE L == LinesOf(cs)
  <2>1. \A x : x \in TxsIn(L) <=> \E i \in DOMAIN L : \E j \in DOMAIN L[i] : x = L[i][j].tx
    BY DEF TxsIn
  <2>2. \A i \in DOMAIN cs : L[i] = cs[i].lines
    BY <1>1
  <2>3. DOMAIN L = DOMAIN cs /\ Txs(cs) = TxsIn(L)
    BY <1>1 DEF Txs
  <2> HIDE DEF L
  <2> QED
    BY <2>1, <2>2, <2>3
<1>3. \A i \in DOMAIN cs : \A j \in DOMAIN cs[i].lines : cs[i].lines[j].tx \in Nat
  BY ChunkType
<1>4. Txs(cs) \subseteq Nat
  BY <1>2, <1>3
<1> QED
  BY <1>2, <1>4

-------------------------------------------------------------------------------
(* How the chunks of a table change. *)

\* Nothing is cut off, and only the newest chunk gets lines.
GrownTo(old, new) ==
    /\ Len(old) <= Len(new)
    /\ \A i \in 1..Len(old) :
         /\ Len(old[i].lines) <= Len(new[i].lines)
         /\ \A j \in 1..Len(old[i].lines) : new[i].lines[j] = old[i].lines[j]
         /\ i < Len(old) => new[i].lines = old[i].lines

Grown == \A t \in Tables : GrownTo(chunks[t], chunks'[t])

\* The chunks that stay.
LEMMA SameGrown == ASSUME chunks' = chunks, StoreTypes PROVE Grown
<1>1. ASSUME NEW t \in Tables PROVE GrownTo(chunks[t], chunks[t])
  <2>1. chunks[t] \in Seq(Chunk)
    BY DEF StoreTypes
  <2>3. Len(chunks[t]) \in Nat /\ \A i \in 1..Len(chunks[t]) : Len(chunks[t][i].lines) \in Nat
    BY <2>1, ChunkType
  <2> QED
    BY <2>3 DEF GrownTo
<1> QED
  BY <1>1 DEF Grown

\* A new chunk is empty.
LEMMA NewChunkGrows ==
    ASSUME NEW cs \in Seq(Chunk)
    PROVE  LET c == [ready |-> FALSE, lines |-> <<>>]
           IN  /\ c \in Chunk /\ Append(cs, c) \in Seq(Chunk) /\ Append(cs, c) # <<>>
               /\ GrownTo(cs, Append(cs, c)) /\ Txs(Append(cs, c)) = Txs(cs)
<1> DEFINE c == [ready |-> FALSE, lines |-> <<>>]
           new == Append(cs, c)
<1>1. c \in Chunk /\ c.lines = <<>>
  BY DEF Chunk
<1> HIDE DEF c
<1>2. /\ new \in Seq(Chunk) /\ Len(new) = Len(cs) + 1 /\ Len(cs) \in Nat /\ new # <<>>
      /\ DOMAIN cs = 1..Len(cs) /\ DOMAIN new = 1..Len(new)
      /\ new[Len(cs) + 1] = c
  BY <1>1
<1>3. \A i \in 1..Len(cs) : new[i] = cs[i]
  BY <1>1
<1> HIDE DEF new
<1>4. \A i \in 1..Len(cs) : Len(cs[i].lines) \in Nat
  BY ChunkType
<1>5. GrownTo(cs, new)
  BY <1>2, <1>3, <1>4 DEF GrownTo
<1>6. Txs(new) = Txs(cs)
  <2>1. \A i \in DOMAIN new : i \in DOMAIN cs \/ DOMAIN new[i].lines = {}
    <3>1. DOMAIN c.lines = {}
      BY <1>1
    <3> QED
      BY <1>2, <3>1
  <2>2. \A i \in DOMAIN cs : i \in DOMAIN new /\ new[i] = cs[i]
    BY <1>2, <1>3
  <2>3. \A x : x \in Txs(new) <=> x \in Txs(cs)
    BY <1>2, <2>1, <2>2, TxsMembers
  <2> QED
    BY <2>3
<1> QED
  BY <1>1, <1>2, <1>5, <1>6 DEF new, c

\* The newest chunk gets its preamble, or a line.
LEMMA NewestGrows ==
    ASSUME NEW cs \in Seq(Chunk), cs # <<>>, NEW c \in Chunk,
           NEW more \in SUBSET Nat,
           LET old == cs[Len(cs)].lines
           IN  /\ Len(c.lines) \in {Len(old), Len(old) + 1}
               /\ \A j \in 1..Len(old) : c.lines[j] = old[j]
               /\ more = {c.lines[j].tx : j \in (Len(old) + 1)..Len(c.lines)}
    PROVE  LET new == [cs EXCEPT ![Len(cs)] = c]
           IN  /\ new \in Seq(Chunk) /\ new # <<>>
               /\ GrownTo(cs, new) /\ Txs(new) = Txs(cs) \cup more
<1> DEFINE new == [cs EXCEPT ![Len(cs)] = c]
           old == cs[Len(cs)].lines
<1>1. /\ Len(cs) \in Nat \ {0} /\ DOMAIN cs = 1..Len(cs)
  BY DEF Chunk
<1>2. new \in Seq(Chunk) /\ Len(new) = Len(cs)
  BY <1>1
<1>3. new[Len(cs)] = c /\ \A i \in 1..Len(cs) : i # Len(cs) => new[i] = cs[i]
  <2>1. Len(cs) \in DOMAIN cs
    BY <1>1
  <2> QED
    BY <1>1, <2>1
<1>4. DOMAIN new = 1..Len(cs) /\ new # <<>>
  BY <1>1, <1>2
<1>5. c.lines \in Seq(Line)
  BY DEF Chunk
<1>6. /\ \A i \in 1..Len(cs) : Len(cs[i].lines) \in Nat /\ DOMAIN cs[i].lines = 1..Len(cs[i].lines)
      /\ Len(old) \in Nat /\ DOMAIN old = 1..Len(old)
      /\ DOMAIN c.lines = 1..Len(c.lines) /\ Len(c.lines) \in Nat
  BY <1>1, <1>5, ChunkType
<1>7. /\ Len(c.lines) \in {Len(old), Len(old) + 1}
      /\ \A j \in 1..Len(old) : c.lines[j] = old[j]
      /\ more = {c.lines[j].tx : j \in (Len(old) + 1)..Len(c.lines)}
  OBVIOUS
<1> HIDE DEF new
<1>8. GrownTo(cs, new)
  <2>1. ASSUME NEW i \in 1..Len(cs)
        PROVE  /\ Len(cs[i].lines) <= Len(new[i].lines)
               /\ \A j \in 1..Len(cs[i].lines) : new[i].lines[j] = cs[i].lines[j]
               /\ i < Len(cs) => new[i].lines = cs[i].lines
    <3>1. CASE i = Len(cs)
      BY <3>1, <1>1, <1>3, <1>6, <1>7
    <3>2. CASE i # Len(cs)
      BY <3>2, <1>3, <1>6
    <3> QED
      BY <3>1, <3>2
  <2> QED
    BY <2>1, <1>1, <1>2 DEF GrownTo
<1>9. Txs(new) = Txs(cs) \cup more
  <2>1. ASSUME NEW x \in Txs(new) PROVE x \in Txs(cs) \cup more
    <3>1. PICK i \in 1..Len(cs) : \E j \in DOMAIN new[i].lines : x = new[i].lines[j].tx
      BY <2>1, <1>2, <1>4, TxsMembers
    <3>2. PICK j \in DOMAIN new[i].lines : x = new[i].lines[j].tx
      BY <3>1
    <3>3. CASE i # Len(cs)
      BY <3>2, <3>3, <1>1, <1>3, TxsMembers
    <3>4. CASE i = Len(cs)
      <4>1. j \in 1..Len(c.lines) /\ x = c.lines[j].tx
        BY <3>2, <3>4, <1>3, <1>6
      <4>2. CASE j <= Len(old)
        <5>1. j \in DOMAIN old /\ x = old[j].tx
          BY <4>1, <4>2, <1>6, <1>7
        <5> QED
          BY <5>1, <1>1, TxsMembers
      <4>3. CASE j > Len(old)
        BY <4>1, <4>3, <1>6, <1>7
      <4> QED
        BY <4>1, <4>2, <4>3, <1>6
    <3> QED
      BY <3>3, <3>4
  <2>2. ASSUME NEW x \in Txs(cs) PROVE x \in Txs(new)
    <3>1. PICK i \in 1..Len(cs) : \E j \in DOMAIN cs[i].lines : x = cs[i].lines[j].tx
      BY <2>2, <1>1, TxsMembers
    <3>2. PICK j \in DOMAIN cs[i].lines : x = cs[i].lines[j].tx
      BY <3>1
    <3>3. j \in DOMAIN new[i].lines /\ x = new[i].lines[j].tx
      <4>1. CASE i # Len(cs)
        BY <4>1, <3>2, <1>3
      <4>2. CASE i = Len(cs)
        <5>1. j \in 1..Len(old) /\ x = old[j].tx
          BY <4>2, <3>2, <1>6
        <5>2. j \in 1..Len(c.lines) /\ c.lines[j] = old[j]
          BY <5>1, <1>6, <1>7
        <5> QED
          BY <4>2, <5>1, <5>2, <1>3, <1>6
      <4> QED
        BY <4>1, <4>2
    <3> QED
      BY <3>3, <1>2, <1>4, TxsMembers
  <2>3. more \subseteq Txs(new)
    <3>1. ASSUME NEW j \in (Len(old) + 1)..Len(c.lines) PROVE c.lines[j].tx \in Txs(new)
      <4>0. j \in DOMAIN c.lines
        <5> HIDE DEF old
        <5> QED
          BY <1>6
      <4>1. j \in DOMAIN new[Len(cs)].lines /\ Len(cs) \in DOMAIN new
        <5>1. Len(cs) \in DOMAIN new
          BY <1>1, <1>4
        <5>2. DOMAIN new[Len(cs)].lines = DOMAIN c.lines
          BY <1>3
        <5> QED
          BY <4>0, <5>1, <5>2
      <4>2. new[Len(cs)].lines[j].tx \in Txs(new)
        BY <4>1, <1>2, TxsMembers
      <4> QED
        BY <4>2, <1>3
    <3> QED
      BY <3>1, <1>7
  <2> QED
    BY <2>1, <2>2, <2>3
<1> QED
  BY <1>2, <1>4, <1>8, <1>9 DEF new

-------------------------------------------------------------------------------
(* The store. *)

StoreInv == StoreTypes /\ TxInv /\ WriteInv /\ CleanInv

\* What a step leaves or adds in the chunks of every table.
LEMMA TxsGrow ==
    ASSUME TxInv, NEW more \in SUBSET Nat, \A x, y \in more : x = y, AllTxs' = AllTxs \cup more
    PROVE  TxInv' /\ NextTx <= NextTx' /\ NextTx \in Nat /\ NextTx' \in Nat
<1>1. PICK m \in AllTxs : \A n \in AllTxs : n <= m
  BY DEF TxInv
<1>2. AllTxs \subseteq Nat /\ AllTxs' \subseteq Nat
  BY DEF TxInv
<1>3. \E k \in AllTxs' : \A n \in AllTxs' : n <= k
  <2>1. CASE \A x \in more : x <= m
    BY <1>1, <1>2, <2>1
  <2>2. ASSUME NEW x \in more, ~(x <= m) PROVE \E k \in AllTxs' : \A n \in AllTxs' : n <= k
    <3>1. \A n \in AllTxs : n <= x
      BY <1>1, <1>2, <2>2
    <3>2. \A n \in AllTxs' : n <= x
      BY <1>2, <3>1
    <3> QED
      BY <3>2
  <2> QED
    BY <2>1, <2>2
<1>4. TxInv'
  BY <1>2, <1>3 DEF TxInv
<1>5. Max(AllTxs) \in AllTxs
  BY <1>1, <1>2, MaxIsLargest
<1>6. Max(AllTxs') \in AllTxs' /\ \A x \in AllTxs' : x <= Max(AllTxs')
  BY <1>2, <1>3, MaxIsLargest
<1>7. NextTx = 1 + Max(AllTxs) /\ NextTx' = 1 + Max(AllTxs')
  BY DEF NextTx, Max
<1>8. Max(AllTxs) <= Max(AllTxs') /\ Max(AllTxs) \in Nat /\ Max(AllTxs') \in Nat
  BY <1>2, <1>5, <1>6
<1> QED
  BY <1>4, <1>7, <1>8

\* A step that changes one table.
LEMMA OneTable ==
    ASSUME StoreTypes, NEW t \in Tables, NEW new \in Seq(Chunk), NEW more \in SUBSET Nat,
           chunks' = [chunks EXCEPT ![t] = new],
           GrownTo(chunks[t], new), Txs(new) = Txs(chunks[t]) \cup more
    PROVE  chunks' \in [Tables -> Seq(Chunk)] /\ Grown /\ AllTxs' = AllTxs \cup more
<1>1. chunks \in [Tables -> Seq(Chunk)]
  BY DEF StoreTypes
<1>2. chunks'[t] = new /\ \A u \in Tables : u # t => chunks'[u] = chunks[u]
  BY <1>1
<1>3. chunks' \in [Tables -> Seq(Chunk)]
  BY <1>1
<1>4. Grown
  <2>1. \A u \in Tables : GrownTo(chunks[u], chunks[u])
    <3>1. ASSUME NEW u \in Tables PROVE GrownTo(chunks[u], chunks[u])
      <4>1. chunks[u] \in Seq(Chunk)
        BY <1>1
      <4>2. Len(chunks[u]) \in Nat /\ \A i \in 1..Len(chunks[u]) : Len(chunks[u][i].lines) \in Nat
        BY <4>1, ChunkType
      <4> QED
        BY <4>2 DEF GrownTo
    <3> QED
      BY <3>1
  <2> QED
    BY <1>2, <2>1 DEF Grown
<1>5. AllTxs' = {0} \cup UNION {Txs(chunks'[u]) : u \in Tables}
  BY DEF AllTxs, Txs, LinesOf
<1>6. AllTxs' = AllTxs \cup more
  <2>1. ASSUME NEW x \in AllTxs' PROVE x \in AllTxs \cup more
    BY <1>2, <1>5, <2>1 DEF AllTxs
  <2>2. ASSUME NEW x \in AllTxs \cup more PROVE x \in AllTxs'
    BY <1>2, <1>5, <2>2 DEF AllTxs
  <2> QED
    BY <2>1, <2>2
<1> QED
  BY <1>3, <1>4, <1>6

\* What a step of the store does to the others.
StoreSteps == StoreInv' /\ Grown /\ NextTx <= NextTx' /\ NextTx \in Nat /\ NextTx' \in Nat

\* A step that leaves the chunks alone.
LEMMA SameChunks ==
    ASSUME StoreInv, chunks' = chunks
    PROVE  TxInv' /\ Grown /\ NextTx' = NextTx /\ NextTx \in Nat
<1>1. AllTxs' = AllTxs /\ NextTx' = NextTx
  BY DEF AllTxs, NextTx, Txs, LinesOf
<1>2. TxInv' /\ NextTx \in Nat
  BY <1>1, NextIsAbove DEF StoreInv, TxInv
<1> QED
  BY <1>1, <1>2, SameGrown DEF StoreInv

\* A write begins.
LEMMA BeginWriteStep ==
    ASSUME StoreInv, NEW t \in Tables, NEW b \in Batches, BeginWrite(t, b)
    PROVE  StoreSteps
<1>1. chunks' = chunks /\ revision' = Dirty
  BY DEF BeginWrite
<1>2. TxInv' /\ Grown /\ NextTx' = NextTx /\ NextTx \in Nat
  BY <1>1, SameChunks
<1>3. Encoded(b) \in Seq(Line)
  <2>1. PICK n \in 1..MaxBatch : b \in [1..n -> Ids]
    BY DEF Batches
  <2>2. n \in Nat /\ DOMAIN b = 1..n
    BY <2>1, BoundAssumption
  <2>3. \A i \in 1..n : [tx |-> NextTx + i - 1, id |-> b[i]] \in Line
    BY <1>2, <2>1, <2>2 DEF Line
  <2>4. Encoded(b) \in [1..n -> Line]
    BY <2>2, <2>3 DEF Encoded
  <2> QED
    BY <2>2, <2>4
<1>4. writing' = [table |-> t, new |-> NeedsChunk(t, Len(b)), left |-> Encoded(b)]
  BY DEF BeginWrite
<1>5. writing' \in Write
  BY <1>3, <1>4 DEF Write, NeedsChunk
<1>6. writing'.new \/ chunks'[writing'.table] # <<>>
  BY <1>1, <1>4 DEF NeedsChunk
<1> QED
  BY <1>1, <1>2, <1>5, <1>6 DEF StoreSteps, StoreInv, StoreTypes, WriteInv, CleanInv

\* The chunk of a write is created.
LEMMA CreateChunkStep ==
    ASSUME StoreInv, CreateChunk
    PROVE  StoreSteps
<1> DEFINE t == writing.table
           cs == chunks[t]
           new == Append(cs, [ready |-> FALSE, lines |-> <<>>])
           none == {}
<1>1. writing \in Write /\ writing # None /\ t \in Tables /\ cs \in Seq(Chunk)
  BY DEF CreateChunk, StoreInv, StoreTypes, Write
<1>2. chunks' = [chunks EXCEPT ![t] = new]
  BY DEF CreateChunk
<1>3. new \in Seq(Chunk) /\ new # <<>> /\ GrownTo(cs, new) /\ Txs(new) = Txs(cs) \cup none
  BY <1>1, NewChunkGrows
<1>0. none \in SUBSET Nat /\ \A x, y \in none : x = y
  OBVIOUS
<1> HIDE DEF new, none
<1>4. chunks' \in [Tables -> Seq(Chunk)] /\ Grown /\ AllTxs' = AllTxs \cup none
  BY <1>0, <1>1, <1>2, <1>3, OneTable DEF StoreInv
<1>5. TxInv' /\ NextTx <= NextTx' /\ NextTx \in Nat /\ NextTx' \in Nat
  BY <1>0, <1>4, TxsGrow DEF StoreInv
<1>6. writing' = [writing EXCEPT !.new = FALSE] /\ revision' = revision
  BY DEF CreateChunk
<1>7. writing' \in Write /\ writing'.table = t /\ writing' # None
  <2>1. writing' \in Write /\ writing'.table = t
    BY <1>1, <1>6 DEF Write
  <2> QED
    BY <2>1, SentinelAssumption DEF Write
<1>8. revision = Dirty
  BY <1>1 DEF StoreInv, WriteInv
<1>9. chunks'[t] # <<>>
  BY <1>1, <1>2, <1>3 DEF StoreInv, StoreTypes
<1>10. StoreTypes' /\ WriteInv' /\ CleanInv'
  BY <1>4, <1>6, <1>7, <1>8, <1>9 DEF StoreTypes, WriteInv, CleanInv
<1> QED
  BY <1>4, <1>5, <1>10 DEF StoreSteps, StoreInv

\* The newest chunk of a write changes.
LEMMA NewestStep ==
    ASSUME StoreInv, writing # None, ~writing.new, NEW c \in Chunk, NEW more \in SUBSET Nat,
           \A x, y \in more : x = y,
           LET cs  == chunks[writing.table]
               old == cs[Len(cs)].lines
           IN  /\ chunks' = [chunks EXCEPT ![writing.table] = [cs EXCEPT ![Len(cs)] = c]]
               /\ Len(c.lines) \in {Len(old), Len(old) + 1}
               /\ \A j \in 1..Len(old) : c.lines[j] = old[j]
               /\ more = {c.lines[j].tx : j \in (Len(old) + 1)..Len(c.lines)},
           revision' = revision,
           writing' \in Write, writing'.table = writing.table
    PROVE  StoreSteps
<1> DEFINE t == writing.table
           cs == chunks[t]
           new == [cs EXCEPT ![Len(cs)] = c]
<1>1. /\ writing \in Write /\ t \in Tables /\ cs \in Seq(Chunk) /\ cs # <<>>
      /\ revision = Dirty
  BY DEF StoreInv, StoreTypes, WriteInv, Write
<1>2. new \in Seq(Chunk) /\ new # <<>> /\ GrownTo(cs, new) /\ Txs(new) = Txs(cs) \cup more
  <2> DEFINE old == cs[Len(cs)].lines
  <2>1. /\ Len(c.lines) \in {Len(old), Len(old) + 1}
        /\ \A j \in 1..Len(old) : c.lines[j] = old[j]
        /\ more = {c.lines[j].tx : j \in (Len(old) + 1)..Len(c.lines)}
    OBVIOUS
  <2> HIDE DEF cs
  <2> QED
    BY <1>1, <2>1, NewestGrows
<1>3. chunks' = [chunks EXCEPT ![t] = new]
  OBVIOUS
<1> HIDE DEF new
<1>10. StoreTypes
  BY DEF StoreInv
<1>4. chunks' \in [Tables -> Seq(Chunk)] /\ Grown /\ AllTxs' = AllTxs \cup more
  <2> HIDE DEF t
  <2> QED
    BY <1>1, <1>2, <1>3, <1>10, OneTable
<1>5. TxInv' /\ NextTx <= NextTx' /\ NextTx \in Nat /\ NextTx' \in Nat
  BY <1>4, TxsGrow DEF StoreInv
<1>6. chunks'[t] # <<>>
  BY <1>1, <1>2, <1>3 DEF StoreInv, StoreTypes
<1>7. StoreTypes' /\ WriteInv' /\ CleanInv'
  BY <1>1, <1>4, <1>6 DEF StoreTypes, WriteInv, CleanInv
<1> QED
  BY <1>4, <1>5, <1>7 DEF StoreSteps, StoreInv

\* The chunk of a write gets its preamble.
LEMMA WritePreambleStep ==
    ASSUME StoreInv, WritePreamble
    PROVE  StoreSteps
<1> DEFINE cs == chunks[writing.table]
           old == cs[Len(cs)].lines
           c == [cs[Len(cs)] EXCEPT !.ready = TRUE]
<1>1. /\ writing # None /\ ~writing.new /\ writing \in Write /\ cs \in Seq(Chunk) /\ cs # <<>>
      /\ writing' = writing /\ revision' = revision
  BY DEF WritePreamble, StoreInv, StoreTypes, WriteInv, Write
<1>2. Len(cs) \in DOMAIN cs /\ cs[Len(cs)] \in Chunk /\ Len(old) \in Nat
  <2>1. Len(cs) \in DOMAIN cs
    BY <1>1
  <2> QED
    BY <1>1, <2>1, ChunkType
<1>3. c \in Chunk /\ c.lines = old
  BY <1>2 DEF Chunk
<1>4. chunks' = [chunks EXCEPT ![writing.table] = [cs EXCEPT ![Len(cs)] = c]]
  BY <1>1 DEF WritePreamble
<1> HIDE DEF c
<1>5. {c.lines[j].tx : j \in (Len(old) + 1)..Len(c.lines)} = {}
  BY <1>2, <1>3
<1> QED
  BY <1>1, <1>3, <1>4, <1>5, NewestStep

\* The chunk of a write gets its next line.
LEMMA AppendLineStep ==
    ASSUME StoreInv, AppendLine
    PROVE  StoreSteps
<1> DEFINE cs == chunks[writing.table]
           old == cs[Len(cs)].lines
           l == Head(writing.left)
           c == [cs[Len(cs)] EXCEPT !.lines = Append(@, l)]
<1>1. /\ writing # None /\ ~writing.new /\ writing \in Write /\ cs \in Seq(Chunk) /\ cs # <<>>
      /\ writing' = [writing EXCEPT !.left = Tail(@)] /\ revision' = revision
      /\ writing.left # <<>> /\ writing.left \in Seq(Line)
  BY DEF AppendLine, StoreInv, StoreTypes, WriteInv, Write
<1>2. Len(cs) \in DOMAIN cs /\ cs[Len(cs)] \in Chunk /\ old \in Seq(Line)
  <2>1. Len(cs) \in DOMAIN cs
    BY <1>1
  <2> QED
    BY <1>1, <2>1, ChunkType
<1>3. l \in Line /\ Tail(writing.left) \in Seq(Line)
  BY <1>1
<1>4. writing' \in Write /\ writing'.table = writing.table
  BY <1>1, <1>3 DEF Write
<1>5. chunks' = [chunks EXCEPT ![writing.table] = [cs EXCEPT ![Len(cs)] = c]]
  BY <1>1 DEF AppendLine
<1>6. c.lines = Append(old, l)
  BY <1>2 DEF Chunk
<1>7. c \in Chunk
  <2> HIDE DEF l
  <2>1. Append(old, l) \in Seq(Line)
    BY <1>2, <1>3
  <2> QED
    BY <1>2, <2>1 DEF Chunk
<1> HIDE DEF c, l, old
<1>8. /\ Len(c.lines) = Len(old) + 1 /\ Len(old) \in Nat
      /\ \A j \in 1..Len(old) : c.lines[j] = old[j]
      /\ c.lines[Len(old) + 1] = l
  BY <1>2, <1>3, <1>6
<1>9. {c.lines[j].tx : j \in (Len(old) + 1)..Len(c.lines)} = {l.tx}
  <2>1. (Len(old) + 1)..Len(c.lines) = {Len(old) + 1}
    BY <1>8
  <2> QED
    BY <1>8, <2>1
<1>10. l.tx \in Nat
  BY <1>3 DEF Line
<1> QED
  BY <1>1, <1>4, <1>5, <1>7, <1>8, <1>9, <1>10, NewestStep DEF old

\* A write ends with the next transaction as the revision, or leaves the marker.
LEMMA EndWriteStep ==
    ASSUME StoreInv, EndWrite \/ StopWrite
    PROVE  StoreSteps
<1>1. chunks' = chunks /\ writing' = None /\ writing # None
  BY DEF EndWrite, StopWrite
<1>2. TxInv' /\ Grown /\ NextTx' = NextTx /\ NextTx \in Nat
  BY <1>1, SameChunks
<1>3. revision' = NextTx \/ revision' = Dirty
  BY <1>1 DEF EndWrite, StopWrite, StoreInv, WriteInv
<1> QED
  BY <1>1, <1>2, <1>3 DEF StoreSteps, StoreInv, StoreTypes, WriteInv, CleanInv

\* Exports leave the store alone.
LEMMA SameStoreStep ==
    ASSUME StoreInv, UNCHANGED store
    PROVE  StoreSteps
<1>1. chunks' = chunks /\ writing' = writing /\ revision' = revision
  BY DEF store
<1>2. TxInv' /\ Grown /\ NextTx' = NextTx /\ NextTx \in Nat
  BY <1>1, SameChunks
<1> QED
  BY <1>1, <1>2 DEF StoreSteps, StoreInv, StoreTypes, WriteInv, CleanInv

-------------------------------------------------------------------------------
(* Copies of the chunks of one table. *)

\* `g` holds copies of the newest of the `listed` chunks, newest first; the
\* oldest ones are still to be read (`n` of them, below).  The first copy may miss lines at its end,
\* as more were appended since; of the other chunks nothing can be missing,
\* since they were no longer the newest.  No line of `since` is missing.
CopiedOf(cs, g, listed, since) ==
    /\ listed <= Len(cs)
    /\ \A j \in 2..Len(g) : g[j].lines = cs[listed + 1 - j].lines
    /\ g # <<>> =>
         /\ Len(g[1].lines) <= Len(cs[listed].lines)
         /\ \A k \in 1..Len(g[1].lines) : g[1].lines[k] = cs[listed].lines[k]
    /\ \A x \in since : \E i \in 1..listed : \E k \in 1..Len(cs[i].lines) :
         /\ x = cs[i].lines[k].tx
         /\ g # <<>> /\ i = listed => k <= Len(g[1].lines)

Copied(cs, g, n, since) == CopiedOf(cs, g, Len(g) + n, since)

\* Copies stay copies of chunks that grow.
LEMMA CopiedGrows ==
    ASSUME NEW old \in Seq(Chunk), NEW new \in Seq(Chunk), GrownTo(old, new),
           NEW g \in Seq(Chunk), NEW n \in Nat, NEW since, Copied(old, g, n, since)
    PROVE  Copied(new, g, n, since)
<1> DEFINE L == Len(g) + n
<1>1. /\ L \in Nat /\ Len(g) \in Nat /\ L <= Len(old) /\ Len(old) <= Len(new)
      /\ Len(old) \in Nat /\ Len(new) \in Nat /\ DOMAIN g = 1..Len(g)
  BY DEF Copied, CopiedOf, GrownTo
<1>2. /\ \A i \in 1..Len(old) : Len(old[i].lines) \in Nat
      /\ \A i \in 1..Len(new) : Len(new[i].lines) \in Nat
      /\ \A i \in 1..Len(g) : Len(g[i].lines) \in Nat
  BY ChunkType
<1>3. g # <<>> <=> Len(g) # 0
  OBVIOUS
<1>4. \A i \in 1..L : /\ Len(old[i].lines) <= Len(new[i].lines)
                      /\ \A j \in 1..Len(old[i].lines) : new[i].lines[j] = old[i].lines[j]
                      /\ i < L => new[i].lines = old[i].lines
  <2>1. \A i \in 1..Len(old) :
          /\ Len(old[i].lines) <= Len(new[i].lines)
          /\ \A j \in 1..Len(old[i].lines) : new[i].lines[j] = old[i].lines[j]
          /\ i < Len(old) => new[i].lines = old[i].lines
    BY DEF GrownTo
  <2> DEFINE m == Len(old)
  <2>2. L \in Nat /\ m \in Nat /\ L <= m
    BY <1>1
  <2> HIDE DEF L, m
  <2>3. \A i \in 1..L : i \in 1..m /\ (i < L => i < m)
    BY <2>2
  <2> QED
    BY <2>1, <2>3 DEF m
<1>5. ASSUME NEW j \in 2..Len(g) PROVE g[j].lines = new[L + 1 - j].lines
  <2>1. L + 1 - j \in 1..L /\ L + 1 - j < L
    BY <1>1
  <2>2. g[j].lines = old[L + 1 - j].lines
    BY DEF Copied, CopiedOf
  <2> QED
    BY <1>4, <2>1, <2>2
<1>6. ASSUME g # <<>>
      PROVE  /\ Len(g[1].lines) <= Len(new[L].lines)
             /\ \A k \in 1..Len(g[1].lines) : g[1].lines[k] = new[L].lines[k]
  <2>1. L \in 1..L /\ 1 \in 1..Len(g)
    BY <1>1, <1>3, <1>6
  <2>2. /\ Len(g[1].lines) <= Len(old[L].lines)
        /\ \A k \in 1..Len(g[1].lines) : g[1].lines[k] = old[L].lines[k]
    BY <1>6 DEF Copied, CopiedOf
  <2> HIDE DEF L
  <2>3. /\ Len(old[L].lines) <= Len(new[L].lines)
        /\ \A j \in 1..Len(old[L].lines) : new[L].lines[j] = old[L].lines[j]
    BY <1>4, <2>1
  <2>4. Len(old[L].lines) \in Nat /\ Len(new[L].lines) \in Nat /\ Len(g[1].lines) \in Nat
    BY <1>1, <1>2, <2>1
  <2>5. 1..Len(g[1].lines) \subseteq 1..Len(old[L].lines)
    BY <2>2, <2>4
  <2>6. Len(g[1].lines) <= Len(new[L].lines)
    <3> DEFINE a == Len(g[1].lines)
               b == Len(old[L].lines)
               c == Len(new[L].lines)
    <3>1. a \in Nat /\ b \in Nat /\ c \in Nat /\ a <= b /\ b <= c
      BY <2>2, <2>3, <2>4
    <3> HIDE DEF a, b, c
    <3>2. a <= c
      BY <3>1
    <3> QED
      BY <3>2 DEF a, c
  <2>7. \A k \in 1..Len(g[1].lines) : g[1].lines[k] = new[L].lines[k]
    BY <2>2, <2>3, <2>5
  <2> QED
    BY <2>6, <2>7
<1>7. ASSUME NEW x \in since
      PROVE  \E i \in 1..L : \E k \in 1..Len(new[i].lines) :
               /\ x = new[i].lines[k].tx
               /\ g # <<>> /\ i = L => k <= Len(g[1].lines)
  <2>1. PICK i \in 1..L : \E k \in 1..Len(old[i].lines) :
               /\ x = old[i].lines[k].tx
               /\ g # <<>> /\ i = L => k <= Len(g[1].lines)
    BY <1>7 DEF Copied, CopiedOf
  <2>2. PICK k \in 1..Len(old[i].lines) :
               /\ x = old[i].lines[k].tx
               /\ g # <<>> /\ i = L => k <= Len(g[1].lines)
    BY <2>1
  <2>3. k \in 1..Len(new[i].lines) /\ new[i].lines[k] = old[i].lines[k]
    <3>1. Len(old[i].lines) \in Nat /\ Len(new[i].lines) \in Nat
      BY <1>1, <1>2
    <3>2. Len(old[i].lines) <= Len(new[i].lines)
      BY <1>4
    <3>3. k \in 1..Len(new[i].lines)
      BY <3>1, <3>2
    <3> QED
      BY <1>4, <3>3
  <2> QED
    BY <2>2, <2>3
<1>8. L <= Len(new)
  BY <1>1
<1> QED
  BY <1>5, <1>6, <1>7, <1>8 DEF Copied, CopiedOf

\* Chunks that were listed, before the first is read.
LEMMA CopiedListed ==
    ASSUME NEW cs \in Seq(Chunk), NEW since, since \subseteq Txs(cs)
    PROVE  Copied(cs, <<>>, Len(cs), since)
<1> DEFINE g == <<>>
<1>1. Len(g) = 0 /\ g = <<>> /\ Len(cs) \in Nat /\ DOMAIN cs = 1..Len(cs)
  OBVIOUS
<1>2. \A x \in since : \E i \in 1..Len(cs) : \E k \in 1..Len(cs[i].lines) : x = cs[i].lines[k].tx
  <2>1. \A i \in 1..Len(cs) : DOMAIN cs[i].lines = 1..Len(cs[i].lines)
    BY <1>1, ChunkType
  <2>2. \A x \in since : \E i \in DOMAIN cs : \E j \in DOMAIN cs[i].lines : x = cs[i].lines[j].tx
    BY TxsMembers
  <2> QED
    BY <1>1, <2>1, <2>2
<1> HIDE DEF g
<1>3. Len(g) + Len(cs) = Len(cs) /\ ~(g # <<>>) /\ 2..Len(g) = {}
  BY <1>1
<1>4. Copied(cs, g, Len(cs), since)
  BY <1>1, <1>2, <1>3 DEF Copied, CopiedOf
<1> QED
  BY <1>4 DEF g

\* One chunk more is read.
LEMMA CopiedReads ==
    ASSUME NEW cs \in Seq(Chunk), NEW g \in Seq(Chunk), NEW n \in Nat \ {0}, NEW since,
           Copied(cs, g, n, since)
    PROVE  /\ n \in DOMAIN cs /\ cs[n] \in Chunk
           /\ Copied(cs, Append(g, cs[n]), n - 1, since)
<1> DEFINE L == Len(g) + n
           new == Append(g, cs[n])
<1>1. /\ L \in Nat /\ Len(g) \in Nat /\ L <= Len(cs) /\ Len(cs) \in Nat
      /\ DOMAIN cs = 1..Len(cs) /\ n \in DOMAIN cs /\ n <= L
  BY DEF Copied, CopiedOf
<1>2. cs[n] \in Chunk
  BY <1>1
<1>3. /\ new \in Seq(Chunk) /\ Len(new) = Len(g) + 1 /\ new[Len(g) + 1] = cs[n] /\ new # <<>>
      /\ \A j \in 1..Len(g) : new[j] = g[j]
  BY <1>2
<1>4. /\ \A i \in 1..Len(cs) : Len(cs[i].lines) \in Nat
      /\ \A i \in 1..Len(g) : Len(g[i].lines) \in Nat
  BY ChunkType
<1>5. Len(new) + (n - 1) = L /\ (g = <<>> <=> Len(g) = 0)
  BY <1>1, <1>3
<1> HIDE DEF new
<1>6. ASSUME NEW j \in 2..Len(new) PROVE new[j].lines = cs[L + 1 - j].lines
  <2>1. CASE j = Len(g) + 1
    <3>1. L + 1 - j = n
      BY <2>1, <1>1
    <3> QED
      BY <2>1, <3>1, <1>3
  <2>2. CASE j # Len(g) + 1
    <3>1. j \in 2..Len(g) /\ j \in 1..Len(g)
      BY <2>2, <1>1, <1>3
    <3> QED
      BY <3>1, <1>3 DEF Copied, CopiedOf
  <2> QED
    BY <2>1, <2>2
<1>7. /\ Len(new[1].lines) <= Len(cs[L].lines)
      /\ \A k \in 1..Len(new[1].lines) : new[1].lines[k] = cs[L].lines[k]
  <2>1. CASE g = <<>>
    <3>1. L = n /\ new[1] = cs[n]
      BY <2>1, <1>1, <1>3, <1>5
    <3>2. Len(cs[n].lines) \in Nat
      BY <1>1, <1>4
    <3> QED
      BY <3>1, <3>2
  <2>2. CASE g # <<>>
    <3>1. new[1] = g[1]
      BY <2>2, <1>1, <1>3, <1>5
    <3> QED
      BY <2>2, <3>1 DEF Copied, CopiedOf
  <2> QED
    BY <2>1, <2>2
<1>8. ASSUME NEW x \in since
      PROVE  \E i \in 1..L : \E k \in 1..Len(cs[i].lines) :
               /\ x = cs[i].lines[k].tx
               /\ i = L => k <= Len(new[1].lines)
  <2>1. PICK i \in 1..L : \E k \in 1..Len(cs[i].lines) :
               /\ x = cs[i].lines[k].tx
               /\ g # <<>> /\ i = L => k <= Len(g[1].lines)
    BY <1>8 DEF Copied, CopiedOf
  <2>2. PICK k \in 1..Len(cs[i].lines) :
               /\ x = cs[i].lines[k].tx
               /\ g # <<>> /\ i = L => k <= Len(g[1].lines)
    BY <2>1
  <2>3. i = L => k <= Len(new[1].lines)
    <3>1. CASE g = <<>>
      <4>1. L = n /\ new[1] = cs[n]
        BY <3>1, <1>1, <1>3, <1>5
      <4>2. Len(cs[n].lines) \in Nat
        BY <1>1, <1>4
      <4> QED
        BY <4>1, <4>2, <2>2
    <3>2. CASE g # <<>>
      <4>1. new[1] = g[1]
        BY <3>2, <1>1, <1>3, <1>5
      <4> QED
        BY <3>2, <4>1, <2>2
    <3> QED
      BY <3>1, <3>2
  <2> QED
    BY <2>2, <2>3
<1>9. Copied(cs, new, n - 1, since)
  <2>1. L = Len(new) + (n - 1)
    BY <1>5
  <2> HIDE DEF L
  <2> QED
    <3>1. CopiedOf(cs, new, L, since)
      BY <1>1, <1>3, <1>6, <1>7, <1>8 DEF CopiedOf
    <3> QED
      BY <2>1, <3>1 DEF Copied
<1> QED
  BY <1>1, <1>2, <1>9 DEF new

\* The copies of a whole listing, turned over, are the chunks up to some line.
LEMMA CopiedShown ==
    ASSUME NEW cs \in Seq(Chunk), NEW g \in Seq(Chunk), NEW since, Copied(cs, g, 0, since)
    PROVE  \E n \in 0..Len(cs) : \E m \in 0..(IF n = 0 THEN 0 ELSE Len(cs[n].lines)) :
             /\ since \subseteq TxsIn(UpTo(cs, n, m))
             /\ LinesOf(Reverse(g)) = UpTo(cs, n, m)
<1> DEFINE n == Len(g)
           m == IF n = 0 THEN 0 ELSE Len(g[1].lines)
           U == UpTo(cs, n, m)
<1>0. /\ n <= Len(cs)
      /\ \A j \in 2..n : g[j].lines = cs[n + 1 - j].lines
      /\ g # <<>> =>
           /\ Len(g[1].lines) <= Len(cs[n].lines)
           /\ \A k \in 1..Len(g[1].lines) : g[1].lines[k] = cs[n].lines[k]
      /\ \A x \in since : \E i \in 1..n : \E k \in 1..Len(cs[i].lines) :
           /\ x = cs[i].lines[k].tx
           /\ g # <<>> /\ i = n => k <= Len(g[1].lines)
  <2>1. Len(g) + 0 = n
    OBVIOUS
  <2> HIDE DEF n
  <2>2. CopiedOf(cs, g, n, since)
    BY <2>1 DEF Copied
  <2>3. n = Len(g)
    BY DEF n
  <2> QED
    BY <2>2, <2>3 DEF CopiedOf
<1>1. /\ n \in Nat /\ Len(cs) \in Nat /\ n <= Len(cs) /\ DOMAIN cs = 1..Len(cs)
      /\ DOMAIN g = 1..n /\ (g = <<>> <=> n = 0)
  BY <1>0
<1>2. /\ \A i \in 1..Len(cs) : cs[i].lines \in Seq(Line) /\ Len(cs[i].lines) \in Nat
      /\ \A i \in 1..n : g[i].lines \in Seq(Line) /\ Len(g[i].lines) \in Nat
  BY <1>1, ChunkType
<1>4. n # 0 => /\ m = Len(g[1].lines) /\ m \in Nat /\ m <= Len(cs[n].lines)
               /\ \A k \in 1..m : g[1].lines[k] = cs[n].lines[k]
  <2>1. ASSUME n # 0 PROVE Len(g[1].lines) \in Nat
    BY <2>1, <1>1, <1>2
  <2> QED
    BY <2>1, <1>0, <1>1
<1>6. \A x \in since : \E i \in 1..n : \E k \in 1..Len(cs[i].lines) :
         /\ x = cs[i].lines[k].tx
         /\ i = n => k <= m
  <2>1. ASSUME NEW x \in since
        PROVE  \E i \in 1..n : \E k \in 1..Len(cs[i].lines) : x = cs[i].lines[k].tx /\ (i = n => k <= m)
    <3>1. PICK i \in 1..n : \E k \in 1..Len(cs[i].lines) :
             /\ x = cs[i].lines[k].tx
             /\ g # <<>> /\ i = n => k <= Len(g[1].lines)
      BY <1>0
    <3>2. g # <<>> /\ n # 0
      BY <1>1
    <3> QED
      BY <3>1, <3>2
  <2> QED
    BY <2>1
<1>7. /\ DOMAIN U = 1..n
      /\ \A i \in 1..n : U[i] = IF i = n THEN SubSeq(cs[i].lines, 1, m) ELSE cs[i].lines
  BY DEF UpTo
<1>8. n # 0 => SubSeq(cs[n].lines, 1, m) = g[1].lines
  <2> SUFFICES ASSUME n # 0 PROVE SubSeq(cs[n].lines, 1, m) = g[1].lines
    OBVIOUS
  <2> DEFINE c == cs[n].lines
             d == g[1].lines
  <2>1. c \in Seq(Line) /\ d \in Seq(Line) /\ Len(d) = m /\ m \in Nat /\ m <= Len(c)
        /\ \A k \in 1..m : d[k] = c[k]
    BY <1>1, <1>2, <1>4
  <2> HIDE DEF c, d, m, n
  <2>2. SubSeq(c, 1, m) \in Seq(Line) /\ Len(SubSeq(c, 1, m)) = m
    BY <2>1
  <2>3. \A k \in 1..m : SubSeq(c, 1, m)[k] = c[k]
    BY <2>1
  <2>4. \A s, r \in Seq(Line) : Len(s) = Len(r) /\ (\A k \in 1..Len(s) : s[k] = r[k]) => s = r
    OBVIOUS
  <2>5. SubSeq(c, 1, m) = d
    BY <2>1, <2>2, <2>3, <2>4
  <2> QED
    BY <2>5 DEF c, d, m, n
<1>9. LinesOf(Reverse(g)) = U
  <2>1. /\ DOMAIN LinesOf(Reverse(g)) = 1..n
        /\ \A i \in 1..n : LinesOf(Reverse(g))[i] = g[n - i + 1].lines
    BY <1>1 DEF LinesOf, Reverse
  <2>2. ASSUME NEW i \in 1..n PROVE g[n - i + 1].lines = U[i]
    <3>1. CASE i = n
      <4>1. n - i + 1 = 1 /\ n # 0
        BY <3>1, <1>1
      <4> QED
        BY <3>1, <4>1, <1>7, <1>8
    <3>2. CASE i # n
      <4>1. n - i + 1 \in 2..n /\ n + 1 - (n - i + 1) = i
        <5> HIDE DEF n
        <5> QED
          BY <3>2, <1>1
      <4>2. g[n - i + 1].lines = cs[n + 1 - (n - i + 1)].lines
        BY <4>1, <1>0
      <4> QED
        BY <3>2, <4>1, <4>2, <1>7
    <3> QED
      BY <3>1, <3>2
  <2>3. U = [i \in 1..n |-> U[i]] /\ LinesOf(Reverse(g)) = [i \in 1..n |-> LinesOf(Reverse(g))[i]]
    BY <1>1, <1>7, <2>1 DEF UpTo, LinesOf, Reverse
  <2> HIDE DEF U, n
  <2> QED
    BY <2>1, <2>2, <2>3
<1>10. since \subseteq TxsIn(U)
  <2>1. ASSUME NEW x \in since PROVE \E i \in DOMAIN U : \E j \in DOMAIN U[i] : x = U[i][j].tx
    <3>1. PICK i \in 1..n : \E k \in 1..Len(cs[i].lines) : x = cs[i].lines[k].tx /\ (i = n => k <= m)
      BY <1>6
    <3>2. PICK k \in 1..Len(cs[i].lines) : x = cs[i].lines[k].tx /\ (i = n => k <= m)
      BY <3>1
    <3>3. k \in DOMAIN U[i] /\ U[i][k] = cs[i].lines[k]
      <4>1. CASE i = n
        <5>0. n # 0 /\ k \in 1..m
          <6>1. Len(cs[i].lines) \in Nat
            BY <1>1, <1>2
          <6> HIDE DEF n, m, U
          <6> QED
            BY <4>1, <3>2, <6>1, <1>1, <1>4
        <5>1. n # 0 /\ U[i] = g[1].lines /\ k \in 1..m
          <6> HIDE DEF n, m, U
          <6> QED
            BY <4>1, <5>0, <1>7, <1>8
        <5>2. DOMAIN g[1].lines = 1..m
          BY <5>1, <1>1, <1>2, <1>4
        <5> QED
          BY <4>1, <5>1, <5>2, <1>4
      <4>2. CASE i # n
        <5>1. DOMAIN cs[i].lines = 1..Len(cs[i].lines)
          BY <1>1, <1>2
        <5> QED
          BY <4>2, <5>1, <1>7
      <4> QED
        BY <4>1, <4>2
    <3> QED
      BY <1>7, <3>2, <3>3
  <2> HIDE DEF U
  <2> QED
    BY <2>1 DEF TxsIn
<1>11. n \in 0..Len(cs) /\ m \in 0..(IF n = 0 THEN 0 ELSE Len(cs[n].lines))
  BY <1>1, <1>2, <1>4
<1> HIDE DEF n, m
<1> QED
  BY <1>9, <1>10, <1>11

\* No transaction is lost while chunks grow.
LEMMA GrownTxs ==
    ASSUME NEW old \in Seq(Chunk), NEW new \in Seq(Chunk), GrownTo(old, new)
    PROVE  Txs(old) \subseteq Txs(new)
<1> SUFFICES ASSUME NEW x \in Txs(old) PROVE x \in Txs(new)
  OBVIOUS
<1>1. PICK i \in DOMAIN old : \E k \in DOMAIN old[i].lines : x = old[i].lines[k].tx
  BY TxsMembers
<1>2. PICK k \in DOMAIN old[i].lines : x = old[i].lines[k].tx
  BY <1>1
<1>3. /\ DOMAIN old = 1..Len(old) /\ DOMAIN new = 1..Len(new) /\ Len(old) \in Nat /\ Len(new) \in Nat
      /\ DOMAIN old[i].lines = 1..Len(old[i].lines) /\ Len(old[i].lines) \in Nat
  BY <1>1, ChunkType
<1>4. i \in DOMAIN new
  BY <1>1, <1>3 DEF GrownTo
<1>5. DOMAIN new[i].lines = 1..Len(new[i].lines) /\ Len(new[i].lines) \in Nat
  BY <1>4, ChunkType
<1>6. /\ Len(old[i].lines) <= Len(new[i].lines)
      /\ \A j \in 1..Len(old[i].lines) : new[i].lines[j] = old[i].lines[j]
  BY <1>1, <1>3 DEF GrownTo
<1>7. k \in DOMAIN new[i].lines /\ x = new[i].lines[k].tx
  <2>1. k \in 1..Len(old[i].lines)
    BY <1>2, <1>3
  <2> DEFINE a == Len(old[i].lines)
             b == Len(new[i].lines)
  <2>2. a \in Nat /\ b \in Nat /\ a <= b /\ k \in 1..a
    BY <1>3, <1>5, <1>6, <2>1
  <2> HIDE DEF a, b
  <2>3. k \in 1..b
    BY <2>2
  <2> QED
    BY <1>2, <1>5, <1>6, <2>1, <2>3 DEF b
<1> QED
  BY <1>4, <1>7, TxsMembers

-------------------------------------------------------------------------------
(* The exports. *)

\* The chunks of table t an export has listed and not read.
Pending(e, t) == IF e.listing # <<>> /\ e.listing[1][1] = t THEN Len(e.listing) ELSE 0

\* What the work still to do looks like: distinct tables, none of them the one
\* whose chunks are being read, newest first.
WorkOk(e) ==
    /\ \A i, j \in DOMAIN e.todo : e.todo[i] = e.todo[j] => i = j
    /\ \A k \in DOMAIN e.listing : e.listing[k] = <<e.listing[1][1], Len(e.listing) + 1 - k>>
    /\ e.listing # <<>> => e.listing[1][1] \notin ToSet(e.todo)
    /\ e.at # "tables" => e.todo = <<>> /\ e.listing = <<>>

\* What it has of each table: nothing yet, or copies of the chunks it listed.
GotOk(e, cs) ==
    \A t \in Tables :
      IF t \in ToSet(e.todo) THEN e.got[t] = <<>> /\ e.since[t] \subseteq Txs(cs[t])
      ELSE Copied(cs[t], e.got[t], Pending(e, t), e.since[t])

\* Its copies are below the next transaction, and below the revision it has read.
BelowOk(e, next) ==
    \A t \in Tables : \A x \in Txs(e.got[t]) :
      /\ x < next
      /\ e.at # "tables" /\ e.revision \in Nat => x < e.revision

ExportOk(e, cs, next) ==
    IF e.at = "idle" THEN e.listing = <<>> ELSE WorkOk(e) /\ GotOk(e, cs) /\ BelowOk(e, next)

\* A page is copies of every table, and covered by its revision.
PageOk(pg, cs) ==
    /\ pg \in Page
    /\ \A t \in Tables : Copied(cs[t], pg.got[t], 0, pg.since[t])
    /\ \A t \in Tables : \A x \in Txs(pg.got[t]) : pg.revision \in Nat => x < pg.revision

CopiesInv == \A p \in Exporters : ExportOk(exporter[p], chunks, NextTx)

PageInv == page = None \/ PageOk(page, chunks)

\* Two exports under way never share a temporary file, whatever their
\* predecessors left, and the one to be renamed holds the whole page.
Named(p) == exporter[p].at \in {"fill", "rename"}

NamesInv ==
    /\ \A p \in Exporters : Named(p) =>
         exporter[p].name < counter /\ exporter[p].name \in DOMAIN temp
    /\ \A p, q \in Exporters :
         Named(p) /\ Named(q) /\ exporter[p].name = exporter[q].name => p = q
    /\ \A p \in Exporters : exporter[p].at = "rename" =>
         temp[exporter[p].name] = PageOf(exporter[p])

\* What an export has stays right while the chunks grow.
LEMMA ExportGrows ==
    ASSUME StoreInv, StoreSteps, NEW e \in Export, ExportOk(e, chunks, NextTx)
    PROVE  ExportOk(e, chunks', NextTx')
<1> SUFFICES ASSUME e.at # "idle" PROVE WorkOk(e) /\ GotOk(e, chunks') /\ BelowOk(e, NextTx')
  BY DEF ExportOk
<1>1. WorkOk(e) /\ GotOk(e, chunks) /\ BelowOk(e, NextTx)
  BY DEF ExportOk
<1>2. chunks \in [Tables -> Seq(Chunk)] /\ chunks' \in [Tables -> Seq(Chunk)]
  BY DEF StoreInv, StoreSteps, StoreTypes
<1>3. ASSUME NEW t \in Tables
      PROVE  IF t \in ToSet(e.todo) THEN e.got[t] = <<>> /\ e.since[t] \subseteq Txs(chunks'[t])
             ELSE Copied(chunks'[t], e.got[t], Pending(e, t), e.since[t])
  <2>1. GrownTo(chunks[t], chunks'[t]) /\ chunks[t] \in Seq(Chunk) /\ chunks'[t] \in Seq(Chunk)
    BY <1>2 DEF StoreSteps, Grown
  <2>2. e.got[t] \in Seq(Chunk)
    BY DEF Export
  <2>3. CASE t \in ToSet(e.todo)
    <3>1. e.got[t] = <<>> /\ e.since[t] \subseteq Txs(chunks[t])
      BY <1>1, <2>3 DEF GotOk
    <3>2. Txs(chunks[t]) \subseteq Txs(chunks'[t])
      BY <2>1, GrownTxs
    <3> QED
      BY <2>3, <3>1, <3>2
  <2>4. CASE t \notin ToSet(e.todo)
    <3>1. Copied(chunks[t], e.got[t], Pending(e, t), e.since[t])
      BY <1>1, <2>4 DEF GotOk
    <3>2. Pending(e, t) \in Nat
      BY DEF Pending, Export
    <3>3. Copied(chunks'[t], e.got[t], Pending(e, t), e.since[t])
      BY <2>1, <2>2, <3>1, <3>2, CopiedGrows
    <3> QED
      BY <2>4, <3>3
  <2> QED
    BY <2>3, <2>4
<1>4. GotOk(e, chunks')
  BY <1>3 DEF GotOk
<1>5. BelowOk(e, NextTx')
  <2>1. ASSUME NEW t \in Tables, NEW x \in Txs(e.got[t]) PROVE x \in Nat
    <3>1. e.got[t] \in Seq(Chunk)
      BY DEF Export
    <3> QED
      BY <3>1, TxsMembers
  <2>2. NextTx <= NextTx' /\ NextTx \in Nat /\ NextTx' \in Nat
    BY DEF StoreSteps
  <2>3. \A x \in Nat : x < NextTx => x < NextTx'
    BY <2>2
  <2> QED
    BY <1>1, <2>1, <2>3 DEF BelowOk
<1> QED
  BY <1>1, <1>4, <1>5

\* So does the page.
LEMMA PageGrows ==
    ASSUME StoreInv, StoreSteps, NEW pg, PageOk(pg, chunks)
    PROVE  PageOk(pg, chunks')
<1>1. chunks \in [Tables -> Seq(Chunk)] /\ chunks' \in [Tables -> Seq(Chunk)]
  BY DEF StoreInv, StoreSteps, StoreTypes
<1>2. ASSUME NEW t \in Tables PROVE Copied(chunks'[t], pg.got[t], 0, pg.since[t])
  <2>1. GrownTo(chunks[t], chunks'[t]) /\ chunks[t] \in Seq(Chunk) /\ chunks'[t] \in Seq(Chunk)
    BY <1>1 DEF StoreSteps, Grown
  <2>2. pg \in Page /\ Copied(chunks[t], pg.got[t], 0, pg.since[t])
    BY DEF PageOk
  <2>3. pg.got[t] \in Seq(Chunk)
    BY <2>2 DEF Page
  <2> QED
    BY <2>1, <2>2, <2>3, CopiedGrows
<1> QED
  BY <1>2 DEF PageOk

-------------------------------------------------------------------------------
(* What an export becomes by its steps. *)

\* It begins: nothing is listed, and what there is must be shown.
LEMMA StartOk ==
    ASSUME StoreInv
    PROVE  LET e2 == [Idle EXCEPT !.at = "tables", !.todo = TableOrder,
                                  !.since = [t \in Tables |-> Txs(chunks[t])]]
           IN  e2 \in Export /\ ExportOk(e2, chunks, NextTx)
<1> DEFINE e2 == [Idle EXCEPT !.at = "tables", !.todo = TableOrder,
                              !.since = [t \in Tables |-> Txs(chunks[t])]]
           none == [t \in Tables |-> <<>>]
<1>1. \A t \in Tables : chunks[t] \in Seq(Chunk) /\ Txs(chunks[t]) \subseteq Nat
  BY TxsMembers DEF StoreInv, StoreTypes
<1>2. /\ e2.at = "tables" /\ e2.todo = TableOrder /\ e2.listing = <<>> /\ e2.got = none
      /\ e2.since = [t \in Tables |-> Txs(chunks[t])]
  BY DEF Idle
<1>3. e2 \in Export
  <2>1. none \in [Tables -> Seq(Chunk)]
    OBVIOUS
  <2>2. [t \in Tables |-> Txs(chunks[t])] \in [Tables -> SUBSET Nat]
    BY <1>1
  <2>3. TableOrder \in Seq(Tables) /\ "tables" \in Places
    BY OrderAssumption DEF Places
  <2>4. Idle \in Export
    <3>1. none \in [Tables -> Seq(Chunk)] /\ [t \in Tables |-> {}] \in [Tables -> SUBSET Nat]
      BY <2>1
    <3> QED
      BY <3>1 DEF Idle, Export, Places
  <2> QED
    BY <2>2, <2>3, <2>4 DEF Export
<1> HIDE DEF e2
<1>4. WorkOk(e2)
  BY <1>2, OrderAssumption DEF WorkOk
<1>5. GotOk(e2, chunks)
  <2>1. ToSet(e2.todo) = Tables
    BY <1>2 DEF Tables
  <2> QED
    BY <1>2, <2>1 DEF GotOk
<1>6. BelowOk(e2, NextTx)
  <2>1. \A t \in Tables : e2.got[t] = <<>>
    BY <1>2
  <2>2. Txs(<<>>) = {}
    BY DEF Txs, TxsIn, LinesOf
  <2> QED
    BY <2>1, <2>2 DEF BelowOk
<1> QED
  BY <1>2, <1>3, <1>4, <1>5, <1>6 DEF ExportOk, e2

\* The chunks of a table are listed, newest first.
LEMMA ListTableOk ==
    ASSUME StoreInv, NEW e \in Export, ExportOk(e, chunks, NextTx),
           e.at = "tables", e.listing = <<>>, e.todo # <<>>
    PROVE  LET t  == Head(e.todo)
               e2 == [e EXCEPT !.todo = Tail(@),
                               !.listing = Reverse([i \in DOMAIN chunks[t] |-> <<t, i>>])]
           IN  e2 \in Export /\ ExportOk(e2, chunks, NextTx)
<1> DEFINE t  == Head(e.todo)
           cs == chunks[t]
           l  == Reverse([i \in DOMAIN cs |-> <<t, i>>])
           rest == Tail(e.todo)
           e2 == [e EXCEPT !.todo = rest, !.listing = l]
<1>0. WorkOk(e) /\ GotOk(e, chunks) /\ BelowOk(e, NextTx)
  BY DEF ExportOk
<1>1. /\ e.todo \in Seq(Tables) /\ t \in Tables /\ rest \in Seq(Tables)
      /\ \A u : u \in ToSet(e.todo) <=> u = t \/ u \in ToSet(rest)
      /\ t \notin ToSet(rest)
      /\ \A i, j \in DOMAIN rest : rest[i] = rest[j] => i = j
  <2> DEFINE d == e.todo
  <2>1. d \in Seq(Tables) /\ d # <<>>
    BY DEF Export
  <2>2. \A i, j \in DOMAIN d : d[i] = d[j] => i = j
    BY <1>0 DEF WorkOk
  <2> HIDE DEF d
  <2>3. /\ Head(d) \in Tables /\ Tail(d) \in Seq(Tables) /\ Len(d) \in Nat \ {0}
        /\ DOMAIN d = 1..Len(d) /\ Head(d) = d[1] /\ 1 \in DOMAIN d
        /\ DOMAIN Tail(d) = 1..(Len(d) - 1)
        /\ \A i \in 1..(Len(d) - 1) : Tail(d)[i] = d[i + 1]
    BY <2>1
  <2>4. \A i \in DOMAIN Tail(d) : i + 1 \in DOMAIN d /\ i + 1 # 1 /\ Tail(d)[i] = d[i + 1]
    BY <2>3
  <2>5. \A i \in DOMAIN d : i = 1 \/ (i - 1 \in DOMAIN Tail(d) /\ (i - 1) + 1 = i)
    BY <2>3
  <2>6. \A u : u \in ToSet(d) <=> u = Head(d) \/ u \in ToSet(Tail(d))
    <3>1. ASSUME NEW u \in ToSet(d) PROVE u = Head(d) \/ u \in ToSet(Tail(d))
      BY <2>3, <2>4, <2>5, <3>1 DEF ToSet
    <3>2. ASSUME NEW u, u = Head(d) \/ u \in ToSet(Tail(d)) PROVE u \in ToSet(d)
      BY <2>3, <2>4, <3>2 DEF ToSet
    <3> QED
      BY <3>1, <3>2
  <2>7. Head(d) \notin ToSet(Tail(d))
    BY <2>2, <2>3, <2>4 DEF ToSet
  <2>8. \A i, j \in DOMAIN Tail(d) : Tail(d)[i] = Tail(d)[j] => i = j
    <3>1. ASSUME NEW i \in DOMAIN Tail(d), NEW j \in DOMAIN Tail(d), Tail(d)[i] = Tail(d)[j] PROVE i = j
      <4>1. i + 1 = j + 1
        BY <2>2, <2>4, <3>1
      <4> QED
        BY <4>1, <2>3
    <3> QED
      BY <3>1
  <2> QED
    BY <2>1, <2>3, <2>6, <2>7, <2>8 DEF d
<1>2. /\ cs \in Seq(Chunk) /\ Len(cs) \in Nat /\ DOMAIN cs = 1..Len(cs)
  BY <1>1 DEF StoreInv, StoreTypes
<1>3. /\ l \in Seq(Tables \X (Nat \ {0})) /\ Len(l) = Len(cs) /\ DOMAIN l = 1..Len(cs)
      /\ \A k \in DOMAIN l : l[k] = <<t, Len(l) + 1 - k>>
  <2> HIDE DEF cs, t
  <2> DEFINE r == [i \in 1..Len(cs) |-> <<t, i>>]
  <2>1. r \in Seq(Tables \X (Nat \ {0})) /\ Len(r) = Len(cs)
    BY <1>1, <1>2
  <2>2. Reverse(r) = [i \in 1..Len(cs) |-> r[(Len(cs) - i) + 1]]
    BY <2>1 DEF Reverse
  <2>3. \A i \in 1..Len(cs) : /\ r[(Len(cs) - i) + 1] = <<t, Len(cs) + 1 - i>>
                              /\ <<t, Len(cs) + 1 - i>> \in Tables \X (Nat \ {0})
    BY <1>1, <1>2
  <2> HIDE DEF r
  <2>4. Reverse(r) \in Seq(Tables \X (Nat \ {0})) /\ Len(Reverse(r)) = Len(cs)
    <3> DEFINE S == Tables \X (Nat \ {0})
               N == Len(cs)
    <3>0. \A i \in 1..N : r[(N - i) + 1] \in S
      BY <2>3
    <3>1. Reverse(r) \in [1..N -> S] /\ N \in Nat
      <4>1. Reverse(r) = [i \in 1..N |-> r[(N - i) + 1]]
        BY <2>2
      <4>2. N \in Nat
        BY <1>2
      <4> HIDE DEF S, N
      <4> QED
        BY <3>0, <4>1, <4>2
    <3> HIDE DEF S, N
    <3>2. Reverse(r) \in Seq(S) /\ Len(Reverse(r)) = N
      BY <3>1
    <3> QED
      BY <3>2 DEF S, N
  <2>5. DOMAIN Reverse(r) = 1..Len(cs) /\ \A i \in 1..Len(cs) : Reverse(r)[i] = <<t, Len(cs) + 1 - i>>
    BY <2>2, <2>3
  <2>6. l = Reverse(r)
    BY <1>2 DEF r
  <2> HIDE DEF l
  <2> QED
    BY <2>4, <2>5, <2>6
<1> HIDE DEF l, rest, t
<1>4. /\ e2.at = "tables" /\ e2.todo = rest /\ e2.listing = l /\ e2.got = e.got /\ e2.since = e.since
      /\ e2.revision = e.revision
  BY DEF Export
<1>5. e2 \in Export
  BY <1>1, <1>3 DEF Export
<1> HIDE DEF e2
<1>6. l # <<>> => l[1] = <<t, Len(l)>> /\ l[1][1] = t
  <2>1. ASSUME l # <<>> PROVE 1 \in DOMAIN l /\ Len(l) + 1 - 1 = Len(l)
    BY <2>1, <1>2, <1>3
  <2>2. ASSUME l # <<>> PROVE l[1] = <<t, Len(l)>>
    BY <2>1, <2>2, <1>3
  <2> QED
    BY <2>2
<1>7. WorkOk(e2)
  <2>1. \A k \in DOMAIN l : l[k] = <<l[1][1], Len(l) + 1 - k>>
    <3>1. ASSUME NEW k \in DOMAIN l PROVE l # <<>>
      BY <1>3
    <3> QED
      BY <3>1, <1>3, <1>6
  <2> QED
    BY <1>1, <1>4, <1>6, <2>1 DEF WorkOk
<1>8. GotOk(e2, chunks)
  <2>1. ASSUME NEW u \in Tables
        PROVE  IF u \in ToSet(rest) THEN e.got[u] = <<>> /\ e.since[u] \subseteq Txs(chunks[u])
               ELSE Copied(chunks[u], e.got[u], Pending(e2, u), e.since[u])
    <3>1. CASE u \in ToSet(rest)
      BY <3>1, <1>0, <1>1 DEF GotOk
    <3>2. CASE u = t
      <4>1. e.got[u] = <<>> /\ e.since[u] \subseteq Txs(cs)
        BY <3>2, <1>0, <1>1 DEF GotOk
      <4>2. Pending(e2, u) = Len(cs)
        <5>1. CASE l = <<>>
          <6>1. Len(l) = 0
            BY <5>1
          <6> QED
            BY <5>1, <6>1, <1>3, <1>4 DEF Pending
        <5>2. CASE l # <<>>
          BY <5>2, <3>2, <1>3, <1>4, <1>6 DEF Pending
        <5> QED
          BY <5>1, <5>2
      <4>3. Copied(cs, <<>>, Len(cs), e.since[u])
        BY <4>1, <1>2, CopiedListed
      <4> QED
        BY <3>2, <4>1, <4>2, <4>3, <1>1
    <3>3. CASE u \notin ToSet(rest) /\ u # t
      <4>1. Copied(chunks[u], e.got[u], Pending(e, u), e.since[u])
        BY <3>3, <1>0, <1>1 DEF GotOk
      <4>2. Pending(e2, u) = Pending(e, u)
        BY <3>3, <1>4, <1>6 DEF Pending
      <4> QED
        BY <3>3, <4>1, <4>2
    <3> QED
      BY <3>1, <3>2, <3>3
  <2> QED
    BY <1>4, <2>1 DEF GotOk
<1>9. BelowOk(e2, NextTx)
  BY <1>0, <1>4 DEF BelowOk
<1> QED
  BY <1>4, <1>5, <1>7, <1>8, <1>9 DEF ExportOk, e2, l, rest, t

\* A sequence with one element more.
LEMMA AppendFacts ==
    ASSUME NEW S, NEW s \in Seq(S), NEW x \in S
    PROVE  /\ Append(s, x) \in Seq(S) /\ Len(s) \in Nat
           /\ DOMAIN s = 1..Len(s) /\ DOMAIN Append(s, x) = 1..(Len(s) + 1)
           /\ Append(s, x)[Len(s) + 1] = x
           /\ \A i \in 1..Len(s) : Append(s, x)[i] = s[i]
  OBVIOUS

\* A chunk is read: what it holds now.
LEMMA ReadChunkOk ==
    ASSUME StoreInv, NEW e \in Export, ExportOk(e, chunks, NextTx),
           e.at # "idle", e.listing # <<>>
    PROVE  LET c  == Head(e.listing)
               e2 == [e EXCEPT !.listing = Tail(@), !.got[c[1]] = Append(@, chunks[c[1]][c[2]])]
           IN  e2 \in Export /\ ExportOk(e2, chunks, NextTx)
<1> DEFINE c  == Head(e.listing)
           t  == e.listing[1][1]
           n  == Len(e.listing)
           l  == Tail(e.listing)
           cs == chunks[t]
           e2 == [e EXCEPT !.listing = l, !.got[c[1]] = Append(@, chunks[c[1]][c[2]])]
<1>0. WorkOk(e) /\ GotOk(e, chunks) /\ BelowOk(e, NextTx)
  BY DEF ExportOk
<1>1. /\ e.listing \in Seq(Tables \X (Nat \ {0})) /\ n \in Nat \ {0} /\ t \in Tables
      /\ c = <<t, n>> /\ c[1] = t /\ c[2] = n
      /\ l \in Seq(Tables \X (Nat \ {0})) /\ Len(l) = n - 1 /\ DOMAIN l = 1..(n - 1)
      /\ \A k \in DOMAIN l : l[k] = <<t, n - k>>
  <2> DEFINE d == e.listing
  <2>1. d \in Seq(Tables \X (Nat \ {0})) /\ d # <<>>
    BY DEF Export
  <2>2. \A k \in DOMAIN d : d[k] = <<d[1][1], Len(d) + 1 - k>>
    BY <1>0 DEF WorkOk
  <2> HIDE DEF d
  <2>3. /\ Len(d) \in Nat \ {0} /\ DOMAIN d = 1..Len(d) /\ 1 \in DOMAIN d /\ Head(d) = d[1]
        /\ Tail(d) \in Seq(Tables \X (Nat \ {0})) /\ Len(Tail(d)) = Len(d) - 1
        /\ DOMAIN Tail(d) = 1..(Len(d) - 1)
        /\ \A k \in 1..(Len(d) - 1) : Tail(d)[k] = d[k + 1] /\ k + 1 \in DOMAIN d
    BY <2>1
  <2>4. d[1][1] \in Tables
    BY <2>1, <2>3
  <2>5. d[1] = <<d[1][1], Len(d)>>
    <3>1. Len(d) + 1 - 1 = Len(d)
      BY <2>3
    <3> QED
      BY <2>2, <2>3, <3>1
  <2>6. \A k \in 1..(Len(d) - 1) : Tail(d)[k] = <<d[1][1], Len(d) - k>>
    <3>1. \A k \in 1..(Len(d) - 1) : Len(d) + 1 - (k + 1) = Len(d) - k
      <4> DEFINE N == Len(d)
      <4>1. N \in Nat
        BY <2>3
      <4> HIDE DEF N
      <4>2. \A k \in 1..(N - 1) : N + 1 - (k + 1) = N - k
        BY <4>1
      <4> QED
        BY <4>2 DEF N
    <3> QED
      BY <2>2, <2>3, <3>1
  <2>7. Head(d)[1] = d[1][1] /\ Head(d)[2] = Len(d)
    BY <2>3, <2>5
  <2> QED
    BY <2>1, <2>3, <2>4, <2>5, <2>6, <2>7 DEF d
<1>2. cs \in Seq(Chunk) /\ e.got \in [Tables -> Seq(Chunk)] /\ e.got[t] \in Seq(Chunk)
  BY <1>1 DEF StoreInv, StoreTypes, Export
<1> HIDE DEF c, l, n
<1>3. t \notin ToSet(e.todo)
  BY <1>0 DEF WorkOk
<1>4. Copied(cs, e.got[t], n, e.since[t])
  <2>1. Pending(e, t) = n
    BY DEF Pending, n
  <2> QED
    BY <1>0, <1>1, <1>3, <2>1 DEF GotOk
<1>5. n \in DOMAIN cs /\ cs[n] \in Chunk /\ Copied(cs, Append(e.got[t], cs[n]), n - 1, e.since[t])
  BY <1>1, <1>2, <1>4, CopiedReads
<1> DEFINE g == Append(e.got[t], cs[n])
           got2 == [e.got EXCEPT ![t] = g]
<1>6. g \in Seq(Chunk) /\ Txs(g) \subseteq Txs(e.got[t]) \cup Txs(cs)
  <2> DEFINE o == e.got[t]
  <2>1. /\ g \in Seq(Chunk) /\ DOMAIN g = 1..(Len(o) + 1) /\ Len(o) \in Nat
        /\ g[Len(o) + 1] = cs[n] /\ DOMAIN o = 1..Len(o)
        /\ \A i \in 1..Len(o) : g[i] = o[i]
    <3>1. g = Append(o, cs[n]) /\ o \in Seq(Chunk) /\ cs[n] \in Chunk
      BY <1>2, <1>5
    <3> HIDE DEF g, o, cs
    <3> QED
      BY <3>1, AppendFacts
  <2>3. o \in Seq(Chunk)
    BY <1>2
  <2> HIDE DEF g, o
  <2>2. ASSUME NEW x \in Txs(g) PROVE x \in Txs(o) \cup Txs(cs)
    <3>1. PICK i \in DOMAIN g : \E j \in DOMAIN g[i].lines : x = g[i].lines[j].tx
      BY <2>1, TxsMembers
    <3>2. CASE i = Len(o) + 1
      <4>1. \E j \in DOMAIN cs[n].lines : x = cs[n].lines[j].tx
        BY <2>1, <3>1, <3>2
      <4> QED
        BY <4>1, <1>2, <1>5, TxsMembers
    <3>3. CASE i # Len(o) + 1
      <4>1. i \in DOMAIN o /\ g[i] = o[i]
        BY <2>1, <3>3
      <4> QED
        BY <4>1, <3>1, <2>3, TxsMembers
    <3> QED
      BY <3>2, <3>3
  <2> QED
    BY <2>1, <2>2 DEF o
<1> HIDE DEF g
<1>7. got2 \in [Tables -> Seq(Chunk)] /\ got2[t] = g /\ \A u \in Tables : u # t => got2[u] = e.got[u]
  BY <1>1, <1>2, <1>6
<1>8. /\ e2.at = e.at /\ e2.todo = e.todo /\ e2.listing = l /\ e2.since = e.since
      /\ e2.revision = e.revision /\ e2.name = e.name /\ e2.got = got2
      /\ DOMAIN e2 = {"at", "todo", "listing", "got", "revision", "name", "since"}
      /\ e2 = [e EXCEPT !.listing = l, !.got = got2]
  BY <1>1 DEF Export, g
<1>9. e2 \in Export
  <2> HIDE DEF e2, got2
  <2> QED
    BY <1>1, <1>7, <1>8 DEF Export
<1> HIDE DEF e2, got2
<1>10. l # <<>> => l[1] = <<t, n - 1>> /\ l[1][1] = t
  <2>1. ASSUME l # <<>> PROVE 1 \in DOMAIN l
    BY <2>1, <1>1
  <2> QED
    BY <2>1, <1>1
<1>11. WorkOk(e2)
  <2>1. \A k \in DOMAIN l : l[k] = <<l[1][1], Len(l) + 1 - k>>
    <3>1. ASSUME NEW k \in DOMAIN l PROVE l[k] = <<l[1][1], Len(l) + 1 - k>>
      <4>1. l # <<>> /\ Len(l) + 1 - k = n - k
        BY <1>1
      <4> QED
        BY <4>1, <1>1, <1>10
    <3> QED
      BY <3>1
  <2>2. e.at = "tables"
    BY <1>0 DEF WorkOk
  <2> QED
    BY <1>0, <1>3, <1>8, <1>10, <2>1, <2>2 DEF WorkOk
<1>12. GotOk(e2, chunks)
  <2>1. ASSUME NEW u \in Tables
        PROVE  IF u \in ToSet(e.todo) THEN got2[u] = <<>> /\ e.since[u] \subseteq Txs(chunks[u])
               ELSE Copied(chunks[u], got2[u], Pending(e2, u), e.since[u])
    <3>1. CASE u = t
      <4>1. Pending(e2, t) = n - 1
        <5>1. CASE l = <<>>
          <6>1. Len(l) = 0
            BY <5>1
          <6> QED
            BY <5>1, <6>1, <1>1, <1>8 DEF Pending
        <5>2. CASE l # <<>>
          BY <5>2, <1>1, <1>8, <1>10 DEF Pending
        <5> QED
          BY <5>1, <5>2
      <4> QED
        BY <3>1, <4>1, <1>3, <1>5, <1>7 DEF g
    <3>2. CASE u # t
      <4>1. Pending(e2, u) = Pending(e, u)
        BY <3>2, <1>8, <1>10 DEF Pending
      <4> QED
        BY <3>2, <4>1, <1>0, <1>7 DEF GotOk
    <3> QED
      BY <3>1, <3>2
  <2> QED
    BY <1>8, <2>1 DEF GotOk
<1>13. BelowOk(e2, NextTx)
  <2>1. e.at = "tables"
    BY <1>0 DEF WorkOk
  <2>2. ASSUME NEW u \in Tables, NEW x \in Txs(got2[u]) PROVE x < NextTx
    <3>1. CASE u = t
      <4>1. x \in Txs(e.got[t]) \/ x \in Txs(cs)
        BY <2>2, <3>1, <1>6, <1>7
      <4>2. Txs(cs) \subseteq AllTxs
        BY <1>1, TxsAreTxs
      <4> QED
        BY <4>1, <4>2, <1>0, <1>1, NextIsAbove DEF BelowOk, StoreInv
    <3>2. CASE u # t
      BY <2>2, <3>2, <1>0, <1>7 DEF BelowOk
    <3> QED
      BY <3>1, <3>2
  <2> QED
    BY <1>8, <2>1, <2>2 DEF BelowOk
<1> QED
  BY <1>8, <1>9, <1>11, <1>12, <1>13 DEF ExportOk, e2, c, l

\* The revision is read after the last table: a clean one is the next
\* transaction, above whatever was read.
LEMMA ReadRevisionOk ==
    ASSUME StoreInv, NEW e \in Export, ExportOk(e, chunks, NextTx),
           e.at = "tables", e.listing = <<>>, e.todo = <<>>, NEW seen \in {revision, None}
    PROVE  LET e2 == [e EXCEPT !.at = "open", !.revision = seen]
           IN  e2 \in Export /\ ExportOk(e2, chunks, NextTx)
<1> DEFINE e2 == [e EXCEPT !.at = "open", !.revision = seen]
<1>0. WorkOk(e) /\ GotOk(e, chunks) /\ BelowOk(e, NextTx)
  BY DEF ExportOk
<1>1. seen \in Nat \cup {Dirty, None} /\ (seen \in Nat => seen = NextTx)
  BY SentinelAssumption DEF StoreInv, StoreTypes, CleanInv
<1>2. e2 \in Export
  BY <1>1 DEF Export, Places
<1>3. /\ e2.at = "open" /\ e2.todo = e.todo /\ e2.listing = e.listing /\ e2.got = e.got
      /\ e2.since = e.since /\ e2.revision = seen
  BY DEF Export
<1> HIDE DEF e2
<1>4. WorkOk(e2)
  BY <1>0, <1>3 DEF WorkOk
<1>5. GotOk(e2, chunks)
  BY <1>0, <1>3 DEF GotOk, Pending
<1>6. BelowOk(e2, NextTx)
  BY <1>0, <1>1, <1>3 DEF BelowOk
<1> QED
  BY <1>2, <1>3, <1>4, <1>5, <1>6 DEF ExportOk, e2

\* What is written out is what was read.
LEMMA WriteOutOk ==
    ASSUME NEW e \in Export, ExportOk(e, chunks, NextTx), e.at \in {"open", "fill"},
           NEW at \in {"fill", "rename"}, NEW n \in Nat
    PROVE  LET e2 == [e EXCEPT !.at = at, !.name = n]
           IN  e2 \in Export /\ ExportOk(e2, chunks, NextTx)
<1> DEFINE e2 == [e EXCEPT !.at = at, !.name = n]
<1>0. WorkOk(e) /\ GotOk(e, chunks) /\ BelowOk(e, NextTx)
  BY DEF ExportOk
<1>1. e2 \in Export
  BY DEF Export, Places
<1>2. /\ e2.at = at /\ e2.todo = e.todo /\ e2.listing = e.listing /\ e2.got = e.got
      /\ e2.since = e.since /\ e2.revision = e.revision
  BY DEF Export
<1> HIDE DEF e2
<1>3. WorkOk(e2)
  BY <1>0, <1>2 DEF WorkOk
<1>4. GotOk(e2, chunks)
  BY <1>0, <1>2 DEF GotOk, Pending
<1>5. BelowOk(e2, NextTx)
  BY <1>0, <1>2 DEF BelowOk
<1> QED
  BY <1>1, <1>2, <1>3, <1>4, <1>5 DEF ExportOk, e2

-------------------------------------------------------------------------------
(* Every step. *)

ProjectionInv == StoreInv /\ ExportTypes /\ CopiesInv /\ NamesInv /\ PageInv

\* An empty workspace, no page.
LEMMA InitInv == Init => ProjectionInv
<1> SUFFICES ASSUME Init PROVE ProjectionInv
  OBVIOUS
<1>1. AllTxs = {0}
  <2>1. Txs(<<>>) = {}
    BY DEF Txs, TxsIn, LinesOf
  <2>2. \A t \in Tables : Txs(chunks[t]) = {}
    BY <2>1 DEF Init
  <2> QED
    BY <2>2 DEF AllTxs
<1>2. TxInv
  BY <1>1 DEF TxInv
<1>3. NextTx = 1
  <2>1. Max(AllTxs) \in AllTxs
    BY <1>1, MaxIsLargest
  <2> QED
    BY <1>1, <2>1 DEF NextTx
<1>4. StoreInv
  <2>1. chunks \in [Tables -> Seq(Chunk)] /\ revision = 1 /\ writing = None
    BY DEF Init
  <2> QED
    BY <1>2, <1>3, <2>1 DEF StoreInv, StoreTypes, WriteInv, CleanInv
<1>5. Idle \in Export
  <2>1. [t \in Tables |-> <<>>] \in [Tables -> Seq(Chunk)]
        /\ [t \in Tables |-> {}] \in [Tables -> SUBSET Nat]
    OBVIOUS
  <2> QED
    BY <2>1 DEF Idle, Export, Places
<1>6. ExportTypes
  BY <1>5 DEF Init, ExportTypes
<1>7. \A p \in Exporters : exporter[p].at = "idle" /\ exporter[p].listing = <<>>
  BY DEF Init, Idle
<1>8. CopiesInv /\ NamesInv /\ PageInv
  BY <1>7 DEF CopiesInv, ExportOk, NamesInv, Named, PageInv, Init
<1> QED
  BY <1>4, <1>6, <1>8 DEF ProjectionInv

\* A step that leaves the exports alone.
LEMMA WriterStep ==
    ASSUME ProjectionInv, StoreSteps, UNCHANGED export
    PROVE  ProjectionInv'
<1>1. /\ exporter' = exporter /\ counter' = counter /\ temp' = temp /\ page' = page
      /\ StoreInv /\ ExportTypes /\ CopiesInv /\ NamesInv /\ PageInv
  BY DEF export, ProjectionInv
<1>2. StoreInv'
  BY DEF StoreSteps
<1>3. ExportTypes' /\ NamesInv'
  BY <1>1 DEF ExportTypes, NamesInv, Named
<1>4. CopiesInv'
  <2>1. ASSUME NEW p \in Exporters PROVE ExportOk(exporter[p], chunks', NextTx')
    <3>1. exporter[p] \in Export /\ ExportOk(exporter[p], chunks, NextTx)
      BY <1>1 DEF ExportTypes, CopiesInv
    <3> QED
      BY <1>1, <3>1, ExportGrows
  <2> QED
    BY <1>1, <2>1 DEF CopiesInv
<1>5. PageInv'
  <2>1. CASE page = None
    BY <1>1, <2>1 DEF PageInv
  <2>2. CASE PageOk(page, chunks)
    <3>1. PageOk(page, chunks')
      BY <1>1, <2>2, PageGrows
    <3> QED
      BY <1>1, <3>1 DEF PageInv
  <2> QED
    BY <1>1, <2>1, <2>2 DEF PageInv
<1> QED
  BY <1>2, <1>3, <1>4, <1>5 DEF ProjectionInv

\* What a step of one export leaves of the store and of the other exports.
LEMMA ExporterFrame ==
    ASSUME ProjectionInv, UNCHANGED store, NEW p \in Exporters, NEW e2 \in Export, Set(p, e2),
           ExportOk(e2, chunks, NextTx)
    PROVE  /\ StoreInv' /\ CopiesInv' /\ chunks' = chunks
           /\ exporter' \in [Exporters -> Export] /\ exporter'[p] = e2
           /\ \A q \in Exporters : q # p => exporter'[q] = exporter[q]
<1>1. StoreSteps /\ chunks' = chunks
  BY SameStoreStep DEF ProjectionInv, store
<1>2. /\ exporter' = [exporter EXCEPT ![p] = e2] /\ exporter \in [Exporters -> Export]
      /\ StoreInv /\ CopiesInv
  BY DEF Set, ProjectionInv, ExportTypes
<1>3. /\ exporter' \in [Exporters -> Export] /\ exporter'[p] = e2
      /\ \A q \in Exporters : q # p => exporter'[q] = exporter[q]
  BY <1>2
<1>4. NextTx' = NextTx
  BY <1>1 DEF NextTx, AllTxs, Txs, LinesOf
<1>5. CopiesInv'
  BY <1>1, <1>2, <1>3, <1>4 DEF CopiesInv
<1> QED
  BY <1>1, <1>3, <1>5 DEF StoreSteps

\* A step of an export that has no temporary file yet or any more.
LEMMA NamelessStep ==
    ASSUME ProjectionInv, UNCHANGED <<store, page>>, counter' = counter,
           NEW p \in Exporters, NEW e2 \in Export, Set(p, e2),
           ExportOk(e2, chunks, NextTx), e2.at \notin {"fill", "rename"},
           \/ temp' = temp
           \/ exporter[p].at = "rename" /\ temp' = Removed(exporter[p].name)
    PROVE  ProjectionInv'
<1>1. /\ StoreInv' /\ CopiesInv' /\ chunks' = chunks
      /\ exporter' \in [Exporters -> Export] /\ exporter'[p] = e2
      /\ \A q \in Exporters : q # p => exporter'[q] = exporter[q]
  BY ExporterFrame
<1>2. NamesInv /\ ExportTypes /\ PageInv
  BY DEF ProjectionInv
<1>4. ASSUME NEW q \in Exporters, Named(q)'
      PROVE  q # p /\ Named(q) /\ exporter'[q] = exporter[q]
  BY <1>1, <1>4 DEF Named
<1>5. ASSUME NEW q \in Exporters, q # p, Named(q)
      PROVE  exporter[q].name \in DOMAIN temp' /\ temp'[exporter[q].name] = temp[exporter[q].name]
  <2>1. exporter[q].name \in DOMAIN temp
    BY <1>2, <1>5 DEF NamesInv
  <2>2. CASE temp' = temp
    BY <2>1, <2>2
  <2>3. CASE exporter[p].at = "rename" /\ temp' = Removed(exporter[p].name)
    <3>1. exporter[q].name # exporter[p].name
      BY <1>2, <1>5, <2>3 DEF NamesInv, Named
    <3>2. temp' = [n \in DOMAIN temp \ {exporter[p].name} |-> temp[n]]
      BY <2>3 DEF Removed, Restrict
    <3> QED
      BY <2>1, <3>1, <3>2
  <2> QED
    BY <2>2, <2>3
<1>6. DOMAIN temp' \subseteq DOMAIN temp
  BY DEF Removed, Restrict
<1>7. ExportTypes'
  BY <1>1, <1>2, <1>6 DEF ExportTypes
<1>8. NamesInv'
  <2>1. ASSUME NEW q \in Exporters, Named(q)'
        PROVE  /\ exporter'[q].name < counter' /\ exporter'[q].name \in DOMAIN temp'
               /\ exporter'[q].at = "rename" => temp'[exporter'[q].name] = PageOf(exporter'[q])
    <3>1. q # p /\ Named(q) /\ exporter'[q] = exporter[q]
      BY <1>4, <2>1
    <3>2. exporter[q].name \in DOMAIN temp' /\ temp'[exporter[q].name] = temp[exporter[q].name]
      BY <1>5, <3>1
    <3>3. /\ exporter[q].name < counter
          /\ exporter[q].at = "rename" => temp[exporter[q].name] = PageOf(exporter[q])
      BY <1>2, <3>1 DEF NamesInv
    <3> QED
      BY <3>1, <3>2, <3>3
  <2>2. ASSUME NEW q \in Exporters, NEW r \in Exporters, Named(q)', Named(r)',
               exporter'[q].name = exporter'[r].name
        PROVE  q = r
    BY <1>2, <1>4, <2>2 DEF NamesInv
  <2>3. \A q \in Exporters : exporter'[q].at = "rename" => Named(q)'
    BY DEF Named
  <2> QED
    BY <2>1, <2>2, <2>3 DEF NamesInv
<1>9. PageInv'
  BY <1>1, <1>2 DEF PageInv
<1> QED
  BY <1>1, <1>7, <1>8, <1>9 DEF ProjectionInv

\* An export that is idle, or begins again.
LEMMA IdleExport ==
    /\ Idle \in Export /\ Idle.at = "idle" /\ Idle.listing = <<>>
    /\ \A cs, next : ExportOk(Idle, cs, next)
<1>1. [t \in Tables |-> <<>>] \in [Tables -> Seq(Chunk)]
      /\ [t \in Tables |-> {}] \in [Tables -> SUBSET Nat]
  OBVIOUS
<1>2. Idle \in Export /\ Idle.at = "idle" /\ Idle.listing = <<>>
  BY <1>1 DEF Idle, Export, Places
<1> QED
  BY <1>2 DEF ExportOk

\* The temporary file is opened, under a name no export of the process has used.
LEMMA OpenTempStep ==
    ASSUME ProjectionInv, NEW p \in Exporters, OpenTemp(p)
    PROVE  ProjectionInv'
<1> DEFINE e == exporter[p]
           e2 == [e EXCEPT !.at = "fill", !.name = counter]
<1>0. NamesInv /\ ExportTypes /\ PageInv /\ e \in Export /\ ExportOk(e, chunks, NextTx)
      /\ counter \in Nat
  BY DEF ProjectionInv, ExportTypes, CopiesInv
<1>1. /\ e.at = "open" /\ Set(p, e2) /\ counter' = counter + 1
      /\ UNCHANGED store /\ page' = page
      /\ temp' = [n \in DOMAIN temp \cup {counter} |-> IF n = counter THEN Partial ELSE temp[n]]
  BY DEF OpenTemp, TempName
<1>2. e2 \in Export /\ ExportOk(e2, chunks, NextTx)
  BY <1>0, <1>1, WriteOutOk
<1>3. e2.at = "fill" /\ e2.name = counter
  BY <1>0 DEF Export
<1> HIDE DEF e2
<1>4. /\ StoreInv' /\ CopiesInv' /\ chunks' = chunks
      /\ exporter' \in [Exporters -> Export] /\ exporter'[p] = e2
      /\ \A q \in Exporters : q # p => exporter'[q] = exporter[q]
  BY <1>1, <1>2, ExporterFrame
<1>5. /\ DOMAIN temp' = DOMAIN temp \cup {counter}
      /\ \A n \in DOMAIN temp : n # counter => temp'[n] = temp[n]
  BY <1>1
<1>6. ExportTypes'
  BY <1>0, <1>1, <1>4, <1>5 DEF ExportTypes
<1>7. ASSUME NEW q \in Exporters, Named(q)', q # p
      PROVE  Named(q) /\ exporter'[q] = exporter[q] /\ exporter[q].name < counter
             /\ exporter[q].name \in DOMAIN temp /\ exporter[q].name \in Nat
  <2>1. Named(q) /\ exporter'[q] = exporter[q]
    BY <1>4, <1>7 DEF Named
  <2>2. exporter[q] \in Export
    BY <1>0 DEF ExportTypes
  <2>3. exporter[q].name \in Nat
    BY <2>2 DEF Export
  <2> QED
    BY <1>0, <2>1, <2>3 DEF NamesInv
<1>8. NamesInv'
  <2>1. ASSUME NEW q \in Exporters, Named(q)'
        PROVE  /\ exporter'[q].name < counter' /\ exporter'[q].name \in DOMAIN temp'
               /\ exporter'[q].at = "rename" => temp'[exporter'[q].name] = PageOf(exporter'[q])
    <3>1. CASE q = p
      BY <3>1, <1>0, <1>1, <1>3, <1>4, <1>5
    <3>2. CASE q # p
      <4>1. /\ Named(q) /\ exporter'[q] = exporter[q] /\ exporter[q].name < counter
            /\ exporter[q].name \in DOMAIN temp /\ exporter[q].name \in Nat
        BY <1>7, <2>1, <3>2
      <4>2. exporter[q].name < counter' /\ exporter[q].name # counter
        BY <1>0, <1>1, <4>1
      <4>3. exporter[q].at = "rename" => temp[exporter[q].name] = PageOf(exporter[q])
        BY <1>0 DEF NamesInv
      <4> QED
        BY <1>5, <4>1, <4>2, <4>3
    <3> QED
      BY <3>1, <3>2
  <2>2. ASSUME NEW q \in Exporters, NEW r \in Exporters, Named(q)', Named(r)',
               exporter'[q].name = exporter'[r].name
        PROVE  q = r
    <3>1. CASE q = p /\ r # p
      <4>1. exporter'[q].name = counter
        BY <3>1, <1>3, <1>4
      <4>2. exporter'[r].name < counter /\ exporter'[r].name \in Nat
        BY <3>1, <1>7, <2>2
      <4> QED
        BY <1>0, <2>2, <4>1, <4>2
    <3>2. CASE r = p /\ q # p
      <4>1. exporter'[r].name = counter
        BY <3>2, <1>3, <1>4
      <4>2. exporter'[q].name < counter /\ exporter'[q].name \in Nat
        BY <3>2, <1>7, <2>2
      <4> QED
        BY <1>0, <2>2, <4>1, <4>2
    <3>3. CASE q # p /\ r # p
      BY <3>3, <1>0, <1>7, <2>2 DEF NamesInv
    <3> QED
      BY <3>1, <3>2, <3>3
  <2>3. \A q \in Exporters : exporter'[q].at = "rename" => Named(q)'
    BY DEF Named
  <2> QED
    BY <2>1, <2>2, <2>3 DEF NamesInv
<1>9. PageInv'
  BY <1>0, <1>1, <1>4 DEF PageInv
<1> QED
  BY <1>4, <1>6, <1>8, <1>9 DEF ProjectionInv

\* It is filled with the page.
LEMMA FillTempStep ==
    ASSUME ProjectionInv, NEW p \in Exporters, FillTemp(p)
    PROVE  ProjectionInv'
<1> DEFINE e == exporter[p]
           e2 == [e EXCEPT !.at = "rename"]
<1>0. NamesInv /\ ExportTypes /\ PageInv /\ e \in Export /\ ExportOk(e, chunks, NextTx)
  BY DEF ProjectionInv, ExportTypes, CopiesInv
<1>1. /\ e.at = "fill" /\ Set(p, e2) /\ counter' = counter /\ UNCHANGED store /\ page' = page
      /\ temp' = [temp EXCEPT ![e.name] = PageOf(e)]
  BY DEF FillTemp
<1>2. e2 \in Export /\ ExportOk(e2, chunks, NextTx)
  <2>1. e2 = [e EXCEPT !.at = "rename", !.name = e.name] /\ e.name \in Nat
    BY <1>0 DEF Export
  <2> HIDE DEF e, e2
  <2> QED
    BY <1>0, <1>1, <2>1, WriteOutOk
<1>3. e2.at = "rename" /\ e2.name = e.name /\ PageOf(e2) = PageOf(e)
  BY <1>0 DEF Export, PageOf
<1> HIDE DEF e2
<1>4. /\ StoreInv' /\ CopiesInv' /\ chunks' = chunks
      /\ exporter' \in [Exporters -> Export] /\ exporter'[p] = e2
      /\ \A q \in Exporters : q # p => exporter'[q] = exporter[q]
  BY <1>1, <1>2, ExporterFrame
<1>5. /\ Named(p) /\ e.name \in DOMAIN temp /\ DOMAIN temp' = DOMAIN temp
      /\ temp'[e.name] = PageOf(e)
      /\ \A n \in DOMAIN temp : n # e.name => temp'[n] = temp[n]
  <2>1. Named(p)
    BY <1>1 DEF Named
  <2>2. e.name \in DOMAIN temp
    BY <1>0, <2>1 DEF NamesInv
  <2> QED
    BY <1>1, <2>1, <2>2
<1>6. ExportTypes'
  BY <1>0, <1>1, <1>4, <1>5 DEF ExportTypes
<1>7. ASSUME NEW q \in Exporters, Named(q)'
      PROVE  Named(q) /\ exporter'[q].name = exporter[q].name
  BY <1>3, <1>4, <1>5, <1>7 DEF Named
<1>8. NamesInv'
  <2>1. ASSUME NEW q \in Exporters, Named(q)'
        PROVE  exporter'[q].name < counter' /\ exporter'[q].name \in DOMAIN temp'
    BY <1>0, <1>1, <1>5, <1>7, <2>1 DEF NamesInv
  <2>2. ASSUME NEW q \in Exporters, NEW r \in Exporters, Named(q)', Named(r)',
               exporter'[q].name = exporter'[r].name
        PROVE  q = r
    BY <1>0, <1>7, <2>2 DEF NamesInv
  <2>3. ASSUME NEW q \in Exporters, exporter'[q].at = "rename"
        PROVE  temp'[exporter'[q].name] = PageOf(exporter'[q])
    <3>1. CASE q = p
      BY <3>1, <1>3, <1>4, <1>5
    <3>2. CASE q # p
      <4>1. exporter'[q] = exporter[q] /\ Named(q)
        BY <3>2, <1>4, <2>3 DEF Named
      <4>2. exporter[q].name # e.name /\ exporter[q].name \in DOMAIN temp
        BY <3>2, <1>0, <1>5, <4>1 DEF NamesInv
      <4>3. temp[exporter[q].name] = PageOf(exporter[q])
        BY <1>0, <2>3, <4>1 DEF NamesInv
      <4> QED
        BY <1>5, <4>1, <4>2, <4>3
    <3> QED
      BY <3>1, <3>2
  <2> QED
    BY <2>1, <2>2, <2>3 DEF NamesInv
<1>9. PageInv'
  BY <1>0, <1>1, <1>4 DEF PageInv
<1> QED
  BY <1>4, <1>6, <1>8, <1>9 DEF ProjectionInv

\* It becomes the page.
LEMMA PublishStep ==
    ASSUME ProjectionInv, NEW p \in Exporters, Publish(p)
    PROVE  ProjectionInv'
<1> DEFINE e == exporter[p]
<1>0. NamesInv /\ ExportTypes /\ PageInv /\ e \in Export /\ ExportOk(e, chunks, NextTx)
  BY DEF ProjectionInv, ExportTypes, CopiesInv
<1>1. /\ e.at = "rename" /\ Set(p, Idle) /\ counter' = counter /\ UNCHANGED store
      /\ page' = temp[e.name] /\ temp' = Removed(e.name)
  BY DEF Publish
<1>2. page' = PageOf(e)
  BY <1>0, <1>1 DEF NamesInv
<1>3. WorkOk(e) /\ GotOk(e, chunks) /\ BelowOk(e, NextTx)
  BY <1>0, <1>1 DEF ExportOk
<1>4. e.todo = <<>> /\ e.listing = <<>>
  BY <1>1, <1>3 DEF WorkOk
<1>5. PageOk(PageOf(e), chunks)
  <2> DEFINE pg == PageOf(e)
  <2>1. pg.got = e.got /\ pg.since = e.since /\ pg.revision = e.revision
    BY DEF PageOf
  <2>2. pg \in Page
    BY <1>0 DEF PageOf, Page, Export
  <2> HIDE DEF pg
  <2>3. ASSUME NEW t \in Tables PROVE Copied(chunks[t], e.got[t], 0, e.since[t])
    <3>1. ToSet(e.todo) = {} /\ Pending(e, t) = 0
      BY <1>4 DEF ToSet, Pending
    <3>2. t \notin ToSet(e.todo)
      BY <3>1
    <3> QED
      BY <1>3, <3>1, <3>2 DEF GotOk
  <2>4. \A t \in Tables : \A x \in Txs(e.got[t]) : e.revision \in Nat => x < e.revision
    BY <1>1, <1>3 DEF BelowOk
  <2>5. PageOk(pg, chunks)
    BY <2>1, <2>2, <2>3, <2>4 DEF PageOk
  <2> QED
    BY <2>5 DEF pg
\* The same step without the page.
<1>6. /\ StoreInv' /\ CopiesInv' /\ chunks' = chunks
      /\ exporter' \in [Exporters -> Export] /\ exporter'[p] = Idle
      /\ \A q \in Exporters : q # p => exporter'[q] = exporter[q]
  BY <1>1, IdleExport, ExporterFrame
<1>7. temp' = [n \in DOMAIN temp \ {e.name} |-> temp[n]]
  BY <1>1 DEF Removed, Restrict
<1>8. ASSUME NEW q \in Exporters, Named(q)'
      PROVE  /\ Named(q) /\ exporter'[q] = exporter[q] /\ exporter[q].name < counter
             /\ exporter[q].name \in DOMAIN temp'
             /\ temp'[exporter[q].name] = temp[exporter[q].name]
  <2>1. q # p /\ Named(q) /\ exporter'[q] = exporter[q]
    BY <1>6, <1>8, IdleExport DEF Named
  <2>2. exporter[q].name # e.name
    BY <1>0, <1>1, <2>1 DEF NamesInv, Named
  <2>3. exporter[q].name \in DOMAIN temp /\ exporter[q].name < counter
    BY <1>0, <2>1 DEF NamesInv
  <2> QED
    BY <1>7, <2>1, <2>2, <2>3
<1>9. NamesInv'
  <2>1. \A q \in Exporters : exporter'[q].at = "rename" => Named(q)'
    BY DEF Named
  <2>2. ASSUME NEW q \in Exporters, NEW r \in Exporters, Named(q)', Named(r)',
               exporter'[q].name = exporter'[r].name
        PROVE  q = r
    BY <1>0, <1>8, <2>2 DEF NamesInv
  <2>3. ASSUME NEW q \in Exporters, Named(q)'
        PROVE  /\ exporter'[q].name < counter' /\ exporter'[q].name \in DOMAIN temp'
               /\ exporter'[q].at = "rename" => temp'[exporter'[q].name] = PageOf(exporter'[q])
    BY <1>0, <1>1, <1>8, <2>3 DEF NamesInv
  <2> QED
    BY <2>1, <2>2, <2>3 DEF NamesInv
<1>10. ExportTypes'
  BY <1>0, <1>1, <1>6, <1>7 DEF ExportTypes
<1>11. PageInv'
  BY <1>2, <1>5, <1>6 DEF PageInv
<1> QED
  BY <1>6, <1>9, <1>10, <1>11 DEF ProjectionInv

\* A new process: no export is under way, whatever temporary files there are.
LEMMA RestartStep ==
    ASSUME ProjectionInv, Restart
    PROVE  ProjectionInv'
<1>1. /\ exporter' = [p \in Exporters |-> Idle] /\ counter' = 0 /\ UNCHANGED store
      /\ temp' = temp /\ page' = page
  BY DEF Restart
<1>2. StoreSteps /\ chunks' = chunks
  BY <1>1, SameStoreStep DEF ProjectionInv, store
<1>3. StoreInv'
  BY <1>2 DEF StoreSteps
<1>4. ExportTypes'
  BY <1>1, IdleExport DEF ExportTypes, ProjectionInv
<1>5. \A p \in Exporters : exporter'[p].at = "idle" /\ exporter'[p].listing = <<>>
  BY <1>1, IdleExport
<1>6. CopiesInv' /\ NamesInv'
  BY <1>5 DEF CopiesInv, ExportOk, NamesInv, Named
<1>7. PageInv'
  BY <1>1, <1>2 DEF ProjectionInv, PageInv
<1> QED
  BY <1>3, <1>4, <1>6, <1>7 DEF ProjectionInv

\* Every step keeps the invariant.
LEMMA NextInv == ProjectionInv /\ [Next]_vars => ProjectionInv'
<1> SUFFICES ASSUME ProjectionInv, [Next]_vars PROVE ProjectionInv'
  OBVIOUS
<1>0. StoreInv /\ ExportTypes /\ CopiesInv
  BY DEF ProjectionInv
<1>1. ASSUME NEW t \in Tables, NEW b \in Batches, BeginWrite(t, b) PROVE ProjectionInv'
  <2>1. UNCHANGED export
    BY <1>1 DEF BeginWrite
  <2> QED
    BY <1>0, <1>1, <2>1, BeginWriteStep, WriterStep
<1>2. CASE CreateChunk
  <2>1. UNCHANGED export
    BY <1>2 DEF CreateChunk
  <2> QED
    BY <1>0, <1>2, <2>1, CreateChunkStep, WriterStep
<1>3. CASE WritePreamble
  <2>1. UNCHANGED export
    BY <1>3 DEF WritePreamble
  <2> QED
    BY <1>0, <1>3, <2>1, WritePreambleStep, WriterStep
<1>4. CASE AppendLine
  <2>1. UNCHANGED export
    BY <1>4 DEF AppendLine
  <2> QED
    BY <1>0, <1>4, <2>1, AppendLineStep, WriterStep
<1>5. CASE EndWrite \/ StopWrite
  <2>1. UNCHANGED export
    BY <1>5 DEF EndWrite, StopWrite
  <2> QED
    BY <1>0, <1>5, <2>1, EndWriteStep, WriterStep
<1>6. \A p \in Exporters : exporter[p] \in Export /\ ExportOk(exporter[p], chunks, NextTx)
  BY <1>0 DEF ExportTypes, CopiesInv
<1>7. ASSUME NEW p \in Exporters, Start(p) PROVE ProjectionInv'
  <2> DEFINE e2 == [Idle EXCEPT !.at = "tables", !.todo = TableOrder,
                                !.since = [t \in Tables |-> Txs(chunks[t])]]
  <2>1. e2 \in Export /\ ExportOk(e2, chunks, NextTx)
    BY <1>0, StartOk
  <2>2. Set(p, e2) /\ UNCHANGED <<store, page>> /\ counter' = counter /\ temp' = temp
    BY <1>7 DEF Start
  <2>3. e2.at \notin {"fill", "rename"}
    BY DEF Idle
  <2> HIDE DEF e2
  <2> QED
    BY <2>1, <2>2, <2>3, NamelessStep
<1>8. ASSUME NEW p \in Exporters, ListTable(p) PROVE ProjectionInv'
  <2> DEFINE e == exporter[p]
             t == Head(e.todo)
             e2 == [e EXCEPT !.todo = Tail(@),
                             !.listing = Reverse([i \in DOMAIN chunks[t] |-> <<t, i>>])]
  <2>1. e.at = "tables" /\ e.listing = <<>> /\ e.todo # <<>>
    BY <1>8 DEF ListTable, Listed
  <2>2. e2 \in Export /\ ExportOk(e2, chunks, NextTx)
    <3> HIDE DEF e
    <3>1. e \in Export /\ ExportOk(e, chunks, NextTx)
      BY <1>6 DEF e
    <3> QED
      BY <1>0, <2>1, <3>1, ListTableOk
  <2>3. Set(p, e2) /\ UNCHANGED <<store, page>> /\ counter' = counter /\ temp' = temp
    BY <1>8 DEF ListTable
  <2>4. e2.at = "tables"
    BY <1>6, <2>1 DEF Export
  <2> HIDE DEF e2
  <2> QED
    BY <2>2, <2>3, <2>4, NamelessStep
<1>9. ASSUME NEW p \in Exporters, ReadChunk(p) PROVE ProjectionInv'
  <2> DEFINE e == exporter[p]
             c == Head(e.listing)
             e2 == [e EXCEPT !.listing = Tail(@), !.got[c[1]] = Append(@, chunks[c[1]][c[2]])]
  <2>1. e.listing # <<>> /\ e \in Export /\ ExportOk(e, chunks, NextTx)
    BY <1>6, <1>9 DEF ReadChunk
  <2>2. e.at = "tables"
    BY <2>1 DEF ExportOk, WorkOk
  <2>3. e2 \in Export /\ ExportOk(e2, chunks, NextTx)
    <3> HIDE DEF e
    <3> QED
      BY <1>0, <2>1, <2>2, ReadChunkOk
  <2>4. Set(p, e2) /\ UNCHANGED <<store, page>> /\ counter' = counter /\ temp' = temp
    BY <1>9 DEF ReadChunk
  <2>5. e2.at = "tables"
    BY <2>1, <2>2 DEF Export
  <2> HIDE DEF e2
  <2> QED
    BY <2>3, <2>4, <2>5, NamelessStep
<1>10. ASSUME NEW p \in Exporters, ReadRevision(p) PROVE ProjectionInv'
  <2> DEFINE e == exporter[p]
  <2>1. e.at = "tables" /\ e.listing = <<>> /\ e.todo = <<>> /\ e \in Export
        /\ ExportOk(e, chunks, NextTx)
    BY <1>6, <1>10 DEF ReadRevision, Listed
  <2>2. PICK seen \in {revision, None} : Set(p, [e EXCEPT !.at = "open", !.revision = seen])
    BY <1>10 DEF ReadRevision
  <2> DEFINE e2 == [e EXCEPT !.at = "open", !.revision = seen]
  <2>3. e2 \in Export /\ ExportOk(e2, chunks, NextTx)
    <3> HIDE DEF e
    <3> QED
      BY <1>0, <2>1, <2>2, ReadRevisionOk
  <2>4. Set(p, e2) /\ UNCHANGED <<store, page>> /\ counter' = counter /\ temp' = temp
    BY <1>10, <2>2 DEF ReadRevision
  <2>5. e2.at = "open"
    BY <2>1 DEF Export
  <2> HIDE DEF e2
  <2> QED
    BY <2>3, <2>4, <2>5, NamelessStep
<1>11. ASSUME NEW p \in Exporters, ExportFails(p) PROVE ProjectionInv'
  <2>1. /\ Set(p, Idle) /\ UNCHANGED <<store, page>> /\ counter' = counter
        /\ \/ temp' = temp
           \/ exporter[p].at = "rename" /\ temp' = Removed(exporter[p].name)
    BY <1>11 DEF ExportFails
  <2>2. Idle \in Export /\ ExportOk(Idle, chunks, NextTx) /\ Idle.at \notin {"fill", "rename"}
    BY IdleExport
  <2> QED
    BY <2>1, <2>2, NamelessStep
<1>12. ASSUME NEW p \in Exporters, OpenTemp(p) \/ FillTemp(p) \/ Publish(p) PROVE ProjectionInv'
  BY <1>12, OpenTempStep, FillTempStep, PublishStep
<1>13. CASE Restart
  BY <1>13, RestartStep
<1>14. CASE UNCHANGED vars
  <2>1. UNCHANGED export /\ UNCHANGED store
    BY <1>14 DEF vars, export, store
  <2>2. StoreSteps
    BY <1>0, <2>1, SameStoreStep DEF store
  <2> QED
    BY <2>1, <2>2, WriterStep
<1> QED
  BY <1>1, <1>2, <1>3, <1>4, <1>5, <1>7, <1>8, <1>9, <1>10, <1>11, <1>12, <1>13, <1>14 DEF Next

-------------------------------------------------------------------------------
(* The page. *)

LEMMA SpecInv == Spec => []ProjectionInv
  BY InitInv, NextInv, PTL DEF Spec

(***************************************************************************)
(* Whatever writers append between the reads of an export, and whichever   *)
(* exports overlap, fail or die with their process, the page is one whole  *)
(* export (the temporary names are never shared) and shows each table as   *)
(* it was at some line since the export began.                             *)
(***************************************************************************)
THEOREM PagesAreRecent == Spec => []PageIsRecent
<1>1. ProjectionInv => PageIsRecent
  <2> SUFFICES ASSUME ProjectionInv, page # None PROVE
        /\ page # Partial
        /\ Loads(page) => \A t \in Tables :
            \E n \in 0..Len(chunks[t]) :
            \E m \in 0..(IF n = 0 THEN 0 ELSE Len(chunks[t][n].lines)) :
                /\ page.since[t] \subseteq TxsIn(UpTo(chunks[t], n, m))
                /\ Shown(page, t) = Applied(FlattenSeq(UpTo(chunks[t], n, m)))
    BY DEF PageIsRecent
  <2>1. PageOk(page, chunks) /\ page \in Page
    BY DEF ProjectionInv, PageInv, PageOk
  <2>2. page # Partial
    BY <2>1, SentinelAssumption DEF Page
  <2>3. ASSUME NEW t \in Tables
        PROVE  \E n \in 0..Len(chunks[t]) :
               \E m \in 0..(IF n = 0 THEN 0 ELSE Len(chunks[t][n].lines)) :
                 /\ page.since[t] \subseteq TxsIn(UpTo(chunks[t], n, m))
                 /\ Shown(page, t) = Applied(FlattenSeq(UpTo(chunks[t], n, m)))
    <3>1. chunks[t] \in Seq(Chunk)
      BY DEF ProjectionInv, StoreInv, StoreTypes
    <3>2. page.got[t] \in Seq(Chunk) /\ Copied(chunks[t], page.got[t], 0, page.since[t])
      BY <2>1 DEF Page, PageOk
    <3>3. Shown(page, t) = Applied(FlattenSeq(LinesOf(Reverse(page.got[t]))))
      BY DEF Shown, LinesIn
    <3> QED
      BY <3>1, <3>2, <3>3, CopiedShown
  <2> QED
    BY <2>2, <2>3
<1> QED
  BY <1>1, SpecInv, PTL

(***************************************************************************)
(* Because the revision is read after the last chunk, and a writer marks   *)
(* it dirty before its first line, a number on the page is above every     *)
(* transaction on it, in whichever order the tables were read and however  *)
(* many writers committed or stopped meanwhile.                            *)
(***************************************************************************)
THEOREM RevisionsCoverPages == Spec => []RevisionCoversPage
<1>1. ProjectionInv => RevisionCoversPage
  <2> SUFFICES ASSUME ProjectionInv, page # None, page.revision \notin {Dirty, None},
                      NEW u \in Tables, NEW x \in Txs(page.got[u])
               PROVE  x < page.revision
    BY DEF RevisionCoversPage
  <2>1. PageOk(page, chunks)
    BY DEF ProjectionInv, PageInv
  <2>2. page.revision \in Nat
    BY <2>1 DEF PageOk, Page
  <2> QED
    BY <2>1, <2>2 DEF PageOk
<1> QED
  BY <1>1, SpecInv, PTL
=============================================================================
