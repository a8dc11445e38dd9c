--------------------------- MODULE SixpackStore_proofs ---------------------------
(***************************************************************************)
(* Type correctness of SixpackStore, its coherence invariant, and that it  *)
(* implements TableDb, for every value of the constants.                   *)
(***************************************************************************)
EXTENDS SixpackStore, TLAPS

-------------------------------------------------------------------------------
(* Replaying lines: a batch appended to a log replays on the rows of that  *)
(* log, and a valid batch keeps a unique lookup unique.                    *)

\* No id occurs twice in a batch.
DistinctIds(b) == \A i, j \in DOMAIN b : i # j => b[i].id # b[j].id

\* Where ids are distinct, the last position of an id is its only one.
LEMMA LastInDistinct ==
    ASSUME NEW b \in Seq(Change), DistinctIds(b), NEW id
    PROVE  LastAt(b, id) = {i \in DOMAIN b : b[i].id = id}
  BY DEF LastAt, DistinctIds

\* Replay stays within the rows when every line is of the table.
LEMMA ReplayType ==
    ASSUME NEW old \in RowSet, NEW s,
           \A i \in DOMAIN s : s[i].key \in Keys \cup {NoRow}
    PROVE  Replay(old, s) \in RowSet
<1> SUFFICES ASSUME NEW id \in Ids
             PROVE (IF LastAt(s, id) = {} THEN old[id]
                    ELSE s[CHOOSE i \in LastAt(s, id) : TRUE].key) \in Keys \cup {NoRow}
  BY DEF Replay, RowSet
<1>1. CASE LastAt(s, id) = {}
  BY <1>1 DEF RowSet
<1>2. CASE LastAt(s, id) # {}
  <2>1. (CHOOSE i \in LastAt(s, id) : TRUE) \in LastAt(s, id)
    BY <1>2
  <2>2. LastAt(s, id) \subseteq DOMAIN s
    BY DEF LastAt
  <2>3. QED
    BY <1>2, <2>1, <2>2
<1>3. QED
  BY <1>1, <1>2

\* The rows of a log are rows.
LEMMA RowsType ==
    ASSUME NEW s \in Seq(Line)
    PROVE  Rows(s) \in RowSet
<1>1. EmptyRows \in RowSet
  BY DEF EmptyRows, RowSet
<1>2. \A i \in DOMAIN s : s[i].key \in Keys \cup {NoRow}
  <2>1. \A i \in DOMAIN s : s[i] \in Line
    OBVIOUS
  <2>2. \A x \in Line : x.key \in Keys \cup {NoRow}
    BY DEF Line
  <2>3. QED
    BY <2>1, <2>2
<1>3. QED
  BY <1>1, <1>2, ReplayType DEF Rows

\* The lines of a batch carry its changes.
LEMMA StampedType ==
    ASSUME NEW b \in Seq(Change), NEW tx0 \in Nat \ {0}
    PROVE  /\ Stamped(b, tx0) \in Seq(Line)
           /\ Len(Stamped(b, tx0)) = Len(b)
           /\ \A i \in 1..Len(b) : /\ Stamped(b, tx0)[i].tx = tx0 + i - 1
                                   /\ Stamped(b, tx0)[i].id = b[i].id
                                   /\ Stamped(b, tx0)[i].key = b[i].key
<1>1. \A i \in 1..Len(b) : b[i] \in Change
  OBVIOUS
<1>2. \A i \in 1..Len(b) :
        [tx |-> tx0 + i - 1, id |-> b[i].id, key |-> b[i].key] \in Line
  BY <1>1 DEF Line, Change
<1>3. Stamped(b, tx0) \in [1..Len(b) -> Line]
  BY <1>2 DEF Stamped
<1>4. Len(b) \in Nat
  OBVIOUS
<1>5. Stamped(b, tx0) \in Seq(Line) /\ Len(Stamped(b, tx0)) = Len(b)
  BY <1>3, <1>4
<1>6. \A i \in 1..Len(b) : /\ Stamped(b, tx0)[i].tx = tx0 + i - 1
                            /\ Stamped(b, tx0)[i].id = b[i].id
                            /\ Stamped(b, tx0)[i].key = b[i].key
  BY DEF Stamped
<1>7. QED
  BY <1>5, <1>6

\* A prefix keeps the type and the first elements of a sequence.
LEMMA PrefixType ==
    ASSUME NEW S, NEW s \in Seq(S), NEW n \in 0..Len(s)
    PROVE  /\ Prefix(s, n) \in Seq(S)
           /\ Len(Prefix(s, n)) = n
           /\ \A i \in 1..n : Prefix(s, n)[i] = s[i]
<1>1. \A i \in 1..n : s[i] \in S
  OBVIOUS
<1>2. Prefix(s, n) \in [1..n -> S]
  BY <1>1 DEF Prefix
<1>3. QED
  BY <1>2 DEF Prefix

\* Concatenation keeps the first lines and shifts the others.
LEMMA ConcatFacts ==
    ASSUME NEW S, NEW s \in Seq(S), NEW z \in Seq(S)
    PROVE  /\ s \o z \in Seq(S)
           /\ DOMAIN s = 1..Len(s) /\ Len(s) \in Nat
           /\ DOMAIN z = 1..Len(z) /\ Len(z) \in Nat
           /\ DOMAIN (s \o z) = 1..(Len(s) + Len(z))
           /\ \A i \in 1..Len(s) : (s \o z)[i] = s[i]
           /\ \A i \in 1..Len(z) : (s \o z)[Len(s) + i] = z[i]
  OBVIOUS

\* A prefix of the stamped batch is the stamped prefix of the batch.
LEMMA PrefixStamped ==
    ASSUME NEW b \in Seq(Change), NEW tx0 \in Nat \ {0}, NEW n \in 0..Len(b)
    PROVE  Prefix(Stamped(b, tx0), n) = Stamped(Prefix(b, n), tx0)
<1>1. Len(Prefix(b, n)) = n /\ \A i \in 1..n : Prefix(b, n)[i] = b[i]
  BY PrefixType
<1>2. QED
  BY <1>1 DEF Prefix, Stamped

\* A prefix of a batch without repeated ids has none.
LEMMA PrefixDistinct ==
    ASSUME NEW b \in Seq(Change), DistinctIds(b), NEW n \in 0..Len(b)
    PROVE  DistinctIds(Prefix(b, n))
  BY DEF DistinctIds, Prefix

\* The rows of a log that a batch was appended to are the batch replayed on
\* the rows of the log: the incremental update of append_batch_inner agrees
\* with a rebuild.
LEMMA ReplayAppended ==
    ASSUME NEW s \in Seq(Line), NEW b \in Seq(Change), DistinctIds(b),
           NEW tx0 \in Nat \ {0}
    PROVE  Rows(s \o Stamped(b, tx0)) = Replay(Rows(s), b)
<1> DEFINE c == Stamped(b, tx0)
           l == s \o c
<1>1. /\ c \in Seq(Line) /\ Len(c) = Len(b)
      /\ \A i \in 1..Len(b) : c[i].id = b[i].id /\ c[i].key = b[i].key
  BY StampedType
<1>2. /\ l \in Seq(Line) /\ Len(l) = Len(s) + Len(b)
      /\ \A i \in 1..Len(s) : l[i] = s[i]
      /\ \A i \in 1..Len(b) : l[Len(s) + i] = c[i]
  <2> HIDE DEF c
  <2>1. c \in Seq(Line) /\ Len(c) = Len(b)
    BY <1>1
  <2>2. QED
    BY <2>1
<1> HIDE DEF c, l
<1>3. ASSUME NEW id \in Ids
      PROVE  Rows(l)[id] = Replay(Rows(s), b)[id]
  <2>0. Len(s) \in Nat /\ Len(b) \in Nat /\ DOMAIN b = 1..Len(b) /\ DOMAIN s = 1..Len(s)
        /\ DOMAIN l = 1..(Len(s) + Len(b))
    BY <1>2
  <2>1. CASE \E k \in DOMAIN b : b[k].id = id
    <3>1. PICK k \in 1..Len(b) : b[k].id = id
      BY <2>1, <2>0
    <3>2. LastAt(b, id) = {k}
      <4>1. LastAt(b, id) = {i \in DOMAIN b : b[i].id = id}
        BY LastInDistinct
      <4>2. QED
        BY <4>1, <3>1, <2>0 DEF DistinctIds
    <3>3. LastAt(l, id) = {Len(s) + k}
      <4>1. l[Len(s) + k].id = id
        BY <3>1, <1>1, <1>2
      <4>2. ASSUME NEW j \in DOMAIN l, l[j].id = id
            PROVE  j <= Len(s) + k
        <5>1. CASE j <= Len(s)
          BY <5>1, <2>0, <3>1
        <5>2. CASE j > Len(s)
          <6>1. PICK m \in 1..Len(b) : j = Len(s) + m
            <7>1. j - Len(s) \in 1..Len(b) /\ j = Len(s) + (j - Len(s))
              BY <5>2, <2>0
            <7>2. QED
              BY <7>1
          <6>2. b[m].id = id
            BY <6>1, <4>2, <1>1, <1>2
          <6>3. m = k
            BY <6>2, <3>1, <2>0 DEF DistinctIds
          <6>4. QED
            BY <6>1, <6>3
        <5>3. QED
          BY <5>1, <5>2, <2>0
      <4>3. Len(s) + k \in DOMAIN l
        BY <2>0, <3>1
      <4>4. Len(s) + k \in LastAt(l, id)
        BY <4>1, <4>2, <4>3 DEF LastAt
      <4>5. ASSUME NEW j \in LastAt(l, id)
            PROVE  j = Len(s) + k
        <5>1. j \in DOMAIN l /\ l[j].id = id /\ Len(s) + k <= j
          BY <4>1, <4>3, <4>5 DEF LastAt
        <5>2. j <= Len(s) + k
          BY <4>2, <5>1
        <5>3. QED
          BY <5>1, <5>2, <2>0, <3>1
      <4>6. QED
        BY <4>4, <4>5
    <3>4. Rows(l)[id] = l[Len(s) + k].key
      <4>1. (CHOOSE i \in LastAt(l, id) : TRUE) = Len(s) + k
        BY <3>3
      <4>2. QED
        BY <4>1, <3>3 DEF Rows, Replay
    <3>5. Replay(Rows(s), b)[id] = b[k].key
      <4>1. (CHOOSE i \in LastAt(b, id) : TRUE) = k
        BY <3>2
      <4>2. QED
        BY <4>1, <3>2 DEF Replay
    <3>6. QED
      BY <3>1, <3>4, <3>5, <1>1, <1>2
  <2>2. CASE ~ \E k \in DOMAIN b : b[k].id = id
    <3>1. LastAt(b, id) = {}
      BY <2>2 DEF LastAt
    <3>2. \A j \in DOMAIN l : l[j].id = id => j \in DOMAIN s
      <4>1. ASSUME NEW j \in DOMAIN l, l[j].id = id, j > Len(s)
            PROVE  FALSE
        <5>1. j - Len(s) \in 1..Len(b) /\ j = Len(s) + (j - Len(s))
          BY <4>1, <2>0
        <5>2. b[j - Len(s)].id = id
          BY <5>1, <4>1, <1>1, <1>2
        <5>3. QED
          BY <5>1, <5>2, <2>2, <2>0
      <4>2. QED
        BY <4>1, <2>0
    <3>3. LastAt(l, id) = LastAt(s, id)
      <4>1. \A j \in DOMAIN s : j \in DOMAIN l /\ l[j] = s[j]
        BY <2>0, <1>2
      <4>2. QED
        BY <4>1, <3>2 DEF LastAt
    <3>4. \A j \in LastAt(s, id) : l[j] = s[j]
      BY <2>0, <1>2 DEF LastAt
    <3>5. QED
      <4>1. CASE LastAt(s, id) = {}
        BY <4>1, <3>1, <3>3 DEF Rows, Replay
      <4>2. CASE LastAt(s, id) # {}
        <5>1. (CHOOSE i \in LastAt(s, id) : TRUE) \in LastAt(s, id)
          BY <4>2
        <5>2. QED
          BY <5>1, <4>2, <3>1, <3>3, <3>4 DEF Rows, Replay
      <4>3. QED
        BY <4>1, <4>2
  <2>3. QED
    BY <2>1, <2>2
<1>4. QED
  BY <1>3 DEF Rows, Replay, c, l

\* What a replayed batch leaves in a row: the change, where there is one.
LEMMA ReplayDistinct ==
    ASSUME NEW r \in RowSet, NEW b \in Seq(Change), DistinctIds(b), NEW id \in Ids
    PROVE  /\ \A k \in DOMAIN b : b[k].id = id => Replay(r, b)[id] = b[k].key
           /\ (~ \E k \in DOMAIN b : b[k].id = id) => Replay(r, b)[id] = r[id]
<1>1. ASSUME NEW k \in DOMAIN b, b[k].id = id
      PROVE  Replay(r, b)[id] = b[k].key
  <2>1. LastAt(b, id) = {k}
    BY <1>1, LastInDistinct DEF DistinctIds
  <2>2. (CHOOSE i \in LastAt(b, id) : TRUE) = k
    BY <2>1
  <2>3. QED
    BY <2>1, <2>2 DEF Replay
<1>2. ASSUME ~ \E k \in DOMAIN b : b[k].id = id
      PROVE  Replay(r, b)[id] = r[id]
  BY <1>2 DEF Replay, LastAt
<1>3. QED
  BY <1>1, <1>2

\* A valid batch keeps the unique lookup unique.
LEMMA ValidBatchKeepsUnique ==
    ASSUME NEW r \in RowSet, UniqueKeys(r),
           NEW b \in Seq(Change), NEW only \in BOOLEAN, ValidBatch(r, b, only)
    PROVE  UniqueKeys(Replay(r, b))
<1> DEFINE q == Replay(r, b)
<1>0. DistinctIds(b)
  BY DEF ValidBatch, DistinctIds
<1>1. \A id \in Ids :
        /\ \A k \in DOMAIN b : b[k].id = id => q[id] = b[k].key
        /\ (~ \E k \in DOMAIN b : b[k].id = id) => q[id] = r[id]
  BY <1>0, ReplayDistinct
<1> HIDE DEF q
<1> SUFFICES ASSUME NEW x \in Ids, NEW y \in Ids, x # y, q[x] # NoRow, q[x] = q[y]
             PROVE  FALSE
  BY DEF UniqueKeys, q
<1>2. CASE \E k \in DOMAIN b : b[k].id = x
  <2>1. PICK k \in DOMAIN b : b[k].id = x
    BY <1>2
  <2>2. q[x] = b[k].key /\ b[k].key # NoRow
    BY <2>1, <1>1
  <2>3. CASE \E m \in DOMAIN b : b[m].id = y
    <3>1. PICK m \in DOMAIN b : b[m].id = y
      BY <2>3
    <3>2. m # k /\ b[m].key = b[k].key
      BY <2>1, <2>2, <3>1, <1>1
    <3>3. QED
      BY <2>2, <3>2 DEF ValidBatch
  <2>4. CASE ~ \E m \in DOMAIN b : b[m].id = y
    <3>1. r[y] = b[k].key
      BY <2>2, <2>4, <1>1
    <3>2. QED
      BY <2>2, <2>4, <3>1 DEF ValidBatch
  <2>5. QED
    BY <2>3, <2>4
<1>3. CASE ~ \E k \in DOMAIN b : b[k].id = x
  <2>1. q[x] = r[x]
    BY <1>3, <1>1
  <2>2. CASE \E m \in DOMAIN b : b[m].id = y
    <3>1. PICK m \in DOMAIN b : b[m].id = y
      BY <2>2
    <3>2. q[y] = b[m].key /\ b[m].key # NoRow /\ r[x] = b[m].key
      BY <3>1, <2>1, <1>1
    <3>3. QED
      BY <3>2, <1>3 DEF ValidBatch
  <2>3. CASE ~ \E m \in DOMAIN b : b[m].id = y
    BY <2>1, <2>3, <1>1 DEF UniqueKeys
  <2>4. QED
    BY <2>2, <2>3
<1>4. QED
  BY <1>2, <1>3

-------------------------------------------------------------------------------
(* Type correctness. *)

\* Every batch is a sequence of changes.
LEMMA BatchesType == Batches \subseteq Seq(Change)
  BY DEF Batches

\* Every change of a batch puts a key or deletes.
LEMMA ChangeKeys ==
    ASSUME NEW b \in Seq(Change)
    PROVE  \A i \in DOMAIN b : b[i].key \in Keys \cup {NoRow}
<1>1. \A i \in DOMAIN b : b[i] \in Change
  OBVIOUS
<1>2. \A x \in Change : x.key \in Keys \cup {NoRow}
  BY DEF Change
<1>3. QED
  BY <1>1, <1>2

\* Empty caches are caches: what refresh and invalidation leave.
LEMMA NoRowsType == NoRows \in [Tables -> RowSet \cup {None}]
  BY DEF NoRows

\* The transaction ids in the chunks are natural numbers.
LEMMA TxsType == TypeOK => Txs \subseteq Nat
<1> SUFFICES ASSUME TypeOK PROVE Txs \subseteq Nat
  OBVIOUS
<1>1. ASSUME NEW t \in Tables, NEW i \in DOMAIN log[t]
      PROVE  log[t][i].tx \in Nat
  <2>1. log[t] \in Seq(Line)
    BY DEF TypeOK
  <2>2. log[t][i] \in Line
    BY <2>1
  <2>3. QED
    BY <2>2 DEF Line
<1>2. QED
  BY <1>1 DEF Txs

\* With a largest transaction id, the discovered one is the next.
LEMMA DiscoveredIsNext ==
    ASSUME TypeOK, LogInv
    PROVE  /\ DiscoveredTx \in Nat \ {0}
           /\ DiscoveredTx - 1 \in Txs
           /\ \A m \in Txs : m < DiscoveredTx
<1> DEFINE m == CHOOSE m \in Txs : \A n \in Txs : n <= m
<1>1. m \in Txs /\ \A n \in Txs : n <= m
  BY DEF LogInv
<1>2. Txs \subseteq Nat
  BY TxsType
<1>3. DiscoveredTx = m + 1
  BY DEF DiscoveredTx
<1> HIDE DEF m
<1>4. QED
  BY <1>1, <1>2, <1>3

\* next_tx_id hands out positive transaction ids.
LEMMA NextTxType ==
    ASSUME TypeOK, LogInv, NEW h \in Handles
    PROVE  NextTxOf(h) \in Nat \ {0}
  BY DiscoveredIsNext DEF NextTxOf, TypeOK

\* Appending stamped lines to one table adds exactly their transaction ids, one
\* of which is then the largest, unless an old one is.
LEMMA AppendedLog ==
    ASSUME TypeOK, NEW t \in Tables, NEW c \in Seq(Change), NEW tx0 \in Nat \ {0},
           log' = [log EXCEPT ![t] = @ \o Stamped(c, tx0)]
    PROVE  /\ log' \in [Tables -> Seq(Line)]
           /\ \A u \in Tables : u # t => log'[u] = log[u]
           /\ log'[t] = log[t] \o Stamped(c, tx0)
           /\ Txs' = Txs \cup {tx0 + i - 1 : i \in 1..Len(c)}
           /\ LogInv => LogInv'
<1> DEFINE z == Stamped(c, tx0)
<1>1. z \in Seq(Line) /\ Len(z) = Len(c) /\ \A i \in 1..Len(c) : z[i].tx = tx0 + i - 1
  BY StampedType
<1> HIDE DEF z
<1>2. log \in [Tables -> Seq(Line)] /\ log' = [log EXCEPT ![t] = @ \o z]
  BY DEF TypeOK, z
<1>3. log[t] \in Seq(Line)
  BY <1>2
<1>4. log[t] \o z \in Seq(Line)
  BY <1>1, <1>3
<1>5. /\ log' \in [Tables -> Seq(Line)]
      /\ \A u \in Tables : u # t => log'[u] = log[u]
      /\ log'[t] = log[t] \o z
  BY <1>2, <1>4
<1>6. /\ DOMAIN (log[t] \o z) = 1..(Len(log[t]) + Len(c))
      /\ \A i \in 1..Len(log[t]) : (log[t] \o z)[i] = log[t][i]
      /\ \A i \in 1..Len(c) : (log[t] \o z)[Len(log[t]) + i] = z[i]
      /\ DOMAIN log[t] = 1..Len(log[t]) /\ Len(log[t]) \in Nat /\ Len(c) \in Nat
  <2>1. Len(z) = Len(c)
    BY <1>1
  <2>2. /\ DOMAIN log[t] = 1..Len(log[t]) /\ Len(log[t]) \in Nat /\ Len(z) \in Nat
        /\ DOMAIN (log[t] \o z) = 1..(Len(log[t]) + Len(z))
        /\ \A i \in 1..Len(log[t]) : (log[t] \o z)[i] = log[t][i]
        /\ \A i \in 1..Len(z) : (log[t] \o z)[Len(log[t]) + i] = z[i]
    <3>1. \A s, y \in Seq(Line) :
            /\ DOMAIN s = 1..Len(s) /\ Len(s) \in Nat /\ Len(y) \in Nat
            /\ DOMAIN (s \o y) = 1..(Len(s) + Len(y))
            /\ \A i \in 1..Len(s) : (s \o y)[i] = s[i]
            /\ \A i \in 1..Len(y) : (s \o y)[Len(s) + i] = y[i]
      BY ConcatFacts
    <3>2. z \in Seq(Line)
      BY <1>1
    <3>3. QED
      BY <3>1, <3>2, <1>3
  <2>3. QED
    BY <2>1, <2>2
<1>7. {log'[t][i].tx : i \in DOMAIN log'[t]}
        = {log[t][i].tx : i \in DOMAIN log[t]} \cup {tx0 + i - 1 : i \in 1..Len(c)}
  <2> DEFINE A == {log'[t][i].tx : i \in DOMAIN log'[t]}
             B == {log[t][i].tx : i \in DOMAIN log[t]}
             C == {tx0 + i - 1 : i \in 1..Len(c)}
  <2>1. ASSUME NEW i \in DOMAIN log'[t] PROVE log'[t][i].tx \in B \cup C
    <3>1. CASE i <= Len(log[t])
      <4>1. i \in DOMAIN log[t] /\ log'[t][i] = log[t][i]
        BY <3>1, <1>5, <1>6
      <4>2. QED
        BY <4>1
    <3>2. CASE ~(i <= Len(log[t]))
      <4>1. i - Len(log[t]) \in 1..Len(c) /\ i = Len(log[t]) + (i - Len(log[t]))
        BY <3>2, <1>5, <1>6
      <4>2. log'[t][i] = z[i - Len(log[t])]
        BY <4>1, <1>5, <1>6
      <4>3. log'[t][i].tx = tx0 + (i - Len(log[t])) - 1
        BY <4>1, <4>2, <1>1
      <4>4. QED
        BY <4>1, <4>3
    <3>3. QED
      BY <3>1, <3>2
  <2>2. ASSUME NEW i \in DOMAIN log[t] PROVE log[t][i].tx \in A
    <3>1. i \in DOMAIN log'[t] /\ log'[t][i] = log[t][i]
      BY <1>5, <1>6
    <3>2. QED
      BY <3>1
  <2>3. ASSUME NEW i \in 1..Len(c) PROVE tx0 + i - 1 \in A
    <3>1. Len(log[t]) + i \in DOMAIN log'[t] /\ log'[t][Len(log[t]) + i] = z[i]
      BY <1>5, <1>6
    <3>2. log'[t][Len(log[t]) + i].tx = tx0 + i - 1
      BY <3>1, <1>1
    <3>3. QED
      BY <3>1, <3>2
  <2>4. A \subseteq B \cup C
    BY <2>1
  <2>5. B \subseteq A
    BY <2>2
  <2>6. C \subseteq A
    BY <2>3
  <2> HIDE DEF A, B, C
  <2>7. A = B \cup C
    BY <2>4, <2>5, <2>6
  <2>8. QED
    BY <2>7 DEF A, B, C
<1>8. Txs' = Txs \cup {tx0 + i - 1 : i \in 1..Len(c)}
  <2> DEFINE T(u) == {log[u][i].tx : i \in DOMAIN log[u]}
             U(u) == {log'[u][i].tx : i \in DOMAIN log'[u]}
             C == {tx0 + i - 1 : i \in 1..Len(c)}
  <2>1. U(t) = T(t) \cup C
    BY <1>7
  <2>2. \A u \in Tables : u # t => U(u) = T(u)
    BY <1>5
  <2>3. Txs = {0} \cup UNION {T(u) : u \in Tables} /\ Txs' = {0} \cup UNION {U(u) : u \in Tables}
    BY DEF Txs
  <2> HIDE DEF T, U, C
  <2>4. Txs' = Txs \cup C
    BY <2>1, <2>2, <2>3
  <2>5. QED
    BY <2>4 DEF C
<1>9. ASSUME LogInv PROVE LogInv'
  <2>1. PICK m \in Txs : \A n \in Txs : n <= m
    BY <1>9 DEF LogInv
  <2>2. Txs \subseteq Nat /\ Len(c) \in Nat
    BY TxsType
  <2> HIDE DEF z
  <2>3. CASE Len(c) = 0
    BY <1>8, <2>1, <2>3 DEF LogInv
  <2>4. CASE Len(c) > 0 /\ m <= tx0 + Len(c) - 1
    <3>1. tx0 + Len(c) - 1 \in Txs'
      BY <1>8, <2>2, <2>4
    <3>2. \A n \in Txs' : n <= tx0 + Len(c) - 1
      BY <1>8, <2>1, <2>2, <2>4
    <3>3. QED
      BY <3>1, <3>2 DEF LogInv
  <2>5. CASE Len(c) > 0 /\ m > tx0 + Len(c) - 1
    <3>1. \A n \in Txs' : n <= m
      BY <1>8, <2>1, <2>2, <2>5
    <3>2. m \in Txs'
      BY <1>8, <2>1
    <3>3. QED
      BY <3>1, <3>2 DEF LogInv
  <2>6. QED
    BY <2>2, <2>3, <2>4, <2>5
<1>10. QED
  BY <1>5, <1>8, <1>9 DEF z

\* What an interrupted append leaves on disk.
LEMMA PartialAppendLog ==
    ASSUME TypeOK, LogInv, RequestInv, NEW h \in Handles, PartialAppend(h)
    PROVE  \E n \in 0..Len(batch) :
             /\ log' = [log EXCEPT ![target] = @ \o Stamped(Prefix(batch, n), NextTxOf(h))]
             /\ Prefix(batch, n) \in Seq(Change) /\ Len(Prefix(batch, n)) = n
             /\ n = 0 \/ n \in 1..Len(batch)
             /\ partial' = IF n \in 1..(Len(batch) - 1) THEN partial \cup {target} ELSE partial
<1>1. batch \in Seq(Change) /\ NextTxOf(h) \in Nat \ {0}
  BY NextTxType DEF TypeOK
<1>2. PICK n \in 0..Len(batch) :
        /\ log' = [log EXCEPT ![target] = @ \o Prefix(Stamped(batch, NextTxOf(h)), n)]
        /\ partial' = IF n \in 1..(Len(batch) - 1) THEN partial \cup {target} ELSE partial
  BY DEF PartialAppend
<1>3. Prefix(Stamped(batch, NextTxOf(h)), n) = Stamped(Prefix(batch, n), NextTxOf(h))
  BY <1>1, PrefixStamped
<1>4. Prefix(batch, n) \in Seq(Change) /\ Len(Prefix(batch, n)) = n
  BY <1>1, PrefixType
<1>5. n = 0 \/ n \in 1..Len(batch)
  BY <1>1
<1>6. QED
  BY <1>2, <1>3, <1>4, <1>5

\* An interrupted append keeps the types of the disk.
LEMMA PartialAppendType ==
    ASSUME TypeOK, LogInv, RequestInv, NEW h \in Handles, PartialAppend(h)
    PROVE  /\ log' \in [Tables -> Seq(Line)] /\ LogInv'
           /\ torn' \in [Tables -> BOOLEAN] /\ header' \in [Tables -> BOOLEAN]
           /\ sixb' \in [Tables -> Seq(Line) \cup {None}] /\ partial' \in SUBSET Tables
           /\ step = "append"
<1>1. step = "append" /\ target \in Tables /\ NextTxOf(h) \in Nat \ {0}
  BY NextTxType DEF PartialAppend, Accepted, At, RequestInv
<1>2. log' \in [Tables -> Seq(Line)] /\ LogInv'
  BY <1>1, PartialAppendLog, AppendedLog
<1>3. sixb' \in [Tables -> Seq(Line) \cup {None}]
  BY <1>1 DEF PartialAppend, Accepted, LoadUnlessCached, Load, TypeOK
<1>4. torn' \in [Tables -> BOOLEAN] /\ header' \in [Tables -> BOOLEAN]
  BY <1>1 DEF PartialAppend, TypeOK
<1>5. partial' \in SUBSET Tables
  BY <1>1 DEF PartialAppend, TypeOK
<1>6. QED
  BY <1>1, <1>2, <1>3, <1>4, <1>5

TypeInv == TypeOK /\ LogInv /\ RequestInv

\* An empty workspace satisfies the type invariant.
LEMMA InitTypeInv == Init => TypeInv
<1> SUFFICES ASSUME Init PROVE TypeInv
  OBVIOUS
<1>1. TypeOK
  <2>1. <<>> \in Seq(Line) /\ <<>> \in Seq(Change)
    OBVIOUS
  <2>2. /\ log \in [Tables -> Seq(Line)]
        /\ sixb \in [Tables -> Seq(Line) \cup {None}]
        /\ batch \in Seq(Change)
    BY <2>1 DEF Init
  <2>3. torn \in [Tables -> BOOLEAN] /\ header \in [Tables -> BOOLEAN] /\ insertOnly \in BOOLEAN
    BY DEF Init
  <2>4. rows \in [Handles -> [Tables -> RowSet \cup {None}]]
    BY NoRowsType DEF Init
  <2>5. /\ observed \in [Handles -> Nat \cup {Dirty, None}]
        /\ nextTx \in [Handles -> (Nat \ {0}) \cup {None}]
        /\ layout \in [Handles -> SUBSET Tables]
    BY DEF Init
  <2>6. QED
    BY <2>2, <2>3, <2>4, <2>5 DEF Init, TypeOK, Steps
<1>2. Txs = {0}
  BY DEF Init, Txs
<1>3. LogInv
  BY <1>2 DEF LogInv
<1>4. RequestInv
  BY DEF Init, RequestInv
<1>5. QED
  BY <1>1, <1>3, <1>4 DEF TypeInv

\* A step that leaves the chunks alone leaves their transaction ids alone.
LEMMA UnchangedLog ==
    ASSUME log' = log
    PROVE  /\ Txs' = Txs /\ DiscoveredTx' = DiscoveredTx
           /\ LogInv => LogInv'
<1>1. Txs' = Txs
  BY DEF Txs
<1>2. QED
  BY <1>1 DEF DiscoveredTx, LogInv

\* TypeOK in its three groups: a step disturbs one or two of them.
DiskTypes ==
    /\ log \in [Tables -> Seq(Line)]
    /\ torn \in [Tables -> BOOLEAN]
    /\ header \in [Tables -> BOOLEAN]
    /\ sixb \in [Tables -> Seq(Line) \cup {None}]
    /\ metaTx \in Nat \cup {None}
    /\ revision \in Nat \cup {Dirty}

MemoryTypes ==
    /\ observed \in [Handles -> Nat \cup {Dirty, None}]
    /\ rows \in [Handles -> [Tables -> RowSet \cup {None}]]
    /\ nextTx \in [Handles -> (Nat \ {0}) \cup {None}]
    /\ layout \in [Handles -> SUBSET Tables]

RequestTypes ==
    /\ writer \in Handles \cup {None}
    /\ step \in Steps
    /\ target \in Tables \cup {None}
    /\ todo \in SUBSET Tables
    /\ batch \in Seq(Change)
    /\ insertOnly \in BOOLEAN

HistoryTypes == faults \in Nat /\ partial \in SUBSET Tables

\* The type invariant is that of the four groups of variables.
LEMMA TypeGroups == TypeOK <=> DiskTypes /\ MemoryTypes /\ RequestTypes /\ HistoryTypes
  BY DEF TypeOK, DiskTypes, MemoryTypes, RequestTypes, HistoryTypes

\* What leaves the disk alone keeps its types.
LEMMA UnchangedDisk == DiskTypes /\ UNCHANGED disk => DiskTypes'
  BY DEF DiskTypes, disk

\* What leaves the caches alone keeps their types.
LEMMA UnchangedMemory == MemoryTypes /\ UNCHANGED memory => MemoryTypes'
  BY DEF MemoryTypes, memory

\* What leaves the operation of the lock holder alone keeps its types.
LEMMA UnchangedRequest == RequestTypes /\ UNCHANGED request => RequestTypes'
  BY DEF RequestTypes, request

\* What leaves the fault history alone keeps its types.
LEMMA UnchangedHistory == HistoryTypes /\ UNCHANGED history => HistoryTypes'
  BY DEF HistoryTypes, history

\* Releasing the lock restores the idle request.
LEMMA ReleaseType == Release => RequestTypes' /\ RequestInv'
<1>1. <<>> \in Seq(Change)
  OBVIOUS
<1>2. QED
  BY <1>1 DEF Release, RequestTypes, RequestInv, Steps

\* A fault is counted.
LEMMA FaultType == ASSUME HistoryTypes, NEW k, Fault(k) PROVE faults' \in Nat
  BY DEF HistoryTypes, Fault

\* A refresh with rows of their type, and a reset, keep the types of the caches.
LEMMA RefreshType ==
    ASSUME TypeOK, NEW h \in Handles, NEW r \in [Tables -> RowSet \cup {None}],
           Refresh(h, r), UNCHANGED layout
    PROVE  MemoryTypes'
  BY DEF TypeOK, Refresh, RefreshedTx, MemoryTypes

\* What refresh_if_revision_changed leaves of the caches has its type.
LEMMA RefreshedRowsType ==
    ASSUME TypeOK, NEW h \in Handles
    PROVE  RefreshedRows(h) \in [Tables -> RowSet \cup {None}]
  BY NoRowsType DEF RefreshedRows, TypeOK

\* Dropping the caches of a handle keeps the types of the caches.
LEMMA InvalidateType ==
    ASSUME TypeOK, NEW h \in Handles, Invalidate(h)
    PROVE  /\ rows' \in [Handles -> [Tables -> RowSet \cup {None}]]
           /\ nextTx' \in [Handles -> (Nat \ {0}) \cup {None}]
  BY NoRowsType DEF TypeOK, Invalidate

\* A new process has caches of the right type.
LEMMA ForgetType ==
    ASSUME TypeOK, NEW h \in Handles, Forget(h)
    PROVE  MemoryTypes'
  BY NoRowsType DEF TypeOK, Forget, MemoryTypes

\* The rows an operation works with are rows.
LEMMA RowsOfType ==
    ASSUME TypeOK, NEW r \in [Tables -> RowSet \cup {None}], NEW t \in Tables
    PROVE  RowsOf(r, t) \in RowSet
<1>1. Rows(log[t]) \in RowSet
  <2>1. log[t] \in Seq(Line)
    BY DEF TypeOK
  <2>2. QED
    BY <2>1, RowsType
<1>2. QED
  BY <1>1 DEF RowsOf

\* Loading or rebuilding a `.6b` file keeps its type.
LEMMA LoadType ==
    ASSUME TypeOK, NEW t \in Tables, Load(t) \/ UNCHANGED sixb
    PROVE  sixb' \in [Tables -> Seq(Line) \cup {None}]
  BY DEF TypeOK, Load

\* Every step keeps the types, one action at a time.
LEMMA NextTypeInv == TypeInv /\ [Next]_vars => TypeInv'
<1> SUFFICES ASSUME TypeInv, [Next]_vars PROVE TypeInv'
  OBVIOUS
<1>0. /\ TypeOK /\ LogInv /\ RequestInv
      /\ DiskTypes /\ MemoryTypes /\ RequestTypes /\ HistoryTypes
  BY TypeGroups DEF TypeInv
<1> SUFFICES DiskTypes' /\ MemoryTypes' /\ RequestTypes' /\ HistoryTypes' /\ LogInv' /\ RequestInv'
  <2>1. DiskTypes' /\ MemoryTypes' /\ RequestTypes' /\ HistoryTypes' => TypeOK'
    BY DEF TypeOK, DiskTypes, MemoryTypes, RequestTypes, HistoryTypes
  <2>2. QED
    BY <2>1 DEF TypeInv
<1>1. ASSUME NEW h \in Handles, NEW t \in Tables, Read(h, t)
      PROVE  DiskTypes' /\ MemoryTypes' /\ RequestTypes' /\ HistoryTypes' /\ LogInv' /\ RequestInv'
  <2>1. DiskTypes'
    <3>1. sixb' \in [Tables -> Seq(Line) \cup {None}]
      BY <1>0, <1>1, LoadType DEF Read, LoadUnlessCached
    <3>2. QED
      BY <1>0, <1>1, <3>1 DEF Read, DiskTypes
  <2>2. MemoryTypes'
    <3>1. RefreshedRows(h) \in [Tables -> RowSet \cup {None}]
      BY <1>0, RefreshedRowsType
    <3>2. RowsOf(RefreshedRows(h), t) \in RowSet
      BY <1>0, <3>1, RowsOfType
    <3>3. [RefreshedRows(h) EXCEPT ![t] = RowsOf(RefreshedRows(h), t)] \in [Tables -> RowSet \cup {None}]
      BY <3>1, <3>2
    <3>4. QED
      BY <1>0, <1>1, <3>3, RefreshType DEF Read
  <2>3. RequestTypes' /\ HistoryTypes'
    BY <1>0, <1>1, UnchangedRequest, UnchangedHistory DEF Read
  <2>4. LogInv'
    BY <1>0, <1>1, UnchangedLog DEF Read
  <2>5. RequestInv'
    BY <1>0, <1>1 DEF Read, RequestInv, request
  <2>6. QED
    BY <2>1, <2>2, <2>3, <2>4, <2>5
<1>2. ASSUME NEW h \in Handles, NEW t \in Tables, ReadFails(h, t)
      PROVE  DiskTypes' /\ MemoryTypes' /\ RequestTypes' /\ HistoryTypes' /\ LogInv' /\ RequestInv'
  <2>1. DiskTypes' /\ RequestTypes' /\ HistoryTypes'
    BY <1>0, <1>2, UnchangedDisk, UnchangedRequest, UnchangedHistory DEF ReadFails
  <2>2. MemoryTypes'
    BY <1>0, <1>2, RefreshedRowsType, RefreshType DEF ReadFails
  <2>3. LogInv'
    BY <1>0, <1>2, UnchangedLog DEF ReadFails, disk
  <2>4. RequestInv'
    BY <1>0, <1>2 DEF ReadFails, RequestInv, request, disk
  <2>5. QED
    BY <2>1, <2>2, <2>3, <2>4
<1>3. ASSUME NEW h \in Handles, NEW t \in Tables, Rebuild(h, t)
      PROVE  DiskTypes' /\ MemoryTypes' /\ RequestTypes' /\ HistoryTypes' /\ LogInv' /\ RequestInv'
  <2>1. DiskTypes'
    <3>1. sixb' \in [Tables -> Seq(Line) \cup {None}]
      BY <1>0, <1>3, LoadType DEF Rebuild
    <3>2. QED
      BY <1>0, <1>3, <3>1 DEF Rebuild, DiskTypes
  <2>2. MemoryTypes'
    <3>1. RefreshedRows(h) \in [Tables -> RowSet \cup {None}]
      BY <1>0, RefreshedRowsType
    <3>2. Rows(log[t]) \in RowSet
      <4>1. log[t] \in Seq(Line)
        BY <1>0 DEF DiskTypes
      <4>2. QED
        BY <4>1, RowsType
    <3>3. [RefreshedRows(h) EXCEPT ![t] = Rows(log[t])] \in [Tables -> RowSet \cup {None}]
      BY <3>1, <3>2
    <3>4. QED
      BY <1>0, <1>3, <3>3, RefreshType DEF Rebuild
  <2>3. RequestTypes' /\ HistoryTypes'
    BY <1>0, <1>3, UnchangedRequest, UnchangedHistory DEF Rebuild
  <2>4. LogInv'
    BY <1>0, <1>3, UnchangedLog DEF Rebuild
  <2>5. RequestInv'
    BY <1>0, <1>3 DEF Rebuild, RequestInv, request
  <2>6. QED
    BY <2>1, <2>2, <2>3, <2>4, <2>5
<1>4. ASSUME NEW h \in Handles, NEW t \in Tables, BeginWrite(h, t)
      PROVE  DiskTypes' /\ MemoryTypes' /\ RequestTypes' /\ HistoryTypes' /\ LogInv' /\ RequestInv'
  <2>1. DiskTypes' /\ HistoryTypes'
    BY <1>0, <1>4, UnchangedDisk, UnchangedHistory DEF BeginWrite
  <2>2. MemoryTypes'
    <3>1. rows' \in [Handles -> [Tables -> RowSet \cup {None}]]
      BY <1>0, <1>4, RefreshedRowsType DEF BeginWrite, Refresh, MemoryTypes
    <3>2. QED
      BY <1>0, <1>4, <3>1 DEF BeginWrite, Refresh, RefreshedTx, MemoryTypes, DiskTypes
  <2>3. RequestTypes'
    BY <1>0, <1>4 DEF BeginWrite, Begin, RequestTypes, Steps
  <2>4. LogInv'
    BY <1>0, <1>4, UnchangedLog DEF BeginWrite, disk
  <2>5. RequestInv'
    BY <1>4, SentinelAssumption DEF BeginWrite, Begin, RequestInv
  <2>6. QED
    BY <2>1, <2>2, <2>3, <2>4, <2>5
<1>5. ASSUME NEW h \in Handles, NEW t \in Tables, RefuseWrite(h, t)
      PROVE  DiskTypes' /\ MemoryTypes' /\ RequestTypes' /\ HistoryTypes' /\ LogInv' /\ RequestInv'
  <2>1. DiskTypes' /\ RequestTypes' /\ HistoryTypes'
    BY <1>0, <1>5, UnchangedDisk, UnchangedRequest, UnchangedHistory DEF RefuseWrite
  <2>2. MemoryTypes'
    <3>1. rows' \in [Handles -> [Tables -> RowSet \cup {None}]]
      BY <1>0, <1>5, RefreshedRowsType DEF RefuseWrite, Refresh, MemoryTypes
    <3>2. QED
      BY <1>0, <1>5, <3>1 DEF RefuseWrite, Refresh, RefreshedTx, MemoryTypes, DiskTypes
  <2>3. LogInv'
    BY <1>0, <1>5, UnchangedLog DEF RefuseWrite, disk
  <2>4. RequestInv'
    BY <1>0, <1>5 DEF RefuseWrite, RequestInv, request, disk
  <2>5. QED
    BY <2>1, <2>2, <2>3, <2>4
<1>6. ASSUME NEW h \in Handles, NEW t \in Tables, BeginRecovery(h, t)
      PROVE  DiskTypes' /\ MemoryTypes' /\ RequestTypes' /\ HistoryTypes' /\ LogInv' /\ RequestInv'
  <2>1. DiskTypes' /\ HistoryTypes'
    BY <1>0, <1>6, UnchangedDisk, UnchangedHistory DEF BeginRecovery
  <2>2. MemoryTypes'
    BY <1>0, <1>6, RefreshedRowsType, RefreshType DEF BeginRecovery
  <2>3. RequestTypes'
    BY <1>0, <1>6 DEF BeginRecovery, Begin, RequestTypes, Steps
  <2>4. LogInv'
    BY <1>0, <1>6, UnchangedLog DEF BeginRecovery, disk
  <2>5. RequestInv'
    BY <1>6, SentinelAssumption DEF BeginRecovery, Begin, RequestInv
  <2>6. QED
    BY <2>1, <2>2, <2>3, <2>4, <2>5
<1>7. ASSUME NEW h \in Handles, NEW t \in Tables, ResolverReads(h, t)
      PROVE  DiskTypes' /\ MemoryTypes' /\ RequestTypes' /\ HistoryTypes' /\ LogInv' /\ RequestInv'
  <2>1. DiskTypes'
    <3>1. sixb' \in [Tables -> Seq(Line) \cup {None}]
      BY <1>0, <1>7, LoadType DEF ResolverReads, LoadUnlessCached
    <3>2. QED
      BY <1>0, <1>7, <3>1 DEF ResolverReads, DiskTypes
  <2>2. MemoryTypes'
    <3>1. RowsOf(rows[h], t) \in RowSet
      BY <1>0, RowsOfType DEF MemoryTypes
    <3>2. rows' \in [Handles -> [Tables -> RowSet \cup {None}]]
      BY <1>0, <1>7, <3>1 DEF ResolverReads, MemoryTypes
    <3>3. QED
      BY <1>0, <1>7, <3>2 DEF ResolverReads, MemoryTypes
  <2>3. RequestTypes' /\ HistoryTypes'
    BY <1>0, <1>7, UnchangedRequest, UnchangedHistory DEF ResolverReads
  <2>4. LogInv'
    BY <1>0, <1>7, UnchangedLog DEF ResolverReads
  <2>5. RequestInv'
    BY <1>0, <1>7 DEF ResolverReads, RequestInv, request
  <2>6. QED
    BY <2>1, <2>2, <2>3, <2>4, <2>5
<1>8. ASSUME NEW h \in Handles, BeginInit(h)
      PROVE  DiskTypes' /\ MemoryTypes' /\ RequestTypes' /\ HistoryTypes' /\ LogInv' /\ RequestInv'
  <2>1. DiskTypes' /\ HistoryTypes'
    BY <1>0, <1>8, UnchangedDisk, UnchangedHistory DEF BeginInit
  <2>2. MemoryTypes'
    BY <1>0, <1>8, RefreshedRowsType, RefreshType DEF BeginInit
  <2>3. RequestTypes'
    BY <1>0, <1>8 DEF BeginInit, Begin, RequestTypes, Steps
  <2>4. LogInv'
    BY <1>0, <1>8, UnchangedLog DEF BeginInit, disk
  <2>5. RequestInv'
    BY <1>8, SentinelAssumption DEF BeginInit, Begin, RequestInv
  <2>6. QED
    BY <2>1, <2>2, <2>3, <2>4, <2>5
<1>9. ASSUME NEW h \in Handles, RecoverTable(h) \/ FinishRecovery(h)
      PROVE  DiskTypes' /\ MemoryTypes' /\ RequestTypes' /\ HistoryTypes' /\ LogInv' /\ RequestInv'
  <2>1. DiskTypes'
    BY <1>0, <1>9 DEF RecoverTable, FinishRecovery, DiskTypes, disk
  <2>2. MemoryTypes'
    <3>1. CASE RecoverTable(h)
      <4>1. PICK t \in Tables : layout' = [layout EXCEPT ![h] = @ \cup {t}]
        BY <1>0, <3>1 DEF RecoverTable, RequestTypes
      <4>2. QED
        BY <1>0, <3>1, <4>1 DEF RecoverTable, MemoryTypes
    <3>2. CASE FinishRecovery(h)
      BY <1>0, <3>2, InvalidateType DEF FinishRecovery, MemoryTypes
    <3>3. QED
      BY <1>9, <3>1, <3>2
  <2>3. RequestTypes'
    BY <1>0, <1>9 DEF RecoverTable, FinishRecovery, RequestTypes, Steps
  <2>4. HistoryTypes'
    BY <1>0, <1>9, UnchangedHistory DEF RecoverTable, FinishRecovery
  <2>5. LogInv'
    BY <1>0, <1>9, UnchangedLog DEF RecoverTable, FinishRecovery, disk
  <2>6. RequestInv'
    BY <1>0, <1>9 DEF RecoverTable, FinishRecovery, RequestInv, At
  <2>7. QED
    BY <2>1, <2>2, <2>3, <2>4, <2>5, <2>6
<1>10. ASSUME NEW h \in Handles, FailRecovery(h) \/ ResolverFails(h)
       PROVE  DiskTypes' /\ MemoryTypes' /\ RequestTypes' /\ HistoryTypes' /\ LogInv' /\ RequestInv'
  <2>1. DiskTypes' /\ MemoryTypes' /\ HistoryTypes'
    BY <1>0, <1>10, UnchangedDisk, UnchangedMemory, UnchangedHistory DEF FailRecovery, ResolverFails
  <2>2. RequestTypes' /\ RequestInv'
    BY <1>10, ReleaseType DEF FailRecovery, ResolverFails
  <2>3. LogInv'
    BY <1>0, <1>10, UnchangedLog DEF FailRecovery, ResolverFails, disk
  <2>4. QED
    BY <2>1, <2>2, <2>3
<1>11. ASSUME NEW h \in Handles, MarkDirty(h)
       PROVE  DiskTypes' /\ MemoryTypes' /\ RequestTypes' /\ HistoryTypes' /\ LogInv' /\ RequestInv'
  <2>1. DiskTypes'
    BY <1>0, <1>11 DEF MarkDirty, DiskTypes
  <2>2. MemoryTypes'
    BY <1>0, <1>11 DEF MarkDirty, MemoryTypes
  <2>3. batch' \in Batches /\ insertOnly' \in BOOLEAN
    BY <1>11 DEF MarkDirty
  <2>4. RequestTypes'
    BY <1>0, <1>11, <2>3, BatchesType DEF MarkDirty, RequestTypes, Steps
  <2>5. HistoryTypes' /\ LogInv'
    BY <1>0, <1>11, UnchangedHistory, UnchangedLog DEF MarkDirty
  <2>6. RequestInv'
    BY <1>0, <1>11, <2>3 DEF MarkDirty, At, RequestInv, MemoryTypes
  <2>7. QED
    BY <2>1, <2>2, <2>4, <2>5, <2>6
<1>12. ASSUME NEW h \in Handles, Reject(h)
       PROVE  DiskTypes' /\ MemoryTypes' /\ RequestTypes' /\ HistoryTypes' /\ LogInv' /\ RequestInv'
  <2>1. DiskTypes'
    <3>1. target \in Tables
      BY <1>0, <1>12 DEF Reject, At, RequestInv
    <3>2. sixb' \in [Tables -> Seq(Line) \cup {None}]
      BY <1>0, <1>12, <3>1, LoadType DEF Reject, LoadUnlessCached
    <3>3. QED
      BY <1>0, <1>12, <3>2 DEF Reject, DiskTypes
  <2>2. MemoryTypes'
    BY <1>0, <1>12, InvalidateType DEF Reject, MemoryTypes
  <2>3. RequestTypes' /\ RequestInv'
    BY <1>12, ReleaseType DEF Reject
  <2>4. HistoryTypes' /\ LogInv'
    BY <1>0, <1>12, UnchangedHistory, UnchangedLog DEF Reject
  <2>5. QED
    BY <2>1, <2>2, <2>3, <2>4
<1>13. ASSUME NEW h \in Handles, AppendBatch(h)
       PROVE  DiskTypes' /\ MemoryTypes' /\ RequestTypes' /\ HistoryTypes' /\ LogInv' /\ RequestInv'
  <2>1. target \in Tables /\ batch \in Seq(Change) /\ NextTxOf(h) \in Nat \ {0} /\ writer = h
    BY <1>0, <1>13, NextTxType DEF AppendBatch, Accepted, At, RequestInv, RequestTypes
  <2>2. log' \in [Tables -> Seq(Line)] /\ LogInv'
    BY <1>0, <1>13, <2>1, AppendedLog DEF AppendBatch
  <2>3. DiskTypes'
    <3>1. sixb' \in [Tables -> Seq(Line) \cup {None}]
      BY <1>0, <1>13, <2>1, LoadType DEF AppendBatch, Accepted, LoadUnlessCached
    <3>2. QED
      BY <1>0, <1>13, <2>2, <3>1 DEF AppendBatch, DiskTypes
  <2>4. MemoryTypes'
    <3>1. RowsOf(rows[h], target) \in RowSet
      BY <1>0, <2>1, RowsOfType DEF MemoryTypes
    <3>2. \A i \in DOMAIN batch : batch[i].key \in Keys \cup {NoRow}
      BY <2>1, ChangeKeys
    <3>3. Replay(RowsOf(rows[h], target), batch) \in RowSet
      BY <3>1, <3>2, ReplayType
    <3>4. NextTxOf(h) + Len(batch) \in Nat \ {0}
      <4>1. Len(batch) \in Nat
        BY <2>1
      <4>2. QED
        BY <4>1, <2>1
    <3>5. rows' \in [Handles -> [Tables -> RowSet \cup {None}]]
      BY <1>0, <1>13, <2>1, <3>3 DEF AppendBatch, MemoryTypes
    <3>6. nextTx' \in [Handles -> (Nat \ {0}) \cup {None}]
      BY <1>0, <1>13, <3>4 DEF AppendBatch, MemoryTypes
    <3>7. QED
      BY <1>0, <1>13, <3>5, <3>6 DEF AppendBatch, MemoryTypes
  <2>5. RequestTypes'
    BY <1>0, <1>13 DEF AppendBatch, RequestTypes, Steps
  <2>6. HistoryTypes'
    BY <1>0, <1>13, UnchangedHistory DEF AppendBatch
  <2>7. RequestInv'
    BY <1>0, <1>13, <2>1, SentinelAssumption DEF AppendBatch, RequestInv
  <2>8. QED
    BY <2>2, <2>3, <2>4, <2>5, <2>6, <2>7
<1>14. ASSUME NEW h \in Handles, SaveMetadata(h)
       PROVE  DiskTypes' /\ MemoryTypes' /\ RequestTypes' /\ HistoryTypes' /\ LogInv' /\ RequestInv'
  <2>1. NextTxOf(h) \in Nat \ {0}
    BY <1>0, NextTxType
  <2>2. DiskTypes'
    BY <1>0, <1>14, <2>1 DEF SaveMetadata, DiskTypes
  <2>3. MemoryTypes'
    BY <1>0, <1>14, <2>1 DEF SaveMetadata, MemoryTypes
  <2>4. RequestTypes'
    BY <1>0, <1>14 DEF SaveMetadata, RequestTypes, Steps
  <2>5. HistoryTypes' /\ LogInv'
    BY <1>0, <1>14, UnchangedHistory, UnchangedLog DEF SaveMetadata
  <2>6. RequestInv'
    BY <1>0, <1>14, <2>1, SentinelAssumption DEF SaveMetadata, At, RequestInv, MemoryTypes
  <2>7. QED
    BY <2>2, <2>3, <2>4, <2>5, <2>6
<1>15. ASSUME NEW h \in Handles, PublishClean(h)
       PROVE  DiskTypes' /\ MemoryTypes' /\ RequestTypes' /\ HistoryTypes' /\ LogInv' /\ RequestInv'
  <2>1. DiskTypes' /\ MemoryTypes'
    <3>1. nextTx[h] \in Nat
      BY <1>0, <1>15 DEF PublishClean, At, RequestInv, MemoryTypes
    <3>2. QED
      BY <1>0, <1>15, <3>1 DEF PublishClean, DiskTypes, MemoryTypes
  <2>2. RequestTypes' /\ RequestInv'
    BY <1>15, ReleaseType DEF PublishClean
  <2>3. HistoryTypes' /\ LogInv'
    BY <1>0, <1>15, UnchangedHistory, UnchangedLog DEF PublishClean
  <2>4. QED
    BY <2>1, <2>2, <2>3
<1>16. ASSUME NEW h \in Handles, InitTable(h)
       PROVE  DiskTypes' /\ MemoryTypes' /\ RequestTypes' /\ HistoryTypes' /\ LogInv' /\ RequestInv'
  <2>1. PICK t \in todo : /\ Load(t)
                          /\ rows' = [rows EXCEPT ![h][t] = Rows(log[t])]
                          /\ layout' = [layout EXCEPT ![h] = @ \cup {t}]
                          /\ todo' = todo \ {t}
    BY <1>16 DEF InitTable
  <2>2. t \in Tables /\ log[t] \in Seq(Line)
    BY <1>0, <2>1 DEF RequestTypes, DiskTypes
  <2>3. DiskTypes'
    <3>1. sixb' \in [Tables -> Seq(Line) \cup {None}]
      BY <1>0, <2>1, <2>2, LoadType
    <3>2. QED
      BY <1>0, <1>16, <3>1 DEF InitTable, DiskTypes
  <2>4. MemoryTypes'
    <3>1. Rows(log[t]) \in RowSet
      BY <2>2, RowsType
    <3>2. rows' \in [Handles -> [Tables -> RowSet \cup {None}]]
      BY <1>0, <2>1, <3>1 DEF MemoryTypes
    <3>3. QED
      BY <1>0, <1>16, <2>1, <2>2, <3>2 DEF InitTable, MemoryTypes
  <2>5. RequestTypes'
    BY <1>0, <1>16, <2>1 DEF InitTable, RequestTypes
  <2>6. HistoryTypes' /\ LogInv'
    BY <1>0, <1>16, UnchangedHistory, UnchangedLog DEF InitTable
  <2>7. RequestInv'
    BY <1>0, <1>16 DEF InitTable, At, RequestInv
  <2>8. QED
    BY <2>3, <2>4, <2>5, <2>6, <2>7
<1>17. ASSUME NEW h \in Handles, FinishInit(h)
       PROVE  DiskTypes' /\ MemoryTypes' /\ RequestTypes' /\ HistoryTypes' /\ LogInv' /\ RequestInv'
  <2>1. DiskTypes' /\ MemoryTypes' /\ HistoryTypes' /\ LogInv'
    BY <1>0, <1>17, UnchangedDisk, UnchangedMemory, UnchangedHistory, UnchangedLog DEF FinishInit, disk
  <2>2. RequestTypes'
    BY <1>0, <1>17 DEF FinishInit, RequestTypes, Steps
  <2>3. RequestInv'
    BY <1>0, <1>17, SentinelAssumption DEF FinishInit, At, RequestInv
  <2>4. QED
    BY <2>1, <2>2, <2>3
<1>18. ASSUME NEW h \in Handles, FailInit(h)
       PROVE  DiskTypes' /\ MemoryTypes' /\ RequestTypes' /\ HistoryTypes' /\ LogInv' /\ RequestInv'
  <2>1. DiskTypes' /\ HistoryTypes' /\ LogInv'
    BY <1>0, <1>18, UnchangedDisk, UnchangedHistory, UnchangedLog DEF FailInit, disk
  <2>2. MemoryTypes'
    <3>1. PICK t \in Tables :
            layout' = IF LayoutOk(h, t) THEN [layout EXCEPT ![h] = @ \cup {t}] ELSE layout
      BY <1>0, <1>18 DEF FailInit, RequestTypes
    <3>2. layout' \in [Handles -> SUBSET Tables]
      BY <1>0, <3>1 DEF MemoryTypes
    <3>3. QED
      BY <1>0, <1>18, <3>2 DEF FailInit, MemoryTypes
  <2>3. RequestTypes' /\ RequestInv'
    BY <1>18, ReleaseType DEF FailInit
  <2>4. QED
    BY <2>1, <2>2, <2>3
<1>19. ASSUME NEW h \in Handles, Restart(h)
       PROVE  DiskTypes' /\ MemoryTypes' /\ RequestTypes' /\ HistoryTypes' /\ LogInv' /\ RequestInv'
  <2>1. DiskTypes' /\ RequestTypes' /\ HistoryTypes' /\ LogInv'
    BY <1>0, <1>19, UnchangedDisk, UnchangedRequest, UnchangedHistory, UnchangedLog DEF Restart, disk
  <2>2. MemoryTypes'
    BY <1>0, <1>19, ForgetType DEF Restart
  <2>3. RequestInv'
    BY <1>0, <1>19 DEF Restart, Forget, RequestInv, request, disk, MemoryTypes, RequestTypes
  <2>4. QED
    BY <2>1, <2>2, <2>3
<1>20. ASSUME NEW h \in Handles, Crash(h)
       PROVE  DiskTypes' /\ MemoryTypes' /\ RequestTypes' /\ HistoryTypes' /\ LogInv' /\ RequestInv'
  <2>1. DiskTypes' /\ LogInv'
    BY <1>0, <1>20, UnchangedDisk, UnchangedLog DEF Crash, disk
  <2>2. MemoryTypes'
    BY <1>0, <1>20, ForgetType DEF Crash
  <2>3. HistoryTypes'
    BY <1>0, <1>20, FaultType DEF Crash, HistoryTypes
  <2>4. RequestTypes' /\ RequestInv'
    BY <1>20, ReleaseType DEF Crash
  <2>5. QED
    BY <2>1, <2>2, <2>3, <2>4
<1>21. ASSUME NEW h \in Handles, CrashInAppend(h)
       PROVE  DiskTypes' /\ MemoryTypes' /\ RequestTypes' /\ HistoryTypes' /\ LogInv' /\ RequestInv'
  <2>1. DiskTypes' /\ LogInv' /\ HistoryTypes'
    BY <1>0, <1>21, PartialAppendType, FaultType DEF CrashInAppend, DiskTypes, HistoryTypes
  <2>2. MemoryTypes'
    BY <1>0, <1>21, ForgetType DEF CrashInAppend
  <2>3. RequestTypes' /\ RequestInv'
    BY <1>21, ReleaseType DEF CrashInAppend
  <2>4. QED
    BY <2>1, <2>2, <2>3
<1>22. ASSUME NEW h \in Handles, FailAppend(h)
       PROVE  DiskTypes' /\ MemoryTypes' /\ RequestTypes' /\ HistoryTypes' /\ LogInv' /\ RequestInv'
  <2>1. DiskTypes' /\ LogInv' /\ HistoryTypes'
    BY <1>0, <1>22, PartialAppendType, FaultType DEF FailAppend, DiskTypes, HistoryTypes
  <2>2. MemoryTypes'
    BY <1>0, <1>22, InvalidateType DEF FailAppend, MemoryTypes
  <2>3. RequestTypes' /\ RequestInv'
    BY <1>22, ReleaseType DEF FailAppend
  <2>4. QED
    BY <2>1, <2>2, <2>3
<1>23. ASSUME NEW h \in Handles, FailSave(h)
       PROVE  DiskTypes' /\ MemoryTypes' /\ RequestTypes' /\ HistoryTypes' /\ LogInv' /\ RequestInv'
  <2>1. DiskTypes' /\ LogInv'
    BY <1>0, <1>23, UnchangedDisk, UnchangedLog DEF FailSave, disk
  <2>2. MemoryTypes'
    <3>1. CASE batch # <<>>
      BY <1>0, <1>23, <3>1, InvalidateType DEF FailSave, MemoryTypes
    <3>2. CASE batch = <<>>
      BY <1>0, <1>23, <3>2, NextTxType DEF FailSave, MemoryTypes
    <3>3. QED
      BY <3>1, <3>2
  <2>3. HistoryTypes'
    BY <1>0, <1>23, FaultType DEF FailSave, HistoryTypes
  <2>4. RequestTypes' /\ RequestInv'
    BY <1>23, ReleaseType DEF FailSave
  <2>5. QED
    BY <2>1, <2>2, <2>3, <2>4
<1>24. ASSUME NEW h \in Handles, FailPublish(h)
       PROVE  DiskTypes' /\ MemoryTypes' /\ RequestTypes' /\ HistoryTypes' /\ LogInv' /\ RequestInv'
  <2>1. DiskTypes' /\ MemoryTypes' /\ LogInv'
    BY <1>0, <1>24, UnchangedDisk, UnchangedMemory, UnchangedLog DEF FailPublish, disk
  <2>2. HistoryTypes'
    BY <1>0, <1>24, FaultType DEF FailPublish, HistoryTypes
  <2>3. RequestTypes' /\ RequestInv'
    BY <1>24, ReleaseType DEF FailPublish
  <2>4. QED
    BY <2>1, <2>2, <2>3
<1>25. CASE UNCHANGED vars
  <2>1. DiskTypes' /\ MemoryTypes' /\ RequestTypes' /\ HistoryTypes' /\ LogInv'
    BY <1>0, <1>25, UnchangedDisk, UnchangedMemory, UnchangedRequest, UnchangedHistory, UnchangedLog
       DEF vars, disk
  <2>2. RequestInv'
    BY <1>0, <1>25 DEF vars, disk, memory, request, RequestInv
  <2>3. QED
    BY <2>1, <2>2
<1>26. QED
  BY <1>1, <1>2, <1>3, <1>4, <1>5, <1>6, <1>7, <1>8, <1>9, <1>10, <1>11, <1>12, <1>13,
     <1>14, <1>15, <1>16, <1>17, <1>18, <1>19, <1>20, <1>21, <1>22, <1>23, <1>24, <1>25
     DEF Next, Progress, Interrupt

\* Every variable of the store has its type in every reachable state.
THEOREM TypeCorrect == Spec => []TypeOK
<1>1. Spec => []TypeInv
  BY InitTypeInv, NextTypeInv, PTL DEF Spec
<1>2. TypeInv => TypeOK
  BY DEF TypeInv
<1>3. QED
  BY <1>1, <1>2, PTL

-------------------------------------------------------------------------------
(* Coherence of the caches. *)

\* init and a failing save of metadata or revision do not meet: where they do,
\* a handle keeps a transaction counter that other handles use up meanwhile,
\* and TxUnique is violated.
InitNeverFailsToSave == "save" \notin FaultKinds \/ "init" \notin Operations

\* The parts of the invariant that speak of a handle.
HandleInv == ObservedInv /\ DirtyInv /\ WriterInv

\* The parts that speak of the chunks and of what names them.
ChunkInv == TxUnique /\ MetadataBehindChunks /\ RevisionNamesLog

StoreInv == TypeInv /\ ChunkInv /\ HandleInv

\* The invariant by groups is the one the runs check.
LEMMA StoreInvIsCoherence == StoreInv <=> TypeOK /\ CoherenceInv
  BY DEF StoreInv, TypeInv, ChunkInv, HandleInv, CoherenceInv

\* An empty workspace satisfies the invariant.
LEMMA InitStoreInv == Init => StoreInv
<1> SUFFICES ASSUME Init PROVE StoreInv
  OBVIOUS
<1>1. TypeInv
  BY InitTypeInv
<1>2. Txs = {0}
  BY DEF Init, Txs
<1>3. DiscoveredTx = 1
  <2>1. DiscoveredTx - 1 \in Txs /\ DiscoveredTx \in Nat \ {0}
    BY <1>1, DiscoveredIsNext DEF TypeInv
  <2>2. QED
    BY <2>1, <1>2
<1>4. ChunkInv
  <2>1. TxUnique
    BY DEF Init, TxUnique
  <2>2. MetadataBehindChunks
    BY DEF Init, MetadataBehindChunks
  <2>3. RevisionNamesLog
    BY <1>3 DEF Init, RevisionNamesLog, NamesLog
  <2>4. QED
    BY <2>1, <2>2, <2>3 DEF ChunkInv
<1>5. HandleInv
  <2>1. \A h \in Handles : ObservedOk(h) /\ DirtyOk(h)
    BY SentinelAssumption DEF Init, ObservedOk, DirtyOk
  <2>2. WriterInv
    BY DEF Init, WriterInv
  <2>3. QED
    BY <2>1, <2>2 DEF HandleInv, ObservedInv, DirtyInv
<1>6. QED
  BY <1>1, <1>4, <1>5 DEF StoreInv

\* A counter that is current hands out the transaction after the last one.
LEMMA NextTxCurrent ==
    ASSUME TypeInv, MetadataBehindChunks, NEW h \in Handles, TxCurrent(h)
    PROVE  NextTxOf(h) = DiscoveredTx
  BY DiscoveredIsNext DEF TypeInv, TypeOK, NextTxOf, TxCurrent, MetadataBehindChunks

\* Rows from a current cache, or loaded past an empty one, are those on disk.
LEMMA RowsOfCurrent ==
    ASSUME NEW r, NEW t \in Tables, r[t] \in {None, Rows(log[t])}
    PROVE  RowsOf(r, t) = Rows(log[t])
  BY DEF RowsOf

\* After a refresh on a clean workspace, what is still cached is current; on a
\* dirty one, no transaction counter is left where init could use it.
LEMMA RefreshCoherent ==
    ASSUME StoreInv, NEW h \in Handles
    PROVE  /\ revision \in Nat =>
                /\ \A t \in Tables : RefreshedRows(h)[t] \in {None, Rows(log[t])}
                /\ RefreshedTx(h) \in {None, DiscoveredTx}
                /\ revision <= DiscoveredTx
           /\ revision = Dirty /\ writer # h /\ "init" \in Operations => RefreshedTx(h) = None
           /\ revision # None /\ (revision \in Nat \/ revision = Dirty)
<1>0. /\ revision \in Nat \cup {Dirty} /\ DiscoveredTx \in Nat \ {0}
      /\ ObservedOk(h) /\ RevisionNamesLog /\ ("init" \in Operations => DirtyOk(h))
  BY DiscoveredIsNext DEF StoreInv, TypeInv, TypeOK, HandleInv, ObservedInv, DirtyInv, ChunkInv
<1>1. ASSUME revision \in Nat
      PROVE  /\ \A t \in Tables : RefreshedRows(h)[t] \in {None, Rows(log[t])}
             /\ RefreshedTx(h) \in {None, DiscoveredTx}
             /\ revision <= DiscoveredTx
  <2>1. NamesLog(revision)
    BY <1>0, <1>1, SentinelAssumption DEF RevisionNamesLog
  <2>2. revision <= DiscoveredTx
    BY <2>1, <1>0, <1>1 DEF NamesLog
  <2>3. CASE Stale(h) \/ observed[h] = None
    BY <2>2, <2>3, <1>0 DEF RefreshedRows, RefreshedTx, NoRows, ObservedOk
  <2>4. CASE observed[h] = revision
    BY <2>1, <2>2, <2>4, <1>0, <1>1 DEF RefreshedRows, RefreshedTx, Stale, ObservedOk, Coherent, TxCurrent
  <2>5. QED
    BY <2>3, <2>4 DEF Stale
<1>2. ASSUME revision = Dirty, writer # h, "init" \in Operations
      PROVE  RefreshedTx(h) = None
  BY <1>0, <1>2 DEF RefreshedTx, Stale, ObservedOk, DirtyOk
<1>3. revision # None
  BY <1>0, SentinelAssumption
<1>4. QED
  BY <1>0, <1>1, <1>2, <1>3

\* A handle that a step with the same chunks leaves alone knows what it knew.
LEMMA SameHandle ==
    ASSUME log' = log, NEW k \in Handles, ObservedOk(k),
           observed'[k] = observed[k], rows'[k] = rows[k], nextTx'[k] = nextTx[k]
    PROVE  ObservedOk(k)'
<1>1. DiscoveredTx' = DiscoveredTx
  BY UnchangedLog
<1>2. QED
  BY <1>1 DEF ObservedOk, NamesLog, Coherent, TxCurrent

\* A handle whose caches are current keeps to the invariant whatever it observed.
LEMMA CurrentHandle ==
    ASSUME TypeInv, NEW k \in Handles,
           observed[k] \in Nat => observed[k] <= DiscoveredTx,
           observed[k] # None, Coherent(k), TxCurrent(k)
    PROVE  ObservedOk(k)
  BY DEF ObservedOk

\* ChunkInv where the chunks, the metadata and the revision stay.
LEMMA SameChunks ==
    ASSUME ChunkInv, log' = log, metaTx' = metaTx, revision' = revision
    PROVE  ChunkInv'
<1>1. DiscoveredTx' = DiscoveredTx
  BY UnchangedLog
<1>2. QED
  BY <1>1 DEF ChunkInv, TxUnique, MetadataBehindChunks, RevisionNamesLog, NamesLog

\* Every transaction id in the chunks is below the discovered one.
LEMMA TxBelowDiscovered ==
    ASSUME TypeInv, NEW t \in Tables, NEW i \in DOMAIN log[t]
    PROVE  log[t][i].tx \in Nat /\ log[t][i].tx < DiscoveredTx
<1>1. log[t][i].tx \in Txs
  BY DEF Txs
<1>2. QED
  BY <1>1, TxsType, DiscoveredIsNext DEF TypeInv

\* A batch stamped with the discovered transaction moves it past the batch and
\* uses no transaction id again.
LEMMA AppendAdvances ==
    ASSUME TypeInv, TxUnique, NEW t \in Tables, NEW c \in Seq(Change),
           log' = [log EXCEPT ![t] = @ \o Stamped(c, DiscoveredTx)]
    PROVE  DiscoveredTx' = DiscoveredTx + Len(c) /\ TxUnique'
<1>0. TypeOK /\ LogInv /\ DiscoveredTx \in Nat \ {0} /\ Len(c) \in Nat
  BY DiscoveredIsNext DEF TypeInv
<1>1. /\ log' \in [Tables -> Seq(Line)]
      /\ \A u \in Tables : u # t => log'[u] = log[u]
      /\ log'[t] = log[t] \o Stamped(c, DiscoveredTx)
      /\ Txs' = Txs \cup {DiscoveredTx + i - 1 : i \in 1..Len(c)}
      /\ LogInv'
  BY <1>0, AppendedLog
<1>2. DiscoveredTx' = DiscoveredTx + Len(c)
  <2> DEFINE m == CHOOSE m \in Txs' : \A n \in Txs' : n <= m
             D == DiscoveredTx
  <2>0. D \in Nat \ {0} /\ DiscoveredTx' = m + 1
    BY <1>0 DEF DiscoveredTx
  <2>1. LogInv'
    BY <1>1
  <2>2. m \in Txs' /\ \A n \in Txs' : n <= m
    BY <2>1 DEF LogInv
  <2>3. Txs \subseteq Nat /\ D - 1 \in Txs /\ \A n \in Txs : n < D
    BY <1>0, TxsType, DiscoveredIsNext
  <2>4. Txs' = Txs \cup {D + i - 1 : i \in 1..Len(c)}
    BY <1>1
  <2> HIDE DEF m, D
  <2>5. m = D + Len(c) - 1
    <3>1. D + Len(c) - 1 \in Txs'
      BY <2>0, <2>3, <2>4, <1>0
    <3>2. \A n \in Txs' : n \in Nat /\ n <= D + Len(c) - 1
      BY <2>0, <2>3, <2>4, <1>0
    <3>3. m \in Nat /\ m <= D + Len(c) - 1 /\ D + Len(c) - 1 <= m
      BY <2>2, <3>1, <3>2
    <3>4. QED
      BY <3>3, <2>0, <1>0
  <2>6. DiscoveredTx' = D + Len(c)
    BY <2>5, <2>0, <1>0
  <2>7. QED
    BY <2>6 DEF D
<1>3. ASSUME NEW i \in DOMAIN log'[t]
      PROVE  /\ i \in Nat
             /\ \/ i \in DOMAIN log[t] /\ log'[t][i] = log[t][i] /\ i <= Len(log[t])
                \/ i > Len(log[t]) /\ log'[t][i].tx = DiscoveredTx + (i - Len(log[t])) - 1
  <2> DEFINE z == Stamped(c, DiscoveredTx)
  <2>1. z \in Seq(Line) /\ Len(z) = Len(c) /\ \A k \in 1..Len(c) : z[k].tx = DiscoveredTx + k - 1
    BY <1>0, StampedType
  <2>2. log[t] \in Seq(Line) /\ log'[t] = log[t] \o z
    BY <1>0, <1>1 DEF TypeOK
  <2> HIDE DEF z
  <2>3. \A s, y \in Seq(Line) :
          /\ DOMAIN s = 1..Len(s) /\ Len(s) \in Nat /\ Len(y) \in Nat
          /\ DOMAIN (s \o y) = 1..(Len(s) + Len(y))
          /\ \A k \in 1..Len(s) : (s \o y)[k] = s[k]
          /\ \A k \in 1..Len(y) : (s \o y)[Len(s) + k] = y[k]
    BY ConcatFacts
  <2>4. /\ DOMAIN log[t] = 1..Len(log[t]) /\ Len(log[t]) \in Nat
        /\ DOMAIN log'[t] = 1..(Len(log[t]) + Len(c))
        /\ \A k \in 1..Len(log[t]) : log'[t][k] = log[t][k]
        /\ \A k \in 1..Len(c) : log'[t][Len(log[t]) + k] = z[k]
    BY <2>1, <2>2, <2>3
  <2>5. CASE i <= Len(log[t])
    BY <2>4, <2>5
  <2>6. CASE ~(i <= Len(log[t]))
    <3>1. i - Len(log[t]) \in 1..Len(c) /\ i = Len(log[t]) + (i - Len(log[t])) /\ i \in Nat /\ i > Len(log[t])
      BY <2>4, <2>6, <1>0
    <3>2. log'[t][i] = z[i - Len(log[t])]
      BY <3>1, <2>4
    <3>3. log'[t][i].tx = DiscoveredTx + (i - Len(log[t])) - 1
      BY <3>1, <3>2, <2>1
    <3>4. QED
      BY <3>1, <3>3
  <2>7. QED
    BY <2>5, <2>6
<1>4. \A u \in Tables : \A i \in DOMAIN log[u] : log[u][i].tx \in Nat /\ log[u][i].tx < DiscoveredTx
  BY TxBelowDiscovered
<1>5. Len(log[t]) \in Nat
  BY <1>0 DEF TypeOK
<1>6. ASSUME NEW i \in DOMAIN log'[t], NEW j \in DOMAIN log'[t], i < j
      PROVE  log'[t][i].tx < log'[t][j].tx
  <2>1. CASE j \in DOMAIN log[t] /\ log'[t][j] = log[t][j] /\ j <= Len(log[t])
    <3>1. i \in DOMAIN log[t] /\ log'[t][i] = log[t][i]
      BY <1>3, <1>5, <1>6, <2>1
    <3>2. QED
      BY <2>1, <3>1, <1>6 DEF TxUnique
  <2>2. CASE j > Len(log[t]) /\ log'[t][j].tx = DiscoveredTx + (j - Len(log[t])) - 1
    <3>1. CASE i \in DOMAIN log[t] /\ log'[t][i] = log[t][i] /\ i <= Len(log[t])
      <4>1. log'[t][i].tx \in Nat /\ log'[t][i].tx < DiscoveredTx
        BY <3>1, <1>4
      <4>2. QED
        BY <4>1, <2>2, <1>3, <1>0, <1>5
    <3>2. CASE i > Len(log[t]) /\ log'[t][i].tx = DiscoveredTx + (i - Len(log[t])) - 1
      BY <3>2, <2>2, <1>3, <1>0, <1>5, <1>6
    <3>3. QED
      BY <3>1, <3>2, <1>3
  <2>3. QED
    BY <2>1, <2>2, <1>3
<1>7. ASSUME NEW u \in Tables, u # t, NEW i \in DOMAIN log'[t], NEW j \in DOMAIN log'[u]
      PROVE  log'[t][i].tx # log'[u][j].tx
  <2>1. j \in DOMAIN log[u] /\ log'[u][j] = log[u][j]
    BY <1>1, <1>7
  <2>2. log'[u][j].tx \in Nat /\ log'[u][j].tx < DiscoveredTx
    BY <2>1, <1>4
  <2>3. CASE i \in DOMAIN log[t] /\ log'[t][i] = log[t][i]
    BY <2>1, <2>3, <1>7 DEF TxUnique
  <2>4. CASE i > Len(log[t]) /\ log'[t][i].tx = DiscoveredTx + (i - Len(log[t])) - 1
    <3>1. i \in Nat
      BY <1>3
    <3>2. i - Len(log[t]) \in Nat \ {0}
      BY <3>1, <2>4, <1>5
    <3>3. \A d, m \in Nat \ {0} : ~(d + m - 1 < d)
      OBVIOUS
    <3>4. ~(log'[t][i].tx < DiscoveredTx)
      BY <3>2, <3>3, <2>4, <1>0
    <3>5. QED
      BY <3>4, <2>2
  <2>5. QED
    BY <2>3, <2>4, <1>3
<1>8. ASSUME NEW u \in Tables, NEW v \in Tables, NEW i \in DOMAIN log'[u], NEW j \in DOMAIN log'[v]
      PROVE  /\ u # v => log'[u][i].tx # log'[v][j].tx
             /\ u = v /\ i < j => log'[u][i].tx < log'[v][j].tx
  <2>1. CASE u = t
    BY <2>1, <1>6, <1>7, <1>8
  <2>2. CASE u # t /\ v = t
    <3>1. log'[v][j].tx # log'[u][i].tx
      BY <2>2, <1>7, <1>8
    <3>2. QED
      BY <3>1, <2>2
  <2>3. CASE u # t /\ v # t
    <3>1. log'[u] = log[u] /\ log'[v] = log[v]
      BY <1>1, <2>3
    <3>2. i \in DOMAIN log[u] /\ j \in DOMAIN log[v]
      BY <3>1, <1>8
    <3>3. /\ u # v => log[u][i].tx # log[v][j].tx
          /\ u = v /\ i < j => log[u][i].tx < log[v][j].tx
      BY <3>2 DEF TxUnique
    <3>4. QED
      BY <3>1, <3>3
  <2>4. QED
    BY <2>1, <2>2, <2>3
<1>9. TxUnique'
  BY <1>8 DEF TxUnique
<1>10. QED
  BY <1>2, <1>9

\* A handle without the lock has observed a revision that a longer log leaves
\* behind.
LEMMA BehindHandle ==
    ASSUME StoreInv, NEW n \in Nat \ {0}, DiscoveredTx' = DiscoveredTx + n,
           NEW k \in Handles, observed'[k] = observed[k], rows'[k] = rows[k], nextTx'[k] = nextTx[k]
    PROVE  ObservedOk(k)'
<1>1. DiscoveredTx \in Nat \ {0} /\ ObservedOk(k) /\ None \notin Nat
  BY DiscoveredIsNext, SentinelAssumption DEF StoreInv, TypeInv, HandleInv, ObservedInv
<1>2. observed[k] \in Nat => observed[k] <= DiscoveredTx
  BY <1>1 DEF ObservedOk
<1>3. observed[k] \in Nat => ~NamesLog(observed[k])'
  BY <1>1, <1>2 DEF NamesLog
<1>4. observed'[k] \in Nat => observed'[k] <= DiscoveredTx'
  BY <1>1, <1>2
<1>5. QED
  BY <1>1, <1>3, <1>4 DEF ObservedOk, NamesLog

\* What the lock holder knows when it appends.
LEMMA AtAppend ==
    ASSUME StoreInv, NEW h \in Handles, At(h, "append")
    PROVE  /\ target \in Tables /\ batch \in Seq(Change) /\ batch \in Batches
           /\ revision = Dirty /\ observed[h] = Dirty
           /\ Coherent(h) /\ NextTxOf(h) = DiscoveredTx
           /\ RowsOf(rows[h], target) = Rows(log[target])
<1>1. /\ target \in Tables /\ batch \in Seq(Change) /\ batch \in Batches
      /\ revision = Dirty /\ observed[h] = Dirty
  BY BatchesType DEF StoreInv, TypeInv, RequestInv, At
<1>2. Coherent(h) /\ TxCurrent(h)
  BY DEF StoreInv, HandleInv, WriterInv, At
<1>3. NextTxOf(h) = DiscoveredTx
  BY <1>2, NextTxCurrent DEF StoreInv, ChunkInv
<1>4. RowsOf(rows[h], target) = Rows(log[target])
  BY <1>1, <1>2, RowsOfCurrent DEF Coherent
<1>5. QED
  BY <1>1, <1>2, <1>3, <1>4

\* An append keeps the invariant of the chunks, and every handle it leaves alone
\* keeps to its own: what it observed no longer names the chunks.
LEMMA AppendKeeps ==
    ASSUME StoreInv, NEW h \in Handles, At(h, "append"), NEW c \in Seq(Change),
           log' = [log EXCEPT ![target] = @ \o Stamped(c, NextTxOf(h))],
           metaTx' = metaTx, revision' = revision
    PROVE  /\ ChunkInv' /\ DiscoveredTx' = DiscoveredTx + Len(c)
           /\ \A k \in Handles :
                observed'[k] = observed[k] /\ rows'[k] = rows[k] /\ nextTx'[k] = nextTx[k]
                  => ObservedOk(k)'
<1>1. target \in Tables /\ NextTxOf(h) = DiscoveredTx /\ revision = Dirty
  BY AtAppend
<1>2. TypeInv /\ TxUnique /\ MetadataBehindChunks /\ DiscoveredTx \in Nat \ {0} /\ Len(c) \in Nat
      /\ metaTx \in Nat \cup {None} /\ ObservedInv
  BY DiscoveredIsNext DEF StoreInv, ChunkInv, TypeInv, TypeOK, HandleInv
<1>3. DiscoveredTx' = DiscoveredTx + Len(c) /\ TxUnique'
  BY <1>1, <1>2, AppendAdvances
<1>4. ChunkInv'
  <2>1. MetadataBehindChunks'
    BY <1>2, <1>3 DEF MetadataBehindChunks
  <2>2. RevisionNamesLog'
    BY <1>1 DEF RevisionNamesLog
  <2>3. QED
    BY <1>3, <2>1, <2>2 DEF ChunkInv
<1>5. ASSUME NEW k \in Handles, observed'[k] = observed[k], rows'[k] = rows[k], nextTx'[k] = nextTx[k]
      PROVE  ObservedOk(k)'
  <2>1. CASE Len(c) = 0
    <3>1. log' = log
      <4> DEFINE z == Stamped(c, DiscoveredTx)
      <4>1. z \in Seq(Line) /\ Len(z) = 0
        BY <1>2, <2>1, StampedType
      <4>2. log \in [Tables -> Seq(Line)] /\ log' = [log EXCEPT ![target] = @ \o z]
        BY <1>1, <1>2 DEF TypeInv, TypeOK
      <4> HIDE DEF z
      <4>3. \A s, y \in Seq(Line) : Len(y) = 0 => s \o y = s
        OBVIOUS
      <4>4. log[target] \in Seq(Line)
        BY <1>1, <4>2
      <4>5. log[target] \o z = log[target]
        BY <4>1, <4>3, <4>4
      <4>6. QED
        BY <4>2, <4>5
    <3>2. ObservedOk(k)
      BY <1>2 DEF ObservedInv
    <3>3. QED
      BY <3>1, <3>2, <1>5, SameHandle
  <2>2. CASE Len(c) \in Nat \ {0}
    BY <2>2, <1>3, <1>5, BehindHandle
  <2>3. QED
    BY <2>1, <2>2, <1>2
<1>6. QED
  BY <1>3, <1>4, <1>5

\* Only the memory of h changes.
OnlyMemoryOf(h) ==
    \A k \in Handles \ {h} :
      observed'[k] = observed[k] /\ rows'[k] = rows[k] /\ nextTx'[k] = nextTx[k]

\* Refresh, restart and invalidation touch the caches of one handle only.
LEMMA MemoryFrames ==
    ASSUME TypeOK, NEW h \in Handles, NEW r
    PROVE  /\ Refresh(h, r) => OnlyMemoryOf(h) /\ observed'[h] = revision /\ rows'[h] = r
                                 /\ nextTx'[h] = RefreshedTx(h)
           /\ Forget(h) => OnlyMemoryOf(h) /\ observed'[h] = None /\ rows'[h] = NoRows
                             /\ nextTx'[h] = None
           /\ Invalidate(h) /\ observed' = observed
                => OnlyMemoryOf(h) /\ rows'[h] = NoRows /\ nextTx'[h] = None
  BY DEF TypeOK, Refresh, Forget, Invalidate, OnlyMemoryOf

\* A step of h on the same chunks, taken with the lock or while nobody holds
\* it, keeps what the other handles know.
LEMMA OtherHandles ==
    ASSUME StoreInv, NEW h \in Handles, writer \in {None, h}, OnlyMemoryOf(h),
           \A k \in Handles \ {h} : ObservedOk(k)',
           ObservedOk(h)', "init" \in Operations => DirtyOk(h)'
    PROVE  ObservedInv' /\ DirtyInv'
<1>1. ASSUME NEW k \in Handles \ {h}, "init" \in Operations PROVE DirtyOk(k)'
  <2>1. writer # k
    BY <1>1, SentinelAssumption
  <2>2. observed[k] = Dirty => nextTx[k] = None
    BY <1>1, <2>1 DEF StoreInv, HandleInv, DirtyInv, DirtyOk
  <2>3. QED
    BY <2>2, <1>1 DEF DirtyOk, OnlyMemoryOf
<1>2. QED
  BY <1>1 DEF ObservedInv, DirtyInv

\* While the chunks stay, the other handles stay as current as they were.
LEMMA OtherHandlesSameLog ==
    ASSUME StoreInv, NEW h \in Handles, OnlyMemoryOf(h), log' = log
    PROVE  \A k \in Handles \ {h} : ObservedOk(k)'
  BY SameHandle DEF OnlyMemoryOf, StoreInv, HandleInv, ObservedInv

\* A refresh, with rows that are current on a clean workspace.
LEMMA RefreshKeeps ==
    ASSUME StoreInv, NEW h \in Handles, writer = None, NEW r \in [Tables -> RowSet \cup {None}],
           Refresh(h, r), log' = log,
           revision \in Nat => \A t \in Tables : r[t] \in {None, Rows(log[t])}
    PROVE  /\ ObservedOk(h)' /\ OnlyMemoryOf(h) /\ observed'[h] = revision
           /\ revision \in Nat => Coherent(h)' /\ TxCurrent(h)'
           /\ revision = Dirty /\ "init" \in Operations => nextTx'[h] = None
           /\ observed'[h] # None
<1>1. /\ OnlyMemoryOf(h) /\ observed'[h] = revision /\ rows'[h] = r /\ nextTx'[h] = RefreshedTx(h)
  BY MemoryFrames DEF StoreInv, TypeInv
<1>2. /\ revision \in Nat => RefreshedTx(h) \in {None, DiscoveredTx} /\ revision <= DiscoveredTx
      /\ revision = Dirty /\ "init" \in Operations => RefreshedTx(h) = None
      /\ revision # None /\ (revision \in Nat \/ revision = Dirty)
  BY RefreshCoherent, SentinelAssumption
<1>3. DiscoveredTx' = DiscoveredTx
  BY UnchangedLog
<1>4. revision \in Nat => Coherent(h)' /\ TxCurrent(h)'
  BY <1>1, <1>2, <1>3 DEF Coherent, TxCurrent
<1>5. ObservedOk(h)'
  <2>1. CASE revision \in Nat
    <3>1. observed'[h] <= DiscoveredTx' /\ observed'[h] # None
      BY <1>1, <1>2, <1>3, <2>1
    <3>2. QED
      BY <3>1, <1>4, <2>1 DEF ObservedOk
  <2>2. CASE revision = Dirty
    BY <1>1, <2>2, SentinelAssumption DEF ObservedOk
  <2>3. QED
    BY <1>2, <2>1, <2>2
<1>6. QED
  BY <1>1, <1>2, <1>4, <1>5

\* Once the lock is released there is nothing to know of its holder.
LEMMA ReleaseWriterInv == Release => WriterInv'
  BY DEF Release, WriterInv

\* Nor while nobody holds it.
LEMMA IdleWriterInv ==
    ASSUME writer' = None, step' = "idle"
    PROVE  WriterInv'
  BY DEF WriterInv

\* Every step keeps the invariant of the chunks and of the handles.
LEMMA NextStoreInv ==
    ASSUME InitNeverFailsToSave, StoreInv, [Next]_vars
    PROVE  ChunkInv' /\ HandleInv'
<1>0. /\ TypeInv /\ TypeOK /\ LogInv /\ RequestInv /\ ChunkInv /\ ObservedInv /\ DirtyInv /\ WriterInv
      /\ MetadataBehindChunks /\ None \notin Handles
      /\ RequestTypes /\ MemoryTypes /\ DiskTypes
      /\ (writer = None <=> step = "idle")
  BY TypeGroups, SentinelAssumption DEF StoreInv, TypeInv, HandleInv, ChunkInv, RequestInv
\* Reads and refused writes, while nobody holds the lock.
<1>1. ASSUME NEW h \in Handles, NEW r \in [Tables -> RowSet \cup {None}],
             writer = None, Refresh(h, r), UNCHANGED request,
             log' = log, metaTx' = metaTx, revision' = revision,
             revision \in Nat => \A t \in Tables : r[t] \in {None, Rows(log[t])}
      PROVE  ChunkInv' /\ HandleInv'
  <2>1. ObservedOk(h)' /\ OnlyMemoryOf(h) /\ observed'[h] = revision
        /\ (revision = Dirty /\ "init" \in Operations => nextTx'[h] = None)
    BY <1>1, RefreshKeeps
  <2>2. "init" \in Operations => DirtyOk(h)'
    BY <2>1 DEF DirtyOk
  <2>3. ObservedInv' /\ DirtyInv'
    BY <1>1, <2>1, <2>2, OtherHandles, OtherHandlesSameLog
  <2>4. WriterInv'
    BY <1>0, <1>1, IdleWriterInv DEF request
  <2>5. ChunkInv'
    BY <1>0, <1>1, SameChunks
  <2>6. QED
    BY <2>3, <2>4, <2>5 DEF HandleInv
<1>2. ASSUME NEW h \in Handles, NEW t \in Tables, Read(h, t)
      PROVE  ChunkInv' /\ HandleInv'
  <2> DEFINE r == [RefreshedRows(h) EXCEPT ![t] = RowsOf(RefreshedRows(h), t)]
  <2>1. RefreshedRows(h) \in [Tables -> RowSet \cup {None}]
    BY <1>0, RefreshedRowsType
  <2>2. r \in [Tables -> RowSet \cup {None}]
    BY <1>0, <2>1, RowsOfType
  <2>3. revision \in Nat => \A u \in Tables : r[u] \in {None, Rows(log[u])}
    BY <2>1, RefreshCoherent, RowsOfCurrent
  <2>4. QED
    BY <1>1, <1>2, <2>2, <2>3 DEF Read
<1>3. ASSUME NEW h \in Handles, NEW t \in Tables, ReadFails(h, t) \/ RefuseWrite(h, t)
      PROVE  ChunkInv' /\ HandleInv'
  <2>1. RefreshedRows(h) \in [Tables -> RowSet \cup {None}]
    BY <1>0, RefreshedRowsType
  <2>2. revision \in Nat => \A u \in Tables : RefreshedRows(h)[u] \in {None, Rows(log[u])}
    BY RefreshCoherent
  <2>3. QED
    BY <1>1, <1>3, <2>1, <2>2 DEF ReadFails, RefuseWrite, disk
<1>4. ASSUME NEW h \in Handles, NEW t \in Tables, Rebuild(h, t)
      PROVE  ChunkInv' /\ HandleInv'
  <2> DEFINE r == [RefreshedRows(h) EXCEPT ![t] = Rows(log[t])]
  <2>1. RefreshedRows(h) \in [Tables -> RowSet \cup {None}]
    BY <1>0, RefreshedRowsType
  <2>2. Rows(log[t]) \in RowSet
    <3>1. log[t] \in Seq(Line)
      BY <1>0 DEF DiskTypes
    <3>2. QED
      BY <3>1, RowsType
  <2>3. r \in [Tables -> RowSet \cup {None}]
    BY <2>1, <2>2
  <2>4. revision \in Nat => \A u \in Tables : r[u] \in {None, Rows(log[u])}
    BY <2>1, RefreshCoherent
  <2>5. QED
    BY <1>1, <1>4, <2>3, <2>4 DEF Rebuild
\* Taking the lock.
<1>5. ASSUME NEW h \in Handles, NEW s \in {"resolve", "recover", "rebuild"}, Begin(h, s),
             Refresh(h, RefreshedRows(h)), UNCHANGED disk,
             s = "resolve" => revision # Dirty,
             s = "rebuild" => "init" \in Operations /\ todo' = Tables
      PROVE  ChunkInv' /\ HandleInv'
  <2>1. RefreshedRows(h) \in [Tables -> RowSet \cup {None}]
    BY <1>0, RefreshedRowsType
  <2>2. revision \in Nat => \A u \in Tables : RefreshedRows(h)[u] \in {None, Rows(log[u])}
    BY RefreshCoherent
  <2>3. writer = None /\ writer' = h /\ step' = s /\ log' = log /\ metaTx' = metaTx /\ revision' = revision
    BY <1>5 DEF Begin, disk
  <2>4. /\ ObservedOk(h)' /\ OnlyMemoryOf(h) /\ observed'[h] = revision
        /\ revision \in Nat => Coherent(h)' /\ TxCurrent(h)'
        /\ revision = Dirty /\ "init" \in Operations => nextTx'[h] = None
        /\ observed'[h] # None
    BY <1>5, <2>1, <2>2, <2>3, RefreshKeeps
  <2>5. "init" \in Operations => DirtyOk(h)'
    BY <2>4 DEF DirtyOk
  <2>6. ObservedInv' /\ DirtyInv'
    BY <2>3, <2>4, <2>5, OtherHandles, OtherHandlesSameLog
  <2>7. s = "rebuild" => TxCurrent(h)'
    BY <1>0, <1>5, <2>4 DEF TxCurrent, DiskTypes
  <2>8. s = "resolve" => Coherent(h)' /\ TxCurrent(h)'
    BY <1>0, <1>5, <2>4 DEF DiskTypes
  <2>9. WriterInv'
    <3>1. CASE s = "resolve"
      BY <2>3, <2>4, <2>8, <3>1 DEF WriterInv, Coherent, TxCurrent
    <3>2. CASE s = "recover"
      BY <2>3, <2>4, <3>2 DEF WriterInv
    <3>3. CASE s = "rebuild"
      BY <1>5, <2>3, <2>4, <2>7, <3>3 DEF WriterInv, TxCurrent
    <3>4. QED
      BY <3>1, <3>2, <3>3
  <2>10. ChunkInv'
    BY <1>0, <2>3, SameChunks
  <2>11. QED
    BY <2>6, <2>9, <2>10 DEF HandleInv
<1>6. ASSUME NEW h \in Handles, NEW t \in Tables, BeginWrite(h, t) \/ BeginRecovery(h, t)
      PROVE  ChunkInv' /\ HandleInv'
  <2>1. CASE BeginWrite(h, t)
    BY <1>5, <2>1 DEF BeginWrite
  <2>2. CASE BeginRecovery(h, t)
    BY <1>5, <2>2 DEF BeginRecovery
  <2>3. QED
    BY <1>6, <2>1, <2>2
<1>7. ASSUME NEW h \in Handles, BeginInit(h)
      PROVE  ChunkInv' /\ HandleInv'
  BY <1>5, <1>7 DEF BeginInit
\* The steps of a write.
<1>8. ASSUME NEW h \in Handles, NEW t \in Tables, ResolverReads(h, t)
      PROVE  ChunkInv' /\ HandleInv'
  <2>1. writer = h /\ step = "resolve" /\ UNCHANGED request /\ UNCHANGED nextTx /\ UNCHANGED observed
        /\ log' = log /\ metaTx' = metaTx /\ revision' = revision
    BY <1>8 DEF ResolverReads, At
  <2>2. Coherent(h) /\ TxCurrent(h) /\ observed[h] # None
    BY <1>0, <2>1 DEF WriterInv
  <2>3. RowsOf(rows[h], t) = Rows(log[t])
    BY <2>2, RowsOfCurrent DEF Coherent
  <2>4. OnlyMemoryOf(h) /\ Coherent(h)'
    BY <1>0, <1>8, <2>1, <2>2, <2>3 DEF ResolverReads, OnlyMemoryOf, Coherent, MemoryTypes
  <2>5. DiscoveredTx' = DiscoveredTx
    BY <2>1, UnchangedLog
  <2>6. TxCurrent(h)'
    BY <2>1, <2>2, <2>5 DEF TxCurrent
  <2>7. ObservedOk(h)'
    BY <1>0, <2>1, <2>2, <2>4, <2>5, <2>6 DEF ObservedOk, ObservedInv
  <2>8. "init" \in Operations => DirtyOk(h)'
    BY <1>0, <2>1 DEF DirtyInv, DirtyOk, request
  <2>9. ObservedInv' /\ DirtyInv'
    BY <2>1, <2>4, <2>7, <2>8, OtherHandles, OtherHandlesSameLog
  <2>10. WriterInv'
    BY <2>1, <2>2, <2>4, <2>6 DEF WriterInv, request, Coherent, TxCurrent
  <2>11. ChunkInv'
    BY <1>0, <2>1, SameChunks
  <2>12. QED
    BY <2>9, <2>10, <2>11 DEF HandleInv
<1>9. ASSUME NEW h \in Handles, RecoverTable(h)
      PROVE  ChunkInv' /\ HandleInv'
  <2>1. writer = h /\ step = "recover" /\ writer' = writer /\ step' = step
        /\ observed' = observed /\ rows' = rows /\ nextTx' = nextTx
        /\ log' = log /\ metaTx' = metaTx /\ revision' = revision
    BY <1>9 DEF RecoverTable, At
  <2>2. OnlyMemoryOf(h) /\ ObservedOk(h)'
    BY <1>0, <2>1, SameHandle DEF OnlyMemoryOf, ObservedInv
  <2>3. "init" \in Operations => DirtyOk(h)'
    BY <1>0, <2>1 DEF DirtyInv, DirtyOk
  <2>4. ObservedInv' /\ DirtyInv'
    BY <2>1, <2>2, <2>3, OtherHandles, OtherHandlesSameLog
  <2>5. WriterInv'
    BY <1>0, <2>1 DEF WriterInv
  <2>6. ChunkInv'
    BY <1>0, <2>1, SameChunks
  <2>7. QED
    BY <2>4, <2>5, <2>6 DEF HandleInv
<1>10. ASSUME NEW h \in Handles, FinishRecovery(h)
       PROVE  ChunkInv' /\ HandleInv'
  <2>1. writer = h /\ step = "recover" /\ writer' = writer /\ step' = "resolve" /\ observed' = observed
        /\ log' = log /\ metaTx' = metaTx /\ revision' = revision
    BY <1>10 DEF FinishRecovery, At, disk
  <2>2. OnlyMemoryOf(h) /\ rows'[h] = NoRows /\ nextTx'[h] = None
    BY <1>0, <1>10, <2>1, MemoryFrames DEF FinishRecovery
  <2>3. Coherent(h)' /\ TxCurrent(h)' /\ observed[h] # None
    BY <1>0, <2>1, <2>2 DEF Coherent, TxCurrent, NoRows, WriterInv
  <2>4. DiscoveredTx' = DiscoveredTx
    BY <2>1, UnchangedLog
  <2>5. ObservedOk(h)'
    BY <1>0, <2>1, <2>3, <2>4 DEF ObservedOk, ObservedInv
  <2>6. DirtyOk(h)'
    BY <2>2 DEF DirtyOk
  <2>7. ObservedInv' /\ DirtyInv'
    BY <2>1, <2>2, <2>5, <2>6, OtherHandles, OtherHandlesSameLog
  <2>8. WriterInv'
    BY <2>1, <2>3 DEF WriterInv, Coherent, TxCurrent
  <2>9. ChunkInv'
    BY <1>0, <2>1, SameChunks
  <2>10. QED
    BY <2>7, <2>8, <2>9 DEF HandleInv
<1>11. ASSUME NEW h \in Handles, MarkDirty(h)
       PROVE  ChunkInv' /\ HandleInv'
  <2>1. writer = h /\ step = "resolve" /\ writer' = writer /\ step' = "append"
        /\ rows' = rows /\ nextTx' = nextTx
        /\ log' = log /\ metaTx' = metaTx /\ revision' = Dirty
    BY <1>11 DEF MarkDirty, At
  <2>2. OnlyMemoryOf(h) /\ observed'[h] = Dirty
    BY <1>0, <1>11, <2>1 DEF MarkDirty, OnlyMemoryOf, MemoryTypes
  <2>3. Coherent(h) /\ TxCurrent(h)
    BY <1>0, <2>1 DEF WriterInv
  <2>4. DiscoveredTx' = DiscoveredTx
    BY <2>1, UnchangedLog
  <2>5. ObservedOk(h)' /\ DirtyOk(h)'
    BY <2>1, <2>2, SentinelAssumption DEF ObservedOk, DirtyOk
  <2>6. ObservedInv' /\ DirtyInv'
    BY <2>1, <2>2, <2>5, OtherHandles, OtherHandlesSameLog
  <2>7. WriterInv'
    BY <2>1, <2>2, <2>3, <2>4, SentinelAssumption DEF WriterInv, Coherent, TxCurrent
  <2>8. ChunkInv'
    BY <1>0, <2>1, <2>4 DEF ChunkInv, TxUnique, MetadataBehindChunks, RevisionNamesLog
  <2>9. QED
    BY <2>6, <2>7, <2>8 DEF HandleInv
<1>12. ASSUME NEW h \in Handles, Reject(h)
       PROVE  ChunkInv' /\ HandleInv'
  <2>1. writer = h /\ Release /\ observed' = observed
        /\ log' = log /\ metaTx' = metaTx /\ revision' = revision
    BY <1>12 DEF Reject, At
  <2>2. OnlyMemoryOf(h) /\ rows'[h] = NoRows /\ nextTx'[h] = None
    BY <1>0, <1>12, <2>1, MemoryFrames DEF Reject
  <2>3. Coherent(h)' /\ TxCurrent(h)' /\ observed[h] # None
    BY <1>0, <2>1, <2>2 DEF Coherent, TxCurrent, NoRows, WriterInv
  <2>4. DiscoveredTx' = DiscoveredTx
    BY <2>1, UnchangedLog
  <2>5. ObservedOk(h)' /\ DirtyOk(h)'
    BY <1>0, <2>1, <2>2, <2>3, <2>4 DEF ObservedOk, ObservedInv, DirtyOk
  <2>6. QED
    BY <1>0, <2>1, <2>2, <2>5, OtherHandles, OtherHandlesSameLog, SameChunks, ReleaseWriterInv DEF HandleInv
<1>13. ASSUME NEW h \in Handles, AppendBatch(h)
       PROVE  ChunkInv' /\ HandleInv'
  <2>1. At(h, "append") /\ writer = h /\ writer' = writer /\ step' = "save" /\ observed' = observed
        /\ metaTx' = metaTx /\ revision' = revision
        /\ log' = [log EXCEPT ![target] = @ \o Stamped(batch, NextTxOf(h))]
    BY <1>13 DEF AppendBatch, Accepted, At
  <2>2. /\ target \in Tables /\ batch \in Seq(Change) /\ observed[h] = Dirty
        /\ Coherent(h) /\ NextTxOf(h) = DiscoveredTx
        /\ RowsOf(rows[h], target) = Rows(log[target])
    BY <2>1, AtAppend
  <2>3. OnlyMemoryOf(h)
    BY <1>0, <1>13, <2>1 DEF AppendBatch, OnlyMemoryOf, MemoryTypes
  <2>4. /\ ChunkInv' /\ DiscoveredTx' = DiscoveredTx + Len(batch)
        /\ \A k \in Handles \ {h} : ObservedOk(k)'
    BY <2>1, <2>2, <2>3, AppendKeeps DEF OnlyMemoryOf
  <2>5. nextTx'[h] = DiscoveredTx'
    BY <1>0, <1>13, <2>2, <2>4 DEF AppendBatch, MemoryTypes
  <2>6. /\ log'[target] = log[target] \o Stamped(batch, DiscoveredTx)
        /\ \A u \in Tables : u # target => log'[u] = log[u]
    BY <1>0, <2>1, <2>2, AppendedLog, DiscoveredIsNext
  <2>7. Rows(log'[target]) = Replay(Rows(log[target]), batch)
    <3>1. DistinctIds(batch)
      BY <1>13 DEF AppendBatch, Accepted, ValidBatch, DistinctIds
    <3>2. log[target] \in Seq(Line) /\ DiscoveredTx \in Nat \ {0}
      BY <1>0, <2>2, DiscoveredIsNext DEF DiskTypes
    <3>3. QED
      BY <2>2, <2>6, <3>1, <3>2, ReplayAppended
  <2>8. Coherent(h)'
    <3>1. rows'[h][target] = Replay(Rows(log[target]), batch)
          /\ \A u \in Tables : u # target => rows'[h][u] = rows[h][u]
      BY <1>0, <1>13, <2>2 DEF AppendBatch, MemoryTypes
    <3>2. QED
      BY <2>2, <2>6, <2>7, <3>1 DEF Coherent
  <2>9. ObservedOk(h)' /\ DirtyOk(h)'
    BY <2>1, <2>2, SentinelAssumption DEF ObservedOk, DirtyOk
  <2>10. ObservedInv' /\ DirtyInv'
    BY <2>1, <2>3, <2>4, <2>9, OtherHandles
  <2>11. WriterInv'
    BY <2>1, <2>2, <2>5, <2>8, SentinelAssumption DEF WriterInv, Coherent, TxCurrent
  <2>12. QED
    BY <2>4, <2>10, <2>11 DEF HandleInv
<1>14. ASSUME NEW h \in Handles, SaveMetadata(h)
       PROVE  ChunkInv' /\ HandleInv'
  <2>1. writer = h /\ step = "save" /\ writer' = writer /\ step' = "publish" /\ observed' = observed
        /\ rows' = rows /\ log' = log /\ revision' = revision
    BY <1>14 DEF SaveMetadata, At
  <2>2. Coherent(h) /\ TxCurrent(h) /\ observed[h] # None
    BY <1>0, <2>1 DEF WriterInv
  <2>3. NextTxOf(h) = DiscoveredTx /\ DiscoveredTx' = DiscoveredTx /\ DiscoveredTx \in Nat
    BY <1>0, <2>1, <2>2, NextTxCurrent, UnchangedLog, DiscoveredIsNext
  <2>4. OnlyMemoryOf(h) /\ nextTx'[h] = DiscoveredTx
    BY <1>0, <1>14, <2>1, <2>3 DEF SaveMetadata, OnlyMemoryOf, MemoryTypes
  <2>5. Coherent(h)' /\ TxCurrent(h)'
    BY <2>1, <2>2, <2>3, <2>4 DEF Coherent, TxCurrent
  <2>6. ObservedOk(h)' /\ DirtyOk(h)'
    BY <1>0, <2>1, <2>2, <2>3, <2>5 DEF ObservedOk, ObservedInv, DirtyOk
  <2>7. ObservedInv' /\ DirtyInv'
    BY <2>1, <2>4, <2>6, OtherHandles, OtherHandlesSameLog
  <2>8. WriterInv'
    BY <2>1, <2>2, <2>3, <2>4, <2>5 DEF WriterInv, Coherent, TxCurrent
  <2>9. ChunkInv'
    <3>1. MetadataBehindChunks'
      BY <1>0, <1>14, <2>3 DEF SaveMetadata, MetadataBehindChunks
    <3>2. QED
      BY <1>0, <2>1, <2>3, <3>1 DEF ChunkInv, TxUnique, RevisionNamesLog, NamesLog
  <2>10. QED
    BY <2>7, <2>8, <2>9 DEF HandleInv
<1>15. ASSUME NEW h \in Handles, PublishClean(h)
       PROVE  ChunkInv' /\ HandleInv'
  <2>1. writer = h /\ step = "publish" /\ Release /\ rows' = rows /\ nextTx' = nextTx
        /\ log' = log /\ metaTx' = metaTx /\ revision' = nextTx[h]
    BY <1>15 DEF PublishClean, At
  <2>2. Coherent(h) /\ nextTx[h] = DiscoveredTx
    BY <1>0, <2>1 DEF WriterInv
  <2>3. DiscoveredTx' = DiscoveredTx /\ DiscoveredTx \in Nat
    BY <1>0, <2>1, UnchangedLog, DiscoveredIsNext
  <2>4. OnlyMemoryOf(h) /\ observed'[h] = DiscoveredTx
    BY <1>0, <1>15, <2>1, <2>2 DEF PublishClean, OnlyMemoryOf, MemoryTypes
  <2>5. Coherent(h)' /\ TxCurrent(h)'
    BY <2>1, <2>2, <2>3 DEF Coherent, TxCurrent
  <2>6. ObservedOk(h)' /\ DirtyOk(h)'
    BY <2>3, <2>4, <2>5, SentinelAssumption DEF ObservedOk, DirtyOk
  <2>7. ChunkInv'
    BY <1>0, <2>1, <2>2, <2>3 DEF ChunkInv, TxUnique, MetadataBehindChunks, RevisionNamesLog, NamesLog
  <2>8. QED
    BY <2>1, <2>4, <2>6, <2>7, OtherHandles, OtherHandlesSameLog, ReleaseWriterInv DEF HandleInv
\* The steps of init.
<1>16. ASSUME NEW h \in Handles, InitTable(h)
       PROVE  ChunkInv' /\ HandleInv'
  <2>1. writer = h /\ step = "rebuild" /\ writer' = writer /\ step' = step
        /\ observed' = observed /\ nextTx' = nextTx
        /\ log' = log /\ metaTx' = metaTx /\ revision' = revision
    BY <1>16 DEF InitTable, At
  <2>2. PICK t \in Tables : rows' = [rows EXCEPT ![h][t] = Rows(log[t])] /\ todo' = todo \ {t}
    BY <1>0, <1>16 DEF InitTable, RequestTypes
  <2>3. /\ OnlyMemoryOf(h) /\ rows'[h][t] = Rows(log[t])
        /\ \A u \in Tables : u # t => rows'[h][u] = rows[h][u]
    BY <1>0, <2>1, <2>2 DEF OnlyMemoryOf, MemoryTypes
  <2>4. DiscoveredTx' = DiscoveredTx /\ observed[h] # None /\ TxCurrent(h)
    BY <1>0, <2>1, UnchangedLog DEF WriterInv
  <2>5. TxCurrent(h)' /\ (Coherent(h) => Coherent(h)')
    BY <2>1, <2>3, <2>4 DEF Coherent, TxCurrent
  <2>6. ObservedOk(h)'
    BY <1>0, <2>1, <2>4, <2>5 DEF ObservedOk, ObservedInv, NamesLog
  <2>7. "init" \in Operations => DirtyOk(h)'
    BY <1>0, <2>1 DEF DirtyInv, DirtyOk
  <2>8. ObservedInv' /\ DirtyInv'
    BY <2>1, <2>3, <2>6, <2>7, OtherHandles, OtherHandlesSameLog
  <2>9. WriterInv'
    <3>1. \A u \in Tables \ todo' : rows'[h][u] = Rows(log'[u])
      BY <1>0, <2>1, <2>2, <2>3 DEF WriterInv
    <3>2. QED
      BY <2>1, <2>4, <2>5, <3>1 DEF WriterInv, TxCurrent
  <2>10. ChunkInv'
    BY <1>0, <2>1, SameChunks
  <2>11. QED
    BY <2>8, <2>9, <2>10 DEF HandleInv
<1>17. ASSUME NEW h \in Handles, FinishInit(h)
       PROVE  ChunkInv' /\ HandleInv'
  <2>1. writer = h /\ step = "rebuild" /\ todo = {} /\ writer' = writer /\ step' = "save"
        /\ observed' = observed /\ rows' = rows /\ nextTx' = nextTx
        /\ log' = log /\ metaTx' = metaTx /\ revision' = revision
    BY <1>17 DEF FinishInit, At, disk, memory
  <2>2. OnlyMemoryOf(h) /\ ObservedOk(h)' /\ DiscoveredTx' = DiscoveredTx
    BY <1>0, <2>1, SameHandle, UnchangedLog DEF OnlyMemoryOf, ObservedInv
  <2>3. DirtyOk(h)'
    BY <2>1 DEF DirtyOk
  <2>4. ObservedInv' /\ DirtyInv'
    BY <2>1, <2>2, <2>3, OtherHandles, OtherHandlesSameLog
  <2>5. WriterInv'
    BY <1>0, <2>1, <2>2 DEF WriterInv, Coherent, TxCurrent
  <2>6. ChunkInv'
    BY <1>0, <2>1, SameChunks
  <2>7. QED
    BY <2>4, <2>5, <2>6 DEF HandleInv
\* Releases that leave the caches alone: before the dirty marker, or by a
\* failure to publish, which does not meet init.
<1>18. ASSUME NEW h \in Handles, writer = h, Release,
              observed' = observed, rows' = rows, nextTx' = nextTx,
              log' = log, metaTx' = metaTx, revision' = revision,
              step \in {"recover", "resolve", "rebuild"} \/ "init" \notin Operations
       PROVE  ChunkInv' /\ HandleInv'
  <2>1. OnlyMemoryOf(h) /\ ObservedOk(h)'
    BY <1>0, <1>18, SameHandle DEF OnlyMemoryOf, ObservedInv
  <2>2. "init" \in Operations => DirtyOk(h)'
    BY <1>0, <1>18 DEF DirtyInv, DirtyOk
  <2>3. QED
    BY <1>0, <1>18, <2>1, <2>2, OtherHandles, OtherHandlesSameLog, SameChunks, ReleaseWriterInv
       DEF HandleInv
<1>19. ASSUME NEW h \in Handles, FailRecovery(h) \/ ResolverFails(h) \/ FailInit(h)
       PROVE  ChunkInv' /\ HandleInv'
  BY <1>18, <1>19 DEF FailRecovery, ResolverFails, FailInit, At, disk, memory
<1>20. ASSUME NEW h \in Handles, FailPublish(h)
       PROVE  ChunkInv' /\ HandleInv'
  BY <1>18, <1>20 DEF FailPublish, Fault, InitNeverFailsToSave, At, disk, memory
\* Deaths and failed writes.
<1>21. ASSUME NEW h \in Handles, Restart(h)
       PROVE  ChunkInv' /\ HandleInv'
  <2>1. writer # h /\ writer' = writer /\ step' = step /\ todo' = todo
        /\ log' = log /\ metaTx' = metaTx /\ revision' = revision
    BY <1>21 DEF Restart, disk, request
  <2>2. OnlyMemoryOf(h) /\ observed'[h] = None /\ rows'[h] = NoRows /\ nextTx'[h] = None
    BY <1>0, <1>21, MemoryFrames DEF Restart
  <2>3. ObservedOk(h)' /\ DirtyOk(h)'
    BY <2>2, SentinelAssumption DEF ObservedOk, DirtyOk, NoRows
  <2>4. ASSUME NEW k \in Handles \ {h} PROVE ObservedOk(k)' /\ ("init" \in Operations => DirtyOk(k)')
    BY <1>0, <2>1, <2>2, <2>4, OtherHandlesSameLog DEF DirtyInv, DirtyOk, OnlyMemoryOf
  <2>5. ObservedInv' /\ DirtyInv'
    BY <2>3, <2>4 DEF ObservedInv, DirtyInv
  <2>6. WriterInv'
    <3>1. CASE writer = None
      BY <1>0, <2>1, <3>1, IdleWriterInv
    <3>2. CASE writer \in Handles \ {h}
      <4>1. observed'[writer] = observed[writer] /\ rows'[writer] = rows[writer]
            /\ nextTx'[writer] = nextTx[writer] /\ DiscoveredTx' = DiscoveredTx
        BY <2>1, <2>2, <3>2, UnchangedLog DEF OnlyMemoryOf
      <4>2. QED
        BY <1>0, <2>1, <3>2, <4>1 DEF WriterInv, Coherent, TxCurrent
    <3>3. QED
      BY <1>0, <2>1, <3>1, <3>2 DEF RequestTypes
  <2>7. ChunkInv'
    BY <1>0, <2>1, SameChunks
  <2>8. QED
    BY <2>5, <2>6, <2>7 DEF HandleInv
<1>22. ASSUME NEW h \in Handles, Crash(h)
       PROVE  ChunkInv' /\ HandleInv'
  <2>1. writer = h /\ Release /\ log' = log /\ metaTx' = metaTx /\ revision' = revision
    BY <1>22 DEF Crash, disk
  <2>2. OnlyMemoryOf(h) /\ observed'[h] = None /\ rows'[h] = NoRows /\ nextTx'[h] = None
    BY <1>0, <1>22, MemoryFrames DEF Crash
  <2>3. ObservedOk(h)' /\ DirtyOk(h)'
    BY <2>2, SentinelAssumption DEF ObservedOk, DirtyOk, NoRows
  <2>4. QED
    BY <1>0, <2>1, <2>2, <2>3, OtherHandles, OtherHandlesSameLog, SameChunks, ReleaseWriterInv
       DEF HandleInv
<1>23. ASSUME NEW h \in Handles, CrashInAppend(h) \/ FailAppend(h)
       PROVE  ChunkInv' /\ HandleInv'
  <2>1. At(h, "append") /\ writer = h /\ Release /\ metaTx' = metaTx /\ revision' = revision
        /\ PartialAppend(h)
    BY <1>23 DEF CrashInAppend, FailAppend, PartialAppend, Accepted, At
  <2>2. OnlyMemoryOf(h) /\ rows'[h] = NoRows /\ nextTx'[h] = None
        /\ (observed'[h] = None \/ observed'[h] = Dirty)
    <3>1. CASE CrashInAppend(h)
      BY <1>0, <3>1, MemoryFrames DEF CrashInAppend
    <3>2. CASE FailAppend(h)
      BY <1>0, <2>1, <3>2, MemoryFrames, AtAppend DEF FailAppend
    <3>3. QED
      BY <1>23, <3>1, <3>2
  <2>3. PICK n \in 0..Len(batch) :
          /\ log' = [log EXCEPT ![target] = @ \o Stamped(Prefix(batch, n), NextTxOf(h))]
          /\ Prefix(batch, n) \in Seq(Change)
    BY <1>0, <2>1, PartialAppendLog
  <2>4. ChunkInv' /\ \A k \in Handles \ {h} : ObservedOk(k)'
    BY <2>1, <2>2, <2>3, AppendKeeps DEF OnlyMemoryOf
  <2>5. ObservedOk(h)' /\ DirtyOk(h)'
    <3>1. observed'[h] \notin Nat
      BY <2>2, SentinelAssumption
    <3>2. QED
      BY <2>2, <3>1 DEF ObservedOk, DirtyOk, NoRows
  <2>6. QED
    BY <2>1, <2>2, <2>4, <2>5, OtherHandles, ReleaseWriterInv DEF HandleInv
<1>24. ASSUME NEW h \in Handles, FailSave(h)
       PROVE  ChunkInv' /\ HandleInv'
  <2>1. writer = h /\ step = "save" /\ Release /\ observed' = observed /\ "init" \notin Operations
        /\ log' = log /\ metaTx' = metaTx /\ revision' = revision
    BY <1>24 DEF FailSave, At, Fault, InitNeverFailsToSave, disk
  <2>2. Coherent(h) /\ TxCurrent(h) /\ observed[h] # None
    BY <1>0, <2>1 DEF WriterInv
  <2>3. NextTxOf(h) = DiscoveredTx /\ DiscoveredTx' = DiscoveredTx
    BY <1>0, <2>1, <2>2, NextTxCurrent, UnchangedLog
  <2>4. OnlyMemoryOf(h) /\ Coherent(h)' /\ TxCurrent(h)'
    <3>1. CASE batch # <<>>
      <4>1. OnlyMemoryOf(h) /\ rows'[h] = NoRows /\ nextTx'[h] = None
        BY <1>0, <1>24, <2>1, <3>1, MemoryFrames DEF FailSave
      <4>2. QED
        BY <4>1 DEF Coherent, TxCurrent, NoRows
    <3>2. CASE batch = <<>>
      <4>1. OnlyMemoryOf(h) /\ rows' = rows /\ nextTx'[h] = DiscoveredTx
        BY <1>0, <1>24, <2>1, <2>3, <3>2 DEF FailSave, OnlyMemoryOf, MemoryTypes
      <4>2. QED
        BY <4>1, <2>1, <2>2, <2>3 DEF Coherent, TxCurrent
    <3>3. QED
      BY <3>1, <3>2
  <2>5. ObservedOk(h)'
    BY <1>0, <2>1, <2>2, <2>3, <2>4 DEF ObservedOk, ObservedInv
  <2>6. QED
    BY <1>0, <2>1, <2>4, <2>5, OtherHandles, OtherHandlesSameLog, SameChunks, ReleaseWriterInv
       DEF HandleInv
<1>25. CASE UNCHANGED vars
  <2>1. /\ observed' = observed /\ rows' = rows /\ nextTx' = nextTx
        /\ writer' = writer /\ step' = step /\ todo' = todo
        /\ log' = log /\ metaTx' = metaTx /\ revision' = revision
    BY <1>25 DEF vars, disk, memory, request
  <2>2. DiscoveredTx' = DiscoveredTx
    BY <2>1, UnchangedLog
  <2>3. ObservedInv' /\ DirtyInv'
    BY <1>0, <2>1, SameHandle DEF ObservedInv, DirtyInv, DirtyOk
  <2>4. WriterInv'
    BY <1>0, <2>1, <2>2 DEF WriterInv, Coherent, TxCurrent
  <2>5. ChunkInv'
    BY <1>0, <2>1, SameChunks
  <2>6. QED
    BY <2>3, <2>4, <2>5 DEF HandleInv
<1>26. QED
  BY <1>2, <1>3, <1>4, <1>6, <1>7, <1>8, <1>9, <1>10, <1>11, <1>12, <1>13, <1>14, <1>15,
     <1>16, <1>17, <1>19, <1>20, <1>21, <1>22, <1>23, <1>24, <1>25
     DEF Next, Progress, Interrupt

\* The coherence invariant holds for any number of handles, tables, crashes and
\* failed writes, where init cannot fail to save.
THEOREM CoherenceCorrect ==
    ASSUME InitNeverFailsToSave
    PROVE  Spec => []CoherenceInv
<1>1. StoreInv /\ [Next]_vars => StoreInv'
  BY NextTypeInv, NextStoreInv DEF StoreInv
<1>2. StoreInv => CoherenceInv
  BY StoreInvIsCoherence
<1>3. Spec => []StoreInv
  BY <1>1, InitStoreInv, PTL DEF Spec
<1>4. QED
  BY <1>2, <1>3, PTL

\* A handle that observed the clean revision now on disk caches nothing but the
\* rows now on disk.
THEOREM CachesCorrect ==
    ASSUME InitNeverFailsToSave
    PROVE  Spec => []CleanCachesCurrent
<1>1. TypeOK /\ CoherenceInv => CleanCachesCurrent
  <2>1. TypeOK /\ revision # Dirty => revision \in Nat
    BY DEF TypeOK
  <2>2. QED
    BY <2>1 DEF CoherenceInv, RevisionNamesLog, ObservedInv, ObservedOk, CleanCachesCurrent
<1>2. QED
  BY <1>1, TypeCorrect, CoherenceCorrect, PTL

\* Batches are resolved and validated against the rows on disk.
THEOREM WriterSeesDiskCorrect ==
    ASSUME InitNeverFailsToSave
    PROVE  Spec => []WriterSeesDisk
<1>1. CoherenceInv => WriterSeesDisk
  BY DEF CoherenceInv, WriterInv, WriterSeesDisk
<1>2. QED
  BY <1>1, CoherenceCorrect, PTL

\* No transaction id is used twice.
THEOREM TxUniqueCorrect ==
    ASSUME InitNeverFailsToSave
    PROVE  Spec => []TxUnique
<1>1. CoherenceInv => TxUnique
  BY DEF CoherenceInv
<1>2. QED
  BY <1>1, CoherenceCorrect, PTL

\* A clean revision names the lines in the chunks.
THEOREM RevisionCorrect ==
    ASSUME InitNeverFailsToSave
    PROVE  Spec => []RevisionNamesLog
<1>1. CoherenceInv => RevisionNamesLog
  BY DEF CoherenceInv
<1>2. QED
  BY <1>1, CoherenceCorrect, PTL

\* The metadata file is never ahead of the chunks, so that the transaction
\* counter recovered from the two is that of the chunks.
THEOREM MetadataCorrect ==
    ASSUME InitNeverFailsToSave
    PROVE  Spec => []MetadataBehindChunks
<1>1. CoherenceInv => MetadataBehindChunks
  BY DEF CoherenceInv
<1>2. QED
  BY <1>1, CoherenceCorrect, PTL

-------------------------------------------------------------------------------
(* Refinement of TableDb. *)

Tbl == [t \in Tables |-> Rows(log[t])]

Request == [table |-> target, changes |-> batch, only |-> insertOnly]

\* The operators TableDb shares with the store are the same ones.
LEMMA SameOperators ==
    ASSUME NEW r, NEW s, NEW b, NEW only, NEW n
    PROVE  /\ Db!Replay(r, s) = Replay(r, s)
           /\ Db!ValidBatch(r, b, only) <=> ValidBatch(r, b, only)
           /\ Db!Prefix(s, n) = Prefix(s, n)
           /\ Db!EmptyRows = EmptyRows
           /\ Db!Batches = Batches
<1>1. Db!Replay(r, s) = Replay(r, s)
  BY DEF Db!Replay, Replay, Db!LastAt, LastAt
<1>2. Db!ValidBatch(r, b, only) <=> ValidBatch(r, b, only)
  BY DEF Db!ValidBatch, ValidBatch
<1>3. Db!Prefix(s, n) = Prefix(s, n)
  BY DEF Db!Prefix, Prefix
<1>4. Db!EmptyRows = EmptyRows
  BY DEF Db!EmptyRows, EmptyRows
<1>5. Db!Batches = Batches
  BY DEF Db!Batches, Batches, Db!Change, Change
<1>6. QED
  BY <1>1, <1>2, <1>3, <1>4, <1>5

\* The empty workspace is the empty database, with nothing submitted.
LEMMA InitRefines == Init => Db!Init
<1>1. Rows(<<>>) = EmptyRows
  BY DEF Rows, Replay, LastAt, EmptyRows
<1>2. QED
  BY <1>1, SameOperators DEF Init, Db!Init, Submitted

\* What an append of c to the target does to the rows.
LEMMA AppendRefines ==
    ASSUME StoreInv, NEW h \in Handles, At(h, "append"),
           NEW c \in Seq(Change), DistinctIds(c),
           log' = [log EXCEPT ![target] = @ \o Stamped(c, NextTxOf(h))]
    PROVE  Tbl' = [Tbl EXCEPT ![target] = Replay(@, c)]
<1>1. target \in Tables /\ NextTxOf(h) = DiscoveredTx
  BY AtAppend
<1>2. TypeOK /\ log[target] \in Seq(Line) /\ DiscoveredTx \in Nat \ {0}
  BY <1>1, DiscoveredIsNext DEF StoreInv, TypeInv, TypeOK
<1>3. /\ log'[target] = log[target] \o Stamped(c, DiscoveredTx)
      /\ \A u \in Tables : u # target => log'[u] = log[u]
  BY <1>1, <1>2, AppendedLog
<1>4. Rows(log'[target]) = Replay(Rows(log[target]), c)
  BY <1>2, <1>3, ReplayAppended
<1>5. \A u \in Tables : Rows(log'[u]) = [Tbl EXCEPT ![target] = Replay(@, c)][u]
  <2>1. ASSUME NEW u \in Tables, u = target
        PROVE  Rows(log'[u]) = [Tbl EXCEPT ![target] = Replay(@, c)][u]
    BY <2>1, <1>1, <1>4 DEF Tbl
  <2>2. ASSUME NEW u \in Tables, u # target
        PROVE  Rows(log'[u]) = [Tbl EXCEPT ![target] = Replay(@, c)][u]
    BY <2>2, <1>3 DEF Tbl
  <2>3. QED
    BY <2>1, <2>2
<1>6. Tbl' = [t \in Tables |-> Rows(log'[t])]
  BY DEF Tbl
<1>7. [Tbl EXCEPT ![target] = Replay(@, c)] = [t \in Tables |-> [Tbl EXCEPT ![target] = Replay(@, c)][t]]
  BY DEF Tbl
<1>8. QED
  BY <1>5, <1>6, <1>7

\* At the append step, one batch is submitted.
LEMMA AtAppendSubmitted ==
    ASSUME step = "append"
    PROVE  \E r : /\ Submitted = {r}
                  /\ r.table = target /\ r.changes = batch /\ r.only = insertOnly
<1>1. Submitted = {Request}
  BY DEF Submitted, Request
<1>2. Request.table = target /\ Request.changes = batch /\ Request.only = insertOnly
  BY DEF Request
<1>3. QED
  BY <1>1, <1>2

\* What makes a step a commit of r, or an interrupted one.
LEMMA IsCommit ==
    ASSUME NEW r, r.table = target, r.changes = batch, r.only = insertOnly,
           ValidBatch(Tbl[target], batch, insertOnly),
           Tbl' = [Tbl EXCEPT ![target] = Replay(@, batch)], Submitted' = {}
    PROVE  Db!Commit(r)
<1>1. Db!ValidBatch(Tbl[target], batch, insertOnly)
  BY SameOperators
<1>2. Db!Replay(Tbl[target], batch) = Replay(Tbl[target], batch)
  BY SameOperators
<1>3. QED
  BY <1>1, <1>2 DEF Db!Commit, Tbl

\* A proper prefix of a valid batch is an interruption of the request.
LEMMA IsInterrupted ==
    ASSUME NEW r, r.table = target, r.changes = batch, r.only = insertOnly,
           ValidBatch(Tbl[target], batch, insertOnly), FaultKinds # {}, NEW n,
           Tbl' = [Tbl EXCEPT ![target] = Replay(@, Prefix(batch, n))], Submitted' = {}
    PROVE  Db!Interrupted(r, n)
<1>1. Db!ValidBatch(Tbl[target], batch, insertOnly)
  BY SameOperators
<1>2. Db!Replay(Tbl[target], Db!Prefix(batch, n)) = Replay(Tbl[target], Prefix(batch, n))
  BY SameOperators
<1>3. QED
  BY <1>1, <1>2 DEF Db!Interrupted, Tbl

\* Whoever leaves the append step without a change of the chunks gives up the batch.
LEMMA GiveUp ==
    ASSUME step = "append", step' # "append", log' = log
    PROVE  Db!Next
<1>1. Submitted = {Request} /\ Submitted' = {}
  BY DEF Submitted, Request
<1>2. Tbl' = Tbl
  BY DEF Tbl
<1>3. Db!Abandon
  BY <1>1, <1>2 DEF Db!Abandon, Tbl
<1>4. QED
  BY <1>1, <1>3 DEF Db!Next

\* A step outside the append step that leaves the chunks alone is a stutter.
LEMMA Stutter ==
    ASSUME step # "append", step' # "append", log' = log
    PROVE  UNCHANGED <<Tbl, Submitted>>
  BY DEF Tbl, Submitted

\* Every step is a step of TableDb or leaves it alone: only appends change the
\* rows, by the submitted batch or a prefix of it.
LEMMA NextRefines ==
    ASSUME StoreInv, [Next]_vars
    PROVE  Db!Next \/ UNCHANGED <<Tbl, Submitted>>
<1>1. ASSUME NEW h \in Handles, AppendBatch(h)
      PROVE  Db!Next
  <2>1. /\ At(h, "append") /\ ValidBatch(RowsOf(rows[h], target), batch, insertOnly)
        /\ log' = [log EXCEPT ![target] = @ \o Stamped(batch, NextTxOf(h))]
        /\ step' = "save"
    BY <1>1 DEF AppendBatch, Accepted
  <2>2. /\ target \in Tables /\ batch \in Seq(Change) /\ batch \in Batches /\ insertOnly \in BOOLEAN
        /\ RowsOf(rows[h], target) = Rows(log[target])
    BY <2>1, AtAppend DEF StoreInv, TypeInv, TypeOK
  <2>3. DistinctIds(batch)
    BY <2>1 DEF ValidBatch, DistinctIds
  <2>4. Tbl' = [Tbl EXCEPT ![target] = Replay(@, batch)]
    BY <2>1, <2>2, <2>3, AppendRefines
  <2>5. ValidBatch(Tbl[target], batch, insertOnly)
    BY <2>1, <2>2 DEF Tbl
  <2>6. PICK r : /\ Submitted = {r} /\ Submitted' = {}
                /\ r.table = target /\ r.changes = batch /\ r.only = insertOnly
    BY <2>1, AtAppendSubmitted DEF Submitted, At
  <2>7. Db!Commit(r)
    BY <2>4, <2>5, <2>6, IsCommit
  <2>8. QED
    BY <2>6, <2>7 DEF Db!Next
<1>2. ASSUME NEW h \in Handles, CrashInAppend(h) \/ FailAppend(h)
      PROVE  Db!Next
  <2>1. /\ At(h, "append") /\ ValidBatch(RowsOf(rows[h], target), batch, insertOnly)
        /\ PartialAppend(h) /\ FaultKinds # {} /\ step' = "idle"
    BY <1>2 DEF CrashInAppend, FailAppend, PartialAppend, Accepted, Fault, Release
  <2>2. /\ target \in Tables /\ batch \in Seq(Change) /\ batch \in Batches /\ insertOnly \in BOOLEAN
        /\ RowsOf(rows[h], target) = Rows(log[target])
    BY <2>1, AtAppend DEF StoreInv, TypeInv, TypeOK
  <2>3. DistinctIds(batch) /\ ValidBatch(Tbl[target], batch, insertOnly)
    BY <2>1, <2>2 DEF ValidBatch, DistinctIds, Tbl
  <2>4. PICK n \in 0..Len(batch) :
          /\ log' = [log EXCEPT ![target] = @ \o Stamped(Prefix(batch, n), NextTxOf(h))]
          /\ Prefix(batch, n) \in Seq(Change) /\ Len(Prefix(batch, n)) = n
    BY <2>1, PartialAppendLog DEF StoreInv, TypeInv
  <2>5. Tbl' = [Tbl EXCEPT ![target] = Replay(@, Prefix(batch, n))]
    <3>1. DistinctIds(Prefix(batch, n))
      BY <2>2, <2>3, PrefixDistinct
    <3>2. QED
      BY <2>1, <2>4, <3>1, AppendRefines
  <2>6. PICK r : /\ Submitted = {r} /\ Submitted' = {}
                /\ r.table = target /\ r.changes = batch /\ r.only = insertOnly
    BY <2>1, AtAppendSubmitted DEF Submitted, At
  <2>7. CASE n = 0
    <3>1. Replay(Tbl[target], Prefix(batch, n)) = Tbl[target]
      <4>1. Prefix(batch, n) = <<>>
        BY <2>4, <2>7
      <4>2. \A rw \in RowSet : Replay(rw, <<>>) = rw
        BY DEF Replay, LastAt, RowSet
      <4>3. Tbl[target] \in RowSet
        <5>1. log[target] \in Seq(Line)
          BY <2>2 DEF StoreInv, TypeInv, TypeOK
        <5>2. QED
          BY <2>2, <5>1, RowsType DEF Tbl
      <4>4. QED
        BY <4>1, <4>2, <4>3
    <3>2. Tbl' = Tbl
      BY <2>5, <3>1 DEF Tbl
    <3>3. Db!Abandon
      BY <2>6, <3>2 DEF Db!Abandon, Tbl
    <3>4. QED
      BY <2>6, <3>3 DEF Db!Next
  <2>8. CASE n = Len(batch)
    <3>1. Prefix(batch, n) = batch
      BY <2>2, <2>8 DEF Prefix
    <3>2. Tbl' = [Tbl EXCEPT ![target] = Replay(@, batch)]
      BY <2>5, <3>1
    <3>3. Db!Commit(r)
      BY <2>3, <2>6, <3>2, IsCommit
    <3>4. QED
      BY <2>6, <3>3 DEF Db!Next
  <2>9. CASE n \in 1..(Len(batch) - 1)
    <3>1. Db!Interrupted(r, n)
      BY <2>1, <2>3, <2>5, <2>6, IsInterrupted
    <3>2. QED
      BY <2>6, <2>9, <3>1 DEF Db!Next
  <2>10. QED
    <3>1. Len(batch) \in Nat
      BY <2>2
    <3>2. QED
      BY <2>7, <2>8, <2>9, <3>1
<1>3. ASSUME NEW h \in Handles, MarkDirty(h)
      PROVE  Db!Next
  <2>1. /\ step = "resolve" /\ step' = "append" /\ log' = log
        /\ batch' \in Batches /\ insertOnly' \in BOOLEAN /\ target' = target
    BY <1>3 DEF MarkDirty, At
  <2>2. target \in Tables
    BY <2>1 DEF StoreInv, TypeInv, RequestInv
  <2>3. Submitted = {} /\ Submitted' = {Request'} /\ Tbl' = Tbl
    BY <2>1 DEF Submitted, Request, Tbl
  <2>4. Request' \in Db!Requests
    BY <2>1, <2>2, SameOperators DEF Db!Requests, Request
  <2>5. Db!Submit(Request')
    BY <2>3 DEF Db!Submit, Tbl
  <2>6. QED
    BY <2>4, <2>5 DEF Db!Next
<1>4. ASSUME NEW h \in Handles, NEW t \in Tables,
             \/ Read(h, t) \/ ReadFails(h, t) \/ Rebuild(h, t)
             \/ BeginWrite(h, t) \/ RefuseWrite(h, t) \/ BeginRecovery(h, t)
             \/ ResolverReads(h, t) \/ BeginInit(h)
      PROVE  UNCHANGED <<Tbl, Submitted>>
  <2>1. log' = log
    BY <1>4 DEF Read, ReadFails, Rebuild, BeginWrite, RefuseWrite, BeginRecovery,
                ResolverReads, BeginInit, disk
  <2>2. step # "append"
    BY <1>4 DEF Read, ReadFails, Rebuild, BeginWrite, RefuseWrite, BeginRecovery,
                ResolverReads, BeginInit, Begin, At, StoreInv, TypeInv, RequestInv
  <2>3. step' # "append"
    BY <1>4, <2>2 DEF Read, ReadFails, Rebuild, BeginWrite, RefuseWrite, BeginRecovery,
                      ResolverReads, BeginInit, Begin, request
  <2>4. QED
    BY <2>1, <2>2, <2>3, Stutter
<1>5. ASSUME NEW h \in Handles,
             \/ RecoverTable(h) \/ FinishRecovery(h) \/ FailRecovery(h) \/ ResolverFails(h)
             \/ SaveMetadata(h) \/ PublishClean(h)
             \/ InitTable(h) \/ FinishInit(h) \/ FailInit(h)
             \/ FailSave(h) \/ FailPublish(h)
      PROVE  UNCHANGED <<Tbl, Submitted>>
  <2>1. log' = log /\ step # "append" /\ step' # "append"
    BY <1>5 DEF RecoverTable, FinishRecovery, FailRecovery, ResolverFails, SaveMetadata,
                PublishClean, InitTable, FinishInit, FailInit, FailSave, FailPublish,
                Release, At, disk
  <2>2. QED
    BY <2>1, Stutter
<1>6. ASSUME NEW h \in Handles, Reject(h) \/ Crash(h)
      PROVE  Db!Next \/ UNCHANGED <<Tbl, Submitted>>
  <2>1. log' = log /\ step' # "append"
    BY <1>6 DEF Reject, Crash, Release, disk
  <2>2. QED
    BY <2>1, GiveUp, Stutter
<1>7. ASSUME log' = log, UNCHANGED request
      PROVE  UNCHANGED <<Tbl, Submitted>>
  BY <1>7 DEF Tbl, Submitted, request
<1>8. CASE UNCHANGED vars
  BY <1>7, <1>8 DEF vars, disk
<1>9. CASE Next
  <2>1. PICK h \in Handles :
          \/ \E t \in Tables :
               \/ Read(h, t) \/ ReadFails(h, t) \/ Rebuild(h, t)
               \/ BeginWrite(h, t) \/ RefuseWrite(h, t) \/ BeginRecovery(h, t)
               \/ ResolverReads(h, t)
          \/ BeginInit(h) \/ Progress(h) \/ Interrupt(h) \/ Restart(h)
    BY <1>9 DEF Next
  <2>2. CASE Progress(h)
    BY <2>2, <1>1, <1>3, <1>5, <1>6 DEF Progress
  <2>3. CASE Interrupt(h)
    BY <2>3, <1>2, <1>5, <1>6 DEF Interrupt
  <2>4. CASE BeginInit(h) \/ Restart(h)
    <3>1. UNCHANGED request \/ (step # "append" /\ step' # "append")
      BY <2>4 DEF BeginInit, Restart, Begin, StoreInv, TypeInv, RequestInv, disk
    <3>2. log' = log
      BY <2>4 DEF BeginInit, Restart, disk
    <3>3. QED
      BY <3>1, <3>2, <1>7, Stutter
  <2>5. CASE \E t \in Tables :
               \/ Read(h, t) \/ ReadFails(h, t) \/ Rebuild(h, t)
               \/ BeginWrite(h, t) \/ RefuseWrite(h, t) \/ BeginRecovery(h, t)
               \/ ResolverReads(h, t)
    BY <2>5, <1>4
  <2>6. QED
    BY <2>1, <2>2, <2>3, <2>4, <2>5
<1>10. QED
  BY <1>8, <1>9

\* The store implements TableDb: its tables change by the submitted batch, once
\* and if it is valid, or by a prefix of it where a fault interrupts it.
THEOREM StoreRefinesTableDb ==
    ASSUME InitNeverFailsToSave
    PROVE  Spec => RefinesTableDb
<1>1. StoreInv /\ [Next]_vars => StoreInv'
  BY NextTypeInv, NextStoreInv DEF StoreInv
<1>2. StoreInv /\ [Next]_vars => [Db!Next]_<<Tbl, Submitted>>
  BY NextRefines
<1>3. QED
  BY <1>1, <1>2, InitStoreInv, InitRefines, PTL DEF Spec, RefinesTableDb, Db!Spec, Tbl

-------------------------------------------------------------------------------
(* Unique lookups. *)

\* An empty workspace has no clash of unique keys.
LEMMA InitUnique == Init => UniqueUnlessPartial
<1>1. \A i \in Ids : Rows(<<>>)[i] = NoRow
  BY DEF Rows, Replay, LastAt, EmptyRows
<1>2. QED
  BY <1>1 DEF Init, UniqueUnlessPartial, UniqueKeys

\* A log that got a valid batch for rows without a clash has none.
LEMMA AppendUnique ==
    ASSUME StoreInv, NEW h \in Handles, At(h, "append"),
           ValidBatch(RowsOf(rows[h], target), batch, insertOnly),
           log' = [log EXCEPT ![target] = @ \o Stamped(batch, NextTxOf(h))],
           UniqueKeys(Rows(log[target]))
    PROVE  UniqueKeys(Rows(log'[target]))
<1>1. /\ target \in Tables /\ batch \in Seq(Change) /\ NextTxOf(h) = DiscoveredTx
      /\ RowsOf(rows[h], target) = Rows(log[target]) /\ insertOnly \in BOOLEAN
  BY AtAppend DEF StoreInv, TypeInv, TypeOK
<1>2. TypeOK /\ log[target] \in Seq(Line) /\ DiscoveredTx \in Nat \ {0}
  BY <1>1, DiscoveredIsNext DEF StoreInv, TypeInv, TypeOK
<1>3. ValidBatch(Rows(log[target]), batch, insertOnly) /\ DistinctIds(batch)
  BY <1>1 DEF ValidBatch, DistinctIds
<1>4. log'[target] = log[target] \o Stamped(batch, DiscoveredTx)
  BY <1>1, <1>2, AppendedLog
<1>5. Rows(log'[target]) = Replay(Rows(log[target]), batch)
  BY <1>1, <1>2, <1>3, <1>4, ReplayAppended
<1>6. Rows(log[target]) \in RowSet
  BY <1>2, RowsType
<1>7. UniqueKeys(Replay(Rows(log[target]), batch))
  BY <1>1, <1>3, <1>6, ValidBatchKeepsUnique
<1>8. QED
  BY <1>5, <1>7

\* Every step keeps unique keys unique outside interrupted tables.
LEMMA NextUnique ==
    ASSUME StoreInv, UniqueUnlessPartial, [Next]_vars
    PROVE  UniqueUnlessPartial'
<1>1. ASSUME NEW h \in Handles, AppendBatch(h)
      PROVE  UniqueUnlessPartial'
  <2>1. /\ At(h, "append") /\ ValidBatch(RowsOf(rows[h], target), batch, insertOnly)
        /\ log' = [log EXCEPT ![target] = @ \o Stamped(batch, NextTxOf(h))]
        /\ partial' = partial
    BY <1>1 DEF AppendBatch, Accepted, history
  <2>2. target \notin partial => UniqueKeys(Rows(log'[target]))
    <3>1. target \in Tables
      BY <2>1, AtAppend
    <3>2. QED
      BY <2>1, <3>1, AppendUnique DEF UniqueUnlessPartial
  <2>3. \A u \in Tables : u # target => log'[u] = log[u]
    BY <2>1 DEF StoreInv, TypeInv, TypeOK
  <2>4. QED
    BY <2>1, <2>2, <2>3 DEF UniqueUnlessPartial
<1>2. ASSUME NEW h \in Handles, CrashInAppend(h) \/ FailAppend(h)
      PROVE  UniqueUnlessPartial'
  <2>1. /\ At(h, "append") /\ ValidBatch(RowsOf(rows[h], target), batch, insertOnly)
        /\ PartialAppend(h)
    BY <1>2 DEF CrashInAppend, FailAppend, PartialAppend, Accepted
  <2>2. target \in Tables /\ batch \in Seq(Change)
    BY <2>1, AtAppend
  <2>3. PICK n \in 0..Len(batch) :
          /\ log' = [log EXCEPT ![target] = @ \o Stamped(Prefix(batch, n), NextTxOf(h))]
          /\ Prefix(batch, n) \in Seq(Change) /\ Len(Prefix(batch, n)) = n
          /\ partial' = IF n \in 1..(Len(batch) - 1) THEN partial \cup {target} ELSE partial
    BY <2>1, PartialAppendLog DEF StoreInv, TypeInv
  <2>4. \A u \in Tables : u # target => log'[u] = log[u]
    BY <2>3 DEF StoreInv, TypeInv, TypeOK
  <2>5. CASE n = 0
    <3>1. Rows(log'[target]) = Replay(Rows(log[target]), Prefix(batch, n))
      <4>1. Tbl' = [Tbl EXCEPT ![target] = Replay(@, Prefix(batch, n))]
        <5>1. DistinctIds(Prefix(batch, n))
          BY <2>1, <2>2, PrefixDistinct DEF ValidBatch, DistinctIds
        <5>2. QED
          BY <2>1, <2>3, <5>1, AppendRefines
      <4>2. QED
        BY <4>1, <2>2 DEF Tbl
    <3>2. Prefix(batch, n) = <<>>
      BY <2>3, <2>5
    <3>3. Rows(log[target]) \in RowSet
      <4>1. log[target] \in Seq(Line)
        BY <2>2 DEF StoreInv, TypeInv, TypeOK
      <4>2. QED
        BY <4>1, RowsType
    <3>4. \A rw \in RowSet : Replay(rw, <<>>) = rw
      BY DEF Replay, LastAt, RowSet
    <3>5. Rows(log'[target]) = Rows(log[target])
      BY <3>1, <3>2, <3>3, <3>4
    <3>6. partial' = partial
      BY <2>3, <2>5
    <3>7. QED
      BY <2>4, <3>5, <3>6 DEF UniqueUnlessPartial
  <2>6. CASE n = Len(batch)
    <3>1. Prefix(batch, n) = batch
      BY <2>2, <2>6 DEF Prefix
    <3>2. log' = [log EXCEPT ![target] = @ \o Stamped(batch, NextTxOf(h))]
      BY <2>3, <3>1
    <3>3. target \notin partial => UniqueKeys(Rows(log'[target]))
      BY <2>1, <2>2, <3>2, AppendUnique DEF UniqueUnlessPartial
    <3>4. partial \subseteq partial'
      BY <2>3
    <3>5. QED
      BY <2>4, <3>3, <3>4 DEF UniqueUnlessPartial
  <2>7. CASE n \in 1..(Len(batch) - 1)
    <3>1. partial' = partial \cup {target}
      BY <2>3, <2>7
    <3>2. QED
      BY <2>4, <3>1 DEF UniqueUnlessPartial
  <2>8. QED
    <3>1. Len(batch) \in Nat
      BY <2>2
    <3>2. QED
      BY <2>5, <2>6, <2>7, <3>1
<1>3. ASSUME log' = log, partial' = partial
      PROVE  UniqueUnlessPartial'
  BY <1>3 DEF UniqueUnlessPartial
<1>4. ASSUME NEW h \in Handles, NEW t \in Tables,
             \/ Read(h, t) \/ ReadFails(h, t) \/ Rebuild(h, t)
             \/ BeginWrite(h, t) \/ RefuseWrite(h, t) \/ BeginRecovery(h, t) \/ ResolverReads(h, t)
      PROVE  log' = log /\ partial' = partial
  BY <1>4 DEF Read, ReadFails, Rebuild, BeginWrite, RefuseWrite, BeginRecovery, ResolverReads,
              disk, history
<1>5. ASSUME NEW h \in Handles,
             \/ BeginInit(h) \/ RecoverTable(h) \/ FinishRecovery(h) \/ FailRecovery(h)
             \/ ResolverFails(h) \/ MarkDirty(h) \/ Reject(h) \/ SaveMetadata(h) \/ PublishClean(h)
             \/ InitTable(h) \/ FinishInit(h) \/ FailInit(h)
             \/ Crash(h) \/ FailSave(h) \/ FailPublish(h) \/ Restart(h)
      PROVE  log' = log /\ partial' = partial
  BY <1>5 DEF BeginInit, RecoverTable, FinishRecovery, FailRecovery, ResolverFails, MarkDirty,
              Reject, SaveMetadata, PublishClean, InitTable, FinishInit, FailInit, Crash,
              FailSave, FailPublish, Restart, disk, history
<1>6. CASE UNCHANGED vars
  BY <1>3, <1>6 DEF vars, disk, history
<1>7. QED
  BY <1>1, <1>2, <1>3, <1>4, <1>5, <1>6 DEF Next, Progress, Interrupt

\* No two live rows of a table share a unique key, but where a fault let a
\* proper prefix of a batch survive.
THEOREM UniqueCorrect ==
    ASSUME InitNeverFailsToSave
    PROVE  Spec => []UniqueUnlessPartial
<1>1. StoreInv /\ UniqueUnlessPartial /\ [Next]_vars => (StoreInv /\ UniqueUnlessPartial)'
  BY NextTypeInv, NextStoreInv, NextUnique DEF StoreInv
<1>2. QED
  BY <1>1, InitStoreInv, InitUnique, PTL DEF Spec

-------------------------------------------------------------------------------
(* Where a batch may be appended.  A torn tail is cut off, or refused, before  *)
(* the lock holder resolves a batch.  An incomplete preamble stays, and the    *)
(* layout caches do not know of it: that nobody appends behind one rests on    *)
(* the caches.  Where the preamble went, the revision is dirty; the next clean *)
(* revision is one that no handle with rows of that table has observed.        *)

\* A handle has cached nothing of a table without its preamble.
SeesPreambles(h) == \A t \in Tables : header[t] \/ rows[h][t] = None

\* The tails the lock holder has recovered, or checked.
TornInv ==
    /\ step = "recover" => \A t \in Tables \ todo : ~torn[t]
    /\ step \in {"resolve", "append"} => ~torn[target]

\* From the resolver on, and table by table in init, the holder's caches and the
\* preambles agree.
HolderSees ==
    /\ step \in {"resolve", "append", "save", "publish"} => SeesPreambles(writer)
    /\ step = "rebuild" => \A t \in Tables \ todo : header[t]

\* What is about to be published is a revision nobody else has observed, or one
\* of a workspace with all its preambles.
PublishesNews ==
    step \in {"save", "publish"} =>
      \/ \A t \in Tables : header[t]
      \/ \A h \in Handles \ {writer} : observed[h] \in Nat => observed[h] < DiscoveredTx

\* Whoever observed the clean revision has cached nothing of a table without its
\* preamble.
CleanSees ==
    revision # Dirty => \A h \in Handles : observed[h] = revision => SeesPreambles(h)

TailInv == TornInv /\ HolderSees /\ PublishesNews /\ CleanSees

\* An empty workspace satisfies it.
LEMMA InitTailInv == Init => TailInv
  BY DEF Init, TailInv, TornInv, HolderSees, PublishesNews, CleanSees, SeesPreambles

\* Nothing is asked of an idle lock.
LEMMA IdleTail == step' = "idle" => TornInv' /\ HolderSees' /\ PublishesNews'
  BY DEF TornInv, HolderSees, PublishesNews

\* A step that leaves preambles, revision and what the handles observed and
\* cached alone.
LEMMA SameSees ==
    ASSUME CleanSees, header' = header, revision' = revision, observed' = observed, rows' = rows
    PROVE  CleanSees'
  BY DEF CleanSees, SeesPreambles

\* One that changes the caches of one handle.
LEMMA OneSees ==
    ASSUME CleanSees, NEW h \in Handles, OnlyMemoryOf(h), header' = header, revision' = revision,
           revision # Dirty /\ observed'[h] = revision => SeesPreambles(h)'
    PROVE  CleanSees'
<1>1. ASSUME revision' # Dirty, NEW k \in Handles, observed'[k] = revision' PROVE SeesPreambles(k)'
  <2>1. CASE k = h
    BY <1>1, <2>1
  <2>2. CASE k # h
    BY <1>1, <2>2 DEF OnlyMemoryOf, CleanSees, SeesPreambles
  <2>3. QED
    BY <2>1, <2>2
<1>2. QED
  BY <1>1 DEF CleanSees

\* What a refresh keeps on a clean workspace.
LEMMA RefreshSees ==
    ASSUME StoreInv, CleanSees, NEW h \in Handles, revision # Dirty
    PROVE  \A t \in Tables : header[t] \/ RefreshedRows(h)[t] = None
<1>1. CASE Stale(h)
  BY <1>1 DEF RefreshedRows, NoRows
<1>2. CASE observed[h] = None
  <2>1. ObservedOk(h)
    BY DEF StoreInv, HandleInv, ObservedInv
  <2>2. rows[h] = NoRows
    BY <1>2, <2>1 DEF ObservedOk
  <2>3. QED
    BY <2>2 DEF RefreshedRows, NoRows
<1>3. CASE observed[h] = revision
  BY <1>3 DEF CleanSees, SeesPreambles, RefreshedRows, Stale
<1>4. QED
  BY <1>1, <1>2, <1>3 DEF Stale

\* A refresh with rows of tables that have their preambles.
LEMMA RefreshTail ==
    ASSUME StoreInv, CleanSees, NEW h \in Handles, NEW r, Refresh(h, r),
           header' = header, revision' = revision,
           revision # Dirty => \A t \in Tables : header[t] \/ r[t] = None
    PROVE  CleanSees' /\ (revision # Dirty => SeesPreambles(h)')
<1>1. OnlyMemoryOf(h) /\ observed'[h] = revision /\ rows'[h] = r
  BY MemoryFrames DEF StoreInv, TypeInv
<1>2. revision # Dirty => SeesPreambles(h)'
  BY <1>1 DEF SeesPreambles
<1>3. QED
  BY <1>1, <1>2, OneSees

\* Every step keeps it.
LEMMA NextTailInv ==
    ASSUME StoreInv, TailInv, [Next]_vars
    PROVE  TailInv'
<1>0. /\ TypeOK /\ RequestInv /\ WriterInv /\ ObservedInv /\ None \notin Handles
      /\ TornInv /\ HolderSees /\ PublishesNews /\ CleanSees
      /\ (writer = None <=> step = "idle")
  BY SentinelAssumption DEF StoreInv, TypeInv, HandleInv, TailInv, RequestInv
<1> SUFFICES TornInv' /\ HolderSees' /\ PublishesNews' /\ CleanSees'
  BY DEF TailInv
\* Reads and refused writes, while nobody holds the lock.
<1>1. ASSUME NEW h \in Handles, NEW r, writer = None, UNCHANGED request, Refresh(h, r),
             header' = header, revision' = revision,
             revision # Dirty => \A t \in Tables : header[t] \/ r[t] = None
      PROVE  TornInv' /\ HolderSees' /\ PublishesNews' /\ CleanSees'
  <2>1. step' = "idle"
    BY <1>0, <1>1 DEF request
  <2>2. QED
    BY <1>1, <2>1, IdleTail, RefreshTail, <1>0
<1>2. ASSUME NEW h \in Handles, NEW t \in Tables, Read(h, t)
      PROVE  TornInv' /\ HolderSees' /\ PublishesNews' /\ CleanSees'
  <2> DEFINE r == [RefreshedRows(h) EXCEPT ![t] = RowsOf(RefreshedRows(h), t)]
  <2>1. RefreshedRows(h) \in [Tables -> RowSet \cup {None}]
    BY <1>0, RefreshedRowsType
  <2>2. RefreshedRows(h)[t] # None \/ header[t]
    BY <1>2 DEF Read, Available, Loadable, Scannable
  <2>3. \A u \in Tables : r[u] = RefreshedRows(h)[u] \/ u = t
    BY <2>1
  <2>4. revision # Dirty => \A u \in Tables : header[u] \/ r[u] = None
    BY <1>0, <2>2, <2>3, RefreshSees
  <2>5. /\ writer = None /\ UNCHANGED request /\ Refresh(h, r)
        /\ header' = header /\ revision' = revision
    BY <1>2 DEF Read
  <2> HIDE DEF r
  <2>6. QED
    BY <1>1, <2>4, <2>5
<1>3. ASSUME NEW h \in Handles, NEW t \in Tables, Rebuild(h, t)
      PROVE  TornInv' /\ HolderSees' /\ PublishesNews' /\ CleanSees'
  <2> DEFINE r == [RefreshedRows(h) EXCEPT ![t] = Rows(log[t])]
  <2>1. RefreshedRows(h) \in [Tables -> RowSet \cup {None}]
    BY <1>0, RefreshedRowsType
  <2>2. header[t]
    BY <1>3 DEF Rebuild, Rebuildable, Scannable
  <2>3. \A u \in Tables : r[u] = RefreshedRows(h)[u] \/ u = t
    BY <2>1
  <2>4. revision # Dirty => \A u \in Tables : header[u] \/ r[u] = None
    BY <1>0, <2>2, <2>3, RefreshSees
  <2>5. /\ writer = None /\ UNCHANGED request /\ Refresh(h, r)
        /\ header' = header /\ revision' = revision
    BY <1>3 DEF Rebuild
  <2> HIDE DEF r
  <2>6. QED
    BY <1>1, <2>4, <2>5
<1>4. ASSUME NEW h \in Handles, NEW t \in Tables, ReadFails(h, t) \/ RefuseWrite(h, t)
      PROVE  TornInv' /\ HolderSees' /\ PublishesNews' /\ CleanSees'
  <2>1. /\ writer = None /\ UNCHANGED request /\ Refresh(h, RefreshedRows(h))
        /\ header' = header /\ revision' = revision
    BY <1>4 DEF ReadFails, RefuseWrite, disk
  <2>2. revision # Dirty => \A u \in Tables : header[u] \/ RefreshedRows(h)[u] = None
    BY <1>0, RefreshSees
  <2>3. QED
    BY <1>1, <2>1, <2>2
\* The lock is taken.
<1>5. ASSUME NEW h \in Handles, Refresh(h, RefreshedRows(h)), header' = header, revision' = revision
      PROVE  CleanSees' /\ (revision # Dirty => SeesPreambles(h)')
  <2>1. revision # Dirty => \A u \in Tables : header[u] \/ RefreshedRows(h)[u] = None
    BY <1>0, RefreshSees
  <2>2. QED
    BY <1>0, <1>5, <2>1, RefreshTail
<1>6. ASSUME NEW h \in Handles, NEW t \in Tables, BeginWrite(h, t)
      PROVE  TornInv' /\ HolderSees' /\ PublishesNews' /\ CleanSees'
  <2>1. /\ Refresh(h, RefreshedRows(h)) /\ header' = header /\ revision' = revision
        /\ revision # Dirty /\ ~torn[t] /\ torn' = torn
        /\ target' = t /\ writer' = h /\ step' = "resolve"
    BY <1>6 DEF BeginWrite, Begin, disk
  <2>2. CleanSees' /\ SeesPreambles(h)'
    BY <1>5, <2>1
  <2>3. TornInv' /\ PublishesNews'
    BY <2>1 DEF TornInv, PublishesNews
  <2>4. HolderSees'
    BY <2>1, <2>2 DEF HolderSees, SeesPreambles
  <2>5. QED
    BY <2>2, <2>3, <2>4
<1>7. ASSUME NEW h \in Handles, NEW t \in Tables, BeginRecovery(h, t)
      PROVE  TornInv' /\ HolderSees' /\ PublishesNews' /\ CleanSees'
  <2>1. /\ Refresh(h, RefreshedRows(h)) /\ header' = header /\ revision' = revision
        /\ todo' = Tables /\ step' = "recover"
    BY <1>7 DEF BeginRecovery, Begin, disk
  <2>2. TornInv' /\ HolderSees' /\ PublishesNews'
    BY <2>1 DEF TornInv, HolderSees, PublishesNews
  <2>3. QED
    BY <1>5, <2>1, <2>2
<1>8. ASSUME NEW h \in Handles, BeginInit(h)
      PROVE  TornInv' /\ HolderSees' /\ PublishesNews' /\ CleanSees'
  <2>1. /\ Refresh(h, RefreshedRows(h)) /\ header' = header /\ revision' = revision
        /\ todo' = Tables /\ step' = "rebuild"
    BY <1>8 DEF BeginInit, Begin, disk
  <2>2. TornInv' /\ HolderSees' /\ PublishesNews'
    BY <2>1 DEF TornInv, HolderSees, PublishesNews
  <2>3. QED
    BY <1>5, <2>1, <2>2
\* The lock is given back, and the caches that survive are those there were.
<1>9. ASSUME step' = "idle", header' = header, revision' = revision, observed' = observed, rows' = rows
      PROVE  TornInv' /\ HolderSees' /\ PublishesNews' /\ CleanSees'
  BY <1>0, <1>9, IdleTail, SameSees
<1>10. ASSUME NEW h \in Handles, FailRecovery(h) \/ ResolverFails(h) \/ FailInit(h) \/ FailPublish(h)
       PROVE  TornInv' /\ HolderSees' /\ PublishesNews' /\ CleanSees'
  BY <1>9, <1>10 DEF FailRecovery, ResolverFails, FailInit, FailPublish, Release, disk, memory
\* Steps that drop caches.
<1>11. ASSUME NEW h \in Handles, OnlyMemoryOf(h), rows'[h] = NoRows, header' = header, revision' = revision
       PROVE  CleanSees' /\ SeesPreambles(h)'
  <2>1. SeesPreambles(h)'
    BY <1>11 DEF SeesPreambles, NoRows
  <2>2. QED
    BY <1>0, <1>11, <2>1, OneSees
<1>12. ASSUME NEW h \in Handles, Forget(h) \/ (Invalidate(h) /\ observed' = observed)
       PROVE  OnlyMemoryOf(h) /\ rows'[h] = NoRows
  BY <1>0, <1>12, MemoryFrames
<1>13. ASSUME NEW h \in Handles, Reject(h) \/ Crash(h)
       PROVE  TornInv' /\ HolderSees' /\ PublishesNews' /\ CleanSees'
  <2>1. step' = "idle" /\ header' = header /\ revision' = revision
    BY <1>13 DEF Reject, Crash, Release, disk
  <2>2. OnlyMemoryOf(h) /\ rows'[h] = NoRows
    BY <1>12, <1>13 DEF Reject, Crash
  <2>3. QED
    BY <1>11, <2>1, <2>2, IdleTail
<1>14. ASSUME NEW h \in Handles, FailSave(h)
       PROVE  TornInv' /\ HolderSees' /\ PublishesNews' /\ CleanSees'
  <2>1. step' = "idle" /\ header' = header /\ revision' = revision /\ observed' = observed
    BY <1>14 DEF FailSave, Release, disk
  <2>2. CASE batch # <<>>
    <3>1. Invalidate(h)
      BY <1>14, <2>2 DEF FailSave
    <3>2. OnlyMemoryOf(h) /\ rows'[h] = NoRows
      BY <1>12, <2>1, <3>1
    <3>3. QED
      BY <1>11, <2>1, <3>2, IdleTail
  <2>3. CASE batch = <<>>
    BY <1>9, <1>14, <2>1, <2>3 DEF FailSave
  <2>4. QED
    BY <2>2, <2>3
<1>15. ASSUME NEW h \in Handles, Restart(h)
       PROVE  TornInv' /\ HolderSees' /\ PublishesNews' /\ CleanSees'
  <2>1. /\ writer # h /\ header' = header /\ torn' = torn /\ log' = log /\ revision' = revision
        /\ UNCHANGED request
    BY <1>15 DEF Restart, disk
  <2>2. OnlyMemoryOf(h) /\ rows'[h] = NoRows /\ observed'[h] = None
    BY <1>0, <1>15, MemoryFrames DEF Restart
  <2>3. CleanSees'
    BY <1>11, <2>1, <2>2
  <2>4. TornInv'
    BY <1>0, <2>1 DEF TornInv, request
  <2>5. HolderSees'
    <3>1. ASSUME step \in {"resolve", "append", "save", "publish"} PROVE SeesPreambles(writer)'
      <4>1. writer \in Handles \ {h}
        BY <1>0, <2>1, <3>1 DEF TypeOK
      <4>2. rows'[writer] = rows[writer] /\ writer' = writer
        BY <2>1, <2>2, <4>1 DEF OnlyMemoryOf, request
      <4>3. SeesPreambles(writer)
        BY <1>0, <3>1 DEF HolderSees
      <4>4. QED
        BY <4>2, <4>3, <2>1 DEF SeesPreambles
    <3>2. QED
      BY <1>0, <2>1, <3>1 DEF HolderSees, request
  <2>6. PublishesNews'
    <3>1. DiscoveredTx' = DiscoveredTx
      BY <2>1, UnchangedLog
    <3>2. \A k \in Handles : observed'[k] = observed[k] \/ observed'[k] = None
      BY <2>2 DEF OnlyMemoryOf
    <3>3. QED
      BY <1>0, <2>1, <3>1, <3>2, SentinelAssumption DEF PublishesNews, request
  <2>7. QED
    BY <2>3, <2>4, <2>5, <2>6
\* The recovery and the resolver.
<1>16. ASSUME NEW h \in Handles, RecoverTable(h)
       PROVE  TornInv' /\ HolderSees' /\ PublishesNews' /\ CleanSees'
  <2>1. /\ header' = header /\ revision' = revision /\ observed' = observed /\ rows' = rows
        /\ step = "recover" /\ step' = "recover"
    BY <1>16 DEF RecoverTable, At
  <2>2. CleanSees' /\ HolderSees' /\ PublishesNews'
    BY <1>0, <2>1, SameSees DEF HolderSees, PublishesNews
  <2>3. PICK t \in todo : torn' = [torn EXCEPT ![t] = FALSE] /\ todo' = todo \ {t}
    BY <1>16 DEF RecoverTable
  <2>4. TornInv'
    BY <1>0, <2>1, <2>3 DEF TornInv, TypeOK
  <2>5. QED
    BY <2>2, <2>4
<1>17. ASSUME NEW h \in Handles, FinishRecovery(h)
       PROVE  TornInv' /\ HolderSees' /\ PublishesNews' /\ CleanSees'
  <2>1. /\ header' = header /\ torn' = torn /\ revision' = revision /\ observed' = observed
        /\ step = "recover" /\ todo = {} /\ step' = "resolve"
        /\ writer = h /\ writer' = h /\ target' = target /\ Invalidate(h)
    BY <1>17 DEF FinishRecovery, At, disk
  <2>2. OnlyMemoryOf(h) /\ rows'[h] = NoRows
    BY <1>12, <2>1
  <2>3. CleanSees' /\ SeesPreambles(h)'
    BY <1>11, <2>1, <2>2
  <2>4. TornInv'
    BY <1>0, <2>1 DEF TornInv, RequestInv
  <2>5. HolderSees' /\ PublishesNews'
    BY <2>1, <2>3 DEF HolderSees, PublishesNews, SeesPreambles
  <2>6. QED
    BY <2>3, <2>4, <2>5
<1>18. ASSUME NEW h \in Handles, NEW t \in Tables, ResolverReads(h, t)
       PROVE  TornInv' /\ HolderSees' /\ PublishesNews' /\ CleanSees'
  <2>1. /\ header' = header /\ torn' = torn /\ revision' = revision /\ observed' = observed
        /\ step = "resolve" /\ writer = h /\ UNCHANGED request
        /\ rows' = [rows EXCEPT ![h][t] = RowsOf(rows[h], t)]
        /\ Available(rows[h], t)
    BY <1>18 DEF ResolverReads, At
  <2>2. rows[h] \in [Tables -> RowSet \cup {None}] /\ rows \in [Handles -> [Tables -> RowSet \cup {None}]]
    BY <1>0 DEF TypeOK
  <2>3. /\ \A u \in Tables : rows'[h][u] = rows[h][u] \/ u = t
        /\ OnlyMemoryOf(h)
    <3>1. \A k \in Handles \ {h} : rows'[k] = rows[k]
      BY <2>1, <2>2
    <3>2. \A u \in Tables : rows'[h][u] = rows[h][u] \/ u = t
      BY <2>1, <2>2
    <3>3. \A k \in Handles \ {h} : nextTx'[k] = nextTx[k]
      BY <1>18 DEF ResolverReads
    <3>4. QED
      BY <2>1, <3>1, <3>2, <3>3 DEF OnlyMemoryOf
  <2>4. SeesPreambles(h)
    BY <1>0, <2>1 DEF HolderSees
  <2>5. header[t]
    BY <2>1, <2>4 DEF Available, Loadable, Scannable, SeesPreambles
  <2>6. SeesPreambles(h)'
    BY <2>1, <2>3, <2>4, <2>5 DEF SeesPreambles
  <2>7. CleanSees'
    BY <1>0, <2>1, <2>3, <2>6, OneSees
  <2>8. TornInv' /\ PublishesNews'
    BY <1>0, <2>1 DEF TornInv, PublishesNews, request
  <2>9. HolderSees'
    BY <2>1, <2>6 DEF HolderSees, request, SeesPreambles
  <2>10. QED
    BY <2>7, <2>8, <2>9
<1>19. ASSUME NEW h \in Handles, MarkDirty(h)
       PROVE  TornInv' /\ HolderSees' /\ PublishesNews' /\ CleanSees'
  <2>1. /\ header' = header /\ torn' = torn /\ rows' = rows /\ revision' = Dirty
        /\ step = "resolve" /\ step' = "append" /\ writer' = writer /\ target' = target
    BY <1>19 DEF MarkDirty, At
  <2>2. TornInv' /\ PublishesNews' /\ CleanSees'
    BY <1>0, <2>1 DEF TornInv, PublishesNews, CleanSees
  <2>3. SeesPreambles(writer)
    BY <1>0, <2>1 DEF HolderSees
  <2>4. HolderSees'
    BY <2>1, <2>3 DEF HolderSees, SeesPreambles
  <2>5. QED
    BY <2>2, <2>4
\* The append.
<1>20. ASSUME NEW h \in Handles, AppendBatch(h)
       PROVE  TornInv' /\ HolderSees' /\ PublishesNews' /\ CleanSees'
  <2>1. /\ header' = header /\ torn' = torn /\ revision' = revision /\ observed' = observed
        /\ metaTx' = metaTx
        /\ At(h, "append") /\ step' = "save" /\ writer' = writer
        /\ rows' = [rows EXCEPT ![h][target] = Replay(RowsOf(rows[h], target), batch)]
        /\ log' = [log EXCEPT ![target] = @ \o Stamped(batch, NextTxOf(h))]
        /\ Available(rows[h], target)
    BY <1>20 DEF AppendBatch, Accepted
  <2>2. target \in Tables /\ batch \in Seq(Change) /\ batch \in Batches /\ revision = Dirty
    BY <2>1, AtAppend
  <2>3. SeesPreambles(h) /\ writer = h
    BY <1>0, <2>1 DEF HolderSees, At
  <2>4. header[target]
    BY <2>1, <2>2, <2>3 DEF Available, Loadable, Scannable, SeesPreambles
  <2>5. SeesPreambles(h)'
    <3>1. rows[h] \in [Tables -> RowSet \cup {None}] /\ rows \in [Handles -> [Tables -> RowSet \cup {None}]]
      BY <1>0 DEF TypeOK
    <3>2. \A u \in Tables : rows'[h][u] = rows[h][u] \/ u = target
      BY <2>1, <2>2, <3>1
    <3>3. QED
      BY <2>1, <2>3, <2>4, <3>2 DEF SeesPreambles
  <2>6. PublishesNews'
    <3>1. DiscoveredTx' = DiscoveredTx + Len(batch)
      BY <2>1, <2>2, AppendKeeps
    <3>2. Len(batch) \in Nat \ {0}
      BY <2>2 DEF Batches
    <3>3. DiscoveredTx \in Nat
      BY DiscoveredIsNext DEF StoreInv, TypeInv
    <3>4. \A k \in Handles : observed[k] \in Nat => observed[k] <= DiscoveredTx
      BY <1>0 DEF ObservedInv, ObservedOk
    <3>5. \A k \in Handles : observed'[k] \in Nat => observed'[k] < DiscoveredTx'
      BY <2>1, <3>1, <3>2, <3>3, <3>4
    <3>6. QED
      BY <3>5 DEF PublishesNews
  <2>7. TornInv' /\ CleanSees'
    BY <2>1, <2>2 DEF TornInv, CleanSees
  <2>8. HolderSees'
    BY <2>1, <2>3, <2>5 DEF HolderSees, SeesPreambles
  <2>9. QED
    BY <2>6, <2>7, <2>8
<1>21. ASSUME NEW h \in Handles, CrashInAppend(h) \/ FailAppend(h)
       PROVE  TornInv' /\ HolderSees' /\ PublishesNews' /\ CleanSees'
  <2>1. step' = "idle" /\ revision' = revision /\ At(h, "append")
    BY <1>21 DEF CrashInAppend, FailAppend, Release, PartialAppend, Accepted
  <2>2. revision = Dirty
    BY <2>1, AtAppend
  <2>3. QED
    BY <2>1, <2>2, IdleTail DEF CleanSees
\* The save and the publication.
<1>22. ASSUME NEW h \in Handles, SaveMetadata(h)
       PROVE  TornInv' /\ HolderSees' /\ PublishesNews' /\ CleanSees'
  <2>1. /\ header' = header /\ revision' = revision /\ observed' = observed /\ rows' = rows
        /\ log' = log /\ step = "save" /\ step' = "publish" /\ writer' = writer
    BY <1>22 DEF SaveMetadata, At
  <2>2. CleanSees' /\ TornInv'
    BY <1>0, <2>1, SameSees DEF TornInv
  <2>3. HolderSees'
    BY <1>0, <2>1 DEF HolderSees, SeesPreambles
  <2>4. DiscoveredTx' = DiscoveredTx
    BY <2>1, UnchangedLog
  <2>5. PublishesNews'
    BY <1>0, <2>1, <2>4 DEF PublishesNews
  <2>6. QED
    BY <2>2, <2>3, <2>5
<1>23. ASSUME NEW h \in Handles, PublishClean(h)
       PROVE  TornInv' /\ HolderSees' /\ PublishesNews' /\ CleanSees'
  <2>1. /\ step = "publish" /\ writer = h /\ step' = "idle" /\ header' = header /\ rows' = rows
        /\ revision' = nextTx[h] /\ observed' = [observed EXCEPT ![h] = nextTx[h]]
    BY <1>23 DEF PublishClean, At, Release
  <2>2. nextTx[h] = DiscoveredTx /\ DiscoveredTx \in Nat
    BY <1>0, <2>1, DiscoveredIsNext DEF WriterInv, StoreInv, TypeInv
  <2>3. SeesPreambles(h)
    BY <1>0, <2>1 DEF HolderSees
  <2>4. ASSUME NEW k \in Handles, observed'[k] = revision' PROVE SeesPreambles(k)
    <3>1. CASE k = h
      BY <2>3, <3>1
    <3>2. CASE k # h
      <4>1. observed[k] = DiscoveredTx
        BY <1>0, <2>1, <2>2, <2>4, <3>2 DEF TypeOK
      <4>2. \A t \in Tables : header[t]
        BY <1>0, <2>1, <2>2, <3>2, <4>1 DEF PublishesNews
      <4>3. QED
        BY <4>2 DEF SeesPreambles
    <3>3. QED
      BY <3>1, <3>2
  <2>5. CleanSees'
    BY <2>1, <2>4 DEF CleanSees, SeesPreambles
  <2>6. QED
    BY <2>1, <2>5, IdleTail
\* init
<1>24. ASSUME NEW h \in Handles, InitTable(h)
       PROVE  TornInv' /\ HolderSees' /\ PublishesNews' /\ CleanSees'
  <2>1. /\ header' = header /\ revision' = revision /\ observed' = observed /\ nextTx' = nextTx
        /\ step = "rebuild" /\ step' = "rebuild"
    BY <1>24 DEF InitTable, At
  <2>2. PICK t \in todo : /\ header[t] /\ todo' = todo \ {t}
                          /\ rows' = [rows EXCEPT ![h][t] = Rows(log[t])]
    BY <1>24 DEF InitTable, Rebuildable, Scannable
  <2>3. /\ rows[h] \in [Tables -> RowSet \cup {None}] /\ t \in Tables
        /\ rows \in [Handles -> [Tables -> RowSet \cup {None}]]
    BY <1>0, <2>2 DEF TypeOK
  <2>4. \A k \in Handles, u \in Tables : rows'[k][u] = rows[k][u] \/ u = t
    BY <2>2, <2>3
  <2>5. CleanSees'
    BY <1>0, <2>1, <2>2, <2>4 DEF CleanSees, SeesPreambles
  <2>6. HolderSees'
    BY <1>0, <2>1, <2>2 DEF HolderSees
  <2>7. TornInv' /\ PublishesNews'
    BY <2>1 DEF TornInv, PublishesNews
  <2>8. QED
    BY <2>5, <2>6, <2>7
<1>25. ASSUME NEW h \in Handles, FinishInit(h)
       PROVE  TornInv' /\ HolderSees' /\ PublishesNews' /\ CleanSees'
  <2>1. /\ header' = header /\ revision' = revision /\ observed' = observed /\ rows' = rows
        /\ step = "rebuild" /\ todo = {} /\ step' = "save"
    BY <1>25 DEF FinishInit, At, disk, memory
  <2>2. \A t \in Tables : header[t]
    BY <1>0, <2>1 DEF HolderSees
  <2>3. CleanSees' /\ TornInv'
    BY <1>0, <2>1, SameSees DEF TornInv
  <2>4. HolderSees' /\ PublishesNews'
    BY <2>1, <2>2 DEF HolderSees, PublishesNews, SeesPreambles
  <2>5. QED
    BY <2>3, <2>4
<1>26. CASE UNCHANGED vars
  <2>1. UNCHANGED <<disk, memory, request>>
    BY <1>26 DEF vars
  <2>2. CleanSees' /\ TornInv' /\ HolderSees'
    BY <1>0, <2>1, SameSees DEF disk, memory, request, TornInv, HolderSees, SeesPreambles
  <2>3. DiscoveredTx' = DiscoveredTx
    BY <2>1, UnchangedLog DEF disk
  <2>4. PublishesNews'
    BY <1>0, <2>1, <2>3 DEF PublishesNews, disk, memory, request
  <2>5. QED
    BY <2>2, <2>4
<1>27. QED
  BY <1>2, <1>3, <1>4, <1>6, <1>7, <1>8, <1>10, <1>13, <1>14, <1>15, <1>16, <1>17, <1>18, <1>19,
     <1>20, <1>21, <1>22, <1>23, <1>24, <1>25, <1>26 DEF Next, Progress, Interrupt

\* No batch is appended behind an incomplete line, and none behind an incomplete
\* preamble: the append refuses where it can read the chunk no longer, and where
\* it need not read it, the chunk has its preamble.
THEOREM CompleteTailCorrect ==
    ASSUME InitNeverFailsToSave
    PROVE  Spec => []AppendsAtCompleteTail
<1>1. StoreInv /\ TailInv /\ [Next]_vars => StoreInv' /\ TailInv'
  BY NextTypeInv, NextStoreInv, NextTailInv DEF StoreInv
<1>2. StoreInv /\ TailInv => AppendsAtCompleteTail
  BY DEF StoreInv, TypeInv, RequestInv, TailInv, TornInv, HolderSees, SeesPreambles,
         AppendsAtCompleteTail
<1>3. QED
  BY <1>1, <1>2, InitStoreInv, InitTailInv, PTL DEF Spec

-------------------------------------------------------------------------------
(* Torn tails and clean revisions.  A torn tail needs an append, which runs *)
(* under the dirty marker, and a writer that finds the marker cuts off the  *)
(* tails of all tables before it resolves its batch.                        *)

NoTornTail == \A t \in Tables : ~torn[t]

CutInv ==
    /\ CleanMeansNoTornTail
    /\ step # "rebuild"
    /\ step = "recover" => \A t \in Tables \ todo : ~torn[t]
    /\ step \in {"resolve", "append", "save", "publish"} => NoTornTail
    /\ step = "append" => revision = Dirty

\* Steps that change no tail, nor the revision, nor where the lock holder is.
LEMMA SameCut ==
    ASSUME CutInv, torn' = torn, revision' = revision, step' = step, todo' = todo
    PROVE  CutInv'
  BY DEF CutInv, CleanMeansNoTornTail, NoTornTail

\* Steps after which nobody holds the lock.
LEMMA IdleCut ==
    ASSUME CutInv, step' = "idle", torn' = torn, revision' = revision
    PROVE  CutInv'
  BY DEF CutInv, CleanMeansNoTornTail, NoTornTail

LEMMA NextCutInv ==
    ASSUME "init" \notin Operations, TypeOK, CutInv, [Next]_vars
    PROVE  CutInv'
<1>1. ASSUME NEW h \in Handles, NEW t \in Tables,
             \/ Read(h, t) \/ ReadFails(h, t) \/ Rebuild(h, t)
             \/ RefuseWrite(h, t) \/ ResolverReads(h, t)
      PROVE  CutInv'
  BY <1>1, SameCut
     DEF Read, ReadFails, Rebuild, RefuseWrite, ResolverReads, disk, request
<1>2. ASSUME NEW h \in Handles, Restart(h) PROVE CutInv'
  BY <1>2, SameCut DEF Restart, disk, request
<1>3. ASSUME NEW h \in Handles, NEW t \in Tables, BeginWrite(h, t) PROVE CutInv'
  BY <1>3 DEF BeginWrite, Begin, disk, CutInv, CleanMeansNoTornTail, NoTornTail
<1>4. ASSUME NEW h \in Handles, NEW t \in Tables, BeginRecovery(h, t) PROVE CutInv'
  BY <1>4 DEF BeginRecovery, Begin, disk, CutInv, CleanMeansNoTornTail
<1>5. ASSUME NEW h \in Handles, RecoverTable(h) PROVE CutInv'
  <2>1. /\ step = "recover" /\ step' = "recover" /\ revision' = revision
        /\ \E t \in todo : torn' = [torn EXCEPT ![t] = FALSE] /\ todo' = todo \ {t}
    BY <1>5 DEF RecoverTable, At
  <2>2. torn \in [Tables -> BOOLEAN]
    BY DEF TypeOK
  <2>3. \A u \in Tables \ todo' : ~torn'[u]
    BY <2>1, <2>2 DEF CutInv
  <2>4. CleanMeansNoTornTail'
    BY <2>1, <2>2 DEF CutInv, CleanMeansNoTornTail
  <2> QED
    BY <2>1, <2>3, <2>4 DEF CutInv
<1>6. ASSUME NEW h \in Handles, FinishRecovery(h) PROVE CutInv'
  BY <1>6 DEF FinishRecovery, At, disk, CutInv, CleanMeansNoTornTail, NoTornTail
<1>7. ASSUME NEW h \in Handles,
             \/ FailRecovery(h) \/ ResolverFails(h) \/ Reject(h)
             \/ Crash(h) \/ FailSave(h) \/ FailPublish(h)
      PROVE  CutInv'
  <2>1. step' = "idle" /\ torn' = torn /\ revision' = revision
    BY <1>7 DEF FailRecovery, ResolverFails, Reject, Crash, FailSave, FailPublish, Release, disk
  <2> QED
    BY <2>1, IdleCut
<1>8. ASSUME NEW h \in Handles, MarkDirty(h) PROVE CutInv'
  BY <1>8 DEF MarkDirty, At, CutInv, CleanMeansNoTornTail, NoTornTail
<1>9. ASSUME NEW h \in Handles, AppendBatch(h) \/ SaveMetadata(h) PROVE CutInv'
  BY <1>9 DEF AppendBatch, SaveMetadata, Accepted, At, CutInv, CleanMeansNoTornTail, NoTornTail
<1>10. ASSUME NEW h \in Handles, PublishClean(h) PROVE CutInv'
  BY <1>10 DEF PublishClean, Release, At, CutInv, CleanMeansNoTornTail, NoTornTail
<1>11. ASSUME NEW h \in Handles, CrashInAppend(h) \/ FailAppend(h) PROVE CutInv'
  <2>1. step = "append" /\ step' = "idle" /\ revision' = revision
    BY <1>11 DEF CrashInAppend, FailAppend, PartialAppend, Accepted, At, Release
  <2> QED
    BY <2>1 DEF CutInv, CleanMeansNoTornTail
<1>12. ASSUME NEW h \in Handles,
              BeginInit(h) \/ InitTable(h) \/ FinishInit(h) \/ FailInit(h)
       PROVE  FALSE
  BY <1>12 DEF BeginInit, InitTable, FinishInit, FailInit, At, CutInv
<1>13. CASE UNCHANGED vars
  BY <1>13, SameCut DEF vars, disk, request
<1> QED
  BY <1>1, <1>2, <1>3, <1>4, <1>5, <1>6, <1>7, <1>8, <1>9, <1>10, <1>11, <1>12, <1>13
     DEF Next, Progress, Interrupt

\* Where nobody runs init over a dirty marker, a clean revision means that no
\* table ends in a torn tail, whatever was interrupted and wherever: the writer
\* that publishes it has cut off the tails of all tables.
THEOREM CleanTailsCorrect ==
    ASSUME "init" \notin Operations
    PROVE  Spec => []CleanMeansNoTornTail
<1>1. Init => CutInv
  BY DEF Init, CutInv, CleanMeansNoTornTail, NoTornTail
<1>2. TypeOK /\ CutInv /\ [Next]_vars => CutInv'
  BY NextCutInv
<1>3. CutInv => CleanMeansNoTornTail
  BY DEF CutInv
<1> QED
  BY <1>1, <1>2, <1>3, TypeCorrect, PTL DEF Spec
===============================================================================
