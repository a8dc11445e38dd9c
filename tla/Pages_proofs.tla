------------------------------ MODULE Pages_proofs ------------------------------
(***************************************************************************)
(* Proofs about Pages, for any calls, batches and readings: the rows stay  *)
(* typed and unique, and a reader of pages misses and repeats no row that  *)
(* the concurrent writes let it see once, and a batch does what its        *)
(* changes do in any order, at once or one by one.                         *)
(***************************************************************************)
EXTENDS Pages, FiniteSetTheorems, WellFoundedInduction, TLAPS

-------------------------------------------------------------------------------
(* Numbers. *)

\* The least element of a set of numbers.
LEMMA MinIsMember == ASSUME NEW S \in SUBSET Nat, S # {} PROVE Min(S) \in S
<1> DEFINE R == OpToRel(<, Nat)
<1>1. PICK x \in S : \A y \in S : <<y, x>> \notin R
  BY NatLessThanWellFounded, WFMin
<1>2. \A y \in S : y < x => <<y, x>> \in R
  BY DEF OpToRel
<1> HIDE DEF R
<1>3. \A y \in S : ~(y < x)
  BY <1>1, <1>2
<1>4. \A y \in S : x <= y
  BY <1>3
<1> QED
  BY <1>4 DEF Min

-------------------------------------------------------------------------------
(* Plans that are not refused. *)

\* A batch the store does not refuse passes the checks of append_batch_inner.
LEMMA StoreAccepts ==
    ASSUME NEW r, NEW b, NEW only \in BOOLEAN, StoreCode(r, b, only) = "ok"
    PROVE  ValidBatch(KeysOf(r), KeyChanges(b), only)
  BY DEF StoreCode

\* A write plan that is not refused has passed the checks of the plan and of the store.
LEMMA PlanAccepts ==
    ASSUME NEW r, NEW p, p.op \in WriteOps, PlanCode(r, p) = "ok"
    PROVE  /\ Refusal(r, p) = "ok"
           /\ ValidBatch(KeysOf(r), KeyChanges(<<Resolved(r, p)>>), p.op = "insert")
<1>1. Refusal(r, p) = "ok"
  BY DEF PlanCode
<1>2. StoreCode(r, <<Resolved(r, p)>>, p.op = "insert") = "ok"
  BY <1>1 DEF PlanCode
<1> QED
  BY <1>1, <1>2, StoreAccepts

\* So has every change of a write_many, and all of them belong to one table.
LEMMA ManyAccepts ==
    ASSUME NEW all, NEW ps, DOMAIN ps \subseteq Nat, ManyCode(all, ps) = "ok"
    PROVE  LET t    == ps[1].table
               r    == all[t]
               only == \A i \in DOMAIN ps : ps[i].op = "insert"
           IN  /\ t \in Tables
               /\ only \/ \A i \in DOMAIN ps : ps[i].op # "insert"
               /\ \A i \in DOMAIN ps : IF only THEN Complete(ps[i].value)
                                        ELSE Refusal(r, ps[i]) = "ok"
               /\ ValidBatch(KeysOf(r), KeyChanges(Resolution(r, ps)), only)
<1> DEFINE t       == ps[1].table
           r       == all[t]
           only    == \A i \in DOMAIN ps : ps[i].op = "insert"
           Code(i) == IF only THEN InsertCode(ps[i]) ELSE ChangeCode(r, ps, i)
           refused == {i \in DOMAIN ps : Code(i) # "ok"}
<1>1. t \in Tables /\ (only \/ \A i \in DOMAIN ps : ps[i].op # "insert")
  BY DEF ManyCode
<1>2. refused = {}
  <2> SUFFICES ASSUME refused # {} PROVE FALSE
    OBVIOUS
  <2>1. Min(refused) \in refused
    BY MinIsMember
  <2>2. ManyCode(all, ps) # "ok"
    BY <2>1 DEF ManyCode
  <2> QED
    BY <2>2
<1>3. ASSUME NEW i \in DOMAIN ps
      PROVE  IF only THEN Complete(ps[i].value) ELSE Refusal(r, ps[i]) = "ok"
  <2>1. Code(i) = "ok"
    BY <1>2
  <2> QED
    BY <2>1 DEF InsertCode, ChangeCode
<1>4. StoreCode(r, Resolution(r, ps), only) = "ok"
  BY <1>1, <1>2 DEF ManyCode
<1>5. ValidBatch(KeysOf(r), KeyChanges(Resolution(r, ps)), only)
  BY <1>4, StoreAccepts
<1> QED
  BY <1>1, <1>3, <1>5

\* A typed plan that passed its checks resolves to a typed row, or, if it removes, to none.
LEMMA ResolvedTyped ==
    ASSUME NEW r \in [Ids -> Row \cup {NoRow}], NEW p, p.op \in WriteOps, Typed(p.value),
           p.op = "insert" \/ Refusal(r, p) = "ok",
           p.op = "insert" => Complete(p.value)
    PROVE  IF p.op = "remove" THEN Resolved(r, p).row = NoRow ELSE Resolved(r, p).row \in Row
<1>1. CASE p.op \in {"insert", "upsert"}
  <2>1. Complete(p.value)
    BY <1>1 DEF Refusal
  <2>2. p.value["key"] \in Keys /\ p.value["tag"] \in Tags
    BY <2>1 DEF Complete, Fields, Typed
  <2> QED
    BY <1>1, <2>2 DEF Resolved, Row
<1>2. CASE p.op = "remove"
  BY <1>2 DEF Resolved
<1>3. CASE p.op = "patch"
  <2>1. Found(r, p) # {} /\ Found(r, p) \subseteq Live(r)
    BY <1>3 DEF Refusal, Found
  <2>2. Named(r, p) \in Live(r)
    BY <2>1 DEF Named
  <2>3. r[Named(r, p)] \in Row
    BY <2>2 DEF Live
  <2> DEFINE After(f) == IF f \in DOMAIN p.value THEN p.value[f] ELSE r[Named(r, p)][f]
  <2>4. After("key") \in Keys /\ After("tag") \in Tags
    BY <2>3 DEF Typed, Row
  <2>5. Resolved(r, p).row = [key |-> After("key"), tag |-> After("tag")]
    BY <1>3 DEF Resolved
  <2> QED
    BY <1>3, <2>4, <2>5 DEF Row
<1> QED
  BY <1>1, <1>2, <1>3 DEF WriteOps

\* So do the changes of a write_many.
LEMMA ResolutionTyped ==
    ASSUME NEW r \in [Ids -> Row \cup {NoRow}], NEW ps,
           \A i \in DOMAIN ps : /\ ps[i].op \in WriteOps /\ Typed(ps[i].value)
                                /\ ps[i].op = "insert" \/ Refusal(r, ps[i]) = "ok"
                                /\ ps[i].op = "insert" => Complete(ps[i].value)
    PROVE  /\ DOMAIN Resolution(r, ps) = DOMAIN ps
           /\ \A i \in DOMAIN ps : IF ps[i].op = "remove" THEN Resolution(r, ps)[i].row = NoRow
                                   ELSE Resolution(r, ps)[i].row \in Row
<1>1. \A i \in DOMAIN ps : IF ps[i].op = "remove" THEN Resolved(r, ps[i]).row = NoRow
                           ELSE Resolved(r, ps[i]).row \in Row
  BY ResolvedTyped
<1> QED
  BY <1>1 DEF Resolution

-------------------------------------------------------------------------------
(* The rows after a batch. *)

\* The batch b is about different rows, a put batch only when they are not there.
LEMMA BatchDistinct ==
    ASSUME NEW r, NEW b, NEW only \in BOOLEAN, ValidBatch(KeysOf(r), KeyChanges(b), only)
    PROVE  /\ \A i, j \in DOMAIN b : i # j => b[i].id # b[j].id
           /\ only => \A i \in DOMAIN b : b[i].id \in Ids => KeyOf(r[b[i].id]) = NoRow
<1> DEFINE c == KeyChanges(b)
           k == KeysOf(r)
<1>1. DOMAIN c = DOMAIN b /\ \A i \in DOMAIN b : c[i].id = b[i].id
  BY DEF KeyChanges
<1>2. \A id \in Ids : k[id] = KeyOf(r[id])
  BY DEF KeysOf
<1> HIDE DEF c, k
<1>3. ValidBatch(k, c, only)
  BY DEF c, k
<1> QED
  BY <1>1, <1>2, <1>3 DEF ValidBatch

\* A batch that passes ValidBatch leaves unique keys unique.
LEMMA ChangedUnique ==
    ASSUME NEW r, NEW b, NEW only \in BOOLEAN, UniqueKeys(KeysOf(r)),
           ValidBatch(KeysOf(r), KeyChanges(b), only)
    PROVE  UniqueKeys(KeysOf(Changed(r, b)))
<1> DEFINE K(id) == KeyOf(r[id])
           N(id) == KeyOf(Changed(r, b)[id])
<1>1. /\ \A i, j \in DOMAIN b : i # j => b[i].id # b[j].id
      /\ \A i \in DOMAIN b : KeyOf(b[i].row) # NoRow =>
           /\ \A id \in Ids : K(id) = KeyOf(b[i].row) => \E j \in DOMAIN b : b[j].id = id
           /\ \A j \in DOMAIN b : j # i => KeyOf(b[j].row) # KeyOf(b[i].row)
  <2> DEFINE c == KeyChanges(b)
             k == KeysOf(r)
  <2>1. /\ DOMAIN c = DOMAIN b
        /\ \A i \in DOMAIN b : c[i].id = b[i].id /\ c[i].key = KeyOf(b[i].row)
    BY DEF KeyChanges
  <2>2. \A id \in Ids : k[id] = K(id)
    BY DEF KeysOf
  <2> HIDE DEF c, k, K
  <2>3. ValidBatch(k, c, only)
    BY DEF c, k
  <2> QED
    BY <2>1, <2>2, <2>3 DEF ValidBatch
<1>2. ASSUME NEW i \in DOMAIN b, b[i].id \in Ids PROVE N(b[i].id) = KeyOf(b[i].row)
  BY <1>1, <1>2 DEF Changed
<1>3. ASSUME NEW id \in Ids, \A i \in DOMAIN b : b[i].id # id PROVE N(id) = K(id)
  BY <1>3 DEF Changed
<1>4. \A i, j \in Ids : i # j /\ K(i) # NoRow => K(i) # K(j)
  BY DEF UniqueKeys, KeysOf
<1> HIDE DEF K, N
<1>5. ASSUME NEW i \in Ids, NEW j \in Ids, i # j, N(i) # NoRow, N(i) = N(j) PROVE FALSE
  <2>1. CASE \E m \in DOMAIN b : b[m].id = i
    <3>1. PICK m \in DOMAIN b : b[m].id = i
      BY <2>1
    <3>2. PICK n \in DOMAIN b : b[n].id = j
      BY <1>1, <1>2, <1>3, <1>5, <3>1
    <3> QED
      BY <1>1, <1>2, <1>5, <3>1, <3>2
  <2>2. CASE \A m \in DOMAIN b : b[m].id # i
    <3>1. PICK n \in DOMAIN b : b[n].id = j
      BY <1>3, <1>4, <1>5, <2>2
    <3> QED
      BY <1>1, <1>2, <1>3, <1>5, <2>2, <3>1
  <2> QED
    BY <2>1, <2>2
<1> QED
  BY <1>5 DEF UniqueKeys, KeysOf, N

\* Changes of typed rows leave the rows typed.
LEMMA ChangedTyped ==
    ASSUME NEW r \in [Ids -> Row \cup {NoRow}], NEW b,
           \A i \in DOMAIN b : b[i].row \in Row \cup {NoRow}
    PROVE  Changed(r, b) \in [Ids -> Row \cup {NoRow}]
  BY DEF Changed

-------------------------------------------------------------------------------
(* Pages of a plan. *)

\* A row's rank in a set of rows is below its size.
LEMMA RankBounded ==
    ASSUME NEW s \in SUBSET Ids, NEW id \in Ids
    PROVE  /\ Cardinality(s) \in 0..MaxUsize
           /\ Rank(s, id) \in 0..MaxUsize
           /\ id \in s => Rank(s, id) < Cardinality(s)
<1> DEFINE below == {j \in s : j < id}
<1>1. IsFiniteSet(s) /\ Cardinality(s) <= Cardinality(Ids)
  BY OrderedIds, FS_Subset
<1>2. IsFiniteSet(below) /\ Cardinality(below) <= Cardinality(s)
  BY <1>1, FS_Subset
<1>3. id \in s => Cardinality(below) # Cardinality(s)
  <2>1. id \in s => id \notin below /\ below # s
    BY OrderedIds
  <2>2. below \in SUBSET s
    OBVIOUS
  <2> HIDE DEF below
  <2> QED
    BY <1>1, <2>1, <2>2, FS_Subset
<1>4. Cardinality(s) \in Nat /\ Cardinality(below) \in Nat /\ Cardinality(Ids) \in Nat
  BY <1>1, <1>2, OrderedIds, FS_CardinalityType
<1> HIDE DEF below
<1>5. Rank(s, id) = Cardinality(below)
  BY DEF Rank, below
<1> QED
  BY <1>1, <1>2, <1>3, <1>4, <1>5, OrderedIds, Limits

\* A row's rank is no smaller in a larger set.
LEMMA RankMonotone ==
    ASSUME NEW t \in SUBSET Ids, NEW s \in SUBSET t, NEW id \in Ids
    PROVE  Rank(s, id) <= Rank(t, id)
<1> DEFINE low == {j \in s : j < id}
           high == {j \in t : j < id}
<1>1. IsFiniteSet(high)
  BY OrderedIds, FS_Subset
<1>2. low \in SUBSET high
  OBVIOUS
<1>3. Cardinality(low) <= Cardinality(high)
  BY <1>1, <1>2, FS_Subset
<1> QED
  BY <1>3 DEF Rank

\* A plan finds ids.
LEMMA FoundIds == ASSUME NEW r, NEW p PROVE Found(r, p) \in SUBSET Ids
  BY DEF Found, Live

-------------------------------------------------------------------------------
(* Accepted calls.  Every call ends in Make; all that the invariants need  *)
(* of the changes it makes is that they are typed and pass ValidBatch.     *)

Accepted(t, b) ==
    /\ t \in Tables
    /\ \A i \in DOMAIN b : b[i].row \in Row \cup {NoRow}
    /\ \E only \in BOOLEAN : ValidBatch(KeysOf(rows[t]), KeyChanges(b), only)

\* A call that passes its checks makes accepted changes.
LEMMA ExecuteAccepted ==
    ASSUME TypeOK, NEW p \in Calls, Execute(p)
    PROVE  \E b : Accepted(p.table, b) /\ Make(p.table, b)
<1> DEFINE b == <<Resolved(rows[p.table], p)>>
<1>1. /\ p.table \in Tables /\ Make(p.table, b)
      /\ PlanCode(rows[p.table], p) = "ok"
  BY DEF Execute
<1>2. p.op \in WriteOps /\ Typed(p.value)
  BY CallsWrite
<1>3. /\ Refusal(rows[p.table], p) = "ok"
      /\ ValidBatch(KeysOf(rows[p.table]), KeyChanges(b), p.op = "insert")
  BY <1>1, <1>2, PlanAccepts
<1>4. p.op = "insert" => Complete(p.value)
  BY <1>3 DEF Refusal
<1>5. rows[p.table] \in [Ids -> Row \cup {NoRow}]
  BY <1>1 DEF TypeOK
<1>6. b[1].row \in Row \cup {NoRow} /\ DOMAIN b = {1}
  BY <1>2, <1>3, <1>4, <1>5, ResolvedTyped
<1>7. Accepted(p.table, b)
  BY <1>1, <1>3, <1>6 DEF Accepted
<1> QED
  BY <1>1, <1>7

LEMMA WriteManyAccepted ==
    ASSUME TypeOK, NEW ps \in ManyCalls, WriteMany(ps)
    PROVE  \E t, b : Accepted(t, b) /\ Make(t, b)
<1> DEFINE t    == ps[1].table
           r    == rows[t]
           only == \A i \in DOMAIN ps : ps[i].op = "insert"
           b    == Resolution(r, ps)
<1>1. ManyCode(rows, ps) = "ok" /\ Make(t, b)
  BY DEF WriteMany
<1>2. /\ DOMAIN ps \subseteq Nat
      /\ \A i \in DOMAIN ps : ps[i].op \in WriteOps /\ Typed(ps[i].value)
  <2>1. ps \in Seq({ps[i] : i \in DOMAIN ps})
    BY CallsWrite
  <2>2. DOMAIN ps \subseteq Nat
    BY <2>1
  <2>3. \A i \in DOMAIN ps : ps[i].op \in WriteOps /\ Typed(ps[i].value)
    BY CallsWrite
  <2> QED
    BY <2>2, <2>3
<1>3. /\ t \in Tables
      /\ \A i \in DOMAIN ps : IF only THEN Complete(ps[i].value)
                               ELSE Refusal(r, ps[i]) = "ok"
      /\ ValidBatch(KeysOf(r), KeyChanges(b), only)
  BY <1>1, <1>2, ManyAccepts
<1>4. r \in [Ids -> Row \cup {NoRow}]
  BY <1>3 DEF TypeOK
<1>5. \A i \in DOMAIN ps : /\ ps[i].op = "insert" \/ Refusal(r, ps[i]) = "ok"
                           /\ ps[i].op = "insert" => Complete(ps[i].value)
  BY <1>3 DEF Refusal
<1>6. DOMAIN b = DOMAIN ps /\ \A i \in DOMAIN ps : b[i].row \in Row \cup {NoRow}
  BY <1>2, <1>4, <1>5, ResolutionTyped
<1>7. Accepted(t, b)
  BY <1>3, <1>6 DEF Accepted
<1> QED
  BY <1>1, <1>7

LEMMA ApplyAccepted ==
    ASSUME TypeOK, NEW p \in Calls, p.op = "upsert", Apply(p.table, p.value)
    PROVE  \E b : Accepted(p.table, b) /\ Make(p.table, b)
<1> DEFINE r == rows[p.table]
           b == <<Resolved(r, Set(p.table, p.value))>>
<1>1. /\ p.table \in Tables /\ Complete(p.value) /\ Make(p.table, b)
      /\ StoreCode(r, b, FALSE) = "ok"
  BY DEF Apply
<1>2. ValidBatch(KeysOf(r), KeyChanges(b), FALSE)
  BY <1>1, StoreAccepts
<1>3. p.value["key"] \in Keys /\ p.value["tag"] \in Tags
  BY <1>1, CallsWrite DEF Complete, Fields, Typed
<1>4. Set(p.table, p.value).op = "upsert" /\ Set(p.table, p.value).value = p.value
  BY DEF Set, Plan
<1>5. b[1].row \in Row /\ DOMAIN b = {1}
  BY <1>3, <1>4 DEF Resolved, Row
<1>6. Accepted(p.table, b)
  BY <1>1, <1>2, <1>5 DEF Accepted
<1> QED
  BY <1>1, <1>6

LEMMA DeleteAccepted ==
    ASSUME TypeOK, NEW t \in Tables, NEW id \in Ids, DeleteById(t, id)
    PROVE  \E b : Accepted(t, b) /\ Make(t, b)
<1> DEFINE b == <<[id |-> id, row |-> NoRow]>>
<1>1. ValidBatch(KeysOf(rows[t]), KeyChanges(b), FALSE)
  BY DEF ValidBatch, KeyChanges, KeyOf
<1>2. DOMAIN b = {1} /\ b[1].row = NoRow
  OBVIOUS
<1> HIDE DEF b
<1>3. Accepted(t, b)
  BY <1>1, <1>2 DEF Accepted
<1> QED
  BY <1>3 DEF DeleteById, b

LEMMA NextSplit ==
    ASSUME TypeOK, Next
    PROVE  \/ \E t, b : Accepted(t, b) /\ Make(t, b)
           \/ ~reader.on /\ \E p \in Readings : StartReading(p)
           \/ ReadPage
<1> QED
  BY ExecuteAccepted, WriteManyAccepted, ApplyAccepted, DeleteAccepted DEF Next

-------------------------------------------------------------------------------
(* The rows of a table stay typed, and unique. *)

LEMMA MakeKeepsRows ==
    ASSUME rows \in [Tables -> [Ids -> Row \cup {NoRow}]], NEW t, NEW b, Accepted(t, b), Make(t, b)
    PROVE  /\ rows' \in [Tables -> [Ids -> Row \cup {NoRow}]]
           /\ KeysUnique => KeysUnique'
<1>1. t \in Tables /\ rows' = [rows EXCEPT ![t] = Changed(@, b)]
  BY DEF Accepted, Make
<1>2. rows'[t] = Changed(rows[t], b) /\ \A u \in Tables : u # t => rows'[u] = rows[u]
  BY <1>1
<1>3. Changed(rows[t], b) \in [Ids -> Row \cup {NoRow}]
  BY <1>1, ChangedTyped DEF Accepted
<1>4. KeysUnique => UniqueKeys(KeysOf(Changed(rows[t], b)))
  BY <1>1, ChangedUnique DEF Accepted, KeysUnique
<1> QED
  BY <1>1, <1>2, <1>3, <1>4 DEF KeysUnique

LEMMA WitnessedTyped ==
    ASSUME TypeOK, NEW r
    PROVE  LET w == Witnessed(r) IN
           /\ w = [on |-> w.on, plan |-> w.plan, seen |-> w.seen,
                   stayed |-> w.stayed, joined |-> w.joined, left |-> w.left]
           /\ w.joined \in BOOLEAN /\ w.left \in BOOLEAN /\ w.on = reader.on
           /\ w.seen \in [Ids -> Nat] /\ w.stayed \subseteq Ids
           /\ w.on => /\ w.plan = reader.plan /\ w.seen = reader.seen
                      /\ w.stayed = reader.stayed \cap Selected(r)
                      /\ w.joined = (reader.joined \/ ~(Selected(r) \subseteq Selected(rows)))
                      /\ w.left = (reader.left \/ ~(Selected(rows) \subseteq Selected(r)))
<1>1. CASE ~reader.on
  BY <1>1 DEF Witnessed, Idle, TypeOK
<1>2. CASE reader.on
  BY <1>2 DEF Witnessed, TypeOK
<1> QED
  BY <1>1, <1>2

-------------------------------------------------------------------------------
(* What a reader knows. *)

\* What a reader that is on knows of its plan.
LEMMA PlanTyped ==
    ASSUME TypeOK, reader.on
    PROVE  /\ OffsetOf(reader.plan.cursor) \in 0..MaxUsize
           /\ LimitOf(reader.plan.limit) \in 1..MaxUsize
<1>1. /\ GoodLimit(reader.plan.limit)
      /\ reader.plan.cursor \in 0..MaxUsize \cup {None}
  BY DEF TypeOK, ValidPlan
<1> QED
  BY <1>1, Limits DEF GoodLimit, LimitOf, OffsetOf

-------------------------------------------------------------------------------
(* The steps of the reader. *)

\* What holds of a reader while it is on: the rows that stayed are selected
\* now; those that its cursor has passed were returned; and while no row
\* joined, those ahead of its cursor were not.
SkipInv ==
    reader.on /\ ~reader.left =>
        \A id \in reader.stayed :
            id \notin Ahead(Selected(rows), reader.plan) => reader.seen[id] >= 1

StayedInv == reader.on => reader.stayed \subseteq Selected(rows)

AheadInv ==
    reader.on /\ ~reader.joined =>
        \A id \in Ahead(Selected(rows), reader.plan) : reader.seen[id] = 0

PagesInv ==
    /\ TypeOK /\ KeysUnique
    /\ SkipInv /\ StayedInv /\ AheadInv
    /\ PagesSkipNothing /\ PagesRepeatNothing

LEMMA InitInv == Init => PagesInv
<1> SUFFICES ASSUME Init PROVE PagesInv
  OBVIOUS
<1> USE DEF Init, Idle
<1>1. TypeOK
  BY DEF TypeOK
<1>2. KeysUnique
  BY DEF KeysUnique, UniqueKeys, KeysOf, KeyOf
<1>3. SkipInv /\ StayedInv /\ AheadInv /\ PagesSkipNothing /\ PagesRepeatNothing
  BY DEF SkipInv, StayedInv, AheadInv, PagesSkipNothing, PagesRepeatNothing
<1> QED
  BY <1>1, <1>2, <1>3 DEF PagesInv

\* A write: the cursor keeps its distance to the rows that it has not passed.
LEMMA MakeInv ==
    ASSUME PagesInv, NEW t, NEW b, Accepted(t, b), Make(t, b)
    PROVE  PagesInv'
<1> DEFINE S == Selected(rows)
           T == Selected(rows')
           p == reader.plan
           w == Witnessed(rows')
<1>1. TypeOK /\ reader' = w
  BY DEF PagesInv, Make
<1>2. rows' \in [Tables -> [Ids -> Row \cup {NoRow}]] /\ KeysUnique'
  BY MakeKeepsRows DEF PagesInv, TypeOK
<1>3. S \in SUBSET Ids /\ T \in SUBSET Ids
  BY FoundIds DEF Selected
<1>4. CASE ~reader.on
  <2>1. reader' = Idle
    BY <1>1, <1>4 DEF Witnessed
  <2>2. TypeOK'
    BY <1>2, <2>1 DEF TypeOK, Idle
  <2>3. (SkipInv /\ StayedInv /\ AheadInv /\ PagesSkipNothing /\ PagesRepeatNothing)'
    BY <2>1 DEF SkipInv, StayedInv, AheadInv, PagesSkipNothing, PagesRepeatNothing, Idle
  <2> QED
    BY <1>2, <2>2, <2>3 DEF PagesInv
<1>5. CASE reader.on
  <2>1. /\ reader' = [on |-> reader'.on, plan |-> reader'.plan, seen |-> reader'.seen,
                      stayed |-> reader'.stayed, joined |-> reader'.joined, left |-> reader'.left]
        /\ reader'.joined \in BOOLEAN /\ reader'.left \in BOOLEAN /\ reader'.on = reader.on
        /\ reader'.seen \in [Ids -> Nat] /\ reader'.stayed \subseteq Ids
        /\ reader'.plan = p /\ reader'.seen = reader.seen
        /\ reader'.stayed = reader.stayed \cap T
        /\ reader'.joined = (reader.joined \/ ~(T \subseteq S))
        /\ reader'.left = (reader.left \/ ~(S \subseteq T))
    BY <1>1, <1>5, WitnessedTyped
  <2>2. TypeOK'
    BY <1>1, <1>2, <1>5, <2>1 DEF TypeOK
  <2>3. Selected(rows)' = T
    BY <2>1 DEF Selected
  <2>4. ASSUME ~reader'.left, NEW id \in reader'.stayed, id \notin Ahead(T, p)
        PROVE  reader.seen[id] >= 1
    <3>1. ~reader.left /\ S \subseteq T /\ id \in reader.stayed /\ id \in T /\ id \in S
      BY <1>5, <2>1, <2>4 DEF PagesInv, StayedInv
    <3>2. Rank(S, id) <= Rank(T, id)
      BY <1>3, <3>1, RankMonotone
    <3>3. /\ Rank(S, id) \in Nat /\ Rank(T, id) \in Nat /\ OffsetOf(p.cursor) \in Nat
      BY <1>1, <1>3, <1>5, <3>1, RankBounded, PlanTyped
    <3>4. id \notin Ahead(S, p)
      BY <2>4, <3>1, <3>2, <3>3 DEF Ahead
    <3> QED
      BY <1>5, <3>1, <3>4 DEF PagesInv, SkipInv
  <2>5. ASSUME ~reader'.joined, NEW id \in Ahead(T, p) PROVE reader.seen[id] = 0
    <3>1. ~reader.joined /\ T \subseteq S /\ id \in T /\ id \in S
      BY <2>1, <2>5 DEF Ahead
    <3>2. Rank(T, id) <= Rank(S, id)
      BY <1>3, <3>1, RankMonotone
    <3>3. /\ Rank(S, id) \in Nat /\ Rank(T, id) \in Nat /\ OffsetOf(p.cursor) \in Nat
      BY <1>1, <1>3, <1>5, <3>1, RankBounded, PlanTyped
    <3>4. id \in Ahead(S, p)
      BY <2>5, <3>1, <3>2, <3>3 DEF Ahead
    <3> QED
      BY <1>5, <3>1, <3>4 DEF PagesInv, AheadInv
  <2>6. SkipInv' /\ StayedInv' /\ AheadInv'
    <3> HIDE DEF S, T, p, w
    <3>1. p = reader.plan
      BY DEF p
    <3> QED
      BY <2>1, <2>3, <2>4, <2>5, <3>1 DEF SkipInv, StayedInv, AheadInv
  <2>7. PagesSkipNothing'
    BY <1>5, <2>1, <2>6 DEF SkipInv, PagesSkipNothing
  <2>8. PagesRepeatNothing'
    BY <2>1 DEF PagesInv, PagesRepeatNothing
  <2> QED
    BY <1>2, <2>2, <2>6, <2>7, <2>8 DEF PagesInv
<1> QED
  BY <1>4, <1>5

LEMMA StartInv ==
    ASSUME PagesInv, ~reader.on, NEW p \in Readings, StartReading(p)
    PROVE  PagesInv'
<1> DEFINE blank == Plan(p.op, p.table)
<1>1. /\ p.op \in {"find", "scan"}
      /\ p.cursor \in 0..MaxUsize \cup {None, BadCursor}
      /\ p = [blank EXCEPT !.lookup = p.lookup, !.key = p.key, !.limit = p.limit, !.cursor = p.cursor]
  BY ReadingsRead
<1>2. p = [op |-> p.op, table |-> p.table, lookup |-> p.lookup, key |-> p.key,
           value |-> p.value, limit |-> p.limit, cursor |-> p.cursor]
  <2>1. blank = [op |-> blank.op, table |-> blank.table, lookup |-> blank.lookup, key |-> blank.key,
                 value |-> blank.value, limit |-> blank.limit, cursor |-> blank.cursor]
    BY DEF Plan
  <2> HIDE DEF blank
  <2> QED
    BY <1>1, <2>1
<1>3. ValidPlan(p) /\ rows' = rows
  BY DEF StartReading
<1>4. p.cursor \in 0..MaxUsize \cup {None}
  BY <1>1, <1>3 DEF ValidPlan, GoodCursor
<1>5. reader' = [on |-> TRUE, plan |-> p, seen |-> [id \in Ids |-> 0],
                stayed |-> Ahead(Found(rows[p.table], p), p), joined |-> FALSE, left |-> FALSE]
  BY DEF StartReading, Idle
<1>6. Ahead(Found(rows[p.table], p), p) \subseteq Found(rows[p.table], p)
  BY DEF Ahead
<1>7. Found(rows[p.table], p) \subseteq Ids
  BY FoundIds
<1>8. TypeOK'
  BY <1>1, <1>2, <1>3, <1>4, <1>5, <1>6, <1>7 DEF PagesInv, TypeOK
<1>9. Selected(rows)' = Found(rows[p.table], p)
  BY <1>3, <1>5 DEF Selected
<1>10. SkipInv' /\ StayedInv'
  BY <1>5, <1>6, <1>9 DEF SkipInv, StayedInv
<1>11. AheadInv' /\ PagesRepeatNothing'
  <2>1. Ahead(Selected(rows), reader.plan)' \subseteq Ids
    BY <1>7, <1>9 DEF Ahead
  <2> QED
    BY <1>5, <2>1 DEF AheadInv, PagesRepeatNothing
<1>12. PagesSkipNothing'
  BY <1>5, <1>10 DEF SkipInv, PagesSkipNothing
<1>13. KeysUnique'
  BY <1>3 DEF PagesInv, KeysUnique
<1> QED
  BY <1>8, <1>10, <1>11, <1>12, <1>13 DEF PagesInv

\* A page: what it returns lies between its cursor and the next one, and no
\* next cursor means that nothing is left.
LEMMA PageInv ==
    ASSUME PagesInv, ReadPage
    PROVE  PagesInv'
<1> DEFINE p      == reader.plan
           S      == Selected(rows)
           offset == OffsetOf(p.cursor)
           n      == LimitOf(p.limit)
           page   == PageOf(S, offset, n)
           next   == NextCursor(offset, n, Cardinality(S))
           seen   == [id \in Ids |-> reader.seen[id] + IF id \in page THEN 1 ELSE 0]
           q      == [p EXCEPT !.cursor = IF next = None THEN @ ELSE next]
<1>1. /\ TypeOK /\ reader.on /\ rows' = rows
      /\ reader' = [reader EXCEPT !.seen = seen,
                                  !.plan.cursor = IF next = None THEN @ ELSE next,
                                  !.on = next # None]
  BY DEF PagesInv, ReadPage
<1>2. offset \in 0..MaxUsize /\ n \in 1..MaxUsize
  BY <1>1, PlanTyped
<1>3. S \in SUBSET Ids
  BY FoundIds DEF Selected
<1>4. Cardinality(S) \in 0..MaxUsize
  <2>1. CASE Ids = {}
    BY <1>3, <2>1, OrderedIds, Limits, FS_EmptySet
  <2>2. CASE Ids # {}
    BY <1>3, <2>2, RankBounded
  <2> QED
    BY <2>1, <2>2
\* Saturation is never seen: the sum is cut only past every selected row.
<1>5. IF offset + n < Cardinality(S) THEN next = offset + n /\ next \in 0..MaxUsize ELSE next = None
  BY <1>2, <1>4, Limits, Markers DEF NextCursor, SaturatingAdd
<1>6. next = None \/ next \in 0..MaxUsize
  BY <1>5
<1>7. ASSUME NEW id \in S
      PROVE  /\ Rank(S, id) \in 0..MaxUsize /\ Rank(S, id) < Cardinality(S)
             /\ id \in page <=> Rank(S, id) >= offset /\ Rank(S, id) < offset + n
  BY <1>2, <1>3, RankBounded DEF PageOf
<1>8. page \subseteq S
  BY DEF PageOf
<1>9. seen \in [Ids -> Nat]
  BY <1>1 DEF TypeOK
<1>10. ASSUME NEW id \in Ids
       PROVE  /\ id \in page => seen[id] = reader.seen[id] + 1
              /\ id \notin page => seen[id] = reader.seen[id]
  BY <1>1 DEF TypeOK
<1> HIDE DEF S, offset, n, page, next, seen
<1>11. reader' = [on |-> next # None, plan |-> q, seen |-> seen, stayed |-> reader.stayed,
                 joined |-> reader.joined, left |-> reader.left]
  BY <1>1 DEF TypeOK
<1>12. q = [op |-> p.op, table |-> p.table, lookup |-> p.lookup, key |-> p.key,
           value |-> p.value, limit |-> p.limit, cursor |-> IF next = None THEN p.cursor ELSE next]
  BY <1>1 DEF TypeOK
<1>13. /\ q.op = p.op /\ q.table = p.table /\ q.lookup = p.lookup /\ q.key = p.key
       /\ q.limit = p.limit /\ q.value = p.value
       /\ q.cursor = IF next = None THEN p.cursor ELSE next
       /\ q = [op |-> q.op, table |-> q.table, lookup |-> q.lookup, key |-> q.key,
               value |-> q.value, limit |-> q.limit, cursor |-> q.cursor]
  BY <1>12
<1> HIDE DEF q
<1>14. ValidPlan(q) /\ q.cursor \in 0..MaxUsize \cup {None} /\ q.op \in {"find", "scan"}
  <2>1. /\ ValidPlan(p) /\ p.cursor \in 0..MaxUsize \cup {None} /\ p.op \in {"find", "scan"}
    BY <1>1 DEF TypeOK
  <2>2. q.cursor \in 0..MaxUsize \cup {None}
    BY <1>6, <1>13, <2>1
  <2>3. GoodCursor(q.cursor)
    BY <2>2, Markers DEF GoodCursor
  <2>4. ValidPlan(q)
    BY <1>13, <2>1, <2>3 DEF ValidPlan, Addressed
  <2> QED
    BY <1>13, <2>1, <2>2, <2>4
<1>15. /\ reader'.on = (next # None) /\ reader'.plan = q /\ reader'.seen = seen
       /\ reader'.stayed = reader.stayed /\ reader'.joined = reader.joined
       /\ reader'.left = reader.left
       /\ reader' = [on |-> reader'.on, plan |-> reader'.plan, seen |-> reader'.seen,
                     stayed |-> reader'.stayed, joined |-> reader'.joined, left |-> reader'.left]
  BY <1>11
<1>16. TypeOK'
  BY <1>1, <1>9, <1>13, <1>14, <1>15 DEF TypeOK
<1>17. Selected(rows)' = S
  <2>1. Found(rows[q.table], q) = Found(rows[p.table], p)
    BY <1>13 DEF Found
  <2> QED
    BY <1>1, <1>15, <2>1 DEF Selected, S
<1>18. Ahead(S, p) = {id \in S : Rank(S, id) >= offset}
  BY DEF Ahead, offset
<1>19. next # None => Ahead(S, q) = {id \in S : Rank(S, id) >= offset + n}
  BY <1>5, <1>13, Markers DEF Ahead, OffsetOf
\* Nothing that stayed is passed without being returned.
<1>20. ASSUME ~reader.left, NEW id \in reader.stayed, next # None => id \notin Ahead(S, q)
       PROVE  seen[id] >= 1
  <2>1. id \in S /\ id \in Ids
    BY <1>1, <1>3, <1>20 DEF PagesInv, StayedInv, S
  <2>2. reader.seen[id] \in Nat
    BY <1>1, <2>1 DEF TypeOK
  <2>3. CASE id \in page
    BY <1>10, <2>1, <2>2, <2>3
  <2>4. CASE id \notin page
    <3>1. Rank(S, id) < offset + n
      <4>1. CASE next = None
        BY <1>2, <1>4, <1>5, <1>7, <2>1, <4>1, Limits, Markers
      <4>2. CASE next # None
        BY <1>2, <1>7, <1>19, <1>20, <2>1, <4>2, Limits
      <4> QED
        BY <4>1, <4>2
    <3>2. id \notin Ahead(S, p)
      BY <1>2, <1>7, <1>18, <2>1, <2>4, <3>1
    <3>3. reader.seen[id] >= 1
      BY <1>1, <1>20, <3>2 DEF PagesInv, SkipInv, S
    <3> QED
      BY <1>10, <2>1, <2>4, <3>3
  <2> QED
    BY <2>3, <2>4
\* Nothing is returned that was returned before.
<1>21. ASSUME ~reader.joined, NEW id \in Ids
       PROVE  seen[id] <= 1 /\ (next # None /\ id \in Ahead(S, q) => seen[id] = 0)
  <2>1. id \in Ahead(S, p) => reader.seen[id] = 0
    BY <1>1, <1>21 DEF PagesInv, AheadInv, S
  <2>2. CASE id \in page
    <3>1. id \in S
      BY <1>8, <2>2
    <3>2. id \in Ahead(S, p) /\ ~(next # None /\ id \in Ahead(S, q))
      BY <1>2, <1>7, <1>18, <1>19, <2>2, <3>1
    <3> QED
      BY <1>10, <2>1, <2>2, <3>2
  <2>3. CASE id \notin page
    <3>1. seen[id] = reader.seen[id] /\ reader.seen[id] <= 1
      BY <1>10, <1>21, <2>3 DEF PagesInv, PagesRepeatNothing
    <3>2. next # None /\ id \in Ahead(S, q) => id \in Ahead(S, p)
      BY <1>2, <1>7, <1>18, <1>19
    <3> QED
      BY <2>1, <3>1, <3>2
  <2> QED
    BY <2>2, <2>3
<1>22. SkipInv' /\ StayedInv'
  BY <1>1, <1>15, <1>17, <1>20 DEF PagesInv, SkipInv, StayedInv, S
<1>23. PagesSkipNothing'
  BY <1>15, <1>17, <1>20 DEF PagesSkipNothing
<1>24. Ahead(S, q) \subseteq Ids
  BY <1>3 DEF Ahead
<1>25. AheadInv' /\ PagesRepeatNothing'
  BY <1>15, <1>17, <1>21, <1>24 DEF AheadInv, PagesRepeatNothing
<1>26. KeysUnique'
  BY <1>1 DEF PagesInv, KeysUnique
<1> QED
  BY <1>16, <1>22, <1>23, <1>25, <1>26 DEF PagesInv

-------------------------------------------------------------------------------
(* The theorems. *)

LEMMA StepInv == PagesInv /\ [Next]_vars => PagesInv'
<1>1. ASSUME PagesInv, UNCHANGED vars PROVE PagesInv'
  BY <1>1 DEF vars, PagesInv, TypeOK, KeysUnique, SkipInv, StayedInv, AheadInv,
              PagesSkipNothing, PagesRepeatNothing, Selected
<1>2. ASSUME PagesInv, Next PROVE PagesInv'
  BY <1>2, NextSplit, MakeInv, StartInv, PageInv DEF PagesInv
<1> QED
  BY <1>1, <1>2

THEOREM PagesInvariant == Spec => []PagesInv
  BY InitInv, StepInv, PTL DEF Spec

\* The variables of Pages keep their types: what calls make of the rows
\* (Resolved, Changed) are rows, and the reader's cursor stays a cursor.
THEOREM TypeCorrect == Spec => []TypeOK
<1>1. PagesInv => TypeOK
  BY DEF PagesInv
<1> QED
  BY <1>1, PagesInvariant, PTL

\* No accepted call or batch of calls (execute_change, write_many, apply,
\* delete_by_id) makes two rows of a table share a unique key.
THEOREM UniqueTheorem == Spec => []KeysUnique
<1>1. PagesInv => KeysUnique
  BY DEF PagesInv
<1> QED
  BY <1>1, PagesInvariant, PTL

\* Paging over a selection that only grows misses none of its rows
\* (page_records), for any page sizes and writes in between.
THEOREM SkipTheorem == Spec => []PagesSkipNothing
<1>1. PagesInv => PagesSkipNothing
  BY DEF PagesInv
<1> QED
  BY <1>1, PagesInvariant, PTL

\* Paging over a selection that only shrinks returns none of its rows twice.
THEOREM RepeatTheorem == Spec => []PagesRepeatNothing
<1>1. PagesInv => PagesRepeatNothing
  BY DEF PagesInv
<1> QED
  BY <1>1, PagesInvariant, PTL

-------------------------------------------------------------------------------
(* Batches and their changes. *)

\* What an accepted pair says of its two changes: they concern different
\* rows, and a change that is not an insert names a row that is there.
PairFacts(r, p, q, only) ==
    /\ ValidBatch(KeysOf(r), KeyChanges(<<Resolved(r, p), Resolved(r, q)>>), only)
    /\ Resolved(r, p).id # Resolved(r, q).id
    /\ only <=> p.op = "insert" /\ q.op = "insert"
    /\ only \/ (p.op # "insert" /\ q.op # "insert")
    /\ only => Complete(p.value) /\ Complete(q.value)
    /\ ~only => Refusal(r, p) = "ok" /\ Refusal(r, q) = "ok"

LEMMA PairAccepted ==
    ASSUME NEW all, NEW p, NEW q, ManyCode(all, <<p, q>>) = "ok"
    PROVE  /\ p.table \in Tables /\ q.table = p.table
           /\ PairFacts(all[p.table], p, q, p.op = "insert" /\ q.op = "insert")
<1> DEFINE ps   == <<p, q>>
           r    == all[p.table]
           only == p.op = "insert" /\ q.op = "insert"
           b    == <<Resolved(r, p), Resolved(r, q)>>
<1>1. DOMAIN ps = {1, 2} /\ ps[1] = p /\ ps[2] = q /\ DOMAIN ps \subseteq Nat
  OBVIOUS
<1>2. (\A i \in DOMAIN ps : ps[i].op = "insert") <=> only
  BY <1>1
<1>3. Resolution(r, ps) = b
  BY <1>1 DEF Resolution
<1>4. q.table = p.table
  BY <1>1 DEF ManyCode
<1>5. /\ p.table \in Tables
      /\ only \/ (p.op # "insert" /\ q.op # "insert")
      /\ only => Complete(p.value) /\ Complete(q.value)
      /\ ~only => Refusal(r, p) = "ok" /\ Refusal(r, q) = "ok"
      /\ ValidBatch(KeysOf(r), KeyChanges(b), only)
  <2> HIDE DEF ps, b, only
  <2>1. LET t == ps[1].table
            o == \A i \in DOMAIN ps : ps[i].op = "insert"
        IN  /\ t \in Tables
            /\ o \/ \A i \in DOMAIN ps : ps[i].op # "insert"
            /\ \A i \in DOMAIN ps : IF o THEN Complete(ps[i].value)
                                     ELSE Refusal(all[t], ps[i]) = "ok"
            /\ ValidBatch(KeysOf(all[t]), KeyChanges(Resolution(all[t], ps)), o)
    BY <1>1, ManyAccepts DEF ps
  <2>2. (\A i \in DOMAIN ps : ps[i].op = "insert") = only
    BY <1>2 DEF only
  <2> QED
    BY <1>1, <1>3, <2>1, <2>2
<1>6. Resolved(r, p).id # Resolved(r, q).id
  <2>1. \A i, j \in DOMAIN b : i # j => b[i].id # b[j].id
    <3> HIDE DEF b, only
    <3>1. only \in BOOLEAN
      BY DEF only
    <3> QED
      BY <1>5, <3>1, BatchDistinct
  <2> QED
    BY <2>1
<1> QED
  BY <1>4, <1>5, <1>6 DEF PairFacts

\* The checks of a pair do not depend on the order.
LEMMA PairSwapped ==
    ASSUME NEW k, NEW x, NEW y, NEW only \in BOOLEAN, ValidBatch(k, KeyChanges(<<x, y>>), only)
    PROVE  ValidBatch(k, KeyChanges(<<y, x>>), only)
<1> DEFINE b == KeyChanges(<<x, y>>)
           c == KeyChanges(<<y, x>>)
<1>1. /\ DOMAIN b = {1, 2} /\ DOMAIN c = {1, 2}
      /\ c[1] = b[2] /\ c[2] = b[1]
  BY DEF KeyChanges
<1> HIDE DEF b, c
<1>2. ValidBatch(k, b, only)
  BY DEF b
<1>3. ValidBatch(k, c, only)
  BY <1>1, <1>2 DEF ValidBatch
<1> QED
  BY <1>3 DEF c

\* So write_many accepts the pair in the other order.
LEMMA PairCode ==
    ASSUME NEW all, NEW p, NEW q, p.table \in Tables, q.table = p.table,
           PairFacts(all[p.table], p, q, p.op = "insert" /\ q.op = "insert")
    PROVE  ManyCode(all, <<q, p>>) = "ok"
<1> DEFINE ps   == <<q, p>>
           t    == ps[1].table
           r    == all[t]
           only == \A i \in DOMAIN ps : ps[i].op = "insert"
           Code(i) == IF only THEN InsertCode(ps[i]) ELSE ChangeCode(r, ps, i)
           refused == {i \in DOMAIN ps : Code(i) # "ok"}
<1>1. DOMAIN ps = {1, 2} /\ ps[1] = q /\ ps[2] = p /\ t = p.table /\ r = all[p.table]
  OBVIOUS
<1>2. only = (p.op = "insert" /\ q.op = "insert")
  BY <1>1
<1>3. /\ ValidBatch(KeysOf(r), KeyChanges(<<Resolved(r, p), Resolved(r, q)>>), only)
      /\ Resolved(r, p).id # Resolved(r, q).id
      /\ only \/ (p.op # "insert" /\ q.op # "insert")
      /\ only => Complete(p.value) /\ Complete(q.value)
      /\ ~only => Refusal(r, p) = "ok" /\ Refusal(r, q) = "ok"
  BY <1>1, <1>2 DEF PairFacts
<1> HIDE DEF ps, t, r, only
<1>4. \A i \in DOMAIN ps : Code(i) = "ok"
  <2>1. CASE only
    BY <1>1, <1>3, <2>1 DEF InsertCode
  <2>2. CASE ~only
    <3>1. ChangeCode(r, ps, 1) = "ok"
      BY <1>1, <1>3, <2>2 DEF ChangeCode
    <3>2. ChangeCode(r, ps, 2) = "ok"
      <4>1. \A j \in 1..(2 - 1) : j = 1
        OBVIOUS
      <4> QED
        BY <1>1, <1>3, <2>2, <4>1 DEF ChangeCode
    <3> QED
      BY <1>1, <2>2, <3>1, <3>2
  <2> QED
    BY <2>1, <2>2
<1>5. refused = {}
  BY <1>4
<1>6. StoreCode(r, Resolution(r, ps), only) = "ok"
  <2>1. Resolution(r, ps) = <<Resolved(r, q), Resolved(r, p)>>
    BY <1>1 DEF Resolution, ps
  <2>2. ValidBatch(KeysOf(r), KeyChanges(<<Resolved(r, q), Resolved(r, p)>>), only)
    <3>1. only \in BOOLEAN
      BY DEF only
    <3> QED
      BY <1>3, <3>1, PairSwapped
  <2> QED
    BY <2>1, <2>2 DEF StoreCode
<1>7. ManyCode(all, ps) =
        IF \E i \in DOMAIN ps : ps[i].table # t THEN "invalid_plan"
        ELSE IF ~only /\ \E i \in DOMAIN ps : ps[i].op = "insert" THEN "invalid_plan"
        ELSE IF t \notin Tables THEN IF only THEN "invalid_plan" ELSE "io_error"
        ELSE IF refused # {} THEN Code(Min(refused))
        ELSE StoreCode(r, Resolution(r, ps), only)
  BY DEF ManyCode, t, r, only
<1>8. (\A i \in DOMAIN ps : ps[i].table = t) /\ t \in Tables
  BY <1>1
<1>9. only \/ \A i \in DOMAIN ps : ps[i].op # "insert"
  BY <1>1, <1>3
<1> HIDE DEF refused, Code
<1>10. ManyCode(all, ps) = "ok"
  BY <1>5, <1>6, <1>7, <1>8, <1>9
<1> QED
  BY <1>10 DEF ps

\* The rows after a pair of changes to different rows.
LEMMA PairChanged ==
    ASSUME NEW r, NEW x, NEW y, x.id # y.id
    PROVE  Changed(r, <<x, y>>) =
             [id \in Ids |-> IF id = x.id THEN x.row ELSE IF id = y.id THEN y.row ELSE r[id]]
<1> DEFINE b == <<x, y>>
<1>1. DOMAIN b = {1, 2} /\ b[1] = x /\ b[2] = y
  OBVIOUS
<1> HIDE DEF b
<1>2. ASSUME NEW id \in Ids
      PROVE  (IF \E i \in DOMAIN b : b[i].id = id
              THEN b[CHOOSE i \in DOMAIN b : b[i].id = id].row ELSE r[id])
             = IF id = x.id THEN x.row ELSE IF id = y.id THEN y.row ELSE r[id]
  BY <1>1
<1> QED
  BY <1>2 DEF Changed, b

LEMMA OneChanged ==
    ASSUME NEW r, NEW x
    PROVE  Changed(r, <<x>>) = [id \in Ids |-> IF id = x.id THEN x.row ELSE r[id]]
<1> DEFINE b == <<x>>
<1>1. DOMAIN b = {1} /\ b[1] = x
  OBVIOUS
<1> HIDE DEF b
<1>2. ASSUME NEW id \in Ids
      PROVE  (IF \E i \in DOMAIN b : b[i].id = id
              THEN b[CHOOSE i \in DOMAIN b : b[i].id = id].row ELSE r[id])
             = IF id = x.id THEN x.row ELSE r[id]
  BY <1>1
<1> QED
  BY <1>2 DEF Changed, b

\* A change that addresses a row by a unique lookup means the same row, and
\* makes the same of it, after another row was changed: in either state it
\* is the only row the lookup finds.
LEMMA ResolvedSame ==
    ASSUME NEW r, NEW x, NEW q, q.op \in WriteOps, q.op = "insert" \/ Refusal(r, q) = "ok",
           x.id # Resolved(r, q).id,
           UniqueKeys(KeysOf(Changed(r, <<x>>))),
           \A id \in Ids : r[id] \in Row \cup {NoRow},
           x.row \in Row \cup {NoRow}
    PROVE  Resolved(Changed(r, <<x>>), q) = Resolved(r, q)
<1> DEFINE s == Changed(r, <<x>>)
<1>1. s = [id \in Ids |-> IF id = x.id THEN x.row ELSE r[id]]
  BY OneChanged
<1>2. CASE q.op \in {"insert", "upsert"}
  BY <1>2 DEF Resolved
<1>3. CASE q.op \in {"patch", "remove"}
  <2> DEFINE n == Named(r, q)
             l == q.lookup
  <2>1. /\ l \in UniqueLookups /\ Found(r, q) # {} /\ l # None
        /\ Resolved(r, q).id = n
    BY <1>3, NoneIsNoLookup DEF Refusal, ValidPlan, Addressed, Resolved, Lookups
  <2>2. n \in Found(r, q)
    BY <2>1 DEF Named
  <2>3. n \in Ids /\ r[n] # NoRow /\ FieldOf(r, n, l) = q.key[l]
    BY <2>1, <2>2 DEF Found, Live
  <2>4. s[n] = r[n]
    BY <1>1, <2>1, <2>3
  <2> HIDE DEF s, n
  <2>5. n \in Found(s, q)
    BY <2>1, <2>3, <2>4 DEF Found, Live, FieldOf
  <2>6. \A id \in Ids : s[id] \in Row \cup {NoRow}
    BY <1>1 DEF s
  <2>7. ASSUME NEW m \in Found(s, q) PROVE m = n
    <3>1. m \in Ids /\ s[m] # NoRow /\ FieldOf(s, m, l) = FieldOf(s, n, l) /\ s[n] # NoRow
      BY <2>1, <2>5, <2>7 DEF Found, Live
    <3>2. CASE l = "id"
      BY <3>1, <3>2 DEF FieldOf
    <3>3. CASE l = "key"
      <4>1. s[m] \in Row /\ s[n] \in Row
        BY <2>3, <2>6, <3>1
      <4>2. s[m].key = s[n].key /\ s[m].key \in Keys
        BY <3>1, <3>3, <4>1 DEF FieldOf, Row
      <4>3. KeysOf(s)[m] = s[m].key /\ KeysOf(s)[n] = s[n].key
        BY <2>3, <3>1 DEF KeysOf, KeyOf
      <4>4. UniqueKeys(KeysOf(s))
        BY DEF s
      <4> QED
        BY <2>3, <3>1, <4>2, <4>3, <4>4, NoRowAssumption DEF UniqueKeys
    <3> QED
      BY <2>1, <3>2, <3>3 DEF UniqueLookups
  <2>8. Named(s, q) = n
    BY <2>5, <2>7 DEF Named
  <2>9. Resolved(s, q) = Resolved(r, q)
    BY <1>3, <2>4, <2>8 DEF Resolved, n
  <2> QED
    BY <2>9 DEF s
<1> QED
  BY <1>2, <1>3 DEF WriteOps

(***************************************************************************)
(* Of the changes of a write_many, whose plans are all resolved before     *)
(* the first is applied: their order does not matter, and they do what the *)
(* same calls do one after the other, for any rows the accepted calls can  *)
(* have left.                                                              *)
(***************************************************************************)
THEOREM BatchesAreTheirChanges == Spec => []BatchIsItsChanges
<1>1. PagesInv => BatchIsItsChanges
  <2> SUFFICES ASSUME PagesInv, NEW t \in Tables, NEW p \in Calls, NEW q \in Calls,
                      p.table = t, q.table = t, ManyCode(rows, <<p, q>>) = "ok"
               PROVE  LET r        == rows[t]
                          After(s) == Changed(r, Resolution(r, s))
                          first    == Changed(r, <<Resolved(r, p)>>)
                      IN  /\ ManyCode(rows, <<q, p>>) = "ok"
                          /\ After(<<q, p>>) = After(<<p, q>>)
                          /\ PlanCode(r, p) = "ok" /\ PlanCode(first, q) = "ok" =>
                               Changed(first, <<Resolved(first, q)>>) = After(<<p, q>>)
    BY DEF BatchIsItsChanges
  <2> DEFINE r     == rows[t]
             x     == Resolved(r, p)
             y     == Resolved(r, q)
             first == Changed(r, <<x>>)
             only  == p.op = "insert" /\ q.op = "insert"
  <2>1. PairFacts(r, p, q, only)
    BY PairAccepted
  <2>2. /\ x.id # y.id
        /\ p.op = "insert" \/ Refusal(r, p) = "ok"
        /\ q.op = "insert" \/ Refusal(r, q) = "ok"
        /\ p.op = "insert" => Complete(p.value)
    BY <2>1 DEF PairFacts
  <2>3. ManyCode(rows, <<q, p>>) = "ok"
    BY <2>1, PairCode
  <2>4. Resolution(r, <<p, q>>) = <<x, y>> /\ Resolution(r, <<q, p>>) = <<y, x>>
    BY DEF Resolution
  <2>5. r \in [Ids -> Row \cup {NoRow}] /\ UniqueKeys(KeysOf(r))
    BY DEF PagesInv, TypeOK, KeysUnique
  <2>6. p.op \in WriteOps /\ Typed(p.value) /\ q.op \in WriteOps
    BY CallsWrite
  <2>7. x.row \in Row \cup {NoRow}
    <3> HIDE DEF r
    <3> QED
      BY <2>2, <2>5, <2>6, ResolvedTyped
  <2> HIDE DEF r, x, y
  <2>8. Changed(r, <<y, x>>) = Changed(r, <<x, y>>)
    <3>1. Changed(r, <<x, y>>) =
            [id \in Ids |-> IF id = x.id THEN x.row ELSE IF id = y.id THEN y.row ELSE r[id]]
      BY <2>2, PairChanged
    <3>2. Changed(r, <<y, x>>) =
            [id \in Ids |-> IF id = y.id THEN y.row ELSE IF id = x.id THEN x.row ELSE r[id]]
      BY <2>2, PairChanged
    <3> QED
      BY <2>2, <3>1, <3>2
  <2>9. ASSUME PlanCode(r, p) = "ok"
        PROVE  Changed(first, <<Resolved(first, q)>>) = Changed(r, <<x, y>>)
    <3>1. ValidBatch(KeysOf(r), KeyChanges(<<x>>), p.op = "insert")
      BY <2>6, <2>9, PlanAccepts DEF x
    <3>2. UniqueKeys(KeysOf(first))
      <4> DEFINE o == p.op = "insert"
      <4>1. o \in BOOLEAN /\ ValidBatch(KeysOf(r), KeyChanges(<<x>>), o)
        BY <3>1
      <4> HIDE DEF o
      <4> QED
        BY <2>5, <4>1, ChangedUnique
    <3>3. Resolved(first, q) = y
      BY <2>2, <2>5, <2>6, <2>7, <3>2, ResolvedSame DEF y
    <3>4. first = [id \in Ids |-> IF id = x.id THEN x.row ELSE r[id]]
      BY OneChanged
    <3> HIDE DEF first
    <3>5. Changed(first, <<y>>) = [id \in Ids |-> IF id = y.id THEN y.row ELSE first[id]]
      BY OneChanged
    <3>6. Changed(r, <<x, y>>) =
            [id \in Ids |-> IF id = x.id THEN x.row ELSE IF id = y.id THEN y.row ELSE r[id]]
      BY <2>2, PairChanged
    <3> QED
      BY <2>2, <3>3, <3>4, <3>5, <3>6
  <2> QED
    BY <2>3, <2>4, <2>8, <2>9 DEF r, x, y
<1> QED
  BY <1>1, PagesInvariant, PTL
================================================================================
