-------------------------- MODULE RuntimeIndex_proofs --------------------------
(***************************************************************************)
(* The index kept operation by operation is the index rebuilt from the     *)
(* lines, for any table, any lookups and any batches.                      *)
(***************************************************************************)
EXTENDS RuntimeIndex, TLAPS

\* At most one line of an id is its last.
LEMMA LastUnique ==
    ASSUME NEW s \in Seq(Operation), NEW id,
           NEW i \in DOMAIN s, IsLast(s, id, i),
           NEW j \in DOMAIN s, IsLast(s, id, j)
    PROVE  i = j
<1>1. i \in 1..Len(s) /\ j \in 1..Len(s) /\ Len(s) \in Nat
  OBVIOUS
<1>2. ~(i < j) /\ ~(j < i)
  BY <1>1 DEF IsLast
<1>3. QED
  BY <1>1, <1>2

\* The row and the pointer of an id whose last line is known.
LEMMA LastIsLive ==
    ASSUME NEW s \in Seq(Operation), NEW id \in Ids, NEW i \in DOMAIN s, IsLast(s, id, i)
    PROVE  /\ Live(s)[id] = s[i].row
           /\ s[i].row # None => Pointers(s)[id] = i
           /\ s[i].row = None => Pointers(s)[id] = None
<1>1. (CHOOSE j \in DOMAIN s : IsLast(s, id, j)) = i
  <2>1. /\ (CHOOSE j \in DOMAIN s : IsLast(s, id, j)) \in DOMAIN s
        /\ IsLast(s, id, CHOOSE j \in DOMAIN s : IsLast(s, id, j))
    OBVIOUS
  <2>2. QED
    BY <2>1, LastUnique
<1>2. QED
  BY <1>1 DEF Live, Pointers

\* An id without a line has no row.
LEMMA NoLineNoRow ==
    ASSUME NEW s \in Seq(Operation), NEW id \in Ids,
           ~ \E i \in DOMAIN s : IsLast(s, id, i)
    PROVE  Live(s)[id] = None /\ Pointers(s)[id] = None
  BY DEF Live, Pointers

\* Rows are rows, pointers are positions of lines.
LEMMA LiveType ==
    ASSUME NEW s \in Seq(Operation)
    PROVE  /\ Live(s) \in [Ids -> Row \cup {None}]
           /\ Pointers(s) \in [Ids -> {None} \cup Nat]
           /\ \A id \in Ids : Live(s)[id] # None <=> Pointers(s)[id] # None
           /\ \A id \in Ids : Live(s)[id] # None =>
                /\ Pointers(s)[id] \in DOMAIN s
                /\ s[Pointers(s)[id]].row = Live(s)[id]
<1>1. ASSUME NEW id \in Ids
      PROVE  /\ Live(s)[id] \in Row \cup {None}
             /\ Pointers(s)[id] \in {None} \cup Nat
             /\ Live(s)[id] # None <=> Pointers(s)[id] # None
             /\ Live(s)[id] # None =>
                  Pointers(s)[id] \in DOMAIN s /\ s[Pointers(s)[id]].row = Live(s)[id]
  <2>1. CASE \E i \in DOMAIN s : IsLast(s, id, i)
    <3>1. PICK i \in DOMAIN s : IsLast(s, id, i)
      BY <2>1
    <3>2. s[i] \in Operation /\ i \in Nat
      OBVIOUS
    <3>3. s[i].row \in Row \cup {None} /\ None \notin Nat
      BY <3>2, NoneAssumption DEF Operation
    <3>4. QED
      BY <3>1, <3>2, <3>3, LastIsLive
  <2>2. CASE ~ \E i \in DOMAIN s : IsLast(s, id, i)
    BY <2>2, NoLineNoRow
  <2>3. QED
    BY <2>1, <2>2
<1>2. Live(s) = [id \in Ids |-> Live(s)[id]] /\ Pointers(s) = [id \in Ids |-> Pointers(s)[id]]
  BY DEF Live, Pointers
<1>3. QED
  BY <1>1, <1>2

\* One more line: the row of its id is that of the line, the others stay.
LEMMA LiveAppend ==
    ASSUME NEW s \in Seq(Operation), NEW op \in Operation
    PROVE  /\ Append(s, op) \in Seq(Operation)
           /\ Live(Append(s, op)) = [Live(s) EXCEPT ![op.id] = op.row]
           /\ Pointers(Append(s, op)) =
                [Pointers(s) EXCEPT ![op.id] = IF op.row # None THEN Len(s) + 1 ELSE None]
<1> DEFINE t == Append(s, op)
<1>1. /\ t \in Seq(Operation) /\ Len(t) = Len(s) + 1 /\ Len(s) \in Nat
      /\ DOMAIN s = 1..Len(s) /\ DOMAIN t = 1..(Len(s) + 1)
      /\ t[Len(s) + 1] = op /\ \A i \in 1..Len(s) : t[i] = s[i]
  OBVIOUS
<1>2. op.id \in Ids /\ op.row \in Row \cup {None}
  BY DEF Operation
<1> HIDE DEF t
<1>3. IsLast(t, op.id, Len(s) + 1)
  BY <1>1 DEF IsLast
<1>4. Live(t)[op.id] = op.row /\ Pointers(t)[op.id] = IF op.row # None THEN Len(s) + 1 ELSE None
  <2>1. Len(s) + 1 \in DOMAIN t
    BY <1>1
  <2>2. QED
    BY <1>1, <1>2, <1>3, <2>1, LastIsLive
<1>5. ASSUME NEW id \in Ids, id # op.id
      PROVE  Live(t)[id] = Live(s)[id] /\ Pointers(t)[id] = Pointers(s)[id]
  <2>1. \A i \in DOMAIN s : IsLast(t, id, i) <=> IsLast(s, id, i)
    BY <1>1, <1>5 DEF IsLast
  <2>2. ~IsLast(t, id, Len(s) + 1)
    BY <1>1, <1>5 DEF IsLast
  <2>3. CASE \E i \in DOMAIN s : IsLast(s, id, i)
    <3>1. PICK i \in DOMAIN s : IsLast(s, id, i)
      BY <2>3
    <3>2. i \in DOMAIN t /\ IsLast(t, id, i) /\ t[i] = s[i]
      BY <1>1, <2>1, <3>1
    <3>3. QED
      BY <1>1, <3>1, <3>2, LastIsLive
  <2>4. CASE ~ \E i \in DOMAIN s : IsLast(s, id, i)
    <3>1. ~ \E i \in DOMAIN t : IsLast(t, id, i)
      BY <1>1, <2>1, <2>2, <2>4
    <3>2. QED
      BY <1>1, <2>4, <3>1, NoLineNoRow
  <2>5. QED
    BY <2>3, <2>4
<1>6. /\ Live(s) \in [Ids -> Row \cup {None}] /\ Live(t) \in [Ids -> Row \cup {None}]
      /\ Pointers(s) \in [Ids -> {None} \cup Nat] /\ Pointers(t) \in [Ids -> {None} \cup Nat]
  BY <1>1, LiveType
<1>7. Live(t) = [Live(s) EXCEPT ![op.id] = op.row]
  BY <1>2, <1>4, <1>5, <1>6
<1>8. Pointers(t) = [Pointers(s) EXCEPT ![op.id] = IF op.row # None THEN Len(s) + 1 ELSE None]
  BY <1>2, <1>4, <1>5, <1>6
<1>9. QED
  BY <1>1, <1>7, <1>8 DEF t

-------------------------------------------------------------------------------
(* The index of rows, whatever lines they come from. *)

RowsSet == [Ids -> Row \cup {None}]

\* A row has keys, and they are lookup keys.
LEMMA KeysOfRow ==
    ASSUME NEW row \in Row
    PROVE  KeysOf(row) \in SUBSET LookupKey /\ KeysOf(row) # {} /\ KeysOf(row) # None
<1>1. KeysOf(row) \in SUBSET LookupKey
  BY DEF KeysOf, LookupKey, Row
<1>2. KeysOf(row) # {}
  BY FieldAssumption DEF KeysOf
<1>3. QED
  BY <1>1, <1>2, NoneAssumption

\* The maps of rows have their types.
LEMMA MapTypes ==
    ASSUME NEW rows \in RowsSet
    PROVE  /\ IdsUnder(rows) \in [LookupKey -> SUBSET Ids]
           /\ KeysHeld(rows) \in [Ids -> {None} \cup SUBSET LookupKey]
<1>1. ASSUME NEW id \in Ids
      PROVE  (IF rows[id] # None THEN KeysOf(rows[id]) ELSE None) \in {None} \cup SUBSET LookupKey
  BY KeysOfRow DEF RowsSet
<1>2. QED
  BY <1>1 DEF IdsUnder, KeysHeld

\* Taking the keys of a row away.
LEMMA Removed ==
    ASSUME NEW x \in Index, NEW rows \in RowsSet, Holds(x, rows),
           NEW id \in Ids, NEW old \in {None, rows[id]}
    PROVE  /\ RemoveLookups(x, id, old) \in Index
           /\ RemoveLookups(x, id, old).source = x.source
           /\ RemoveLookups(x, id, old).ptr = x.ptr
           /\ Holds(RemoveLookups(x, id, old), [rows EXCEPT ![id] = None])
<1> DEFINE ks == IF old # None THEN KeysOf(old)
                 ELSE IF x.keys[id] # None THEN x.keys[id] ELSE LookupKey
           gone == [rows EXCEPT ![id] = None]
           y == RemoveKeys(x, id, ks)
<1>1. RemoveLookups(x, id, old) = y
  BY DEF RemoveLookups
<1>2. gone \in RowsSet /\ gone[id] = None /\ \A i \in Ids \ {id} : gone[i] = rows[i]
  BY DEF RowsSet
<1>3. rows[id] # None => KeysOf(rows[id]) \subseteq ks
  BY KeysOfRow DEF Holds, KeysHeld, RowsSet
<1> HIDE DEF ks, gone
<1>4. /\ y.source = x.source /\ y.ptr = x.ptr
      /\ y.ids = [k \in LookupKey |-> IF k \in ks THEN x.ids[k] \ {id} ELSE x.ids[k]]
      /\ y.keys = [x.keys EXCEPT ![id] = None]
      /\ y = [source |-> x.source, ptr |-> x.ptr, ids |-> y.ids, keys |-> y.keys]
  <2> DEFINE F == [k \in LookupKey |-> IF k \in ks THEN x.ids[k] \ {id} ELSE x.ids[k]]
  <2>1. y = [x EXCEPT !.ids = F, !.keys[id] = None]
    BY DEF RemoveKeys
  <2> HIDE DEF F, y
  <2>2. y = [source |-> x.source, ptr |-> x.ptr, ids |-> F, keys |-> [x.keys EXCEPT ![id] = None]]
    BY <2>1 DEF Index
  <2>3. QED
    BY <2>2 DEF F
<1>5. y.ids = IdsUnder(gone)
  <2>1. ASSUME NEW k \in LookupKey
        PROVE  (IF k \in ks THEN x.ids[k] \ {id} ELSE x.ids[k])
                 = {i \in Ids : gone[i] # None /\ k \in KeysOf(gone[i])}
    <3>1. x.ids[k] = {i \in Ids : rows[i] # None /\ k \in KeysOf(rows[i])}
      BY DEF Holds, IdsUnder
    <3>2. QED
      BY <3>1, <1>2, <1>3
  <2>2. QED
    BY <2>1, <1>4 DEF IdsUnder
<1>6. y.keys = KeysHeld(gone)
  <2>1. x.keys = KeysHeld(rows)
    BY DEF Holds
  <2>2. ASSUME NEW i \in Ids
        PROVE  [x.keys EXCEPT ![id] = None][i]
                 = IF gone[i] # None THEN KeysOf(gone[i]) ELSE None
    BY <2>1, <1>2 DEF KeysHeld
  <2>3. DOMAIN [x.keys EXCEPT ![id] = None] = Ids
    BY <2>1 DEF KeysHeld
  <2>4. QED
    BY <2>2, <2>3, <1>4 DEF KeysHeld
<1>7. y \in Index
  BY <1>2, <1>4, <1>5, <1>6, MapTypes DEF Index
<1>8. QED
  BY <1>1, <1>4, <1>5, <1>6, <1>7 DEF Holds, gone

\* Adding the keys of a new row.
LEMMA Inserted ==
    ASSUME NEW x \in Index, NEW rows \in RowsSet, Holds(x, rows),
           NEW id \in Ids, rows[id] = None, NEW row \in Row
    PROVE  /\ InsertLookups(x, id, row) \in Index
           /\ InsertLookups(x, id, row).source = x.source
           /\ InsertLookups(x, id, row).ptr = x.ptr
           /\ Holds(InsertLookups(x, id, row), [rows EXCEPT ![id] = row])
<1> DEFINE more == [rows EXCEPT ![id] = row]
           y == InsertLookups(x, id, row)
<1>1. row # None
  BY NoneAssumption
<1>2. more \in RowsSet /\ more[id] = row /\ \A i \in Ids \ {id} : more[i] = rows[i]
  BY DEF RowsSet
<1> HIDE DEF more
<1>4. /\ y.source = x.source /\ y.ptr = x.ptr
      /\ y.ids = [k \in LookupKey |-> IF k \in KeysOf(row) THEN x.ids[k] \cup {id} ELSE x.ids[k]]
      /\ y.keys = [x.keys EXCEPT ![id] = KeysOf(row)]
      /\ y = [source |-> x.source, ptr |-> x.ptr, ids |-> y.ids, keys |-> y.keys]
  <2> DEFINE F == [k \in LookupKey |-> IF k \in KeysOf(row) THEN x.ids[k] \cup {id} ELSE x.ids[k]]
  <2>1. y = [x EXCEPT !.ids = F, !.keys[id] = KeysOf(row)]
    BY DEF InsertLookups
  <2> HIDE DEF F, y
  <2>2. y = [source |-> x.source, ptr |-> x.ptr, ids |-> F, keys |-> [x.keys EXCEPT ![id] = KeysOf(row)]]
    BY <2>1 DEF Index
  <2>3. QED
    BY <2>2 DEF F
<1>5. y.ids = IdsUnder(more)
  <2>1. ASSUME NEW k \in LookupKey
        PROVE  (IF k \in KeysOf(row) THEN x.ids[k] \cup {id} ELSE x.ids[k])
                 = {i \in Ids : more[i] # None /\ k \in KeysOf(more[i])}
    <3>1. x.ids[k] = {i \in Ids : rows[i] # None /\ k \in KeysOf(rows[i])}
      BY DEF Holds, IdsUnder
    <3>2. QED
      BY <3>1, <1>1, <1>2
  <2>2. QED
    BY <2>1, <1>4 DEF IdsUnder
<1>6. y.keys = KeysHeld(more)
  <2>1. x.keys = KeysHeld(rows)
    BY DEF Holds
  <2>2. ASSUME NEW i \in Ids
        PROVE  [x.keys EXCEPT ![id] = KeysOf(row)][i]
                 = IF more[i] # None THEN KeysOf(more[i]) ELSE None
    BY <2>1, <1>1, <1>2 DEF KeysHeld
  <2>3. DOMAIN [x.keys EXCEPT ![id] = KeysOf(row)] = Ids
    BY <2>1 DEF KeysHeld
  <2>4. QED
    BY <2>2, <2>3, <1>4 DEF KeysHeld
<1>7. y \in Index
  BY <1>2, <1>4, <1>5, <1>6, MapTypes DEF Index
<1>8. QED
  BY <1>4, <1>5, <1>6, <1>7 DEF Holds, more

\* apply_operation makes of the maps of some rows the maps of the rows after the
\* operation, if the old record it is given is right or missing.
LEMMA Applied ==
    ASSUME NEW x \in Index, NEW rows \in RowsSet, Holds(x, rows),
           NEW op \in Operation, NEW p \in Nat, NEW old \in {None, rows[op.id]},
           x.ptr[op.id] # None <=> rows[op.id] # None
    PROVE  /\ ApplyOperation(x, op, p, old) \in Index
           /\ ApplyOperation(x, op, p, old).source = x.source
           /\ ApplyOperation(x, op, p, old).ptr =
                [x.ptr EXCEPT ![op.id] = IF op.row # None THEN p ELSE None]
           /\ Holds(ApplyOperation(x, op, p, old), [rows EXCEPT ![op.id] = op.row])
<1> DEFINE gone == [rows EXCEPT ![op.id] = None]
<1>1. op.id \in Ids /\ op.row \in Row \cup {None} /\ None \notin Row
  BY NoneAssumption DEF Operation
<1>2. gone \in RowsSet /\ gone[op.id] = None
      /\ [gone EXCEPT ![op.id] = op.row] = [rows EXCEPT ![op.id] = op.row]
  BY <1>1 DEF RowsSet
<1>3. ASSUME NEW z \in Index, NEW q \in Nat \cup {None}
      PROVE  /\ [z EXCEPT !.ptr[op.id] = q] \in Index
             /\ [z EXCEPT !.ptr[op.id] = q].source = z.source
             /\ [z EXCEPT !.ptr[op.id] = q].ptr = [z.ptr EXCEPT ![op.id] = q]
             /\ \A r : Holds(z, r) => Holds([z EXCEPT !.ptr[op.id] = q], r)
  BY <1>1 DEF Index, Holds
<1>4. CASE op.row # None
  <2> DEFINE y == IF x.ptr[op.id] # None THEN RemoveLookups(x, op.id, old) ELSE x
  <2>1. y \in Index /\ y.source = x.source /\ y.ptr = x.ptr /\ Holds(y, gone)
    <3>1. CASE x.ptr[op.id] # None
      BY <3>1, <1>1, Removed
    <3>2. CASE x.ptr[op.id] = None
      <4>1. gone = rows
        BY <3>2, <1>1 DEF RowsSet
      <4>2. QED
        BY <3>2, <4>1
    <3>3. QED
      BY <3>1, <3>2
  <2> DEFINE z == [y EXCEPT !.ptr[op.id] = p]
  <2> HIDE DEF y, gone
  <2>2. z \in Index /\ z.source = x.source /\ z.ptr = [x.ptr EXCEPT ![op.id] = p] /\ Holds(z, gone)
    BY <2>1, <1>3
  <2> HIDE DEF z
  <2>3. op.row \in Row
    BY <1>1, <1>4
  <2>4. /\ InsertLookups(z, op.id, op.row) \in Index
        /\ InsertLookups(z, op.id, op.row).source = z.source
        /\ InsertLookups(z, op.id, op.row).ptr = z.ptr
        /\ Holds(InsertLookups(z, op.id, op.row), [gone EXCEPT ![op.id] = op.row])
    BY <2>2, <2>3, <1>1, <1>2, Inserted
  <2>5. ApplyOperation(x, op, p, old) = InsertLookups(z, op.id, op.row)
    BY <1>4 DEF ApplyOperation, y, z
  <2>6. QED
    BY <2>2, <2>4, <2>5, <1>2, <1>4
<1>5. CASE op.row = None
  <2> DEFINE z == [x EXCEPT !.ptr[op.id] = None]
  <2>2. z \in Index /\ z.source = x.source /\ z.ptr = [x.ptr EXCEPT ![op.id] = None] /\ Holds(z, rows)
    BY <1>3
  <2> HIDE DEF z
  <2>3. ApplyOperation(x, op, p, old) = RemoveLookups(z, op.id, old)
    BY <1>5 DEF ApplyOperation, z
  <2>4. /\ RemoveLookups(z, op.id, old) \in Index
        /\ RemoveLookups(z, op.id, old).source = z.source
        /\ RemoveLookups(z, op.id, old).ptr = z.ptr
        /\ Holds(RemoveLookups(z, op.id, old), gone)
    BY <2>2, <1>1, Removed
  <2>5. QED
    BY <2>2, <2>3, <2>4, <1>5
<1>6. QED
  BY <1>4, <1>5

-------------------------------------------------------------------------------
(* The index of lines. *)

\* What a rebuild makes: the index of the live rows, with their pointers.
LEMMA IndexFacts ==
    ASSUME NEW s \in Seq(Operation)
    PROVE  /\ IndexOf(s) \in Index
           /\ IndexOf(s).source = s
           /\ IndexOf(s).ptr = Pointers(s)
           /\ Holds(IndexOf(s), Live(s))
           /\ BuildCache(s) \in Cache
           /\ ToCache(IndexOf(s)) = BuildCache(s)
<1> DEFINE c == BuildCache(s)
           x == IndexOf(s)
<1>1. Live(s) \in RowsSet /\ Pointers(s) \in [Ids -> {None} \cup Nat]
  BY LiveType DEF RowsSet
<1>2. /\ c.source = s /\ c.ptr = Pointers(s) /\ c.lookups \in SUBSET (LookupKey \X Ids)
      /\ c = [source |-> s, ptr |-> Pointers(s), lookups |-> c.lookups]
      /\ \A k \in LookupKey, id \in Ids :
           <<k, id>> \in c.lookups <=> Live(s)[id] # None /\ k \in KeysOf(Live(s)[id])
  BY DEF BuildCache
<1>3. c \in Cache
  BY <1>1, <1>2 DEF Cache
<1>4. x = FromCache(c)
  BY DEF IndexOf
<1> HIDE DEF c, x
<1>5. /\ x.source = s /\ x.ptr = Pointers(s)
      /\ x.ids = [k \in LookupKey |-> {id \in Ids : <<k, id>> \in c.lookups}]
      /\ x.keys = [id \in Ids |-> IF \E k \in LookupKey : <<k, id>> \in c.lookups
                                  THEN {k \in LookupKey : <<k, id>> \in c.lookups} ELSE None]
      /\ x = [source |-> x.source, ptr |-> x.ptr, ids |-> x.ids, keys |-> x.keys]
  BY <1>2, <1>4 DEF FromCache
<1>6. x.ids = IdsUnder(Live(s))
  BY <1>2, <1>5 DEF IdsUnder
<1>7. x.keys = KeysHeld(Live(s))
  <2>1. ASSUME NEW id \in Ids
        PROVE  (IF \E k \in LookupKey : <<k, id>> \in c.lookups
                THEN {k \in LookupKey : <<k, id>> \in c.lookups} ELSE None)
                 = IF Live(s)[id] # None THEN KeysOf(Live(s)[id]) ELSE None
    <3>1. CASE Live(s)[id] = None
      BY <3>1, <1>2
    <3>2. CASE Live(s)[id] # None
      <4>1. KeysOf(Live(s)[id]) \subseteq LookupKey /\ KeysOf(Live(s)[id]) # {}
        BY <3>2, <1>1, KeysOfRow DEF RowsSet
      <4>2. QED
        BY <3>2, <4>1, <1>2
    <3>3. QED
      BY <3>1, <3>2
  <2>2. QED
    BY <2>1, <1>5 DEF KeysHeld
<1>8. x \in Index
  BY <1>1, <1>5, <1>6, <1>7, MapTypes DEF Index
<1>9. ToCache(x) = c
  <2>1. ToCache(x) = [source |-> s, ptr |-> Pointers(s),
                      lookups |-> {e \in LookupKey \X Ids : e[2] \in x.ids[e[1]]}]
    BY <1>5 DEF ToCache
  <2>2. {e \in LookupKey \X Ids : e[2] \in x.ids[e[1]]} = c.lookups
    <3>1. \A k \in LookupKey, id \in Ids : id \in x.ids[k] <=> <<k, id>> \in c.lookups
      BY <1>5
    <3>2. ASSUME NEW e \in LookupKey \X Ids
          PROVE  e[2] \in x.ids[e[1]] <=> e \in c.lookups
      <4>1. e = <<e[1], e[2]>> /\ e[1] \in LookupKey /\ e[2] \in Ids
        OBVIOUS
      <4>2. QED
        BY <4>1, <3>1
    <3>3. QED
      BY <3>2, <1>2
  <2>3. QED
    BY <2>1, <2>2, <1>2
<1>10. QED
  BY <1>3, <1>5, <1>6, <1>7, <1>8, <1>9 DEF Holds, c, x

\* The index is known by its parts.
LEMMA IndexKnown ==
    ASSUME NEW s \in Seq(Operation), NEW x \in Index,
           x.source = s, x.ptr = Pointers(s), Holds(x, Live(s))
    PROVE  x = IndexOf(s)
<1>1. /\ x = [source |-> x.source, ptr |-> x.ptr, ids |-> x.ids, keys |-> x.keys]
      /\ \A y \in Index : y = [source |-> y.source, ptr |-> y.ptr, ids |-> y.ids, keys |-> y.keys]
  BY DEF Index
<1>2. QED
  BY <1>1, IndexFacts DEF Holds

\* The index extended by an operation is the index of the lines with its line.
LEMMA ExtendedIndex ==
    ASSUME NEW s \in Seq(Operation), NEW op \in Operation, NEW old \in {None, Live(s)[op.id]}
    PROVE  Extend(ApplyOperation(IndexOf(s), op, Len(s) + 1, old), op) = IndexOf(Append(s, op))
<1> DEFINE y == ApplyOperation(IndexOf(s), op, Len(s) + 1, old)
<1>1. op.id \in Ids
  BY DEF Operation
<1>2. /\ IndexOf(s) \in Index /\ IndexOf(s).source = s /\ IndexOf(s).ptr = Pointers(s)
      /\ Holds(IndexOf(s), Live(s))
  BY IndexFacts
<1>3. Live(s) \in RowsSet /\ (Pointers(s)[op.id] # None <=> Live(s)[op.id] # None)
  BY <1>1, LiveType DEF RowsSet
<1>4. Len(s) + 1 \in Nat
  OBVIOUS
<1>5. /\ y \in Index /\ y.source = s
      /\ y.ptr = [Pointers(s) EXCEPT ![op.id] = IF op.row # None THEN Len(s) + 1 ELSE None]
      /\ Holds(y, [Live(s) EXCEPT ![op.id] = op.row])
  BY <1>2, <1>3, <1>4, Applied
<1> HIDE DEF y
<1>6. /\ Extend(y, op).source = Append(s, op) /\ Extend(y, op).ptr = y.ptr
      /\ Extend(y, op).ids = y.ids /\ Extend(y, op).keys = y.keys
      /\ Extend(y, op) \in Index
  <2>1. ASSUME NEW z \in Index
        PROVE  /\ Extend(z, op) \in Index
               /\ Extend(z, op).source = Append(z.source, op)
               /\ Extend(z, op).ptr = z.ptr
               /\ Extend(z, op).ids = z.ids
               /\ Extend(z, op).keys = z.keys
    <3> DEFINE u == Append(z.source, op)
    <3>1. z.source \in Seq(Operation) /\ u \in Seq(Operation)
      BY DEF Index
    <3>2. Extend(z, op) = [z EXCEPT !.source = u]
      BY DEF Extend
    <3> HIDE DEF u
    <3>3. QED
      BY <3>1, <3>2 DEF Index, u
  <2>2. QED
    BY <1>5, <2>1
<1>7. Extend(y, op) = IndexOf(Append(s, op))
  <2>1. /\ Append(s, op) \in Seq(Operation)
        /\ Live(Append(s, op)) = [Live(s) EXCEPT ![op.id] = op.row]
        /\ Pointers(Append(s, op)) = y.ptr
    BY <1>5, LiveAppend
  <2>2. Holds(Extend(y, op), Live(Append(s, op)))
    BY <1>5, <1>6, <2>1 DEF Holds
  <2>3. QED
    BY <1>6, <2>1, <2>2, IndexKnown
<1>8. QED
  BY <1>7 DEF y

DistinctIds(b) == \A i, j \in DOMAIN b : i # j => b[i].id # b[j].id

\* The rows after a batch that names no id twice.
LEMMA LiveConcat ==
    ASSUME NEW s \in Seq(Operation), NEW b \in Seq(Operation), DistinctIds(b), NEW id \in Ids
    PROVE  /\ s \o b \in Seq(Operation)
           /\ \A i \in DOMAIN b : b[i].id = id => Live(s \o b)[id] = b[i].row
           /\ (~ \E i \in DOMAIN b : b[i].id = id) => Live(s \o b)[id] = Live(s)[id]
<1> DEFINE t == s \o b
<1>1. /\ t \in Seq(Operation) /\ Len(t) = Len(s) + Len(b) /\ Len(s) \in Nat /\ Len(b) \in Nat
      /\ DOMAIN s = 1..Len(s) /\ DOMAIN b = 1..Len(b) /\ DOMAIN t = 1..(Len(s) + Len(b))
      /\ \A i \in 1..Len(s) : t[i] = s[i]
      /\ \A i \in 1..Len(b) : t[Len(s) + i] = b[i]
      /\ \A i \in Len(s)+1..Len(s)+Len(b) : t[i] = b[i - Len(s)]
  OBVIOUS
<1> HIDE DEF t
<1>2. ASSUME NEW i \in DOMAIN b, b[i].id = id
      PROVE  Live(t)[id] = b[i].row
  <2> DEFINE k == Len(s) + i
  <2>1. i \in 1..Len(b) /\ i \in Nat /\ k \in DOMAIN t /\ k \in Nat /\ t[k] = b[i]
    BY <1>1
  <2>2. ASSUME NEW j \in k+1..Len(t)
        PROVE  t[j].id # id
    <3>1. j - Len(s) \in 1..Len(b) /\ j - Len(s) # i /\ t[j] = b[j - Len(s)]
      BY <1>1, <2>1
    <3>2. QED
      BY <1>1, <1>2, <2>1, <3>1 DEF DistinctIds
  <2> HIDE DEF k
  <2>3. IsLast(t, id, k)
    BY <2>1, <2>2, <1>2 DEF IsLast
  <2>4. QED
    BY <1>1, <2>1, <2>3, LastIsLive
<1>3. ASSUME ~ \E i \in DOMAIN b : b[i].id = id
      PROVE  Live(t)[id] = Live(s)[id]
  <2>0. \A j \in Len(s)+1..Len(s)+Len(b) : t[j].id # id
    <3>1. \A j \in Len(s)+1..Len(s)+Len(b) : j - Len(s) \in DOMAIN b /\ t[j] = b[j - Len(s)]
      BY <1>1
    <3>2. QED
      BY <1>3, <3>1
  <2>1. \A i \in DOMAIN s : IsLast(t, id, i) <=> IsLast(s, id, i)
    <3>1. ASSUME NEW i \in DOMAIN s
          PROVE  IsLast(t, id, i) <=> IsLast(s, id, i)
      <4>1. /\ i \in Nat /\ t[i] = s[i]
            /\ \A j \in i+1..Len(s) : j \in 1..Len(s) /\ j \in i+1..Len(t)
            /\ \A j \in i+1..Len(t) : j \in i+1..Len(s) \/ j \in Len(s)+1..Len(s)+Len(b)
        BY <1>1
      <4>2. \A j \in i+1..Len(s) : t[j] = s[j]
        BY <1>1, <4>1
      <4>3. QED
        BY <2>0, <4>1, <4>2 DEF IsLast
    <3>2. QED
      BY <3>1
  <2>2. \A i \in DOMAIN t \ DOMAIN s : ~IsLast(t, id, i)
    <3>1. \A i \in DOMAIN t \ DOMAIN s : i \in Len(s)+1..Len(s)+Len(b)
      BY <1>1
    <3>2. QED
      BY <2>0, <3>1 DEF IsLast
  <2>3. CASE \E i \in DOMAIN s : IsLast(s, id, i)
    <3>1. PICK i \in DOMAIN s : IsLast(s, id, i)
      BY <2>3
    <3>2. i \in DOMAIN t /\ IsLast(t, id, i) /\ t[i] = s[i]
      BY <1>1, <2>1, <3>1
    <3>3. QED
      BY <1>1, <3>1, <3>2, LastIsLive
  <2>4. CASE ~ \E i \in DOMAIN s : IsLast(s, id, i)
    <3>1. ~ \E i \in DOMAIN t : IsLast(t, id, i)
      BY <2>1, <2>2, <2>4
    <3>2. QED
      BY <1>1, <2>4, <3>1, NoLineNoRow
  <2>5. QED
    BY <2>3, <2>4
<1>4. QED
  BY <1>1, <1>2, <1>3 DEF t

-------------------------------------------------------------------------------
(* Caches. *)

\* The rows a read returns and remembers are the live ones.
LEMMA FetchedLive ==
    ASSUME NEW c \in RowsSet, lines \in Seq(Operation),
           \A id \in Ids : c[id] \in {None, Live(lines)[id]},
           NEW ids \in SUBSET {id \in Ids : Pointers(lines)[id] # None}
    PROVE  /\ Fetched(c, ids, Pointers(lines)) \in RowsSet
           /\ \A id \in Ids : Fetched(c, ids, Pointers(lines))[id] \in {None, Live(lines)[id]}
           /\ \A id \in ids : Fetched(c, ids, Pointers(lines))[id] = Live(lines)[id]
<1>1. Live(lines) \in RowsSet
  BY LiveType DEF RowsSet
<1>2. ASSUME NEW id \in ids
      PROVE  lines[Pointers(lines)[id]].row = Live(lines)[id] /\ Live(lines)[id] # None
  BY LiveType
<1>3. ASSUME NEW id \in Ids
      PROVE  /\ Fetched(c, ids, Pointers(lines))[id] \in {None, Live(lines)[id]}
             /\ Fetched(c, ids, Pointers(lines))[id] \in Row \cup {None}
             /\ id \in ids => Fetched(c, ids, Pointers(lines))[id] = Live(lines)[id]
  BY <1>1, <1>2 DEF Fetched, RowsSet
<1>4. Fetched(c, ids, Pointers(lines)) = [id \in Ids |-> Fetched(c, ids, Pointers(lines))[id]]
  BY DEF Fetched
<1>5. QED
  BY <1>3, <1>4 DEF RowsSet

\* The snapshot asked for is that of the lines, wherever it comes from.
LEMMA EnsuredFacts ==
    ASSUME TypeOK, CachesInv, Ensurable
    PROVE  /\ Ensured.snapshot = BuildCache(lines)
           /\ Ensured.runtime \in {None, IndexOf(lines)}
           /\ Ensured.sixb \in {None} \cup Cache
           /\ Ensured.sixb # None => Ensured.sixb = BuildCache(Ensured.sixb.source)
           /\ Ensured.records \in RowsSet
           /\ \A id \in Ids : Ensured.records[id] \in {None, Live(lines)[id]}
<1>1. /\ lines \in Seq(Operation) /\ records \in RowsSet /\ sixb \in {None} \cup Cache
      /\ runtime # None => runtime = IndexOf(lines)
      /\ snapshot # None => snapshot = BuildCache(lines)
      /\ sixb # None => sixb = BuildCache(sixb.source)
      /\ \A id \in Ids : records[id] \in {None, Live(lines)[id]}
  BY DEF TypeOK, CachesInv, RuntimeIsRebuilt, SnapshotIsRebuilt, RecordsAreLive, RowsSet
<1>2. /\ ToCache(IndexOf(lines)) = BuildCache(lines) /\ BuildCache(lines) \in Cache
      /\ BuildCache(lines).source = lines
      /\ Live(lines) \in RowsSet
  BY <1>1, IndexFacts, LiveType DEF BuildCache, RowsSet
<1>3. CASE runtime # None
  BY <1>1, <1>2, <1>3 DEF Ensured
<1>4. CASE runtime = None /\ snapshot # None
  BY <1>1, <1>2, <1>4 DEF Ensured
<1>5. CASE runtime = None /\ snapshot = None /\ FileCurrent
  BY <1>1, <1>2, <1>5 DEF Ensured, FileCurrent
<1>6. CASE runtime = None /\ snapshot = None /\ ~FileCurrent
  BY <1>1, <1>2, <1>6 DEF Ensured, Rebuilt
<1>7. QED
  BY <1>3, <1>4, <1>5, <1>6

\* Whenever no batch is under way, the invariant speaks of the caches only.
LEMMA IdleInv ==
    ASSUME TypeOK', CachesInv', phase' = "idle", done' = 0, claimed' = {}
    PROVE  IndexInv'
<1>1. WorkingInv' /\ ValidationInv' /\ ClaimedInv' /\ AcceptsOnlyValid'
  BY DEF WorkingInv, WorkingIsRebuilt, ValidationInv, ClaimedInv, AcceptsOnlyValid
<1>2. QED
  BY <1>1 DEF IndexInv

\* Emptied caches are right whatever happens to the lines.
LEMMA EmptyCaches ==
    ASSUME CachesInv, Invalidate, UNCHANGED sixb, TypeOK'
    PROVE  CachesInv'
<1>1. RuntimeIsRebuilt' /\ SnapshotIsRebuilt'
  BY DEF Invalidate, RuntimeIsRebuilt, SnapshotIsRebuilt
<1>2. RecordsAreLive'
  BY DEF Invalidate, RecordsAreLive
<1>3. sixb' # None => sixb' = BuildCache(sixb'.source)
  BY DEF CachesInv
<1>4. QED
  BY <1>1, <1>2, <1>3 DEF CachesInv

\* The types of the caches, while a batch is left as it is.
LEMMA IdleTypes ==
    ASSUME TypeOK, UNCHANGED <<lines, append>>,
           sixb' \in {None} \cup Cache, snapshot' \in {None} \cup Cache,
           runtime' \in {None} \cup Index, records' \in RowsSet
    PROVE  TypeOK'
  BY DEF TypeOK, append, RowsSet

\* Reads and rebuilds leave right caches.
LEMMA ReadsKeepInv ==
    ASSUME IndexInv,
           \/ \E ids \in SUBSET Ids : ReadRuntime(ids) \/ ReadSnapshot(ids)
           \/ Rebuild
    PROVE  IndexInv'
<1>1. TypeOK /\ CachesInv
  BY DEF IndexInv
<1>2. lines \in Seq(Operation) /\ records \in RowsSet
      /\ \A id \in Ids : records[id] \in {None, Live(lines)[id]}
      /\ IndexOf(lines).ptr = Pointers(lines) /\ BuildCache(lines).ptr = Pointers(lines)
  BY <1>1, IndexFacts DEF TypeOK, CachesInv, RecordsAreLive, RowsSet, BuildCache
<1>7. BuildCache(lines) \in Cache /\ IndexOf(lines) \in Index
  BY <1>2, IndexFacts
<1>8. Live(lines) \in RowsSet
  BY <1>2, LiveType DEF RowsSet
<1>9. phase = "idle" => done = 0 /\ claimed = {}
  BY DEF IndexInv, ClaimedInv
<1>3. ASSUME NEW ids \in SUBSET Ids, ReadRuntime(ids)
      PROVE  TypeOK' /\ CachesInv' /\ phase' = "idle" /\ done' = 0 /\ claimed' = {}
  <2>1. runtime = IndexOf(lines)
    BY <1>1, <1>3 DEF CachesInv, RuntimeIsRebuilt, ReadRuntime
  <2>2. ids \in SUBSET {id \in Ids : Pointers(lines)[id] # None}
    BY <1>2, <1>3, <2>1 DEF ReadRuntime
  <2>3. records' = Fetched(records, ids, Pointers(lines))
    BY <1>2, <1>3, <2>1 DEF ReadRuntime, Fetched
  <2>4. records' \in RowsSet /\ \A id \in Ids : records'[id] \in {None, Live(lines)[id]}
    BY <1>2, <2>2, <2>3, FetchedLive
  <2>5. UNCHANGED <<lines, sixb, snapshot, runtime, append>>
    BY <1>3 DEF ReadRuntime
  <2>6. TypeOK'
    BY <1>1, <2>4, <2>5 DEF TypeOK, append, RowsSet
  <2>7. CachesInv'
    BY <1>1, <2>4, <2>5 DEF CachesInv, RuntimeIsRebuilt, SnapshotIsRebuilt, RecordsAreLive
  <2>8. QED
    BY <1>3, <1>9, <2>5, <2>6, <2>7 DEF ReadRuntime, append
<1>4. ASSUME NEW ids \in SUBSET Ids, ReadSnapshot(ids)
      PROVE  TypeOK' /\ CachesInv' /\ phase' = "idle" /\ done' = 0 /\ claimed' = {}
  <2>1. /\ Ensured.snapshot = BuildCache(lines)
        /\ Ensured.runtime \in {None, IndexOf(lines)}
        /\ Ensured.sixb \in {None} \cup Cache
        /\ Ensured.sixb # None => Ensured.sixb = BuildCache(Ensured.sixb.source)
        /\ Ensured.records \in RowsSet
        /\ \A id \in Ids : Ensured.records[id] \in {None, Live(lines)[id]}
    BY <1>1, <1>4, EnsuredFacts DEF ReadSnapshot
  <2>2. ids \in SUBSET {id \in Ids : Pointers(lines)[id] # None}
    BY <1>2, <1>4, <2>1 DEF ReadSnapshot
  <2>3. records' = Fetched(Ensured.records, ids, Pointers(lines))
    BY <1>2, <1>4, <2>1 DEF ReadSnapshot, Fetched
  <2>4. records' \in RowsSet /\ \A id \in Ids : records'[id] \in {None, Live(lines)[id]}
    BY <1>2, <2>1, <2>2, <2>3, FetchedLive
  <2>5. /\ UNCHANGED <<lines, append>> /\ sixb' = Ensured.sixb
        /\ snapshot' = Ensured.snapshot /\ runtime' = Ensured.runtime
    BY <1>4 DEF ReadSnapshot
  <2>6. TypeOK'
    <3>1. BuildCache(lines) \in {None} \cup Cache /\ IndexOf(lines) \in {None} \cup Index
      BY <1>7
    <3>2. sixb' \in {None} \cup Cache /\ snapshot' \in {None} \cup Cache
      BY <3>1, <2>1, <2>5
    <3>3. runtime' \in {None} \cup Index
      BY <3>1, <2>1, <2>5
    <3>4. QED
      BY <1>1, <2>4, <2>5, <3>2, <3>3, IdleTypes
  <2>7. CachesInv'
    BY <2>1, <2>4, <2>5 DEF CachesInv, RuntimeIsRebuilt, SnapshotIsRebuilt, RecordsAreLive
  <2>8. QED
    BY <1>4, <1>9, <2>5, <2>6, <2>7 DEF ReadSnapshot, append
<1>5. ASSUME Rebuild
      PROVE  TypeOK' /\ CachesInv' /\ phase' = "idle" /\ done' = 0 /\ claimed' = {}
  <2>1. /\ UNCHANGED <<lines, append>> /\ sixb' = BuildCache(lines)
        /\ snapshot' = BuildCache(lines) /\ runtime' = IndexOf(lines) /\ records' = Live(lines)
    BY <1>5 DEF Rebuild, Rebuilt
  <2>2. TypeOK'
    <3>1. BuildCache(lines) \in {None} \cup Cache /\ IndexOf(lines) \in {None} \cup Index
      BY <1>7
    <3>2. /\ sixb' \in {None} \cup Cache /\ snapshot' \in {None} \cup Cache
          /\ runtime' \in {None} \cup Index
      BY <3>1, <2>1
    <3>3. records' \in RowsSet
      BY <1>8, <2>1
    <3>4. QED
      BY <1>1, <2>1, <3>2, <3>3, IdleTypes
  <2>3. CachesInv'
    <3>1. RuntimeIsRebuilt' /\ SnapshotIsRebuilt'
      BY <2>1 DEF RuntimeIsRebuilt, SnapshotIsRebuilt
    <3>2. RecordsAreLive'
      BY <2>1 DEF RecordsAreLive
    <3>3. sixb'.source = lines
      BY <2>1 DEF BuildCache
    <3>4. QED
      BY <2>1, <3>1, <3>2, <3>3 DEF CachesInv
  <2>4. QED
    BY <1>5, <1>9, <2>1, <2>2, <2>3 DEF Rebuild, append
<1>6. QED
  BY <1>3, <1>4, <1>5, IdleInv

\* Whatever empties the caches.
LEMMA DropsKeepInv ==
    ASSUME IndexInv,
           DropCaches \/ OtherAppend \/ BeginFails \/ RefuseExisting \/ RefuseClash \/ WriteFails
    PROVE  IndexInv'
<1>1. TypeOK /\ CachesInv
  BY DEF IndexInv
<1>2. /\ lines \in Seq(Operation) /\ batch \in Seq(Operation)
      /\ \A b \in Batches : b \in Seq(Operation)
  BY <1>1 DEF TypeOK, Batches
<1>3. \A b \in Seq(Operation) : \A n \in 0..Len(b) : lines \o SubSeq(b, 1, n) \in Seq(Operation)
  BY <1>2
<1>4. lines' \in Seq(Operation)
  <2>1. CASE OtherAppend
    BY <2>1, <1>2, <1>3 DEF OtherAppend
  <2>2. CASE WriteFails
    BY <2>2, <1>2, <1>3 DEF WriteFails
  <2>3. CASE DropCaches \/ BeginFails \/ RefuseExisting \/ RefuseClash
    BY <2>3, <1>2 DEF DropCaches, BeginFails, RefuseExisting, RefuseClash, Refuse
  <2>4. QED
    BY <2>1, <2>2, <2>3
<1>5. /\ Invalidate /\ UNCHANGED sixb
      /\ \/ UNCHANGED append /\ phase = "idle"
         \/ Idle
  BY DEF DropCaches, OtherAppend, BeginFails, RefuseExisting, RefuseClash, WriteFails, Refuse
<1>6. phase' = "idle" /\ done' = 0 /\ claimed' = {}
  BY <1>5 DEF Idle, append, IndexInv, ClaimedInv
<1>7. TypeOK'
  <2>1. records' \in [Ids -> Row \cup {None}] /\ snapshot' = None /\ runtime' = None
    BY <1>5 DEF Invalidate
  <2>2. sixb' \in {None} \cup Cache
    BY <1>1, <1>5 DEF TypeOK
  <2>3. CASE UNCHANGED append /\ phase = "idle"
    BY <1>1, <1>4, <2>1, <2>2, <2>3 DEF TypeOK, append
  <2>4. CASE Idle
    <3>1. <<>> \in Seq(Operation) /\ {} \subseteq (UniqueFields \X Vals) \X Ids
      OBVIOUS
    <3>2. QED
      BY <3>1, <1>4, <2>1, <2>2, <2>4 DEF TypeOK, Idle
  <2>5. QED
    BY <1>5, <2>3, <2>4
<1>8. CachesInv'
  BY <1>1, <1>5, <1>7, EmptyCaches
<1>9. QED
  BY <1>6, <1>7, <1>8, IdleInv

-------------------------------------------------------------------------------
(* The loops of append_batch_inner. *)

\* remove_row_for_validation takes a row out of an index that knows which rows
\* are there.
LEMMA RowTakenOut ==
    ASSUME NEW x \in Index, NEW rows \in RowsSet, Holds(x, rows), NEW id \in Ids,
           \A i \in Ids : x.ptr[i] # None <=> rows[i] # None
    PROVE  /\ WithoutRow(x, id) \in Index
           /\ Holds(WithoutRow(x, id), [rows EXCEPT ![id] = None])
           /\ \A i \in Ids : WithoutRow(x, id).ptr[i] # None
                               <=> [rows EXCEPT ![id] = None][i] # None
<1> DEFINE gone == [rows EXCEPT ![id] = None]
<1>1. CASE x.ptr[id] # None
  <2> DEFINE z == [x EXCEPT !.ptr[id] = None]
  <2>1. z \in Index /\ z.ptr = [x.ptr EXCEPT ![id] = None] /\ z.ids = x.ids /\ z.keys = x.keys
    BY DEF Index
  <2>2. WithoutRow(x, id) = RemoveLookups(z, id, None)
    BY <1>1 DEF WithoutRow
  <2> HIDE DEF z
  <2>3. Holds(z, rows)
    BY <2>1 DEF Holds
  <2>4. /\ RemoveLookups(z, id, None) \in Index /\ RemoveLookups(z, id, None).ptr = z.ptr
        /\ Holds(RemoveLookups(z, id, None), gone)
    BY <2>1, <2>3, Removed
  <2>5. \A i \in Ids : [x.ptr EXCEPT ![id] = None][i] # None <=> gone[i] # None
    BY DEF Index, RowsSet
  <2>6. QED
    BY <2>1, <2>2, <2>4, <2>5
<1>2. CASE x.ptr[id] = None
  <2>1. gone = rows
    BY <1>2 DEF RowsSet
  <2>2. WithoutRow(x, id) = x
    BY <1>2 DEF WithoutRow
  <2>3. QED
    BY <2>1, <2>2
<1>3. QED
  BY <1>1, <1>2

\* The caches while a batch is checked.
LEMMA SameCaches ==
    ASSUME CachesInv, UNCHANGED <<lines, caches>>
    PROVE  CachesInv'
  BY DEF CachesInv, caches, RuntimeIsRebuilt, SnapshotIsRebuilt, RecordsAreLive

\* The index that is taken for the batch is that of the lines.
LEMMA BeginKeepsInv ==
    ASSUME IndexInv, Begin
    PROVE  IndexInv'
<1>1. TypeOK /\ CachesInv /\ phase = "idle" /\ done = 0 /\ claimed = {}
  BY DEF IndexInv, ClaimedInv, Begin
<1>2. lines \in Seq(Operation) /\ records \in RowsSet
      /\ \A id \in Ids : records[id] \in {None, Live(lines)[id]}
  BY <1>1 DEF TypeOK, CachesInv, RecordsAreLive, RowsSet
<1>3. /\ Ensured.snapshot = BuildCache(lines)
      /\ Ensured.runtime \in {None, IndexOf(lines)}
      /\ Ensured.sixb \in {None} \cup Cache
      /\ Ensured.sixb # None => Ensured.sixb = BuildCache(Ensured.sixb.source)
      /\ Ensured.records \in RowsSet
      /\ \A id \in Ids : Ensured.records[id] \in {None, Live(lines)[id]}
  BY <1>1, EnsuredFacts DEF Begin
<1>4. IndexOf(lines) \in Index
  BY <1>2, IndexFacts
<1>5. /\ UNCHANGED <<lines, done, claimed>> /\ phase' = "remove" /\ validation' = working'
      /\ batch' \in Batches /\ insertOnly' \in BOOLEAN
  BY DEF Begin
<1>6. batch' \in Seq(Operation) /\ Len(batch') > 0
  BY <1>5 DEF Batches
<1>7. ASSUME runtime # None
      PROVE  working' = IndexOf(lines) /\ TypeOK' /\ CachesInv'
  <2>1. working' = IndexOf(lines) /\ runtime' = None /\ UNCHANGED <<sixb, snapshot, records>>
    BY <1>1, <1>7 DEF Begin, CachesInv, RuntimeIsRebuilt
  <2>2. TypeOK'
    BY <1>1, <1>4, <1>5, <1>6, <2>1 DEF TypeOK
  <2>3. CachesInv'
    BY <1>1, <1>5, <2>1 DEF CachesInv, RuntimeIsRebuilt, SnapshotIsRebuilt, RecordsAreLive
  <2>4. QED
    BY <2>1, <2>2, <2>3
<1>8. ASSUME runtime = None
      PROVE  working' = IndexOf(lines) /\ TypeOK' /\ CachesInv'
  <2>1. /\ working' = FromCache(BuildCache(lines)) /\ runtime' = Ensured.runtime
        /\ snapshot' = None /\ sixb' = Ensured.sixb /\ records' = Ensured.records
    BY <1>3, <1>8 DEF Begin
  <2>2. working' = IndexOf(lines)
    BY <2>1 DEF IndexOf
  <2>3. runtime' \in {None} \cup Index
    BY <1>3, <1>4, <2>1
  <2>4. TypeOK'
    <3>1. working' \in Index
      BY <1>4, <2>2
    <3>2. sixb' \in {None} \cup Cache /\ records' \in RowsSet
      BY <1>3, <2>1
    <3>3. QED
      BY <1>1, <1>5, <1>6, <2>1, <2>3, <3>1, <3>2 DEF TypeOK, RowsSet
  <2>5. CachesInv'
    BY <1>3, <1>5, <2>1 DEF CachesInv, RuntimeIsRebuilt, SnapshotIsRebuilt, RecordsAreLive
  <2>6. QED
    BY <2>2, <2>4, <2>5
<1>9. working' = IndexOf(lines) /\ TypeOK' /\ CachesInv'
  BY <1>7, <1>8
<1>10. WorkingInv' /\ ClaimedInv' /\ AcceptsOnlyValid'
  BY <1>1, <1>5, <1>9 DEF WorkingInv, WorkingIsRebuilt, ClaimedInv, AcceptsOnlyValid
<1>11. ValidationInv'
  <2>1. RowsBut(0)' = Live(lines)
    BY <1>5 DEF RowsBut, Live
  <2>2. Seen' = 0
    BY <1>1, <1>5 DEF Seen
  <2>3. Holds(IndexOf(lines), Live(lines)) /\ IndexOf(lines).ptr = Pointers(lines)
    BY <1>2, IndexFacts
  <2>4. \A id \in Ids : Live(lines)[id] # None <=> Pointers(lines)[id] # None
    BY <1>2, LiveType
  <2>5. Holds(validation', RowsBut(Seen)')
    BY <2>1, <2>2, <2>3, <1>5, <1>9
  <2>6. \A id \in Ids : validation'.ptr[id] # None <=> RowsBut(Seen)'[id] # None
    BY <2>1, <2>2, <2>3, <2>4, <1>5, <1>9
  <2>7. QED
    BY <2>2, <2>5, <2>6 DEF ValidationInv, Holds
<1>12. QED
  BY <1>9, <1>10, <1>11 DEF IndexInv

\* A row that leaves the validation index.
LEMMA RemoveKeepsInv ==
    ASSUME IndexInv, RemoveOperation
    PROVE  IndexInv'
<1> DEFINE id == Current.id
<1>1. /\ TypeOK /\ CachesInv /\ phase = "remove" /\ done \in Nat /\ done < Len(batch)
      /\ batch \in Seq(Operation) /\ validation \in Index /\ lines \in Seq(Operation)
      /\ claimed = {} /\ working = IndexOf(lines)
  BY DEF IndexInv, TypeOK, RemoveOperation, ClaimedInv, WorkingInv
<1>2. done + 1 \in DOMAIN batch /\ Current = batch[done + 1] /\ id \in Ids
  <2>1. done + 1 \in DOMAIN batch /\ batch[done + 1] \in Operation
    BY <1>1
  <2>2. QED
    BY <2>1 DEF Current, Operation
<1> HIDE DEF id
<1>3. /\ UNCHANGED <<lines, caches, batch, insertOnly, working, claimed>>
      /\ validation' = WithoutRow(validation, id)
      /\ \/ done + 1 < Len(batch) /\ done' = done + 1 /\ phase' = "remove"
         \/ done + 1 = Len(batch) /\ done' = 0 /\ phase' = "check"
      /\ ~Exists(Current)
  BY <1>1 DEF RemoveOperation, Advance, id
<1>4. Seen = done /\ Seen' = done + 1
  BY <1>1, <1>3 DEF Seen
<1>5. Live(lines) \in RowsSet
  BY <1>1, LiveType DEF RowsSet
<1>6. RowsBut(done) \in RowsSet
  BY <1>5 DEF RowsBut, RowsSet
<1>7. RowsBut(done + 1) = [RowsBut(done) EXCEPT ![id] = None]
  <2>2. \A i \in Ids : (\E j \in 1..(done + 1) : batch[j].id = i)
                         <=> i = id \/ \E j \in 1..done : batch[j].id = i
    BY <1>1, <1>2 DEF id
  <2>3. QED
    BY <2>2 DEF RowsBut
<1>8. /\ Holds(validation, RowsBut(done))
      /\ \A i \in Ids : validation.ptr[i] # None <=> RowsBut(done)[i] # None
      /\ insertOnly => \A j \in 1..done : Live(lines)[batch[j].id] = None
  BY <1>1, <1>4 DEF IndexInv, ValidationInv
<1>9. /\ validation' \in Index
      /\ Holds(validation', RowsBut(done + 1))
      /\ \A i \in Ids : validation'.ptr[i] # None <=> RowsBut(done + 1)[i] # None
  <2> DEFINE y == WithoutRow(validation, id)
             gone == [RowsBut(done) EXCEPT ![id] = None]
  <2>1. /\ y \in Index /\ Holds(y, gone)
        /\ \A i \in Ids : y.ptr[i] # None <=> gone[i] # None
    BY <1>1, <1>2, <1>6, <1>8, RowTakenOut, Zenon
  <2> HIDE DEF y, gone
  <2>2. validation' = y /\ RowsBut(done + 1) = gone
    BY <1>3, <1>7 DEF y, gone
  <2>3. QED
    BY <2>1, <2>2
<1>10. insertOnly => \A j \in 1..(done + 1) : Live(lines)[batch[j].id] = None
  <2>1. insertOnly => Live(lines)[id] = None
    <3>1. working.ptr = Pointers(lines)
      BY <1>1, IndexFacts
    <3>2. insertOnly => Pointers(lines)[id] = None
      BY <1>3, <3>1 DEF Exists, id
    <3>3. QED
      BY <1>1, <1>2, <3>2, LiveType
  <2>2. \A j \in 1..(done + 1) : j \in 1..done \/ j = done + 1
    BY <1>1
  <2>3. QED
    BY <1>2, <1>8, <2>1, <2>2 DEF id
<1>11. TypeOK'
  BY <1>1, <1>3, <1>9 DEF TypeOK, caches
<1>12. CachesInv'
  BY <1>1, <1>3, SameCaches
<1>13. WorkingInv' /\ AcceptsOnlyValid'
  BY <1>1, <1>3 DEF WorkingInv, WorkingIsRebuilt, AcceptsOnlyValid
<1>14. ValidationInv'
  <2>1. RowsBut(Seen)' = RowsBut(done + 1)
    BY <1>3, <1>4 DEF RowsBut
  <2>2. insertOnly' => \A j \in 1..Seen' : Live(lines')[batch'[j].id] = None
    BY <1>3, <1>4, <1>10
  <2>3. QED
    BY <1>9, <2>1, <2>2 DEF ValidationInv, Holds
<1>15. ClaimedInv'
  <2>1. phase' = "check" => done' = 0
    BY <1>1, <1>3
  <2>2. claimed' = {} /\ phase' \in {"remove", "check"}
    BY <1>1, <1>3
  <2>3. QED
    BY <2>1, <2>2 DEF ClaimedInv, CheckedTo
<1>16. QED
  BY <1>11, <1>12, <1>13, <1>14, <1>15 DEF IndexInv

\* The keys of a row are its fields.
LEMMA KeyOfField ==
    ASSUME NEW row \in Row, NEW f \in Fields, NEW v
    PROVE  <<f, v>> \in KeysOf(row) <=> row[f] = v
  BY DEF KeysOf

\* The keys a row is looked up by are keys of its unique fields.
LEMMA KeyOfUnique ==
    ASSUME NEW op \in Operation, op.row # None, NEW f \in UniqueFields, NEW v
    PROVE  <<f, v>> \in UniqueKeysOf(op) <=> op.row[f] = v
  BY DEF UniqueKeysOf

AnotherRowHas(f) ==
    \E id \in Ids : /\ Live(lines)[id] # None /\ Live(lines)[id][f] = Current.row[f]
                    /\ ~ \E j \in DOMAIN batch : batch[j].id = id

AnotherPutHas(f) ==
    \E j \in 1..done : /\ batch[j].id # Current.id /\ batch[j].row # None
                       /\ batch[j].row[f] = Current.row[f]

\* The two questions asked of the validation index and of the claimed keys are
\* questions about rows the batch leaves alone and about earlier puts.
LEMMA ConflictMeans ==
    ASSUME IndexInv, phase = "check", Current.row # None
    PROVE  Conflicts(Current) <=> \E f \in UniqueFields : AnotherRowHas(f) \/ AnotherPutHas(f)
<1>1. /\ TypeOK /\ done \in Nat /\ done < Len(batch) /\ Len(batch) \in Nat
      /\ batch \in Seq(Operation) /\ lines \in Seq(Operation)
      /\ Holds(validation, RowsBut(Len(batch)))
  BY DEF IndexInv, TypeOK, ValidationInv, Seen
<1>2. /\ \A j \in 1..Len(batch) : batch[j] \in Operation
      /\ DOMAIN batch = 1..Len(batch) /\ done + 1 \in DOMAIN batch /\ Current = batch[done + 1]
  BY <1>1 DEF Current
<1>3. Current \in Operation /\ Current.id \in Ids /\ Current.row \in Row
  BY <1>2 DEF Operation
<1>4. Live(lines) \in RowsSet
  BY <1>1, LiveType DEF RowsSet
<1>5. ASSUME NEW f \in UniqueFields, NEW k, k = <<f, Current.row[f]>>
      PROVE  /\ validation.ids[k] # {} /\ FirstId(validation.ids[k]) # Current.id
                  <=> AnotherRowHas(f)
             /\ (\E id \in Ids \ {Current.id} : <<k, id>> \in claimed) <=> AnotherPutHas(f)
  <2>1. k \in LookupKey /\ k \in UniqueFields \X Vals /\ f \in Fields
    BY <1>3, <1>5, FieldAssumption DEF LookupKey, Row
  <2> DEFINE S == validation.ids[k]
  <2>2. S = {id \in Ids : RowsBut(Len(batch))[id] # None /\ k \in KeysOf(RowsBut(Len(batch))[id])}
    BY <1>1, <2>1 DEF Holds, IdsUnder
  <2>3. ASSUME NEW id \in Ids
        PROVE  id \in S <=> /\ Live(lines)[id] # None /\ Live(lines)[id][f] = Current.row[f]
                            /\ ~ \E j \in DOMAIN batch : batch[j].id = id
    <3>1. RowsBut(Len(batch))[id] = IF \E j \in DOMAIN batch : batch[j].id = id
                                    THEN None ELSE Live(lines)[id]
      BY <1>2 DEF RowsBut
    <3>2. Live(lines)[id] # None => Live(lines)[id] \in Row
      BY <1>4 DEF RowsSet
    <3>3. Live(lines)[id] # None => (k \in KeysOf(Live(lines)[id]) <=> Live(lines)[id][f] = Current.row[f])
      BY <3>2, <2>1, <1>5, KeyOfField
    <3>4. QED
      BY <3>1, <3>3, <2>2
  <2>4. Current.id \notin S
    BY <1>2, <1>3, <2>3
  <2>5. S # {} => FirstId(S) \in S
    <3>1. S \in SUBSET Ids
      BY <2>2
    <3>2. QED
      BY <3>1, IdAssumption DEF FirstId
  <2>6. S # {} <=> AnotherRowHas(f)
    BY <2>2, <2>3 DEF AnotherRowHas
  <2>7. (\E id \in Ids \ {Current.id} : <<k, id>> \in claimed) <=> AnotherPutHas(f)
    <3>1. \A id \in Ids : <<k, id>> \in claimed <=>
            \E j \in 1..done : batch[j].id = id /\ batch[j].row # None /\ k \in UniqueKeysOf(batch[j])
      BY <2>1 DEF IndexInv, ClaimedInv
    <3>2. \A j \in 1..done : batch[j] \in Operation /\ batch[j].id \in Ids
      BY <1>1, <1>2 DEF Operation
    <3>3. \A j \in 1..done : batch[j].row # None =>
            (k \in UniqueKeysOf(batch[j]) <=> batch[j].row[f] = Current.row[f])
      BY <1>5, <3>2, KeyOfUnique
    <3>4. QED
      BY <3>1, <3>2, <3>3 DEF AnotherPutHas
  <2>8. QED
    BY <2>4, <2>5, <2>6, <2>7
<1>6. Conflicts(Current) <=>
        \E f \in UniqueFields :
          LET k == <<f, Current.row[f]>>
          IN  \/ validation.ids[k] # {} /\ FirstId(validation.ids[k]) # Current.id
              \/ \E id \in Ids \ {Current.id} : <<k, id>> \in claimed
  BY DEF Conflicts, UniqueKeysOf
<1>7. QED
  BY <1>5, <1>6

\* An operation that clashes with nothing joins those checked.
LEMMA CheckKeepsInv ==
    ASSUME IndexInv, CheckOperation
    PROVE  IndexInv'
<1>1. /\ TypeOK /\ CachesInv /\ phase = "check" /\ done \in Nat /\ done < Len(batch)
      /\ batch \in Seq(Operation) /\ Len(batch) \in Nat /\ lines \in Seq(Operation)
      /\ working = IndexOf(lines)
  BY DEF IndexInv, TypeOK, CheckOperation, WorkingInv
<1>2. /\ \A j \in 1..Len(batch) : batch[j] \in Operation
      /\ DOMAIN batch = 1..Len(batch) /\ done + 1 \in DOMAIN batch /\ Current = batch[done + 1]
      /\ \A j \in 1..(done + 1) : j \in 1..done \/ j = done + 1
  BY <1>1 DEF Current
<1>3. Current \in Operation /\ Current.id \in Ids /\ Current.row \in Row \cup {None}
  BY <1>2 DEF Operation
<1>4. /\ UNCHANGED <<lines, caches, batch, insertOnly, working, validation>>
      /\ \/ done + 1 < Len(batch) /\ done' = done + 1 /\ phase' = "check"
         \/ done + 1 = Len(batch) /\ done' = 0 /\ phase' = "apply"
      /\ ~Repeated(Current) /\ ~Conflicts(Current)
      /\ claimed' = IF Current.row # None
                    THEN claimed \cup (UniqueKeysOf(Current) \X {Current.id}) ELSE claimed
  BY <1>1 DEF CheckOperation, Advance
<1>5. /\ CheckedTo(done)
      /\ \A k \in UniqueFields \X Vals, id \in Ids :
           <<k, id>> \in claimed <=>
             \E j \in 1..done : batch[j].id = id /\ batch[j].row # None /\ k \in UniqueKeysOf(batch[j])
      /\ insertOnly => \A j \in 1..Len(batch) : Live(lines)[batch[j].id] = None
  BY <1>1 DEF IndexInv, ClaimedInv, ValidationInv, Seen
<1>6. CheckedTo(done + 1)
  <2>1. \A j \in 1..done : batch[j].id # Current.id
    BY <1>4 DEF Repeated
  <2>2. ASSUME NEW f \in UniqueFields, Current.row # None
        PROVE  ~AnotherRowHas(f) /\ ~AnotherPutHas(f)
    BY <1>1, <1>4, <2>2, ConflictMeans
  <2>3. \A i, j \in 1..(done + 1) : i # j => batch[i].id # batch[j].id
    BY <1>2, <1>5, <2>1 DEF CheckedTo
  <2>4. ASSUME NEW i \in 1..(done + 1), NEW f \in UniqueFields, batch[i].row # None
        PROVE  /\ \A id \in Ids : Live(lines)[id] # None /\ Live(lines)[id][f] = batch[i].row[f]
                                    => \E j \in DOMAIN batch : batch[j].id = id
               /\ \A j \in 1..(done + 1) \ {i} :
                    batch[j].row # None => batch[j].row[f] # batch[i].row[f]
    <3>1. CASE i = done + 1
      BY <3>1, <1>2, <2>1, <2>2, <2>4 DEF AnotherRowHas, AnotherPutHas
    <3>2. CASE i \in 1..done
      <4>1. Current.row # None => batch[i].row[f] # Current.row[f]
        BY <3>2, <2>1, <2>2, <2>4 DEF AnotherPutHas
      <4>2. QED
        BY <3>2, <4>1, <1>2, <1>5, <2>4 DEF CheckedTo
    <3>3. QED
      BY <1>2, <3>1, <3>2
  <2>5. QED
    BY <2>3, <2>4 DEF CheckedTo
<1>7. TypeOK'
  <2>1. Current.row # None => UniqueKeysOf(Current) \X {Current.id} \subseteq (UniqueFields \X Vals) \X Ids
    BY <1>3, FieldAssumption DEF UniqueKeysOf, Row
  <2>2. claimed' \subseteq (UniqueFields \X Vals) \X Ids
    BY <1>1, <1>4, <2>1 DEF TypeOK
  <2>3. QED
    BY <1>1, <1>4, <2>2 DEF TypeOK, caches
<1>8. CachesInv'
  BY <1>1, <1>4, SameCaches
<1>9. WorkingInv'
  <2>1. SubSeq(batch, 1, 0) = <<>> /\ lines \o <<>> = lines
    BY <1>1
  <2>2. phase' = "apply" => working' = IndexOf(lines' \o SubSeq(batch', 1, done'))
    BY <1>1, <1>4, <2>1
  <2>3. phase' \in {"check", "apply"} /\ working' = IndexOf(lines')
    BY <1>1, <1>4
  <2>4. QED
    BY <2>2, <2>3 DEF WorkingInv, WorkingIsRebuilt
<1>10. ValidationInv'
  <2>1. phase' = "check" => Seen' = Seen
    BY <1>1, <1>4 DEF Seen
  <2>2. phase' = "check" => RowsBut(Seen)' = RowsBut(Seen)
    BY <1>4, <2>1 DEF RowsBut
  <2>3. phase' # "remove"
    BY <1>4
  <2>4. /\ Holds(validation, RowsBut(Seen))
        /\ \A id \in Ids : validation.ptr[id] # None <=> RowsBut(Seen)[id] # None
        /\ insertOnly => \A j \in 1..Seen : Live(lines)[batch[j].id] = None
    BY <1>1 DEF IndexInv, ValidationInv
  <2>5. QED
    BY <1>4, <2>1, <2>2, <2>3, <2>4 DEF ValidationInv, Holds
<1>11. ClaimedInv'
  <2>1. CheckedTo(done + 1) = CheckedTo(done + 1)
    OBVIOUS
  <2>2. phase' = "check" => CheckedTo(done)'
    BY <1>4, <1>6 DEF CheckedTo
  <2>3. ASSUME NEW k \in UniqueFields \X Vals, NEW id \in Ids
        PROVE  <<k, id>> \in claimed' <=>
                 \E j \in 1..(done + 1) : /\ batch[j].id = id /\ batch[j].row # None
                                          /\ k \in UniqueKeysOf(batch[j])
    <3>1. <<k, id>> \in claimed' <=>
            \/ <<k, id>> \in claimed
            \/ Current.row # None /\ k \in UniqueKeysOf(Current) /\ id = Current.id
      BY <1>4
    <3>2. QED
      BY <3>1, <1>1, <1>2, <1>5
  <2>4. phase' = "check" =>
          \A k \in UniqueFields \X Vals, id \in Ids :
            <<k, id>> \in claimed' <=>
              \E j \in 1..done' : /\ batch'[j].id = id /\ batch'[j].row # None
                                  /\ k \in UniqueKeysOf(batch'[j])
    BY <1>4, <2>3
  <2>5. phase' \notin {"idle", "remove"}
    BY <1>4
  <2>6. QED
    BY <2>2, <2>4, <2>5 DEF ClaimedInv, UniqueKeysOf
<1>12. AcceptsOnlyValid'
  <2>1. CASE phase' = "check"
    BY <2>1 DEF AcceptsOnlyValid
  <2>2. CASE phase' = "apply"
    <3>1. CheckedTo(Len(batch)) /\ DOMAIN batch = 1..Len(batch)
      BY <2>2, <1>1, <1>4, <1>6
    <3>2. ValidBatch(Live(lines), batch, insertOnly)
      BY <3>1, <1>5 DEF ValidBatch, CheckedTo
    <3>3. QED
      BY <3>2, <1>4 DEF AcceptsOnlyValid
  <2>3. QED
    BY <2>1, <2>2, <1>4
<1>13. QED
  BY <1>7, <1>8, <1>9, <1>10, <1>11, <1>12 DEF IndexInv

\* An operation applied to the working index.
LEMMA ApplyKeepsInv ==
    ASSUME IndexInv, ApplyNext
    PROVE  IndexInv'
<1>1. /\ TypeOK /\ CachesInv /\ phase = "apply" /\ done \in Nat /\ done < Len(batch)
      /\ batch \in Seq(Operation) /\ Len(batch) \in Nat /\ lines \in Seq(Operation)
      /\ working = IndexOf(lines \o SubSeq(batch, 1, done))
      /\ records \in RowsSet
      /\ \A id \in Ids : records[id] \in {None, Live(lines)[id]}
      /\ ValidBatch(Live(lines), batch, insertOnly)
  BY DEF IndexInv, TypeOK, ApplyNext, WorkingInv, WorkingIsRebuilt, CachesInv, RecordsAreLive,
         RowsSet, AcceptsOnlyValid
<1> DEFINE op == batch[done + 1]
           b == SubSeq(batch, 1, done)
           s == lines \o b
           old == OldRecord(op.id)
<1>2. op \in Operation /\ op.id \in Ids /\ Current = op
  <2>1. op \in Operation
    BY <1>1
  <2>2. QED
    BY <2>1 DEF Current, Operation
<1>3. /\ b \in Seq(Operation) /\ Len(b) = done /\ DOMAIN b = 1..done
      /\ \A i \in 1..done : b[i] = batch[i]
  BY <1>1
<1>4. s \in Seq(Operation) /\ Len(s) = Len(lines) + done
  BY <1>1, <1>3
<1>5. /\ UNCHANGED <<lines, caches, batch, insertOnly, validation, claimed>>
      /\ working' = Extend(ApplyOperation(IndexOf(s), op, Len(lines) + done + 1, old), op)
      /\ \/ done + 1 < Len(batch) /\ done' = done + 1 /\ phase' = "apply"
         \/ done + 1 = Len(batch) /\ done' = 0 /\ phase' = "write"
  BY <1>1, <1>2 DEF ApplyNext, Advance
<1>6. old \in {None, Live(s)[op.id]}
  <2>1. /\ DistinctIds(b) /\ ~ \E i \in DOMAIN b : b[i].id = op.id
    BY <1>1, <1>3 DEF ValidBatch, DistinctIds
  <2>2. Live(s)[op.id] = Live(lines)[op.id]
    BY <1>1, <1>2, <1>3, <2>1, LiveConcat
  <2>3. QED
    BY <1>1, <1>2, <2>2 DEF OldRecord
<1>7. Append(s, op) = lines \o SubSeq(batch, 1, done + 1)
  BY <1>1
<1> HIDE DEF op, s, old
<1>8. working' = IndexOf(Append(s, op)) /\ Append(s, op) \in Seq(Operation)
  <2>1. Len(lines) + done + 1 = Len(s) + 1
    BY <1>1, <1>4
  <2>2. QED
    BY <1>2, <1>4, <1>5, <1>6, <2>1, ExtendedIndex, LiveAppend
<1>9. working' \in Index
  BY <1>8, IndexFacts
<1>10. TypeOK'
  BY <1>1, <1>5, <1>9 DEF TypeOK, caches
<1>11. CachesInv'
  BY <1>1, <1>5, SameCaches
<1>12. WorkingInv'
  <2>1. done + 1 = Len(batch) => SubSeq(batch, 1, done + 1) = batch
    BY <1>1
  <2>2. QED
    BY <1>1, <1>5, <1>7, <1>8, <2>1 DEF WorkingInv, WorkingIsRebuilt
<1>13. ValidationInv' /\ ClaimedInv' /\ AcceptsOnlyValid'
  BY <1>1, <1>5 DEF ValidationInv, ClaimedInv, AcceptsOnlyValid
<1>14. QED
  BY <1>10, <1>11, <1>12, <1>13 DEF IndexInv

\* The batch is written.
LEMMA WriteKeepsInv ==
    ASSUME IndexInv, Write
    PROVE  IndexInv'
<1>1. /\ TypeOK /\ CachesInv /\ phase = "write"
      /\ batch \in Seq(Operation) /\ lines \in Seq(Operation)
      /\ working = IndexOf(lines \o batch) /\ working \in Index
      /\ records \in RowsSet
      /\ \A id \in Ids : records[id] \in {None, Live(lines)[id]}
      /\ DistinctIds(batch)
  BY DEF IndexInv, TypeOK, Write, WorkingInv, WorkingIsRebuilt, CachesInv, RecordsAreLive,
         RowsSet, AcceptsOnlyValid, ValidBatch, DistinctIds
<1>2. /\ lines' = lines \o batch /\ snapshot' = None /\ runtime' = working
      /\ records' = Written /\ sixb' = sixb /\ Idle
  BY DEF Write
<1>3. lines' \in Seq(Operation)
  BY <1>1, <1>2
<1>4. ASSUME NEW id \in Ids
      PROVE  Written[id] \in {None, Live(lines \o batch)[id]} /\ Written[id] \in Row \cup {None}
  <2>1. CASE \E i \in DOMAIN batch : batch[i].id = id
    <3>1. PICK i \in DOMAIN batch : batch[i].id = id
                 /\ i = CHOOSE j \in DOMAIN batch : batch[j].id = id
      BY <2>1
    <3>2. Written[id] = batch[i].row
      BY <2>1, <3>1 DEF Written
    <3>3. batch[i] \in Operation
      BY <1>1, <3>1
    <3>4. Live(lines \o batch)[id] = batch[i].row
      BY <1>1, <3>1, LiveConcat
    <3>5. QED
      BY <3>2, <3>3, <3>4 DEF Operation
  <2>2. CASE ~ \E i \in DOMAIN batch : batch[i].id = id
    <3>1. Written[id] = records[id]
      BY <2>2 DEF Written
    <3>2. Live(lines \o batch)[id] = Live(lines)[id]
      BY <1>1, <2>2, LiveConcat
    <3>3. QED
      BY <1>1, <3>1, <3>2 DEF RowsSet
  <2>3. QED
    BY <2>1, <2>2
<1>5. records' \in RowsSet
  <2>1. Written = [id \in Ids |-> Written[id]]
    BY DEF Written
  <2>2. QED
    BY <1>2, <1>4, <2>1 DEF RowsSet
<1>6. TypeOK'
  <2>1. runtime' \in {None} \cup Index
    BY <1>1, <1>2
  <2>2. <<>> \in Seq(Operation) /\ {} \subseteq (UniqueFields \X Vals) \X Ids
    OBVIOUS
  <2>3. sixb' \in {None} \cup Cache
    BY <1>1, <1>2 DEF TypeOK
  <2>4. QED
    BY <1>2, <1>3, <1>5, <2>1, <2>2, <2>3 DEF TypeOK, Idle, RowsSet
<1>7. CachesInv'
  <2>1. RuntimeIsRebuilt' /\ SnapshotIsRebuilt'
    BY <1>1, <1>2 DEF RuntimeIsRebuilt, SnapshotIsRebuilt
  <2>2. RecordsAreLive'
    BY <1>2, <1>4 DEF RecordsAreLive
  <2>3. QED
    BY <1>1, <1>2, <2>1, <2>2 DEF CachesInv
<1>8. phase' = "idle" /\ done' = 0 /\ claimed' = {}
  BY <1>2 DEF Idle
<1>9. QED
  BY <1>6, <1>7, <1>8, IdleInv

-------------------------------------------------------------------------------
(* The theorems. *)

\* The invariant holds from the start and at every step.
THEOREM IndexCorrect == Spec => []IndexInv
<1>1. Init => IndexInv
  <2> SUFFICES ASSUME Init PROVE IndexInv
    OBVIOUS
  <2>1. <<>> \in Seq(Operation) /\ {} \subseteq (UniqueFields \X Vals) \X Ids
    OBVIOUS
  <2>2. TypeOK
    BY <2>1 DEF Init, TypeOK
  <2>3. CachesInv
    BY DEF Init, CachesInv, RuntimeIsRebuilt, SnapshotIsRebuilt, RecordsAreLive
  <2>4. WorkingInv /\ ValidationInv /\ ClaimedInv /\ AcceptsOnlyValid
    BY DEF Init, WorkingInv, WorkingIsRebuilt, ValidationInv, ClaimedInv, AcceptsOnlyValid
  <2>5. QED
    BY <2>2, <2>3, <2>4 DEF IndexInv
<1>2. IndexInv /\ [Next]_vars => IndexInv'
  <2> SUFFICES ASSUME IndexInv, [Next]_vars PROVE IndexInv'
    OBVIOUS
  <2>1. CASE UNCHANGED vars
    BY <2>1 DEF vars, caches, append, IndexInv, TypeOK, CachesInv, RuntimeIsRebuilt,
                SnapshotIsRebuilt, RecordsAreLive, WorkingInv, WorkingIsRebuilt, ValidationInv,
                Seen, RowsBut, ClaimedInv, CheckedTo, AcceptsOnlyValid
  <2>2. CASE \E ids \in SUBSET Ids : ReadRuntime(ids) \/ ReadSnapshot(ids)
    BY <2>2, ReadsKeepInv
  <2>3. CASE Rebuild
    BY <2>3, ReadsKeepInv
  <2>4. CASE DropCaches \/ OtherAppend \/ BeginFails \/ RefuseExisting \/ RefuseClash \/ WriteFails
    BY <2>4, DropsKeepInv
  <2>5. CASE Begin
    BY <2>5, BeginKeepsInv
  <2>6. CASE RemoveOperation
    BY <2>6, RemoveKeepsInv
  <2>7. CASE CheckOperation
    BY <2>7, CheckKeepsInv
  <2>8. CASE ApplyNext
    BY <2>8, ApplyKeepsInv
  <2>9. CASE Write
    BY <2>9, WriteKeepsInv
  <2>10. QED
    BY <2>1, <2>2, <2>3, <2>4, <2>5, <2>6, <2>7, <2>8, <2>9 DEF Next
<1>3. QED
  BY <1>1, <1>2, PTL DEF Spec

\* Every variable keeps its type.
THEOREM TypeCorrect == Spec => []TypeOK
<1>1. IndexInv => TypeOK
  BY DEF IndexInv
<1>2. QED
  BY <1>1, IndexCorrect, PTL

\* The cached index, kept operation by operation, is the one a rebuild makes.
THEOREM RuntimeCorrect == Spec => []RuntimeIsRebuilt
<1>1. IndexInv => RuntimeIsRebuilt
  BY DEF IndexInv, CachesInv
<1>2. QED
  BY <1>1, IndexCorrect, PTL

\* The index a batch is applied to is that of the lines as they will be.
THEOREM WorkingCorrect == Spec => []WorkingIsRebuilt
<1>1. IndexInv => WorkingIsRebuilt
  BY DEF IndexInv, WorkingInv
<1>2. QED
  BY <1>1, IndexCorrect, PTL

\* A cached row is the live row.
THEOREM RecordsCorrect == Spec => []RecordsAreLive
<1>1. IndexInv => RecordsAreLive
  BY DEF IndexInv, CachesInv
<1>2. QED
  BY <1>1, IndexCorrect, PTL

\* A batch that passes the checks against the index is valid for the table.
THEOREM AcceptedIsValid == Spec => []AcceptsOnlyValid
<1>1. IndexInv => AcceptsOnlyValid
  BY DEF IndexInv
<1>2. QED
  BY <1>1, IndexCorrect, PTL

\* A lookup answers the live rows with the key, and no other.
THEOREM LookupsCorrect == Spec => []LookupsAnswerLines
<1>1. IndexInv => LookupsAnswerLines
  <2> SUFFICES ASSUME IndexInv, phase = "idle", Ensurable, NEW k \in LookupKey
               PROVE  LET matches == {id \in Ids : Live(lines)[id] # None
                                                     /\ k \in KeysOf(Live(lines)[id])}
                      IN  /\ Served.index.ids[k] = matches
                          /\ LookupRows(k) = {<<id, Live(lines)[id]>> : id \in matches}
    BY DEF LookupsAnswerLines
  <2> DEFINE matches == {id \in Ids : Live(lines)[id] # None /\ k \in KeysOf(Live(lines)[id])}
  <2>1. /\ TypeOK /\ CachesInv /\ lines \in Seq(Operation) /\ records \in RowsSet
        /\ \A id \in Ids : records[id] \in {None, Live(lines)[id]}
        /\ runtime # None => runtime = IndexOf(lines)
    BY DEF IndexInv, TypeOK, CachesInv, RuntimeIsRebuilt, RecordsAreLive, RowsSet
  <2>2. /\ Ensured.snapshot = BuildCache(lines) /\ Ensured.records \in RowsSet
        /\ \A id \in Ids : Ensured.records[id] \in {None, Live(lines)[id]}
    BY <2>1, EnsuredFacts
  <2>3. /\ Served.index = IndexOf(lines) /\ Served.records \in RowsSet
        /\ \A id \in Ids : Served.records[id] \in {None, Live(lines)[id]}
    BY <2>1, <2>2 DEF Served, IndexOf
  <2>4. Served.index.ids[k] = matches /\ Served.index.ptr = Pointers(lines)
    <3>1. IndexOf(lines).ids = IdsUnder(Live(lines)) /\ IndexOf(lines).ptr = Pointers(lines)
      BY <2>1, IndexFacts DEF Holds
    <3>2. IdsUnder(Live(lines))[k] = matches
      BY DEF IdsUnder
    <3>3. QED
      BY <2>3, <3>1, <3>2
  <2>5. \A id \in Ids : Live(lines)[id] # None <=> Pointers(lines)[id] # None
    BY <2>1, LiveType
  <2>6. LookupIds(k) = matches
    BY <2>4, <2>5 DEF LookupIds
  <2>7. ASSUME NEW id \in matches
        PROVE  Fetched(Served.records, {id}, Served.index.ptr)[id] = Live(lines)[id]
    <3>1. {id} \in SUBSET {i \in Ids : Pointers(lines)[i] # None}
      BY <2>5
    <3>2. Fetched(Served.records, {id}, Pointers(lines))[id] = Live(lines)[id]
      BY <2>1, <2>3, <3>1, FetchedLive
    <3>3. QED
      BY <3>2, <2>4 DEF Fetched
  <2>8. LookupRows(k) = {<<id, Live(lines)[id]>> : id \in matches}
    BY <2>6, <2>7 DEF LookupRows
  <2>9. QED
    BY <2>4, <2>8
<1>2. QED
  BY <1>1, IndexCorrect, PTL

\* A batch that is refused is not valid for the table.
THEOREM RefusedIsInvalid == Spec => RefusesOnlyInvalid
<1> DEFINE P == (phase \in {"remove", "check"} /\ phase' = "idle") =>
                  ~ValidBatch(Live(lines), batch, insertOnly)
<1>1. ASSUME IndexInv, Next
      PROVE  P
  <2>1. /\ lines \in Seq(Operation) /\ batch \in Seq(Operation) /\ Len(batch) \in Nat
        /\ done \in Nat
        /\ phase \in {"remove", "check"} => done + 1 \in DOMAIN batch
    BY <1>1 DEF IndexInv, TypeOK
  <2>2. CASE RefuseExisting
    <3>1. Current = batch[done + 1] /\ insertOnly /\ working = IndexOf(lines)
          /\ done + 1 \in DOMAIN batch /\ working.ptr[Current.id] # None
      BY <2>1, <2>2, <1>1 DEF RefuseExisting, Exists, Current, IndexInv, WorkingInv
    <3>2. Current.id \in Ids
      <4>1. batch[done + 1] \in Operation
        BY <2>1, <3>1
      <4>2. QED
        BY <3>1, <4>1 DEF Operation
    <3>3. working.ptr = Pointers(lines)
      BY <2>1, <3>1, IndexFacts
    <3>4. Live(lines)[Current.id] # None
      BY <2>1, <3>1, <3>2, <3>3, LiveType
    <3>5. QED
      BY <3>1, <3>4 DEF ValidBatch
  <2>3. CASE RefuseClash
    <3>1. Current = batch[done + 1] /\ phase = "check" /\ done + 1 \in DOMAIN batch
      BY <2>1, <2>3 DEF RefuseClash, Current
    <3>2. \A j \in 1..done : j \in DOMAIN batch /\ j # done + 1
      BY <2>1, <3>1
    <3>3. CASE Repeated(Current)
      BY <3>1, <3>2, <3>3 DEF Repeated, ValidBatch
    <3>4. CASE Conflicts(Current)
      <4>1. Current.row # None
        BY <3>4 DEF Conflicts
      <4>2. PICK f \in UniqueFields : AnotherRowHas(f) \/ AnotherPutHas(f)
        BY <1>1, <3>1, <3>4, <4>1, ConflictMeans
      <4>3. CASE AnotherRowHas(f)
        BY <3>1, <4>1, <4>3 DEF AnotherRowHas, ValidBatch
      <4>4. CASE AnotherPutHas(f)
        BY <3>1, <3>2, <4>1, <4>4 DEF AnotherPutHas, ValidBatch
      <4>5. QED
        BY <4>2, <4>3, <4>4
    <3>5. QED
      BY <2>3, <3>3, <3>4 DEF RefuseClash
  <2>4. CASE ~RefuseExisting /\ ~RefuseClash
    BY <1>1, <2>4
       DEF Next, ReadRuntime, ReadSnapshot, Rebuild, DropCaches, OtherAppend, Begin, BeginFails,
           RemoveOperation, CheckOperation, ApplyNext, Write, WriteFails, Advance
  <2>5. QED
    BY <2>2, <2>3, <2>4
<1>2. IndexInv /\ [Next]_vars => [P]_vars
  BY <1>1
<1>3. QED
  BY <1>2, IndexCorrect, PTL DEF Spec, RefusesOnlyInvalid
===============================================================================
