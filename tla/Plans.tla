--------------------------------- MODULE Plans ---------------------------------
(***************************************************************************)
(* The database API: requests become plan envelopes (request.rs), a plan   *)
(* is checked against the schema and resolved against one snapshot of the  *)
(* store (database.rs).  Operators only; Pages and Bridge are the machines *)
(* that execute plans.                                                     *)
(*                                                                         *)
(* A table has the fields id, key (unique lookup) and tag (plain lookup).  *)
(***************************************************************************)
EXTENDS TableRows, FiniteSets, FiniteSetsExt

CONSTANTS
    Tables,         \* tables of the schema
    Tags,           \* values of the field tag
    MaxLimit,       \* MAX_PLAN_LIMIT
    DefaultLimit,   \* DEFAULT_PLAN_LIMIT
    MaxUsize,       \* usize::MAX
    None,           \* an absent lookup, limit or cursor
    BadCursor       \* a cursor that does not parse as a usize

ASSUME OrderedIds == Ids \subseteq Nat /\ IsFiniteSet(Ids) /\ Cardinality(Ids) <= MaxUsize
ASSUME Limits == MaxUsize \in Nat /\ MaxLimit \in 1..MaxUsize /\ DefaultLimit \in 1..MaxLimit
ASSUME Markers == None \notin 0..MaxUsize /\ BadCursor \notin 0..MaxUsize /\ BadCursor # None
ASSUME NoRowIsNoRecord == NoRow \notin [key : Keys, tag : Tags]

Fields        == {"id", "key", "tag"}
UniqueLookups == {"id", "key"}
Lookups       == UniqueLookups \cup {"tag"}
Row           == [key : Keys, tag : Tags]

ASSUME NoneIsNoLookup == None \notin Lookups

(***************************************************************************)
(* Plan envelopes.                                                         *)
(***************************************************************************)
Plan(op, t) ==
    [op |-> op, table |-> t, lookup |-> None, key |-> [l \in {} |-> None],
     value |-> [f \in {} |-> None], limit |-> None, cursor |-> None]

WithKey(p, l, k) == [p EXCEPT !.lookup = l, !.key = [x \in {l} |-> k]]
WithPage(p, n, c) == [p EXCEPT !.limit = n, !.cursor = c]

GetOne(t, l, k)        == WithKey(Plan("get", t), l, k)
GetMany(t, l, k)       == WithPage(WithKey(Plan("find", t), l, k), MaxLimit, None)
FindPage(t, l, k, n, c) == WithPage(WithKey(Plan("find", t), l, k), n, c)
GetPage(t, n, c)       == WithPage(Plan("scan", t), n, c)
GetCount(t)            == Plan("count", t)
CountLookup(t, l, k)   == WithKey(Plan("count", t), l, k)

Add(t, v)          == [Plan("insert", t) EXCEPT !.value = v]
Set(t, v)          == [Plan("upsert", t) EXCEPT !.value = v]
Edit(t, l, k, v)   == [WithKey(Plan("patch", t), l, k) EXCEPT !.value = v]
Remove(t, l, k)    == WithKey(Plan("remove", t), l, k)

(***************************************************************************)
(* The checks of a plan, before any row is read.                           *)
(***************************************************************************)
Addressed(p, lookups) == p.lookup \in lookups /\ p.lookup \in DOMAIN p.key

\* Mutant of GoodLimit: a page of no rows is asked for.
AnyLimit(n) == n = None \/ n \in 0..MaxLimit

GoodLimit(n)  == n = None \/ n \in 1..MaxLimit
LimitOf(n)    == IF n = None THEN DefaultLimit ELSE n
GoodCursor(c) == c # BadCursor
OffsetOf(c)   == IF c = None THEN 0 ELSE c

GoodPatch(v) ==
    /\ DOMAIN v # {}
    /\ "id" \notin DOMAIN v
    /\ DOMAIN v \subseteq Fields

ValidPlan(p) ==
    /\ p.table \in Tables
    /\ p.op = "get" => Addressed(p, UniqueLookups)
    /\ p.op = "find" => Addressed(p, Lookups)
    /\ p.op \in {"find", "scan"} => GoodLimit(p.limit) /\ GoodCursor(p.cursor)
    /\ p.op = "count" => p.lookup = None \/ Addressed(p, Lookups)
    /\ p.op = "patch" => GoodPatch(p.value)
    /\ p.op \in {"patch", "remove"} => Addressed(p, UniqueLookups)

\* The values are of the types of their fields.
Typed(v) ==
    /\ "id" \in DOMAIN v => v["id"] \in Ids
    /\ "key" \in DOMAIN v => v["key"] \in Keys
    /\ "tag" \in DOMAIN v => v["tag"] \in Tags

\* validate_record: every field of the table and no other.
Complete(v) == DOMAIN v = Fields

(***************************************************************************)
(* What a plan addresses, and the change it resolves to, in the rows r of  *)
(* its table.                                                              *)
(***************************************************************************)
FieldOf(r, id, f) == IF f = "id" THEN id ELSE r[id][f]

Live(r) == {id \in Ids : r[id] # NoRow}

Found(r, p) ==
    IF p.lookup = None THEN Live(r)
    ELSE {id \in Live(r) : FieldOf(r, id, p.lookup) = p.key[p.lookup]}

Refusal(r, p) ==
    IF ~ValidPlan(p) THEN "invalid_plan"
    ELSE IF p.op \in {"insert", "upsert"} /\ ~Complete(p.value) THEN "schema_error"
    ELSE IF p.op \in {"patch", "remove"} /\ Found(r, p) = {} THEN "not_found"
    ELSE "ok"

Named(r, p) == CHOOSE id \in Found(r, p) : TRUE

Resolved(r, p) ==
    IF p.op \in {"insert", "upsert"}
    THEN [id |-> p.value["id"], row |-> [key |-> p.value["key"], tag |-> p.value["tag"]]]
    ELSE LET id       == Named(r, p)
             After(f) == IF f \in DOMAIN p.value THEN p.value[f] ELSE r[id][f]
         IN  [id |-> id,
              row |-> IF p.op = "remove" THEN NoRow
                      ELSE [key |-> After("key"), tag |-> After("tag")]]

(***************************************************************************)
(* The store's part: append_batch_inner checks the changes b together.     *)
(***************************************************************************)
KeyOf(row)     == IF row = NoRow THEN NoRow ELSE row.key
KeysOf(r)      == [id \in Ids |-> KeyOf(r[id])]
KeyChanges(b)  == [i \in DOMAIN b |-> [id |-> b[i].id, key |-> KeyOf(b[i].row)]]

Repeats(b, i) == \E j \in 1..(i - 1) : b[j].id = b[i].id
Clashes(r, b, i) ==
    /\ b[i].row # NoRow
    /\ \/ \E j \in 1..(i - 1) : KeyOf(b[j].row) = b[i].row.key
       \/ \E id \in Live(r) : r[id].key = b[i].row.key /\ \A j \in DOMAIN b : b[j].id # id

\* Mutant of StoreCode: the puts of one batch are not compared.
StoreCodeAlone(r, b, only) ==
    IF ValidAgainstRows(KeysOf(r), KeyChanges(b), only) THEN "ok" ELSE "already_exists"

\* Mutant of StoreCode: a key is free only once an earlier change of the batch
\* has taken it from its row.
StoreCodeInOrder(r, b, only) ==
    IF \E i \in DOMAIN b : \/ Repeats(b, i)
                           \/ only /\ r[b[i].id] # NoRow
                           \/ Clashes(r, Prefix(b, i), i)
    THEN "already_exists" ELSE "ok"

StoreCode(r, b, only) ==
    IF ValidBatch(KeysOf(r), KeyChanges(b), only) THEN "ok"
    ELSE IF only /\ \E i \in DOMAIN b : r[b[i].id] # NoRow THEN "already_exists"
    ELSE IF Repeats(b, Min({i \in DOMAIN b : Repeats(b, i) \/ Clashes(r, b, i)}))
         THEN "io_error" ELSE "already_exists"

Changed(r, b) ==
    [id \in Ids |-> IF \E i \in DOMAIN b : b[i].id = id
                    THEN b[CHOOSE i \in DOMAIN b : b[i].id = id].row ELSE r[id]]

(***************************************************************************)
(* write_many: inserts only, or changes that are all resolved against the  *)
(* same rows; the first change that is refused names the error.            *)
(***************************************************************************)
Resolution(r, ps) == [i \in DOMAIN ps |-> Resolved(r, ps[i])]

ChangeCode(r, ps, i) ==
    IF Refusal(r, ps[i]) # "ok" THEN Refusal(r, ps[i])
    ELSE IF \E j \in 1..(i - 1) :
              /\ Refusal(r, ps[j]) = "ok"
              /\ Resolved(r, ps[j]).id = Resolved(r, ps[i]).id
         THEN "invalid_plan" ELSE "ok"

InsertCode(p) == IF Complete(p.value) THEN "ok" ELSE "schema_error"

ManyCode(all, ps) ==
    LET t        == ps[1].table
        only     == \A i \in DOMAIN ps : ps[i].op = "insert"
        Code(i)  == IF only THEN InsertCode(ps[i]) ELSE ChangeCode(all[t], ps, i)
        refused  == {i \in DOMAIN ps : Code(i) # "ok"}
    IN  IF \E i \in DOMAIN ps : ps[i].table # t THEN "invalid_plan"
        ELSE IF ~only /\ \E i \in DOMAIN ps : ps[i].op = "insert" THEN "invalid_plan"
        ELSE IF t \notin Tables THEN IF only THEN "invalid_plan" ELSE "io_error"
        ELSE IF refused # {} THEN Code(Min(refused))
        ELSE StoreCode(all[t], Resolution(all[t], ps), only)

WriteOps == {"insert", "upsert", "patch", "remove"}

\* Mutant of PlanCode: an insert is written like an upsert.
PlanCodeUpserting(r, p) ==
    IF Refusal(r, p) # "ok" \/ p.op \notin WriteOps THEN Refusal(r, p)
    ELSE StoreCode(r, <<Resolved(r, p)>>, FALSE)

PlanCode(r, p) ==
    IF Refusal(r, p) # "ok" \/ p.op \notin WriteOps THEN Refusal(r, p)
    ELSE StoreCode(r, <<Resolved(r, p)>>, p.op = "insert")

(***************************************************************************)
(* One page of a find or scan plan: the store orders the rows by id.       *)
(***************************************************************************)
Rank(s, id) == Cardinality({j \in s : j < id})

PageOf(s, offset, n) == {id \in s : Rank(s, id) \in offset..(offset + n - 1)}

SaturatingAdd(a, b) == IF a + b > MaxUsize THEN MaxUsize ELSE a + b

\* Mutant of NextCursor: the row after the page is skipped.
CursorPastNext(offset, n, total) ==
    IF SaturatingAdd(offset, n) + 1 < total THEN SaturatingAdd(offset, n) + 1 ELSE None

\* Mutant of NextCursor: the next page starts with the last row of this one.
CursorAtLast(offset, n, total) ==
    IF SaturatingAdd(offset, n) < total THEN SaturatingAdd(offset, n) - 1 ELSE None

NextCursor(offset, n, total) ==
    IF SaturatingAdd(offset, n) < total THEN SaturatingAdd(offset, n) ELSE None
===============================================================================
