--------------------------------- MODULE Pages ---------------------------------
(***************************************************************************)
(* Callers of the database API and a reader of pages.  A call is one step: *)
(* what happens inside the store's critical section is SixpackStore.       *)
(* Beside the callers one reader asks for the pages of a selection one at  *)
(* a time, and anything may be written between two pages.                  *)
(***************************************************************************)
EXTENDS Plans

CONSTANTS
    Calls,          \* the plans callers write with, one at a time
    ManyCalls,      \* the sequences of plans callers give to write_many
    Readings        \* requests for pages, find and scan plans

ASSUME CallsWrite ==
    /\ \A p \in Calls : p.op \in WriteOps /\ Typed(p.value)
    /\ \A ps \in ManyCalls :
         /\ ps \in Seq({ps[i] : i \in DOMAIN ps}) /\ ps # <<>>
         /\ \A i \in DOMAIN ps : ps[i].op \in WriteOps /\ Typed(ps[i].value)
ASSUME ReadingsRead ==
    \A p \in Readings :
        /\ p.op \in {"find", "scan"}
        /\ p = [Plan(p.op, p.table) EXCEPT !.lookup = p.lookup, !.key = p.key,
                                          !.limit = p.limit, !.cursor = p.cursor]
        /\ p.cursor \in 0..MaxUsize \cup {None, BadCursor}

VARIABLES
    rows,       \* table -> id -> its row, or NoRow
    reader      \* the reader of pages, with what happened since it started

vars == <<rows, reader>>

(***************************************************************************)
(* A reader carries the cursor it was given and a history of the selection *)
(* since it started: how often each row was returned, which rows matched   *)
(* all the time, whether one joined or left.                               *)
(***************************************************************************)
Idle == [on |-> FALSE, plan |-> None, seen |-> [id \in Ids |-> 0],
         stayed |-> {}, joined |-> FALSE, left |-> FALSE]

Init ==
    /\ rows = [t \in Tables |-> [id \in Ids |-> NoRow]]
    /\ reader = Idle

Selected(r) == Found(r[reader.plan.table], reader.plan)

\* The ids of s that the cursor of p has not passed.
Ahead(s, p) == {id \in s : Rank(s, id) >= OffsetOf(p.cursor)}

\* The reader's history across a write from the rows of now to those of r;
\* one that has ended is forgotten.
Witnessed(r) ==
    IF ~reader.on THEN Idle
    ELSE [reader EXCEPT !.stayed = @ \cap Selected(r),
                        !.joined = @ \/ ~(Selected(r) \subseteq Selected(rows)),
                        !.left   = @ \/ ~(Selected(rows) \subseteq Selected(r))]

\* The changes b of an accepted call are made at once; a refused call makes none.
Make(t, b) ==
    /\ rows' = [rows EXCEPT ![t] = Changed(@, b)]
    /\ reader' = Witnessed(rows')

Execute(p) ==
    /\ p.table \in Tables
    /\ PlanCode(rows[p.table], p) = "ok"
    /\ Make(p.table, <<Resolved(rows[p.table], p)>>)

WriteMany(ps) ==
    /\ ManyCode(rows, ps) = "ok"
    /\ Make(ps[1].table, Resolution(rows[ps[1].table], ps))

\* apply with Put: a record without a plan.
Apply(t, v) ==
    /\ t \in Tables /\ Complete(v)
    /\ StoreCode(rows[t], <<Resolved(rows[t], Set(t, v))>>, FALSE) = "ok"
    /\ Make(t, <<Resolved(rows[t], Set(t, v))>>)

\* delete_by_id writes a tombstone whether or not the row is live.
DeleteById(t, id) == Make(t, <<[id |-> id, row |-> NoRow]>>)

StartReading(p) ==
    /\ ValidPlan(p)
    /\ reader' = [Idle EXCEPT !.on = TRUE, !.plan = p,
                              !.stayed = Ahead(Found(rows[p.table], p), p)]
    /\ UNCHANGED rows

\* The page at the reader's cursor; without a next cursor it is the last one.
ReadPage ==
    LET p      == reader.plan
        all    == Selected(rows)
        offset == OffsetOf(p.cursor)
        page   == PageOf(all, offset, LimitOf(p.limit))
        next   == NextCursor(offset, LimitOf(p.limit), Cardinality(all))
    IN  /\ reader.on
        /\ reader' = [reader EXCEPT !.seen = [id \in Ids |-> @[id] + IF id \in page THEN 1 ELSE 0],
                                    !.plan.cursor = IF next = None THEN @ ELSE next,
                                    !.on = next # None]
        /\ UNCHANGED rows

Next ==
    \/ \E p \in Calls : Execute(p)
    \/ \E ps \in ManyCalls : WriteMany(ps)
    \/ \E p \in Calls : p.op = "upsert" /\ Apply(p.table, p.value)
    \/ \E t \in Tables, id \in Ids : DeleteById(t, id)
    \/ ~reader.on /\ \E p \in Readings : StartReading(p)
    \/ ReadPage

\* A reader that was given a cursor comes back for the next page.
Spec == Init /\ [][Next]_vars /\ WF_vars(ReadPage)

(***************************************************************************)
(* Properties.                                                             *)
(***************************************************************************)
\* Types of the variables.
TypeOK ==
    /\ rows \in [Tables -> [Ids -> Row \cup {NoRow}]]
    /\ reader = [on |-> reader.on, plan |-> reader.plan, seen |-> reader.seen,
                 stayed |-> reader.stayed, joined |-> reader.joined, left |-> reader.left]
    /\ reader.on \in BOOLEAN /\ reader.joined \in BOOLEAN /\ reader.left \in BOOLEAN
    /\ reader.seen \in [Ids -> Nat]
    /\ reader.stayed \subseteq Ids
    /\ reader.on => /\ ValidPlan(reader.plan) /\ reader.plan.op \in {"find", "scan"}
                    /\ reader.plan.cursor \in 0..MaxUsize \cup {None}
                    /\ reader.plan = [op |-> reader.plan.op, table |-> reader.plan.table,
                                      lookup |-> reader.plan.lookup, key |-> reader.plan.key,
                                      value |-> reader.plan.value, limit |-> reader.plan.limit,
                                      cursor |-> reader.plan.cursor]

\* Whatever plans and batches are accepted, no two rows of a table ever share
\* the key of the unique lookup, so that get and patch mean one row.
KeysUnique == \A t \in Tables : UniqueKeys(KeysOf(rows[t]))

\* While rows of the selection come but none goes, the cursor passes over no
\* row that was there all the time: every such row before it was returned,
\* and all of them when no cursor is left.
PagesSkipNothing ==
    reader.plan # None /\ ~reader.left =>
        \A id \in reader.stayed :
            (reader.on => id \notin Ahead(Selected(rows), reader.plan)) => reader.seen[id] >= 1

\* While rows of the selection go but none comes, no row is returned twice.
PagesRepeatNothing == ~reader.joined => \A id \in Ids : reader.seen[id] <= 1

\* Two changes accepted by write_many are accepted in either order with the
\* same rows; and where the calls are also accepted one after the other, the
\* batch does the same.
BatchIsItsChanges ==
    reader = Idle =>
        \A t \in Tables : \A p, q \in {c \in Calls : c.table = t} :
            LET r        == rows[t]
                After(s) == Changed(r, Resolution(r, s))
                first    == Changed(r, <<Resolved(r, p)>>)
            IN  ManyCode(rows, <<p, q>>) = "ok" =>
                  /\ ManyCode(rows, <<q, p>>) = "ok"
                  /\ After(<<q, p>>) = After(<<p, q>>)
                  /\ PlanCode(r, p) = "ok" /\ PlanCode(first, q) = "ok" =>
                       Changed(first, <<Resolved(first, q)>>) = After(<<p, q>>)

\* Reading page after page ends, whatever is written in between.
ReadingEnds == reader.on ~> ~reader.on
===============================================================================
