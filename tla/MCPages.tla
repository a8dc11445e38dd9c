-------------------------------- MODULE MCPages --------------------------------
(***************************************************************************)
(* Model checking of Pages: one table of three ids, calls by id and by     *)
(* unique key, and every kind of refused plan.                             *)
(***************************************************************************)
EXTENDS Pages

CONSTANTS tbl, NoTable, k1, k2, g1, g2

Record(id, k, g) == [id |-> id, key |-> k, tag |-> g]

Records == {Record(id, k, g) : id \in Ids, k \in Keys, g \in Tags}

Patches == {[key |-> k] : k \in Keys} \cup {[tag |-> g] : g \in Tags}

BadPatches == {[f \in {} |-> None], [id |-> 1], [ghost |-> g1, tag |-> g1]}

MCCalls ==
    {Add(tbl, v) : v \in Records} \cup {Set(tbl, v) : v \in Records}
    \cup {Edit(tbl, "id", id, v) : id \in Ids, v \in Patches}
    \cup {Edit(tbl, "key", k, v) : k \in Keys, v \in Patches}
    \cup {Remove(tbl, "key", k) : k \in Keys}
    \cup {Edit(tbl, "id", 1, v) : v \in BadPatches}
    \cup {Set(tbl, [tag |-> g1]), Add(NoTable, Record(1, k1, g1)), Set(NoTable, Record(1, k1, g1)),
          Remove(tbl, "tag", g1), Plan("remove", tbl)}

\* Key swaps, moves of a key, the same row twice, mixed and foreign tables.
MCManyCalls ==
    {<<Edit(tbl, "id", i, [key |-> k]), Edit(tbl, "id", j, [key |-> l])>> :
        i, j \in Ids, k, l \in Keys}
    \cup {<<Add(tbl, Record(i, k1, g1)), Add(tbl, Record(j, k2, g2))>> : i, j \in Ids}
    \cup {<<Remove(tbl, "key", k1), Set(tbl, Record(i, k1, g2))>> : i \in Ids}
    \cup {<<Add(tbl, Record(1, k1, g1)), Remove(tbl, "id", 2)>>,
          <<Add(tbl, [tag |-> g1])>>,
          <<Set(tbl, Record(1, k1, g1)), Set(NoTable, Record(2, k2, g1))>>,
          <<Remove(NoTable, "id", 1)>>}

MCReadings ==
    {GetPage(tbl, n, None) : n \in {None, 0, 2, 3}}
    \cup {FindPage(tbl, "tag", g1, 1, c) : c \in {None, 1, MaxUsize, BadCursor}}
    \cup {GetMany(tbl, "ghost", k1), GetPage(NoTable, 1, None)}
===============================================================================
