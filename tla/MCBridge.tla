------------------------------- MODULE MCBridge -------------------------------
(***************************************************************************)
(* Model checking of Bridge: two calls on one table of two rows; the       *)
(* schema file has two usable versions with different preambles, one that  *)
(* does not compile and one the runtime refuses.                           *)
(***************************************************************************)
EXTENDS Bridge

CONSTANTS tbl, k1, k2, g1, v1, v2, odd, bad

Record(id, k) == [id |-> id, key |-> k, tag |-> g1]

MCRequests ==
    {InitRequest,
     One(Add(tbl, Record(1, k1))),
     EditAt(tbl, KeyOn(tbl, "id", 1), [key |-> Huge]),
     RemoveAt(tbl, KeyOn(tbl, "key", k1)), RemoveAt(tbl, KeyOn(None, "id", 2)),
     By(tbl, "tag", g1),
     Many(<<Set(tbl, Record(2, k1)), Edit(tbl, "id", 1, [key |-> k2])>>)}

\* Keys are integers, so that one of them can be Huge.
Typing(f) == IF f = "key" THEN "int" ELSE "text"

FieldsAs(idType, first, second) ==
    <<ParsedField("id", idType), ParsedField(first, Typing(first)),
      ParsedField(second, Typing(second))>>

LookupsAs(first, second) ==
    <<ParsedLookup(first, first = "key"), ParsedLookup(second, second = "key")>>

\* v2 has the fields in another order, which changes the hash and the preamble,
\* and the lookups, which changes only the hash; the id of odd is a text; bad
\* declares a field twice.
MCDeclared ==
    LET Notes(fields, lookups) == <<ParsedTable(tbl, fields, lookups)>> IN
    [v \in Versions |->
       CASE v = v1  -> Notes(FieldsAs("id", "key", "tag"), LookupsAs("key", "tag"))
         [] v = v2  -> Notes(FieldsAs("id", "tag", "key"), LookupsAs("tag", "key"))
         [] v = odd -> Notes(FieldsAs("text", "key", "tag"), LookupsAs("key", "tag"))
         [] v = bad -> Notes(FieldsAs("id", "key", "key"), LookupsAs("key", "tag"))]
===============================================================================
