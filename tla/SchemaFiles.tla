------------------------------ MODULE SchemaFiles ------------------------------
(***************************************************************************)
(* What a schema file means.  The schema compiler (sixpack-schema-compiler)*)
(* checks the declared tables and hashes them as they are declared; the    *)
(* runtime schema (sixpack-core, schema.rs) is built from them and checked *)
(* again, with its own rules, and gives a table the preamble of its chunks.*)
(* Operators only, for the machine Bridge.                                 *)
(*                                                                         *)
(* A schema is the sequence of its tables; a table is a name, a sequence   *)
(* of fields and a sequence of lookups.  Text, tokens and their positions  *)
(* are left out; a file that does not parse is not a schema here.          *)
(***************************************************************************)
EXTENDS Naturals, Sequences

CONSTANT BadNames       \* names that are not snake case, or begin with '_'

ParsedField(name, type)   == [name |-> name, type |-> type]
ParsedLookup(name, unique) == [name |-> name, unique |-> unique]
ParsedTable(name, fields, lookups) == [name |-> name, fields |-> fields, lookups |-> lookups]

NamesOf(s) == {s[i].name : i \in DOMAIN s}

Distinct(s) == \A i, j \in DOMAIN s : s[i].name = s[j].name => i = j

WellNamed(s) == NamesOf(s) \cap BadNames = {} /\ Distinct(s)

-------------------------------------------------------------------------------
(* The compiler: validate_schema. *)

Compiles(schema) ==
    /\ WellNamed(schema)
    /\ \A i \in DOMAIN schema :
         /\ WellNamed(schema[i].fields)
         /\ "id" \in NamesOf(schema[i].fields)
         /\ NamesOf(schema[i].lookups) \subseteq NamesOf(schema[i].fields)
         /\ Distinct(schema[i].lookups)

\* The implicit lookup of every table.
IdLookup == ParsedLookup("id", TRUE)

\* SchemaIr::schema_hash: the signatures of the tables in the order of the file,
\* which tell everything that is declared.
IrHash(schema) ==
    [i \in DOMAIN schema |-> [schema[i] EXCEPT !.lookups = <<IdLookup>> \o @]]

-------------------------------------------------------------------------------
(* The runtime schema: database_schema_from_ir, table by table. *)

\* add_field, add_lookup and add_table.
TableBuilds(table) ==
    /\ WellNamed(table.fields)
    /\ WellNamed(table.lookups)
    /\ \E i \in DOMAIN table.fields : table.fields[i] = ParsedField("id", "id")
    /\ NamesOf(table.lookups) \subseteq NamesOf(table.fields)

Builds(schema) == WellNamed(schema) /\ \A i \in DOMAIN schema : TableBuilds(schema[i])

TableOf(schema, t) == schema[CHOOSE i \in DOMAIN schema : schema[i].name = t]

\* encode_six_preamble without its hash, which is not compared: the fields in
\* order; the lookups, kept in a map, in no order of the file.
PreambleOf(schema, t) ==
    LET table == TableOf(schema, t)
    IN  [fields |-> table.fields,
         lookups |-> {IdLookup} \cup {table.lookups[i] : i \in DOMAIN table.lookups}]
===============================================================================
