---------------------------- MODULE MCSharedHandle ----------------------------
(***************************************************************************)
(* Model checking of SharedHandle: two threads, two rows, every kind of    *)
(* read.                                                                   *)
(***************************************************************************)
EXTENDS SharedHandle, TLC

CONSTANTS t1, t2, k1, k2

Read(kind, id, key) == [kind |-> kind, id |-> id, key |-> key]

MCCalls == {Read("get", id, k1) : id \in Ids}
           \cup {Read(kind, 1, k1) : kind \in {"lookup", "matches", "scan", "page", "count"}}

LookupCalls == {Read("lookup", 1, k1)}

Symmetry == Permutations(Threads)
===============================================================================
