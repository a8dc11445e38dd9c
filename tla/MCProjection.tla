------------------------------ MODULE MCProjection ------------------------------
(***************************************************************************)
(* Two tables of one row each, chunks of one line, batches of up to two:   *)
(* a batch of two makes a chunk longer than the limit, as in the code, and *)
(* two batches of one make two chunks of the same row.                     *)
(***************************************************************************)
EXTENDS Projection, TLC

CONSTANTS a, b, r, e1, e2

MCTableOrder == <<a, b>>

Symmetry == Permutations(Exporters)
===============================================================================
