---------------------------- MODULE MCRuntimeIndex ----------------------------
(***************************************************************************)
(* Model checking of RuntimeIndex: two or three ids, one or two lookups,   *)
(* and the symmetry of lookup keys.                                        *)
(***************************************************************************)
EXTENDS RuntimeIndex, TLC

KeySymmetry == Permutations(Vals)
===============================================================================
