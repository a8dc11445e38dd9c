---------------------------- MODULE MCSixpackStore ----------------------------
(***************************************************************************)
(* Model checking of SixpackStore: small sets and the symmetry of handles. *)
(***************************************************************************)
EXTENDS SixpackStore, TLC

HandleSymmetry == Permutations(Handles)
RowSymmetry    == Permutations(Ids) \cup Permutations(Keys)
Symmetry       == HandleSymmetry \cup Permutations(Tables) \cup RowSymmetry
===============================================================================
