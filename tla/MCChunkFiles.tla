----------------------------- MODULE MCChunkFiles -----------------------------
(***************************************************************************)
(* Model checking of ChunkFiles: names of two binary digits, small chunks, *)
(* and the symmetry of handles.                                            *)
(***************************************************************************)
EXTENDS ChunkFiles, TLC

HandleSymmetry == Permutations(Handles)

\* Bound: nothing is claimed of what follows a lapse.
UpToLapse == ~lapsed
===============================================================================
