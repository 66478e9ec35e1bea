-------------------------- MODULE MCSurfaceBuffers --------------------------
(***************************************************************************)
(* SurfaceBuffers for TLC: buffers, and surfaces, are interchangeable, so  *)
(* the runs that check safety explore one of each set of states that       *)
(* differ in their names only.                                             *)
(***************************************************************************)
EXTENDS SurfaceBuffers

Symmetry == Permutations(Buffers) \cup Permutations(Surfaces)
=============================================================================
