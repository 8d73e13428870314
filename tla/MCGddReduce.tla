---------------------------- MODULE MCGddReduce ----------------------------
(* GddReduce for TLC. *)
EXTENDS GddReduce, TLC

\* Vertices are ordered, segments are not.
Symmetry == Permutations(Seg)

=============================================================================
