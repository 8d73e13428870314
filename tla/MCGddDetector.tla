--------------------------- MODULE MCGddDetector ---------------------------
(* GddDetector for TLC. *)
EXTENDS GddDetector, TLC

\* Vertices are ordered, segments are not.
Symmetry == Permutations(Seg \ {QD})

=============================================================================
