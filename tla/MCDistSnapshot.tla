--------------------------- MODULE MCDistSnapshot ---------------------------
(* DistSnapshot for TLC. *)
EXTENDS DistSnapshot, TLC

Symmetry == Permutations(Txn) \union Permutations(Segment)

=============================================================================
