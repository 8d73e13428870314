------------------------------- MODULE MCDtm -------------------------------
(* Dtm for TLC. *)
EXTENDS DtmRefinement, TLC

Symmetry == Permutations(Gxid) \union Permutations(Seg)

=============================================================================
