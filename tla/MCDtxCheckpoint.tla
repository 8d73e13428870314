-------------------------- MODULE MCDtxCheckpoint --------------------------
(* DtxCheckpoint for TLC. *)
EXTENDS DtxCheckpoint, TLC

Symmetry == Permutations(Backend) \union Permutations(Gxid)

=============================================================================
