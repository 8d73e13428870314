------------------------------- MODULE MCFts ---------------------------------
(* Small instances of Fts: one pair. *)
EXTENDS Fts

=============================================================================
