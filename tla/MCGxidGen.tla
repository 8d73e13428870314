----------------------------- MODULE MCGxidGen -----------------------------
(* Instance of GxidGen for TLC: one backend beside the recovery worker. *)
EXTENDS GxidGen

CONSTANTS b1

MCBackend == {b1}
=============================================================================
