----------------------------- MODULE MCResGroup -----------------------------
(* Resource groups for TLC; the constants are given in the configurations.  *)
EXTENDS ResGroup, TLC

\* Sessions are alike, and so are admins.
Symmetry == Permutations(Session) \cup Permutations(Admin)

=============================================================================
