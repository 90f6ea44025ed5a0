--------------------------- MODULE MCUserAccounts ---------------------------
(* UserAccounts with its requests interchangeable, for TLC. *)
EXTENDS UserAccounts, TLC

Symmetry == Permutations(Request)
=============================================================================
