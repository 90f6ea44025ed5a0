------------------------------- MODULE MCCart -------------------------------
(* Cart with its requests and products interchangeable, for TLC. *)
EXTENDS Cart, TLC

\* One unit more and one unit less.
SignedQuantities == {1, -1}

Symmetry == Permutations(Request) \cup Permutations(Product)
=============================================================================
