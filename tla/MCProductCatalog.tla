-------------------------- MODULE MCProductCatalog --------------------------
(***************************************************************************)
(* ProductCatalog with its requests and sellers interchangeable, and       *)
(* CategoryTree beside it, for TLC.                                        *)
(*                                                                         *)
(* The two share no variable: products take a category as an identifier.   *)
(* A behaviour is one of the products or one of the categories, which      *)
(* shows all that a behaviour of both would.                               *)
(***************************************************************************)
EXTENDS ProductCatalog, CategoryTree, TLC

Symmetry == Permutations(Request) \cup Permutations(Seller)

\* Bodies that differ in their prices, and the price numeric(10,2) makes of each.
RoundedBody == [b \in Body |-> IF b = "9.994" THEN "9.99" ELSE b]

NothingAsked == \A r \in Request : at[r] = "unused"

MCInit == Init /\ TreeInit

MCNext ==
    \/ Next /\ DOMAIN rows = {} /\ UNCHANGED treeVars
    \/ TreeNext /\ NothingAsked /\ UNCHANGED vars

MCSpec == MCInit /\ [][MCNext]_<<vars, treeVars>>
=============================================================================
