---------------------------- MODULE MCStorefront ----------------------------
(***************************************************************************)
(* The three models of what the outside world sees, for TLC: access, the   *)
(* documentation, and the callers of the order service.  They share no     *)
(* variable.  A behaviour belongs to one part, and the others stand still. *)
(*                                                                         *)
(* Access has two parts: "accounts", where requests overlap and the secret *)
(* stays, and "rotation", where the secret changes and one request at most *)
(* is in flight.                                                           *)
(***************************************************************************)
EXTENDS ApiAccess, ApiDocs, OrderClients, TLC

VARIABLE part

Busy(at) == {w \in Worker : at[w].op # "none"}

AccessPart ==
    /\ part \in {"accounts", "rotation"}
    /\ AccessNext
    /\ part = "accounts" => config' = config
    /\ part = "rotation" => Cardinality(Busy(work')) < 2
    /\ UNCHANGED <<docsVars, clientsVars>>

DocsPart ==
    /\ part = "docs"
    /\ DocsNext
    /\ UNCHANGED <<accessVars, clientsVars>>

ClientsPart ==
    /\ part = "clients"
    /\ ClientsNext
    /\ UNCHANGED <<accessVars, docsVars>>

StorefrontInit ==
    /\ part \in {"accounts", "rotation", "docs", "clients"}
    /\ AccessInit /\ DocsInit /\ ClientsInit
    /\ part \in {"docs", "clients"} => config = "unset"

StorefrontNext == (AccessPart \/ DocsPart \/ ClientsPart) /\ UNCHANGED part

storefrontVars == <<accessVars, docsVars, clientsVars, part>>

StorefrontSpec == StorefrontInit /\ [][StorefrontNext]_storefrontVars

Symmetry == Permutations(Worker) \cup Permutations(Order) \cup Permutations(Client)
=============================================================================
