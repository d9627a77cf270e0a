------------------------------- MODULE MCCatalog -------------------------------
(* An instance of Catalog for TLC: provider p lists a model of its own and *)
(* one that q lists under the same ID.                                     *)
EXTENDS Catalog, TLC

CONSTANTS a, b, p, q

MCOffers == p :> {a, b} @@ q :> {b}

MCPolicies ==
  {[enabled |-> TRUE, default |-> 1, max |-> 2],
   [enabled |-> FALSE, default |-> 0, max |-> 0]}
=============================================================================
