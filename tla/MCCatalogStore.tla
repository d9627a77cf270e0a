----------------------------- MODULE MCCatalogStore -----------------------------
(* An instance of CatalogStore for TLC: one provider with one model; a     *)
(* server and a CLI command of an older program, on a new database or on   *)
(* one that an earlier program left.                                       *)
EXTENDS CatalogStore, TLC

CONSTANTS a, p, server, cli, catalog, requests, cooldown, tier, cost

MCOffers == p :> {a}

MCPolicies ==
  {[enabled |-> TRUE, default |-> 1, max |-> 2],
   [enabled |-> FALSE, default |-> 0, max |-> 0]}

MCEnabled == {[enabled |-> TRUE, default |-> 1, max |-> 2]}
(* CREATE TABLE makes the cooldown columns, which migration 2 ensures in   *)
(* a table that is older, and not the ones that came later.                *)
MCLatest == server :> 3 @@ cli :> 2
MCTables == {catalog, requests}
MCColumns == {cooldown, tier, cost}
MCCreates == catalog :> {cooldown} @@ requests :> {}
MCEnsures == <<{}, {cooldown, cost}, {tier}>>
MCOldDatabases ==
  {[tables |-> {}, columns |-> {}, recorded |-> {}],
   [tables |-> {catalog}, columns |-> {}, recorded |-> {}],
   [tables |-> MCTables, columns |-> {}, recorded |-> {1}],
   [tables |-> MCTables, columns |-> {cooldown, cost}, recorded |-> {1, 2}]}
=============================================================================
