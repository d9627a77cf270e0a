----------------------------- MODULE MCRouting -----------------------------
(***************************************************************************)
(* Three providers of one model each, the brain among them; pb takes any   *)
(* name.  An automatic list, a round-robin pool that names a nested list,  *)
(* and a list that is also a route; a route table with every strategy,     *)
(* with routes that share a pattern and one for every name.                *)
(***************************************************************************)
EXTENDS Routing
CONSTANTS a, b, u, x

MCProviderOf == a :> "pa" @@ b :> "pb" @@ u :> "pb" @@ x :> "local-brain"
MCProviders == <<"pa", "pb", "local-brain">>
MCLists ==
    "ghrouter/auto" :> [members |-> <<a>>, automatic |-> TRUE, virtual |-> TRUE, rr |-> FALSE]
    @@ "combo" :> [members |-> <<a, "pool">>, automatic |-> FALSE, virtual |-> FALSE, rr |-> FALSE]
    @@ "pool" :> [members |-> <<b, "combo">>, automatic |-> FALSE, virtual |-> FALSE, rr |-> TRUE]
MCUnlisted == {u}
MCFirstModel == "pa" :> a @@ "pb" :> b @@ "local-brain" :> x
MCHash == [s \in {"s1"} |-> 1]
MCRoutes == <<
    [pattern |-> "combo", mode |-> "", provider |-> "fusion", fallback |-> <<"pb", "pa">>],
    [pattern |-> "team", mode |-> "sticky", provider |-> "", fallback |-> <<"pa", "pb">>],
    [pattern |-> "team", mode |-> "sticky", provider |-> "pb", fallback |-> <<>>],
    [pattern |-> "team", mode |-> "", provider |-> "round-robin", fallback |-> <<"local-brain">>],
    [pattern |-> "pool/fast", mode |-> "", provider |-> "round-robin", fallback |-> <<a>>],
    [pattern |-> "pool/fast", mode |-> "fallback", provider |-> "pb", fallback |-> <<"pa">>],
    [pattern |-> "pool/fast", mode |-> "", provider |-> "auto", fallback |-> <<>>],
    [pattern |-> "*", mode |-> "graph", provider |-> "", fallback |-> <<"local-brain">>]>>
MCAbilities == a :> {"tools", "code"} @@ b :> {"fast", "free", "vision", "long"} @@ u :> {} @@ x :> {"tools", "free", "thinking", "effort"}
MCAsked == {{}, {"tools", "code"}, {"reason", "vision", "economy"}}
MCRank == a :> 1 @@ b :> 2 @@ u :> 0 @@ x :> 3
=============================================================================
