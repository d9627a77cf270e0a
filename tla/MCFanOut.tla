----------------------------- MODULE MCFanOut -----------------------------
(* An instance of FanOut for TLC: three candidates, one of which has no    *)
(* known cost, under every kind of route, requests of one to three stages. *)
EXTENDS FanOut, TLC

CONSTANTS a, b, c, j

MCLists == {<<a>>, <<a, b, c>>, <<c, b, a>>}

MCCost == a :> 0 @@ b :> 1 @@ c :> 2 @@ j :> 0

MCAsked == {{}, {"code"}, {"vision"}}

MCRoutes ==
  [strategy : Strategies, limit : {0, 2}, budget : {0, 1},
   firstComplete : BOOLEAN, judge : BOOLEAN]
===========================================================================
