--------------------------------- MODULE MCChat ---------------------------------
(* An instance of Chat for TLC: two models of one provider, in a list of   *)
(* candidates or the second one found by a verification on demand.         *)
EXTENDS Chat, TLC

CONSTANTS a, b, p

MCProvider == a :> p @@ b :> p

MCFirst == {<<a>>, <<a, b>>}
=============================================================================
