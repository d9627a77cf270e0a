------------------------------- MODULE MCGovernor -------------------------------
(* Instances of Governor for TLC: callers of every class, and two brain    *)
(* selectors, as the server runs them.                                     *)
EXTENDS Governor, TLC

CONSTANTS c1, c2, c3

MCClass     == c1 :> "auxiliary" @@ c2 :> "explicit" @@ c3 :> "user"
MCSelectors == c1 :> "auxiliary" @@ c2 :> "auxiliary"
=============================================================================
