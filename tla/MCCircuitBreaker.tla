--------------------------- MODULE MCCircuitBreaker ---------------------------
(* An instance of CircuitBreaker for TLC: a policy left to its defaults,   *)
(* one with a longer open duration and one that disables the breaker.      *)
EXTENDS CircuitBreaker

MCPolicies ==
  {[enabled |-> TRUE, failureThreshold |-> 0, openDuration |-> 0],
   [enabled |-> TRUE, failureThreshold |-> DefaultThreshold, openDuration |-> 2],
   [enabled |-> FALSE, failureThreshold |-> 0, openDuration |-> 0]}
=============================================================================
