------------------------------- MODULE MCService -------------------------------
(* An instance of Service for TLC: requests whose selections compete for   *)
(* the brain, and a queue of one event.                                    *)
EXTENDS Service

CONSTANTS r1, r2
=============================================================================
