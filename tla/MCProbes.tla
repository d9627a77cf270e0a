------------------------------ MODULE MCProbes ------------------------------
(***************************************************************************)
(* A model of a provider, two requests and the worker, one outage.    *)
(***************************************************************************)
EXTENDS Probes
CONSTANTS m1, c1, c2, w
=============================================================================
