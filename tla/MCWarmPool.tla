------------------------------- MODULE MCWarmPool -------------------------------
(* An instance of WarmPool for TLC: three requests, two starts.  The       *)
(* requests are interchangeable in the runs that check safety only.        *)
EXTENDS WarmPool, TLC

RequestSymmetry == Permutations(Requests)
=============================================================================
