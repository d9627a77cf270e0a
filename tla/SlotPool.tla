-------------------------------- MODULE SlotPool --------------------------------
(***************************************************************************)
(* What a bounded admission promises: whatever its callers do, no more     *)
(* than Size of them hold a slot, and each one holds at most one.          *)
(***************************************************************************)
EXTENDS Naturals, FiniteSets

CONSTANTS Callers, Size

VARIABLE holders  \* the callers that hold a slot

Init == holders = {}

Acquire(c) ==
  /\ c \notin holders
  /\ Cardinality(holders) < Size
  /\ holders' = holders \cup {c}

Release(c) ==
  /\ c \in holders
  /\ holders' = holders \ {c}

Next == \E c \in Callers : Acquire(c) \/ Release(c)

Spec == Init /\ [][Next]_holders
=============================================================================
