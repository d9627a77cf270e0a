------------------------------ MODULE GovernorProofs ------------------------------
(***************************************************************************)
(* Proofs about Governor for any callers, classes, limits, pressures and   *)
(* hold times: its types, its slot accounting, the pace of its recovery,   *)
(* and that its brain slots implement SlotPool.                            *)
(***************************************************************************)
EXTENDS Governor, FiniteSetTheorems, TLAPS

(* Where a caller is decides whether it holds a slot. *)
LEMMA HoldersFinite ==
  /\ IsFiniteSet(UserHolders) /\ IsFiniteSet(BrainHolders)
  /\ UserHolders \cap BrainHolders = {}
<1>1. UserHolders \subseteq Callers /\ BrainHolders \subseteq Callers
  BY DEF UserHolders, BrainHolders
<1>2. IsFiniteSet(UserHolders) /\ IsFiniteSet(BrainHolders)
  BY <1>1, FS_Subset, ConstantsAssumption
<1> QED BY <1>2 DEF UserHolders, BrainHolders

(* How long ago an emergency was, at least, from where the state is and    *)
(* how long the next one has been asked for.                               *)
CalmInv ==
  /\ pending = "none" => held = 0
  /\ state = "critical" => calm >= held \/ calm = 2 * RecoverHold
  /\ state = "degraded" => calm >= RecoverHold + held \/ calm = 2 * RecoverHold
  /\ state = "normal"   => calm = 2 * RecoverHold

PressureType ==
  /\ state \in States
  /\ pending \in States \cup {"none"}
  /\ held \in 0..MaxHold
  /\ calm \in 0..(2 * RecoverHold)

LEMMA HoldBounds ==
  /\ MaxHold \in Nat /\ EnterHold <= MaxHold /\ RecoverHold <= MaxHold
  BY ConstantsAssumption DEF MaxHold

(* Observe asks for the present state or a neighbouring one. *)
LEMMA DesiredStep ==
  ASSUME state \in States, NEW p \in Nat
  PROVE  \/ Desired(p) = state
         \/ state = "normal"    /\ Desired(p) = "degraded"
         \/ state = "degraded"  /\ Desired(p) \in {"critical", "normal"}
         \/ state = "critical"  /\ Desired(p) \in {"emergency", "degraded"}
         \/ state = "emergency" /\ Desired(p) = "critical"
  BY DEF Desired, States

LEMMA ObserveStep ==
  ASSUME PressureType, CalmInv, NEW p \in Pressures, Observe(p)
  PROVE  PressureType' /\ CalmInv'
<1> DEFINE desired == Desired(p)
           hold == IF Severity[desired] < Severity[state] THEN RecoverHold ELSE EnterHold
<1> USE ConstantsAssumption
<1>1. p \in Nat
  OBVIOUS
<1>2. \/ desired = state
      \/ state = "normal"    /\ desired = "degraded"
      \/ state = "degraded"  /\ desired \in {"critical", "normal"}
      \/ state = "critical"  /\ desired \in {"emergency", "degraded"}
      \/ state = "emergency" /\ desired = "critical"
  BY <1>1, DesiredStep DEF PressureType
<1>3. desired \in States
  BY <1>2 DEF PressureType, States
<1>4. state = "degraded" /\ desired = "normal" => hold = RecoverHold
  BY DEF Severity, States
<1>5. state = "critical" /\ desired = "degraded" => hold = RecoverHold
  BY DEF Severity, States
<1>6. Advance(desired)
  BY DEF Observe
<1> HIDE DEF desired
<1>7. CASE desired = state
  BY <1>6, <1>7, HoldBounds DEF Advance, Transition, PressureType, CalmInv
<1>8. CASE /\ desired # state
           /\ hold = 0 \/ (pending = desired /\ held >= hold)
           /\ Transition(desired)
  <2>1. held \in Nat /\ calm \in Nat
    BY HoldBounds DEF PressureType
  <2>2. desired = "degraded" /\ state = "critical" =>
          calm >= RecoverHold \/ calm = 2 * RecoverHold
    BY <1>5, <1>8, <2>1 DEF CalmInv
  <2>3. desired = "normal" /\ state = "degraded" => calm = 2 * RecoverHold
    BY <1>4, <1>8, <2>1 DEF CalmInv, PressureType
  <2>4. desired = "degraded" /\ state = "normal" => calm = 2 * RecoverHold
    BY DEF CalmInv
  <2>5. PressureType'
    BY <1>3, <1>8, HoldBounds DEF Transition, PressureType
  <2>6. CalmInv'
    BY <1>2, <1>8, <2>1, <2>2, <2>3, <2>4 DEF Transition, CalmInv
  <2> QED BY <2>5, <2>6
<1>9. CASE /\ desired # state /\ pending' = desired
           /\ held' = 0
           /\ UNCHANGED <<state, calm>>
  <2>1. held \in Nat /\ calm \in Nat
    BY HoldBounds DEF PressureType
  <2> QED BY <1>3, <1>9, <2>1, HoldBounds DEF PressureType, CalmInv
<1>10. CASE UNCHANGED <<pressure, calm>>
  BY <1>10 DEF pressure, PressureType, CalmInv
<1> QED BY <1>6, <1>7, <1>8, <1>9, <1>10 DEF Advance

LEMMA TickStep ==
  ASSUME PressureType, CalmInv, Tick
  PROVE  PressureType' /\ CalmInv'
<1> USE ConstantsAssumption, HoldBounds
<1>1. held \in Nat /\ calm \in Nat
  BY DEF PressureType
<1>2. /\ held' = IF pending # "none" /\ held < MaxHold THEN held + 1 ELSE held
      /\ calm' = IF state # "emergency" /\ calm < 2 * RecoverHold THEN calm + 1 ELSE calm
      /\ state' = state /\ pending' = pending
  BY DEF Tick
<1>3. held' \in 0..MaxHold /\ calm' \in 0..(2 * RecoverHold)
  BY <1>1, <1>2 DEF PressureType
<1>4. held' <= held + 1 /\ held' \in Nat
  BY <1>1, <1>2
<1>5. state # "emergency" =>
        calm' = 2 * RecoverHold \/ calm' = calm + 1
  BY <1>1, <1>2, <1>3 DEF PressureType
<1>6. PressureType'
  BY <1>2, <1>3 DEF PressureType
<1>7. (pending = "none" => held = 0)'
  BY <1>2 DEF CalmInv
<1>8. (state = "critical" => calm >= held \/ calm = 2 * RecoverHold)'
  BY <1>1, <1>2, <1>3, <1>4, <1>5 DEF CalmInv, PressureType
<1>9. (state = "degraded" => calm >= RecoverHold + held \/ calm = 2 * RecoverHold)'
  BY <1>1, <1>2, <1>3, <1>4, <1>5 DEF CalmInv, PressureType
<1>10. (state = "normal" => calm = 2 * RecoverHold)'
  BY <1>1, <1>2, <1>3, <1>5 DEF CalmInv, PressureType
<1> QED BY <1>6, <1>7, <1>8, <1>9, <1>10 DEF CalmInv
-----------------------------------------------------------------------------
AdmissionType ==
  /\ userInFlight \in Nat
  /\ brainInFlight \in Nat
  /\ pc \in [Callers -> Calling \cup {"idle", "holding"}]
  /\ expired \in SUBSET Callers

(* A step that moves a caller between places without a slot. *)
LEMMA MoveStep ==
  ASSUME AdmissionType, SlotsCounted, NEW c \in Callers, pc[c] # "holding",
         NEW place \in Calling \cup {"idle"}, Goto(c, place),
         UNCHANGED counters, expired' \in SUBSET Callers
  PROVE  AdmissionType' /\ SlotsCounted' /\ BrainHolders' = BrainHolders
<1>1. pc' = [pc EXCEPT ![c] = place]
  BY DEF Goto
<1>2. place # "holding"
  BY DEF Calling
<1>3. UserHolders' = UserHolders /\ BrainHolders' = BrainHolders
  BY <1>1, <1>2 DEF UserHolders, BrainHolders, AdmissionType
<1>4. AdmissionType'
  BY <1>1 DEF AdmissionType, counters
<1> QED BY <1>3, <1>4 DEF SlotsCounted, counters

(* An admission lends one slot of the caller's class, and there was one. *)
LEMMA AdmitStep ==
  ASSUME AdmissionType, SlotsCounted, NEW c \in Callers, Admit(c)
  PROVE  /\ AdmissionType' /\ SlotsCounted'
         /\ BrainHolders' = BrainHolders \/ BrainPool!Acquire(c)
<1> USE ConstantsAssumption
<1>1. pc' = [pc EXCEPT ![c] = "holding"] /\ pc[c] = "admitting"
  BY DEF Admit, Goto
<1>2. c \notin UserHolders /\ c \notin BrainHolders
  BY <1>1 DEF UserHolders, BrainHolders
<1>3. AdmissionType'
  BY <1>1 DEF Admit, AdmissionType
<1>4. CASE Class[c] = "user"
  <2>1. UserHolders' = UserHolders \cup {c} /\ BrainHolders' = BrainHolders
    BY <1>1, <1>4 DEF UserHolders, BrainHolders, AdmissionType
  <2>2. Cardinality(UserHolders') = Cardinality(UserHolders) + 1
    BY <1>2, <2>1, HoldersFinite, FS_AddElement
  <2>3. userInFlight < UserMax /\ userInFlight' = userInFlight + 1
        /\ brainInFlight' = brainInFlight
    BY <1>4 DEF Admit, Admissible
  <2> QED BY <1>3, <2>1, <2>2, <2>3 DEF SlotsCounted, AdmissionType
<1>5. CASE Class[c] # "user"
  <2>1. BrainHolders' = BrainHolders \cup {c} /\ UserHolders' = UserHolders
    BY <1>1, <1>5 DEF UserHolders, BrainHolders, AdmissionType
  <2>2. Cardinality(BrainHolders') = Cardinality(BrainHolders) + 1
    BY <1>2, <2>1, HoldersFinite, FS_AddElement
  <2>3. Class[c] \in {"auxiliary", "explicit"}
    BY <1>5
  <2>4. brainInFlight < BrainMax /\ brainInFlight' = brainInFlight + 1
        /\ userInFlight' = userInFlight
    BY <1>5, <2>3 DEF Admit, Admissible
  <2>5. SlotsCounted'
    BY <2>1, <2>2, <2>4 DEF SlotsCounted, AdmissionType
  <2>6. BrainPool!Acquire(c)
    <3>1. Cardinality(BrainHolders) < BrainMax
      BY <2>4 DEF SlotsCounted
    <3>2. BrainPool!Cardinality(BrainHolders) = Cardinality(BrainHolders)
      BY DEF BrainPool!Cardinality, Cardinality, BrainPool!IsFiniteSet, IsFiniteSet
    <3> QED BY <1>2, <2>1, <3>1, <3>2 DEF BrainPool!Acquire
  <2> QED BY <1>3, <2>5, <2>6
<1> QED BY <1>4, <1>5

(* A release gives back the slot of the caller's class. *)
LEMMA ReleaseStep ==
  ASSUME AdmissionType, SlotsCounted, NEW c \in Callers, Release(c)
  PROVE  /\ AdmissionType' /\ SlotsCounted'
         /\ BrainHolders' = BrainHolders \/ BrainPool!Release(c)
<1> USE ConstantsAssumption
<1>1. /\ pc[c] = "holding"
      /\ pc' = [d \in Callers |-> IF d = c THEN "idle"
                                  ELSE IF pc[d] = "asleep" THEN "woken" ELSE pc[d]]
      /\ expired' = expired \ {c}
  BY DEF Release
<1>2. pc' \in [Callers -> Calling \cup {"idle", "holding"}]
  BY <1>1 DEF AdmissionType, Calling
<1>3. \A d \in Callers : pc'[d] = "holding" <=> pc[d] = "holding" /\ d # c
  BY <1>1 DEF AdmissionType
<1>4. CASE Class[c] = "user"
  <2>1. UserHolders' = UserHolders \ {c} /\ BrainHolders' = BrainHolders /\ c \in UserHolders
    BY <1>1, <1>3, <1>4 DEF UserHolders, BrainHolders
  <2>2. Cardinality(UserHolders') = Cardinality(UserHolders) - 1
        /\ Cardinality(UserHolders) \in Nat /\ Cardinality(UserHolders') \in Nat
    BY <2>1, HoldersFinite, FS_RemoveElement, FS_CardinalityType, FS_Subset
  <2>3. userInFlight' = userInFlight - 1 /\ brainInFlight' = brainInFlight
    BY <1>4 DEF Release
  <2> QED BY <1>1, <1>2, <2>1, <2>2, <2>3 DEF SlotsCounted, AdmissionType
<1>5. CASE Class[c] # "user"
  <2>1. BrainHolders' = BrainHolders \ {c} /\ UserHolders' = UserHolders /\ c \in BrainHolders
    BY <1>1, <1>3, <1>5 DEF UserHolders, BrainHolders
  <2>2. Cardinality(BrainHolders') = Cardinality(BrainHolders) - 1
        /\ Cardinality(BrainHolders) \in Nat /\ Cardinality(BrainHolders') \in Nat
    BY <2>1, HoldersFinite, FS_RemoveElement, FS_CardinalityType, FS_Subset
  <2>3. brainInFlight' = brainInFlight - 1 /\ userInFlight' = userInFlight
    BY <1>5 DEF Release
  <2>4. BrainPool!Release(c)
    BY <2>1 DEF BrainPool!Release
  <2> QED BY <1>1, <1>2, <2>1, <2>2, <2>3, <2>4 DEF SlotsCounted, AdmissionType
<1> QED BY <1>4, <1>5
-----------------------------------------------------------------------------
Inv == PressureType /\ CalmInv /\ AdmissionType /\ SlotsCounted

LEMMA InitInv == Init => Inv /\ BrainHolders = {}
<1> SUFFICES ASSUME Init PROVE Inv /\ BrainHolders = {}
  OBVIOUS
<1> USE ConstantsAssumption
<1>1. UserHolders = {} /\ BrainHolders = {}
  BY DEF Init, UserHolders, BrainHolders
<1>2. Cardinality(UserHolders) = 0 /\ Cardinality(BrainHolders) = 0
  BY <1>1, FS_EmptySet
<1>3. SlotsCounted
  BY <1>2 DEF Init, SlotsCounted
<1>4. PressureType /\ CalmInv
  BY HoldBounds DEF Init, PressureType, CalmInv, States
<1>5. AdmissionType
  BY DEF Init, AdmissionType
<1> QED BY <1>1, <1>3, <1>4, <1>5 DEF Inv

LEMMA StepInv ==
  ASSUME Inv, [Next]_vars
  PROVE  Inv' /\ [BrainPool!Next]_BrainHolders
<1> USE ConstantsAssumption DEF Inv
<1>1. ASSUME NEW c \in Callers,
             \/ Call(c) \/ ReadNotify(c) \/ Wake(c) \/ GiveUp(c) \/ Refuse(c)
      PROVE  Inv' /\ BrainHolders' = BrainHolders
  <2>1. PICK place \in Calling \cup {"idle"} :
          Goto(c, place) /\ pc[c] # "holding" /\ UNCHANGED counters
          /\ expired' \in SUBSET Callers
    BY <1>1 DEF Call, ReadNotify, Wake, GiveUp, Refuse, Leave, Calling, AdmissionType
  <2>2. UNCHANGED <<pressure, calm>>
    BY <1>1 DEF Call, ReadNotify, Wake, GiveUp, Refuse, Leave
  <2>3. PressureType' /\ CalmInv'
    BY <2>2 DEF pressure, PressureType, CalmInv
  <2> QED BY <2>1, <2>3, MoveStep
<1>2. ASSUME NEW c \in Callers, Admit(c)
      PROVE  Inv' /\ [BrainPool!Next]_BrainHolders
  <2>1. PressureType' /\ CalmInv'
    BY <1>2 DEF Admit, pressure, PressureType, CalmInv
  <2> QED BY <1>2, <2>1, AdmitStep DEF BrainPool!Next
<1>3. ASSUME NEW c \in Callers, Release(c)
      PROVE  Inv' /\ [BrainPool!Next]_BrainHolders
  <2>1. PressureType' /\ CalmInv'
    BY <1>3 DEF Release, pressure, PressureType, CalmInv
  <2> QED BY <1>3, <2>1, ReleaseStep DEF BrainPool!Next
<1>4. ASSUME NEW c \in Callers, Expire(c)
      PROVE  Inv' /\ BrainHolders' = BrainHolders
  BY <1>4 DEF Expire, pressure, counters, PressureType, CalmInv, AdmissionType,
     SlotsCounted, UserHolders, BrainHolders
<1>5. ASSUME UNCHANGED admission, PressureType', CalmInv'
      PROVE  Inv' /\ BrainHolders' = BrainHolders
  BY <1>5 DEF admission, counters, AdmissionType, SlotsCounted, UserHolders, BrainHolders
<1>6. ASSUME NEW p \in Pressures, Observe(p)
      PROVE  Inv' /\ BrainHolders' = BrainHolders
  BY <1>5, <1>6, ObserveStep DEF Observe
<1>7. CASE ObserveInvalid
  BY <1>5, <1>7, HoldBounds DEF ObserveInvalid, Transition, PressureType, CalmInv, States
<1>8. CASE Tick
  BY <1>5, <1>8, TickStep DEF Tick
<1>9. CASE UNCHANGED vars
  BY <1>5, <1>9 DEF vars, pressure, PressureType, CalmInv
<1> QED BY <1>1, <1>2, <1>3, <1>4, <1>6, <1>7, <1>8, <1>9 DEF Next

(* The governor keeps its types, its accounting and its pace. *)
THEOREM GovernorInvariant == Spec => []Inv
<1> QED BY InitInv, StepInv, PTL DEF Spec

(* The type invariant. *)
THEOREM TypeCorrect == Spec => []TypeOK
<1>1. Inv => TypeOK
  BY DEF Inv, TypeOK, PressureType, AdmissionType
<1> QED BY <1>1, GovernorInvariant, PTL

(* Both counters equal the number of holders and stay within the limits. *)
THEOREM SlotsAlwaysCounted == Spec => []SlotsCounted
<1>1. Inv => SlotsCounted
  BY DEF Inv
<1> QED BY <1>1, GovernorInvariant, PTL

(* Every step of a recovery has taken its hold. *)
THEOREM RecoveryPaced == Spec => []RecoveryHeld
<1>1. Inv => RecoveryHeld
  BY ConstantsAssumption, HoldBounds
     DEF Inv, RecoveryHeld, CalmInv, PressureType
<1> QED BY <1>1, GovernorInvariant, PTL

(* The brain slots behave as a SlotPool of BrainMax slots. *)
THEOREM BrainSlotsImplementPool == Spec => BrainPoolSpec
<1>1. Init => BrainPool!Init
  BY InitInv DEF BrainPool!Init
<1>2. Inv /\ [Next]_vars => [BrainPool!Next]_BrainHolders
  BY StepInv
<1> QED BY <1>1, <1>2, GovernorInvariant, PTL DEF Spec, BrainPoolSpec, BrainPool!Spec
=============================================================================
