------------------------- MODULE CircuitBreakerProofs -------------------------
(***************************************************************************)
(* Proofs about CircuitBreaker, for any set of requests, any policies and  *)
(* any bounds.  The invariant that carries them is WindowInv: it says how   *)
(* the two flags of the open window, the policy and the history of its     *)
(* probes belong together.                                                 *)
(***************************************************************************)
EXTENDS CircuitBreaker, FiniteSetTheorems, TLAPS

(* What every step keeps, whatever the policies are.                       *)
WindowInv ==
  /\ opened => policy.enabled
  /\ probeActive => opened
  /\ probeActive => probe # {} \/ probeCancelled
  /\ probe # {} => opened

(* With one threshold, an open window has counted that many failures, so a *)
(* further one re-arms it: the probe slot is empty only in a window that   *)
(* has admitted nobody.                                                    *)
ThresholdInv ==
  /\ opened => failures >= policy.failureThreshold
  /\ probe # {} => probeActive
  /\ probe = {} \/ \E r \in Requests : probe = {r}

(* A normalised policy has a positive threshold and a bounded duration.    *)
LEMMA NormaliseType ==
  ASSUME NEW p \in Policies
  PROVE  /\ Normalise(p).enabled = p.enabled
         /\ Normalise(p).enabled \in BOOLEAN
         /\ Normalise(p).failureThreshold \in Nat \ {0}
         /\ Normalise(p).openDuration \in Nat \ {0}
         /\ Normalise(p).openDuration <= Horizon
BY ConstantsAssumption DEF Normalise, RawPolicy

(* The reset of a window leaves values of the right types.                 *)
LEMMA ResetType ==
  ASSUME ResetWindow
  PROVE  /\ failures' \in 0..MaxFailures /\ elapsed' \in 0..Horizon
         /\ opened' \in BOOLEAN /\ probeActive' \in BOOLEAN
         /\ probe' \in SUBSET Requests /\ probeCancelled' \in BOOLEAN
<1>1. failures' \in 0..MaxFailures /\ elapsed' \in 0..Horizon
  BY ConstantsAssumption DEF ResetWindow
<1>2. probe' \in SUBSET Requests
  BY DEF ResetWindow
<1>3. QED
  BY <1>1, <1>2 DEF ResetWindow

(* Every variable keeps its type: the counter and the clock stay in their  *)
(* ranges (runner.go:84-95).                                               *)
THEOREM TypeCorrect == Spec => []TypeOK
<1>1. Init => TypeOK
  <2> SUFFICES ASSUME Init PROVE TypeOK
    OBVIOUS
  <2> USE ConstantsAssumption DEF Init
  <2>1. pc \in [Requests -> {"idle", "running", "refused"}]
    OBVIOUS
  <2>2. failures \in 0..MaxFailures /\ elapsed \in 0..Horizon
    OBVIOUS
  <2>3. probe \in SUBSET Requests
    OBVIOUS
  <2>4. attaching \in {"pending", "marked", "done"}
    OBVIOUS
  <2>5. QED
    BY <2>1, <2>2, <2>3, <2>4 DEF TypeOK
<1>2. TypeOK /\ [Next]_vars => TypeOK'
  <2> SUFFICES ASSUME TypeOK, [Next]_vars
               PROVE  TypeOK'
    OBVIOUS
  <2> USE ConstantsAssumption DEF TypeOK
  <2> USE DEF circuit, window, record
  <2>1. ASSUME NEW r \in Requests, Admit(r)
        PROVE  TypeOK'
    BY <2>1 DEF Admit, Run
  <2>2. ASSUME NEW r \in Requests, AdmitProbe(r)
        PROVE  TypeOK'
    BY <2>2 DEF AdmitProbe, Run
  <2>3. ASSUME NEW r \in Requests, Refuse(r)
        PROVE  TypeOK'
    BY <2>3 DEF Refuse
  <2>4. ASSUME NEW r \in Requests, ReportRefusal(r)
        PROVE  TypeOK'
    BY <2>4 DEF ReportRefusal
  <2>5. ASSUME NEW r \in Requests, Succeed(r)
        PROVE  TypeOK'
    BY <2>5, ResetType DEF Succeed, Return, RecordCircuitSuccess
  <2>6. ASSUME NEW r \in Requests, Fail(r)
        PROVE  TypeOK'
    BY <2>6 DEF Fail, Return, RecordCircuitFailure, Opens
  <2>7. ASSUME NEW r \in Requests, Cancel(r)
        PROVE  TypeOK'
    BY <2>7 DEF Cancel, Return
  <2>8. ASSUME NEW p \in Policies, SetCircuitPolicy(p)
         PROVE  TypeOK'
    BY <2>8, ResetType DEF SetCircuitPolicy
  <2>9. CASE MarkHealthy
    BY <2>9 DEF MarkHealthy
  <2>10. CASE MarkHealthyReset
    BY <2>10, ResetType DEF MarkHealthyReset, RecordCircuitSuccess
  <2>11. CASE Tick
    BY <2>11 DEF Tick
  <2>12. CASE UNCHANGED vars
    BY <2>12 DEF vars
  <2>13. QED
    BY <2>1, <2>2, <2>3, <2>4, <2>5, <2>6, <2>7, <2>8, <2>9, <2>10, <2>11,
       <2>12 DEF Next
<1>3. QED
  BY <1>1, <1>2, PTL DEF Spec

(* The flags of the window and the history of its probes agree in every    *)
(* reachable state.                                                        *)
LEMMA WindowInvariant == Spec => []WindowInv
<1>1. Init => WindowInv
  BY DEF Init, WindowInv
<1>2. TypeOK /\ WindowInv /\ [Next]_vars => WindowInv'
  <2> SUFFICES ASSUME TypeOK, WindowInv, [Next]_vars
               PROVE  WindowInv'
    OBVIOUS
  <2> USE DEF WindowInv, circuit, window
  <2>1. ASSUME NEW r \in Requests, Admit(r) \/ Refuse(r) \/ ReportRefusal(r)
        PROVE  WindowInv'
    BY <2>1 DEF Admit, Refuse, ReportRefusal
  <2>2. ASSUME NEW r \in Requests, AdmitProbe(r)
        PROVE  WindowInv'
    BY <2>2 DEF AdmitProbe, Closed
  <2>3. ASSUME NEW r \in Requests, Succeed(r)
        PROVE  WindowInv'
    BY <2>3 DEF Succeed, RecordCircuitSuccess, ResetWindow
  <2>4. ASSUME NEW r \in Requests, Fail(r)
        PROVE  WindowInv'
    <3>1. CASE policy.enabled
      BY <2>4, <3>1 DEF Fail, RecordCircuitFailure, Opens, TypeOK
    <3>2. CASE ~policy.enabled
      BY <2>4, <3>2 DEF Fail, RecordCircuitFailure, Opens, TypeOK
    <3>3. QED
      BY <3>1, <3>2
  <2>5. ASSUME NEW r \in Requests, Cancel(r)
        PROVE  WindowInv'
    BY <2>5 DEF Cancel
  <2>6. ASSUME NEW p \in Policies, SetCircuitPolicy(p)
        PROVE  WindowInv'
    BY <2>6, NormaliseType DEF SetCircuitPolicy, ResetWindow
  <2>7. CASE MarkHealthy
    BY <2>7 DEF MarkHealthy
  <2>8. CASE MarkHealthyReset
    BY <2>8 DEF MarkHealthyReset, RecordCircuitSuccess, ResetWindow
  <2>9. CASE Tick
    BY <2>9 DEF Tick
  <2>10. CASE UNCHANGED vars
    BY <2>10 DEF vars
  <2>11. QED
    BY <2>1, <2>2, <2>3, <2>4, <2>5, <2>6, <2>7, <2>8, <2>9, <2>10 DEF Next
<1>3. QED
  BY <1>1, <1>2, TypeCorrect, PTL DEF Spec

(* The probe slot is taken only by a probe that is out or was cancelled    *)
(* (runner.go:156-200): success, failure and reloads all give it back.     *)
THEOREM ProbeSlotOwned == Spec => []ProbeOwned
<1>1. WindowInv => ProbeOwned
  BY DEF WindowInv, ProbeOwned
<1>2. QED
  BY <1>1, WindowInvariant, PTL

(* An open circuit is recorded as unavailable, outside the gap between the *)
(* two critical sections of MarkHealthy (runner.go:239-263, 846-858).      *)
THEOREM OpenUnavailable == Spec => []OpenIsUnavailable
<1>1. Init => OpenIsUnavailable
  BY DEF Init, OpenIsUnavailable
<1>2. TypeOK /\ OpenIsUnavailable /\ [Next]_vars => OpenIsUnavailable'
  <2> SUFFICES ASSUME TypeOK, OpenIsUnavailable, [Next]_vars
               PROVE  OpenIsUnavailable'
    OBVIOUS
  <2> USE DEF OpenIsUnavailable, circuit, window, record
  <2>1. ASSUME NEW r \in Requests, Admit(r) \/ AdmitProbe(r)
        PROVE  OpenIsUnavailable'
    BY <2>1 DEF Admit, AdmitProbe, Run
  <2>2. ASSUME NEW r \in Requests, Refuse(r) \/ ReportRefusal(r)
        PROVE  OpenIsUnavailable'
    BY <2>2 DEF Refuse, ReportRefusal
  <2>3. ASSUME NEW r \in Requests, Succeed(r)
        PROVE  OpenIsUnavailable'
    BY <2>3 DEF Succeed, RecordCircuitSuccess, ResetWindow
  <2>4. ASSUME NEW r \in Requests, Fail(r)
        PROVE  OpenIsUnavailable'
    BY <2>4 DEF Fail, Return, RecordCircuitFailure, TypeOK
  <2>5. ASSUME NEW r \in Requests, Cancel(r)
        PROVE  OpenIsUnavailable'
    BY <2>5 DEF Cancel, Return
  <2>6. ASSUME NEW p \in Policies, SetCircuitPolicy(p)
        PROVE  OpenIsUnavailable'
    BY <2>6 DEF SetCircuitPolicy, ResetWindow
  <2>7. CASE MarkHealthy
    BY <2>7 DEF MarkHealthy
  <2>8. CASE MarkHealthyReset
    BY <2>8 DEF MarkHealthyReset, RecordCircuitSuccess, ResetWindow
  <2>9. CASE Tick
    BY <2>9 DEF Tick
  <2>10. CASE UNCHANGED vars
    BY <2>10 DEF vars
  <2>11. QED
    BY <2>1, <2>2, <2>3, <2>4, <2>5, <2>6, <2>7, <2>8, <2>9, <2>10 DEF Next
<1>3. QED
  BY <1>1, <1>2, TypeCorrect, PTL DEF Spec

(* One open window admits one probe (runner.go:156-171): late outcomes of  *)
(* requests admitted before it cannot free the slot without opening a      *)
(* window of their own, as long as the threshold is not raised.            *)
THEOREM AtMostOneProbe == SameThreshold => (Spec => []SingleProbe)
<1> SUFFICES ASSUME SameThreshold
             PROVE  Spec => []SingleProbe
  OBVIOUS
<1>1. Init => ThresholdInv
  BY DEF Init, ThresholdInv
<1>2. TypeOK /\ WindowInv /\ ThresholdInv /\ [Next]_vars => ThresholdInv'
  <2> SUFFICES ASSUME TypeOK, WindowInv, ThresholdInv, [Next]_vars
               PROVE  ThresholdInv'
    OBVIOUS
  <2> USE DEF ThresholdInv, circuit, window
  <2>1. ASSUME NEW r \in Requests, Admit(r) \/ Refuse(r) \/ ReportRefusal(r)
        PROVE  ThresholdInv'
    BY <2>1 DEF Admit, Refuse, ReportRefusal
  <2>2. ASSUME NEW r \in Requests, AdmitProbe(r)
        PROVE  ThresholdInv'
    <3>1. probe = {}
      BY <2>2 DEF AdmitProbe, CircuitCanProbe
    <3>2. QED
      BY <2>2, <3>1 DEF AdmitProbe
  <2>3. ASSUME NEW r \in Requests, Succeed(r)
        PROVE  ThresholdInv'
    BY <2>3 DEF Succeed, RecordCircuitSuccess, ResetWindow, TypeOK
  <2>4. ASSUME NEW r \in Requests, Fail(r)
        PROVE  ThresholdInv'
    <3>1. \E p \in Policies : policy = Normalise(p)
      BY DEF TypeOK
    <3>2. policy.failureThreshold \in Nat /\ policy.enabled \in BOOLEAN
      BY <3>1, NormaliseType
    <3>3. CASE Opens
      BY <2>4, <3>2, <3>3 DEF Fail, RecordCircuitFailure, Opens, TypeOK
    <3>4. CASE ~Opens
      <4>1. ~opened
        BY <3>2, <3>4 DEF Opens, WindowInv, TypeOK
      <4>2. probe = {}
        BY <4>1 DEF WindowInv
      <4>3. QED
        BY <2>4, <3>4, <4>1, <4>2 DEF Fail, RecordCircuitFailure
    <3>5. QED
      BY <3>3, <3>4
  <2>5. ASSUME NEW r \in Requests, Cancel(r)
        PROVE  ThresholdInv'
    BY <2>5 DEF Cancel
  <2>6. ASSUME NEW p \in Policies, SetCircuitPolicy(p)
        PROVE  ThresholdInv'
    <3>1. CASE ~p.enabled
      BY <2>6, <3>1, NormaliseType DEF SetCircuitPolicy, ResetWindow
    <3>2. CASE p.enabled /\ opened
      <4>1. PICK q \in Policies : policy = Normalise(q)
        BY DEF TypeOK
      <4>2. q.enabled
        BY <3>2, <4>1, NormaliseType DEF WindowInv
      <4>3. policy'.failureThreshold = policy.failureThreshold
        BY <2>6, <3>2, <4>1, <4>2 DEF SetCircuitPolicy, SameThreshold
      <4>4. QED
        BY <2>6, <3>2, <4>3 DEF SetCircuitPolicy
    <3>3. CASE p.enabled /\ ~opened
      BY <2>6, <3>3 DEF SetCircuitPolicy
    <3>4. QED
      BY <3>1, <3>2, <3>3
  <2>7. CASE MarkHealthy \/ Tick
    BY <2>7 DEF MarkHealthy, Tick
  <2>8. CASE MarkHealthyReset
    BY <2>8 DEF MarkHealthyReset, RecordCircuitSuccess, ResetWindow, TypeOK
  <2>9. CASE UNCHANGED vars
    BY <2>9 DEF vars
  <2>10. QED
    BY <2>1, <2>2, <2>3, <2>4, <2>5, <2>6, <2>7, <2>8, <2>9 DEF Next
<1>3. ThresholdInv => SingleProbe
  <2> SUFFICES ASSUME ThresholdInv
               PROVE  Cardinality(probe) <= 1
    BY DEF SingleProbe
  <2>1. CASE probe = {}
    BY <2>1, FS_EmptySet
  <2>2. ASSUME NEW r \in Requests, probe = {r}
        PROVE  Cardinality(probe) <= 1
    BY <2>2, FS_Singleton
  <2>3. QED
    BY <2>1, <2>2 DEF ThresholdInv
<1>4. QED
  BY <1>1, <1>2, <1>3, TypeCorrect, WindowInvariant, PTL DEF Spec
=============================================================================
