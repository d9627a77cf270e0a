---------------------------- MODULE CircuitBreaker ----------------------------
(***************************************************************************)
(* The circuit breaker and the health record of one ProviderRunner         *)
(* (internal/providers/runner.go).  Every call of Invoke is a goroutine    *)
(* that asks allowCircuitRequest for admission, runs the provider with     *)
(* executeCLI and records one outcome; the tries executeCLI makes and what *)
(* they deliver are module Attempt's.  SetCircuitPolicy (a configuration   *)
(* reload) and MarkHealthy (the attachment of a local provider) run beside *)
(* them.  The clock is kept relative to openedAt: elapsed is the time since *)
(* the circuit opened, in ticks, and it stops at Horizon because the code  *)
(* only ever asks whether it has reached openDuration.                     *)
(***************************************************************************)
EXTENDS Naturals, FiniteSets

CONSTANTS
  Requests,          \* the goroutines Invoke starts (each is reused when done)
  Policies,          \* the policies a configuration may ask for
  DefaultThreshold,  \* failureThreshold used for a value <= 0 (3 in the code)
  DefaultOpen,       \* openDuration used for a value <= 0 (30 s in the code)
  Horizon,           \* bound of the clock, at least every openDuration
  MaxFailures        \* bound of the failure counter

RawPolicy == [enabled : BOOLEAN, failureThreshold : Nat, openDuration : Nat]

(* SetCircuitPolicy replaces values that are not positive by the defaults. *)
Normalise(p) ==
  [enabled |-> p.enabled,
   failureThreshold |-> IF p.failureThreshold = 0 THEN DefaultThreshold
                                                  ELSE p.failureThreshold,
   openDuration |-> IF p.openDuration = 0 THEN DefaultOpen ELSE p.openDuration]

ASSUME ConstantsAssumption ==
  /\ Policies \subseteq RawPolicy
  /\ DefaultThreshold \in Nat \ {0}
  /\ DefaultOpen \in Nat \ {0}
  /\ MaxFailures \in Nat
  /\ Horizon \in Nat
  /\ \A p \in Policies : Normalise(p).openDuration <= Horizon

VARIABLES
  policy,          \* circuit.policy
  failures,        \* circuit.failures
  opened,          \* ~circuit.openedAt.IsZero()
  elapsed,         \* now - circuit.openedAt while opened, 0 otherwise
  probeActive,     \* circuit.probeActive
  available,       \* health.Available
  status,          \* health.Status
  pc,              \* where the goroutine of each request is
  attaching,       \* progress of AttachProvider's call of MarkHealthy
  probe,           \* history: requests admitted to probe the open window
  probeCancelled   \* history: a probe of the open window was cancelled

window  == <<failures, opened, elapsed, probeActive, probe, probeCancelled>>
circuit == <<policy, window>>
record  == <<available, status>>
vars    == <<circuit, record, pc, attaching>>

TypeOK ==
  /\ policy \in {Normalise(p) : p \in Policies}
  /\ failures \in 0..MaxFailures
  /\ opened \in BOOLEAN
  /\ elapsed \in 0..Horizon
  /\ probeActive \in BOOLEAN
  /\ available \in BOOLEAN
  /\ status \in {"unknown", "healthy", "error", "circuit_open"}
  /\ pc \in [Requests -> {"idle", "running", "refused"}]
  /\ attaching \in {"pending", "marked", "done"}
  /\ probe \in SUBSET Requests
  /\ probeCancelled \in BOOLEAN

Init ==
  /\ policy \in {Normalise(p) : p \in Policies}
  /\ failures = 0
  /\ opened = FALSE
  /\ elapsed = 0
  /\ probeActive = FALSE
  /\ available = TRUE
  /\ status = "unknown"
  /\ pc = [r \in Requests |-> "idle"]
  /\ attaching \in {"pending", "done"}   \* only a local provider is marked
  /\ probe = {}
  /\ probeCancelled = FALSE
-----------------------------------------------------------------------------
(* Admission: allowCircuitRequest and circuitCanProbe.                     *)

(* The circuit lets every request through: disabled or closed. *)
Closed == ~policy.enabled \/ ~opened

CircuitCanProbe ==
  Closed \/ (~probeActive /\ elapsed >= policy.openDuration)

Run(r) ==
  /\ pc[r] = "idle"
  /\ pc' = [pc EXCEPT ![r] = "running"]
  /\ UNCHANGED <<record, attaching>>

Admit(r) ==
  /\ Closed
  /\ Run(r)
  /\ UNCHANGED circuit

\* Mutant: the probe slot is not looked at.
AdmitProbe_Unguarded(r) ==
  /\ ~Closed
  /\ elapsed >= policy.openDuration
  /\ Run(r)
  /\ probeActive' = TRUE
  /\ probe' = probe \cup {r}
  /\ UNCHANGED <<policy, failures, opened, elapsed, probeCancelled>>

AdmitProbe(r) ==
  /\ ~Closed
  /\ CircuitCanProbe
  /\ Run(r)
  /\ probeActive' = TRUE
  /\ probe' = probe \cup {r}
  /\ UNCHANGED <<policy, failures, opened, elapsed, probeCancelled>>

Refuse(r) ==
  /\ ~CircuitCanProbe
  /\ pc[r] = "idle"
  /\ pc' = [pc EXCEPT ![r] = "refused"]
  /\ UNCHANGED <<circuit, record, attaching>>

(* The refused goroutine takes health.mu later, on its own. *)
ReportRefusal(r) ==
  /\ pc[r] = "refused"
  /\ pc' = [pc EXCEPT ![r] = "idle"]
  /\ available' = FALSE
  /\ status' = "circuit_open"
  /\ UNCHANGED <<circuit, attaching>>
-----------------------------------------------------------------------------
(* The outcome of a request, recorded under health.mu.                     *)

(* executeCLI has returned and the goroutine ends. *)
Return(r) ==
  /\ pc[r] = "running"
  /\ pc' = [pc EXCEPT ![r] = "idle"]
  /\ UNCHANGED attaching

(* failures, openedAt and probeActive go back to their zero values. *)
ResetWindow ==
  /\ failures' = 0
  /\ opened' = FALSE
  /\ elapsed' = 0
  /\ probeActive' = FALSE
  /\ probe' = {}
  /\ probeCancelled' = FALSE

RecordCircuitSuccess == ResetWindow /\ UNCHANGED policy

(* This failure makes recordCircuitFailure return true. *)
Opens == policy.enabled /\ failures + 1 >= policy.failureThreshold

\* Mutant: the probe slot is not given back when the probe fails.
RecordCircuitFailure_KeepsProbe(r) ==
  /\ failures < MaxFailures
  /\ failures' = IF policy.enabled THEN failures + 1 ELSE failures
  /\ opened' = (opened \/ Opens)
  /\ elapsed' = IF Opens THEN 0 ELSE elapsed
  /\ probe' = IF Opens THEN {} ELSE probe \ {r}
  /\ UNCHANGED <<policy, probeActive, probeCancelled>>

(* The history variables start afresh with each window: a failure that     *)
(* re-arms openedAt makes the requests still probing strangers to it.      *)
RecordCircuitFailure(r) ==
  /\ failures < MaxFailures
  /\ failures' = IF policy.enabled THEN failures + 1 ELSE failures
  /\ opened' = (opened \/ Opens)
  /\ elapsed' = IF Opens THEN 0 ELSE elapsed
  /\ probeActive' = (probeActive /\ ~policy.enabled)
  /\ probe' = IF Opens THEN {} ELSE probe \ {r}
  /\ probeCancelled' = (probeCancelled /\ ~policy.enabled)
  /\ UNCHANGED policy

Succeed(r) ==
  /\ Return(r)
  /\ RecordCircuitSuccess
  /\ available' = TRUE
  /\ status' = "healthy"

\* Mutant: Available stays as it was when the circuit opens.
Fail_StaysAvailable(r) ==
  /\ Return(r)
  /\ RecordCircuitFailure(r)
  /\ status' = IF Opens THEN "circuit_open" ELSE "error"
  /\ UNCHANGED available

(* The provider failed; a timeout (context.DeadlineExceeded) is such a     *)
(* failure.                                                                *)
Fail(r) ==
  /\ Return(r)
  /\ RecordCircuitFailure(r)
  /\ status' = IF Opens THEN "circuit_open" ELSE "error"
  /\ available' = (available /\ ~Opens)

(* The caller went away: recordCircuitFailure returns before it touches    *)
(* the circuit, whatever the request had been admitted for.                *)
Cancel(r) ==
  /\ Return(r)
  /\ probe' = probe \ {r}
  /\ probeCancelled' = (probeCancelled \/ r \in probe)
  /\ status' = "error"
  /\ UNCHANGED <<policy, failures, opened, elapsed, probeActive, available>>
-----------------------------------------------------------------------------
(* What runs beside the requests.                                          *)

SetCircuitPolicy(p) ==
  /\ policy' = Normalise(p)
  /\ IF p.enabled THEN UNCHANGED window ELSE ResetWindow
  /\ UNCHANGED <<record, pc, attaching>>

(* MarkHealthy writes the record under health.mu ... *)
MarkHealthy ==
  /\ attaching = "pending"
  /\ attaching' = "marked"
  /\ available' = TRUE
  /\ status' = "healthy"
  /\ UNCHANGED <<circuit, pc>>

(* ... and resets the circuit after it has released that lock. *)
MarkHealthyReset ==
  /\ attaching = "marked"
  /\ attaching' = "done"
  /\ RecordCircuitSuccess
  /\ UNCHANGED <<record, pc>>

Tick ==
  /\ opened
  /\ elapsed < Horizon
  /\ elapsed' = elapsed + 1
  /\ UNCHANGED <<policy, failures, opened, probeActive, probe, probeCancelled,
                 record, pc, attaching>>
-----------------------------------------------------------------------------
Progress(r) == Succeed(r) \/ Fail(r)

Next ==
  \/ \E r \in Requests :
       \/ Admit(r) \/ AdmitProbe(r) \/ Refuse(r) \/ ReportRefusal(r)
       \/ Succeed(r) \/ Fail(r) \/ Cancel(r)
  \/ \E p \in Policies : SetCircuitPolicy(p)
  \/ MarkHealthy \/ MarkHealthyReset
  \/ Tick

Spec == Init /\ [][Next]_vars

(* A provider call is bounded by its timeout, a goroutine that can run is  *)
(* scheduled, and time passes.  Clients owe nothing.                       *)
Fairness ==
  /\ WF_vars(Tick)
  /\ WF_vars(MarkHealthyReset)
  /\ \A r \in Requests : WF_vars(Progress(r)) /\ WF_vars(ReportRefusal(r))

FairSpec == Spec /\ Fairness
-----------------------------------------------------------------------------
(* Properties.                                                             *)

(* Every policy that enables the breaker has the same threshold: reloads   *)
(* only disable it or change its open duration.                            *)
SameThreshold ==
  \A p, q \in Policies :
    p.enabled /\ q.enabled =>
      Normalise(p).failureThreshold = Normalise(q).failureThreshold

(* While the threshold stays the same, one open window lets at most one    *)
(* request through to probe the provider, however many requests of earlier *)
(* windows come back late, with whatever outcome, while it is out.         *)
SingleProbe == Cardinality(probe) <= 1

(* The probe slot is taken only while a probe of this very window is out,  *)
(* or after such a probe was cancelled: no other outcome loses the slot.   *)
ProbeOwned == probeActive => probe # {} \/ probeCancelled

(* A provider whose circuit is open is recorded as unavailable, in spite   *)
(* of the two locks: only MarkHealthy, between its two critical sections,  *)
(* shows an open circuit as available.                                     *)
OpenIsUnavailable == opened /\ attaching # "marked" => ~available

(* An open circuit comes to offer a probe, or closes, unless a client      *)
(* cancelled the probe.                                                    *)
RecoveryOffered == opened ~> (CircuitCanProbe \/ probeCancelled)

(* docs/observability.md:36-38: "A provider in circuit_open is unavailable *)
(* for selection until its configured recovery window".  With the window   *)
(* over and no request in pc the next one must be let through.         *)
RecoveryWindowHonoured ==
  /\ \A r \in Requests : pc[r] = "idle"
  /\ elapsed >= policy.openDuration
  => CircuitCanProbe
=============================================================================
