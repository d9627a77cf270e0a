-------------------------------- MODULE Governor --------------------------------
(***************************************************************************)
(* The resource governor (internal/resourcegov/governor.go): a pressure    *)
(* state driven by samples, with hysteresis and hold times, and bounded    *)
(* admission of requests.  AdmitWait is a loop over Admit that sleeps on   *)
(* the channel g.notify; a release closes that channel and makes a new     *)
(* one.  Between a refusal and the reading of g.notify the caller holds no *)
(* lock.  The pressure of a sample is the greatest valid reading, given by *)
(* its place among the six thresholds.                                     *)
(***************************************************************************)
EXTENDS Naturals, FiniteSets

CONSTANTS
  Callers,      \* goroutines that call AdmitWait
  Class,        \* what each asks for: "user", "auxiliary" or "explicit" brain
  UserMax,      \* UserMaxInFlight
  BrainMax,     \* BrainMaxInFlight
  Pressures,    \* the pressures samples may show
  EnterHold,    \* how long a more severe state must be asked for
  RecoverHold   \* how long a less severe one must be

(* The thresholds, in the order of their defaults. *)
DegradedRecover  == 1
DegradedEnter    == 2
CriticalRecover  == 3
CriticalEnter    == 4
EmergencyRecover == 5
EmergencyEnter   == 6

ASSUME ConstantsAssumption ==
  /\ IsFiniteSet(Callers)
  /\ Class \in [Callers -> {"user", "auxiliary", "explicit"}]
  /\ UserMax \in Nat \ {0}
  /\ BrainMax \in Nat \ {0}
  /\ Pressures \subseteq 0..EmergencyEnter
  /\ EnterHold \in Nat
  /\ RecoverHold \in Nat

States == {"normal", "degraded", "critical", "emergency"}

(* The longest hold: no clock of the model needs to count further. *)
MaxHold == IF EnterHold > RecoverHold THEN EnterHold ELSE RecoverHold

VARIABLES
  state,          \* the pressure state
  pending,        \* the state asked for, or "none"
  held,           \* now - pendingSince while a state is pending, 0 otherwise
  userInFlight,
  brainInFlight,
  pc,             \* where each caller is in AdmitWait
  expired,        \* the callers whose context is done
  calm            \* history: ticks since the last emergency

pressure  == <<state, pending, held>>
counters  == <<userInFlight, brainInFlight>>
admission == <<counters, pc, expired>>
vars      == <<pressure, admission, calm>>

(* "refused" lies between Admit and the reading of g.notify, "asleep" in   *)
(* the select, "woken" in the select with the channel closed.              *)
Calling == {"admitting", "refused", "asleep", "woken"}

TypeOK ==
  /\ state \in States
  /\ pending \in States \cup {"none"}
  /\ held \in 0..MaxHold
  /\ userInFlight \in Nat
  /\ brainInFlight \in Nat
  /\ pc \in [Callers -> Calling \cup {"idle", "holding"}]
  /\ expired \in SUBSET Callers
  /\ calm \in 0..(2 * RecoverHold)

Init ==
  /\ state = "normal"
  /\ pending = "none"
  /\ held = 0
  /\ userInFlight = 0
  /\ brainInFlight = 0
  /\ pc = [c \in Callers |-> "idle"]
  /\ expired = {}
  /\ calm = 2 * RecoverHold
-----------------------------------------------------------------------------
(* The pressure state: Observe.                                            *)

Severity == [s \in States |-> CASE s = "normal"    -> 0
                                [] s = "degraded"  -> 1
                                [] s = "critical"  -> 2
                                [] s = "emergency" -> 3]

(* desiredStateLocked: one step up or down, or the present state. *)
Desired(p) ==
  CASE state = "normal" /\ p >= DegradedEnter         -> "degraded"
    [] state = "degraded" /\ p >= CriticalEnter       -> "critical"
    [] state = "degraded" /\ p < DegradedRecover      -> "normal"
    [] state = "critical" /\ p >= EmergencyEnter      -> "emergency"
    [] state = "critical" /\ p < CriticalRecover      -> "degraded"
    [] state = "emergency" /\ p < EmergencyRecover    -> "critical"
    [] OTHER                                          -> state

(* transitionLocked *)
Transition(next) ==
  /\ state' = next
  /\ pending' = "none"
  /\ held' = 0
  /\ calm' = IF next = "emergency" THEN 0 ELSE calm

\* Mutant: a new desired state inherits the hold of the previous one.
Advance_KeepsHold(desired) ==
  LET hold == IF Severity[desired] < Severity[state] THEN RecoverHold ELSE EnterHold
  IN  \/ /\ desired = state
         /\ UNCHANGED <<state, held, calm>>
         /\ pending' = "none"
      \/ /\ desired # state
         /\ hold = 0 \/ (pending = desired /\ held >= hold)
         /\ state' = desired
         /\ pending' = "none"
         /\ calm' = IF desired = "emergency" THEN 0 ELSE calm
         /\ UNCHANGED held
      \/ /\ desired # state /\ hold # 0 /\ pending # desired
         /\ pending' = desired
         /\ UNCHANGED <<state, held, calm>>
      \/ /\ desired # state /\ hold # 0 /\ pending = desired /\ held < hold
         /\ UNCHANGED <<pressure, calm>>

(* advanceLocked *)
Advance(desired) ==
  LET hold == IF Severity[desired] < Severity[state] THEN RecoverHold ELSE EnterHold
  IN  \/ /\ desired = state
         /\ pending' = "none"
         /\ held' = 0
         /\ UNCHANGED <<state, calm>>
      \/ /\ desired # state
         /\ hold = 0 \/ (pending = desired /\ held >= hold)
         /\ Transition(desired)
      \/ /\ desired # state /\ hold # 0 /\ pending # desired
         /\ pending' = desired
         /\ held' = 0
         /\ UNCHANGED <<state, calm>>
      \/ /\ desired # state /\ hold # 0 /\ pending = desired /\ held < hold
         /\ UNCHANGED <<pressure, calm>>

(* A sample with a valid reading.  Observe never signals g.notify. *)
Observe(p) ==
  /\ Advance(Desired(p))
  /\ UNCHANGED admission

(* A sampling error, a stale sample or one without a valid reading. *)
ObserveInvalid ==
  /\ Transition("emergency")
  /\ UNCHANGED admission

Tick ==
  /\ held' = IF pending # "none" /\ held < MaxHold THEN held + 1 ELSE held
  /\ calm' = IF state # "emergency" /\ calm < 2 * RecoverHold THEN calm + 1 ELSE calm
  /\ <<held', calm'>> # <<held, calm>>
  /\ UNCHANGED <<state, pending, admission>>
-----------------------------------------------------------------------------
(* Admission: Admit, AdmitWait and the release function.                   *)

(* admitUserLocked and admitBrainLocked find no reason to refuse.  Callers *)
(* with an explicit brain request carry InternalControl as well.           *)
Admissible(c) ==
  CASE Class[c] = "user"      -> /\ state \in {"normal", "degraded"}
                                 /\ userInFlight < UserMax
    [] Class[c] = "auxiliary" -> /\ state \in {"normal", "degraded"}
                                 /\ brainInFlight < BrainMax
    [] Class[c] = "explicit"  -> /\ state # "emergency"
                                 /\ brainInFlight < BrainMax

(* A refused auxiliary request goes away instead of waiting. *)
Shed(c) == Class[c] = "auxiliary" /\ state \in {"critical", "emergency"}

Goto(c, place) == pc' = [pc EXCEPT ![c] = place]

Call(c) ==
  /\ pc[c] = "idle"
  /\ Goto(c, "admitting")
  /\ UNCHANGED <<pressure, counters, expired, calm>>

\* Mutant: the counter is compared with the limit after it was reached.
Admit_OffByOne(c) ==
  /\ pc[c] = "admitting"
  /\ state \in {"normal", "degraded"} \/ (state = "critical" /\ Class[c] = "explicit")
  /\ IF Class[c] = "user" THEN userInFlight <= UserMax ELSE brainInFlight <= BrainMax
  /\ IF Class[c] = "user"
     THEN userInFlight' = userInFlight + 1 /\ UNCHANGED brainInFlight
     ELSE brainInFlight' = brainInFlight + 1 /\ UNCHANGED userInFlight
  /\ Goto(c, "holding")
  /\ UNCHANGED <<pressure, expired, calm>>

Admit(c) ==
  /\ pc[c] = "admitting"
  /\ Admissible(c)
  /\ IF Class[c] = "user"
     THEN userInFlight' = userInFlight + 1 /\ UNCHANGED brainInFlight
     ELSE brainInFlight' = brainInFlight + 1 /\ UNCHANGED userInFlight
  /\ Goto(c, "holding")
  /\ UNCHANGED <<pressure, expired, calm>>

(* The call ends without a slot: its context and its place are given up. *)
Leave(c) ==
  /\ Goto(c, "idle")
  /\ expired' = expired \ {c}
  /\ UNCHANGED <<pressure, counters, calm>>

Refuse(c) ==
  /\ pc[c] = "admitting"
  /\ ~Admissible(c)
  /\ IF Shed(c) THEN Leave(c)
     ELSE /\ Goto(c, "refused")
          /\ UNCHANGED <<pressure, counters, expired, calm>>

(* The caller reads g.notify, under the lock again, and goes to sleep. *)
ReadNotify(c) ==
  /\ pc[c] = "refused"
  /\ Goto(c, "asleep")
  /\ UNCHANGED <<pressure, counters, expired, calm>>

(* The select takes the closed channel. *)
Wake(c) ==
  /\ pc[c] = "woken"
  /\ Goto(c, "admitting")
  /\ UNCHANGED <<pressure, counters, expired, calm>>

Expire(c) ==
  /\ pc[c] \in Calling
  /\ expired' = expired \cup {c}
  /\ UNCHANGED <<pressure, counters, pc, calm>>

\* Mutant: the wait does not look at the context.
GiveUp_IgnoresContext(c) ==
  /\ pc[c] = "woken"
  /\ c \in expired
  /\ Leave(c)

(* The select takes ctx.Done, which it may prefer to a closed channel. *)
GiveUp(c) ==
  /\ pc[c] \in {"asleep", "woken"}
  /\ c \in expired
  /\ Leave(c)

\* Mutant: the release of a user request gives back a brain slot.
Release_WrongCounter(c) ==
  /\ pc[c] = "holding"
  /\ brainInFlight' = brainInFlight - 1
  /\ pc' = [d \in Callers |-> IF d = c THEN "idle"
                              ELSE IF pc[d] = "asleep" THEN "woken" ELSE pc[d]]
  /\ expired' = expired \ {c}
  /\ UNCHANGED <<pressure, userInFlight, calm>>

(* The release function, which each caller defers once: it wakes all that  *)
(* sleep on the channel it closes, and no one else.  SlotsCounted makes    *)
(* the code's test that the counter is positive succeed.                   *)
Release(c) ==
  /\ pc[c] = "holding"
  /\ IF Class[c] = "user"
     THEN userInFlight' = userInFlight - 1 /\ UNCHANGED brainInFlight
     ELSE brainInFlight' = brainInFlight - 1 /\ UNCHANGED userInFlight
  /\ pc' = [d \in Callers |-> IF d = c THEN "idle"
                              ELSE IF pc[d] = "asleep" THEN "woken" ELSE pc[d]]
  /\ expired' = expired \ {c}
  /\ UNCHANGED <<pressure, calm>>
-----------------------------------------------------------------------------
Next ==
  \/ \E c \in Callers :
       \/ Call(c) \/ Admit(c) \/ Refuse(c) \/ ReadNotify(c)
       \/ Wake(c) \/ Expire(c) \/ GiveUp(c) \/ Release(c)
  \/ \E p \in Pressures : Observe(p)
  \/ ObserveInvalid
  \/ Tick

Spec == Init /\ [][Next]_vars

(* A goroutine that can run does, a context has a deadline, a slot is      *)
(* given back, and a select does not prefer one ready case for ever.       *)
Fairness ==
  \A c \in Callers :
    /\ WF_vars(Admit(c) \/ Refuse(c)) /\ WF_vars(ReadNotify(c))
    /\ WF_vars(Wake(c)) /\ WF_vars(Expire(c)) /\ WF_vars(Release(c))
    /\ SF_vars(GiveUp(c))

FairSpec == Spec /\ Fairness
-----------------------------------------------------------------------------
(* Properties.                                                             *)

UserHolders  == {c \in Callers : pc[c] = "holding" /\ Class[c] = "user"}
BrainHolders == {c \in Callers : pc[c] = "holding" /\ Class[c] # "user"}

(* The counters are the numbers of holders and stay within the limits,     *)
(* whatever the interleaving of admissions, wake-ups, deadlines, releases  *)
(* and changes of the pressure state: no slot leaks, none is lent twice.   *)
SlotsCounted ==
  /\ userInFlight = Cardinality(UserHolders) /\ userInFlight <= UserMax
  /\ brainInFlight = Cardinality(BrainHolders) /\ brainInFlight <= BrainMax

(* Each brain slot is held as SlotPool says. *)
BrainPool == INSTANCE SlotPool WITH holders <- BrainHolders, Size <- BrainMax
BrainPoolSpec == BrainPool!Spec

(* After an emergency each step of the recovery takes its own hold: no     *)
(* pending request of an earlier state is counted for a later one.         *)
RecoveryHeld ==
  /\ state = "degraded" => calm >= RecoverHold
  /\ state = "normal"   => calm >= 2 * RecoverHold

(* A call of AdmitWait ends - with a slot, shed, or at its deadline - in   *)
(* spite of the wake-ups it may lose and of the slots others take first.   *)
CallsEnd == \A c \in Callers : pc[c] \in Calling ~> pc[c] \notin Calling

(* internal/server/brain_test.go:299: "second selector should complete     *)
(* after admission release".  No auxiliary selector sleeps in AdmitWait    *)
(* while a slot that it would be given is free.                            *)
NoLostWakeup ==
  \A c \in Callers : pc[c] = "asleep" /\ Class[c] = "auxiliary" => ~Admissible(c)
=============================================================================
