-------------------------------- MODULE Catalog --------------------------------
(***************************************************************************)
(* The live model catalog (internal/catalog/catalog.go): the health and    *)
(* cooldown of every model, the index of models by provider and the best   *)
(* model of every virtual slot.  Catalog.mu makes each operation atomic;   *)
(* requests, probes, the health loop and configuration reloads call them   *)
(* in any order.  Scores only rank the routable models, so the model of a  *)
(* slot is any of them.  Time is counted in ticks; 0 is the zero time.     *)
(* SetCooldown, which only tests call, is left out.                        *)
(***************************************************************************)
EXTENDS Naturals, FiniteSets

CONSTANTS
  Ids,          \* canonical model IDs
  Providers,    \* provider names
  Offers,       \* the IDs a provider may list; two providers may share one
  Slots,        \* virtual slots
  Policies,     \* the cooldown policies a configuration may ask for
  ResetDelays,  \* how far ahead a provider's declared reset may be
  MaxTime,      \* bound of the clock
  MaxFailures,  \* bound of FailureCount
  None          \* no provider, no model

RawPolicy == [enabled : BOOLEAN, default : Nat, max : Nat]

ASSUME ConstantsAssumption ==
  /\ None \notin Ids \cup Providers
  /\ Offers \in [Providers -> SUBSET Ids]
  /\ Policies \subseteq RawPolicy
  /\ ResetDelays \subseteq Nat \ {0}
  /\ MaxTime \in Nat
  /\ MaxFailures \in Nat

(* A number that the provers take for granted and TLC evaluates. *)
ASSUME PowersAssumption == \A k \in 0..MaxFailures : 2^k \in Nat \ {0}

Statuses == {"healthy", "degraded", "unhealthy", "cooldown", "unknown"}

Entry ==
  [provider : Providers, status : Statuses, until : Nat, failures : 0..MaxFailures]

Absent == [provider |-> None, status |-> "absent", until |-> 0, failures |-> 0]

VARIABLES
  models,      \* the entry of each ID, Absent when there is none
  byProvider,  \* the IDs each provider registered last
  bySlot,      \* the model chosen for each slot, or None
  policy,      \* cooldownEnabled, cooldownDefault, cooldownMax
  now,         \* the clock
  suspect,     \* history: IDs put in cooldown and not proved to work since
  quarantined  \* history: IDs whose expiry is a reset a provider declared

history == <<suspect, quarantined>>
vars    == <<models, byProvider, bySlot, policy, now, history>>

TypeOK ==
  /\ models \in [Ids -> Entry \cup {Absent}]
  /\ byProvider \in [Providers -> SUBSET Ids]
  /\ bySlot \in [Slots -> Ids \cup {None}]
  /\ policy \in [enabled : BOOLEAN, default : Nat \ {0}, max : Nat \ {0}]
  /\ now \in 1..(MaxTime + 1)
  /\ suspect \in SUBSET Ids
  /\ quarantined \in SUBSET Ids
-----------------------------------------------------------------------------
(* Routing eligibility and the slots.                                      *)

(* isInCooldownAtLocked: it looks at the expiry, never at the status. *)
InCooldown(id) == now < models[id].until

Routable(id) == models[id].status = "healthy" /\ ~InCooldown(id)

\* Mutant: assignSlot does not look at the expiry.
RebuildSlots_IgnoresCooldown ==
  LET best == {id \in Ids : models'[id].status = "healthy"}
  IN  bySlot' \in [Slots -> IF best = {} THEN {None} ELSE best]

\* Mutant: assignSlot looks at the expiry only.
RebuildSlots_IgnoresHealth ==
  LET best == {id \in Ids : models'[id] # Absent /\ ~(now < models'[id].until)}
  IN  bySlot' \in [Slots -> IF best = {} THEN {None} ELSE best]

(* rebuildSlots: every operation that touches an entry ends with it. *)
RebuildSlots ==
  LET best == {id \in Ids : models'[id].status = "healthy"
                            /\ ~(now < models'[id].until)}
  IN  bySlot' \in [Slots -> IF best = {} THEN {None} ELSE best]
-----------------------------------------------------------------------------
(* Registration.                                                           *)

(* What buildCatalogModels makes of a configured model: an expiry in the   *)
(* future forces cooldown, one in the past never leaves it.                *)
FreshStates ==
  {[status |-> s, until |-> 0] : s \in Statuses \ {"cooldown"}}
    \cup {[status |-> s, until |-> now] : s \in {"healthy", "unknown"}}
    \cup {[status |-> "cooldown", until |-> now + d] : d \in ResetDelays}

\* Mutant: the fresh status always replaces the one the runtime observed.
Merge_TakesFresh(p, old, new) ==
  [provider |-> p,
   status   |-> new.status,
   until    |-> IF new.until = 0 THEN old.until ELSE new.until,
   failures |-> old.failures]

(* The entry of a model of p that is registered again.  A fresh "healthy"  *)
(* never overrides what the runtime has observed.                          *)
Merge(p, old, new) ==
  [provider |-> p,
   status   |-> IF new.status = "healthy" /\ old # Absent
                THEN old.status ELSE new.status,
   until    |-> IF new.until = 0 THEN old.until ELSE new.until,
   failures |-> old.failures]

RegisterProvider(p, ids, fresh) ==
  LET previous == [id \in Ids |-> IF id \in byProvider[p] THEN models[id] ELSE Absent]
  IN  /\ models' = [id \in Ids |->
                      IF id \in ids THEN Merge(p, previous[id], fresh[id])
                      ELSE IF id \in byProvider[p] THEN Absent
                      ELSE models[id]]
      /\ byProvider' = [byProvider EXCEPT ![p] = ids]
      /\ RebuildSlots
      /\ suspect' = suspect \ (byProvider[p] \ ids)
      /\ quarantined' = quarantined \ (byProvider[p] \cup ids)
      /\ UNCHANGED <<policy, now>>

\* Mutant: the index keeps the provider's models.
UnregisterProvider_KeepsIndex(p) ==
  /\ models' = [id \in Ids |-> IF id \in byProvider[p] THEN Absent ELSE models[id]]
  /\ RebuildSlots
  /\ suspect' = suspect \ byProvider[p]
  /\ quarantined' = quarantined \ byProvider[p]
  /\ UNCHANGED <<policy, now, byProvider>>

UnregisterProvider(p) ==
  /\ models' = [id \in Ids |-> IF id \in byProvider[p] THEN Absent ELSE models[id]]
  /\ byProvider' = [byProvider EXCEPT ![p] = {}]
  /\ RebuildSlots
  /\ suspect' = suspect \ byProvider[p]
  /\ quarantined' = quarantined \ byProvider[p]
  /\ UNCHANGED <<policy, now>>
-----------------------------------------------------------------------------
(* Outcomes of requests and probes.                                        *)

(* cooldownDefault doubled for every failure after the first, up to        *)
(* cooldownMax.                                                            *)
Delay(failures) ==
  LET doubled == policy.default * 2^(failures - 1)
  IN  IF doubled > policy.max THEN policy.max ELSE doubled

(* The entry after one more failure, the expiry no earlier than floor. *)
Failed(m, floor) ==
  LET until == now + Delay(m.failures + 1)
  IN  IF policy.enabled
      THEN [m EXCEPT !.failures = @ + 1, !.status = "cooldown",
                     !.until = IF floor > until THEN floor ELSE until]
      ELSE [m EXCEPT !.failures = @ + 1, !.status = "degraded"]

Fails(ids, floor) ==
  /\ \A id \in ids : models[id].failures < MaxFailures
  /\ models' = [id \in Ids |-> IF id \in ids THEN Failed(models[id], floor)
                                             ELSE models[id]]
  /\ RebuildSlots
  /\ suspect' = IF policy.enabled THEN suspect \cup ids ELSE suspect
  /\ UNCHANGED <<byProvider, policy, now>>

RecordFailure(id) ==
  /\ models[id] # Absent
  /\ Fails({id}, 0)
  /\ UNCHANGED quarantined

(* A quota error: restoreAt is the reset the provider declared, or 0. *)
RecordProviderFailure(p, restoreAt) ==
  LET ids == {id \in byProvider[p] : models[id] # Absent}
  IN  /\ Fails(ids, restoreAt)
      /\ quarantined' = IF policy.enabled /\ restoreAt # 0
                        THEN quarantined \cup ids ELSE quarantined

\* Mutant: the slots are not assigned again.
RecordSuccess_KeepsSlots(id) ==
  /\ models[id] # Absent
  /\ models' = [models EXCEPT ![id].status = "healthy", ![id].until = 0,
                              ![id].failures = 0]
  /\ suspect' = suspect \ {id}
  /\ quarantined' = quarantined \ {id}
  /\ UNCHANGED <<byProvider, bySlot, policy, now>>

RecordSuccess(id) ==
  /\ models[id] # Absent
  /\ models' = [models EXCEPT ![id].status = "healthy", ![id].until = 0,
                              ![id].failures = 0]
  /\ RebuildSlots
  /\ suspect' = suspect \ {id}
  /\ quarantined' = quarantined \ {id}
  /\ UNCHANGED <<byProvider, policy, now>>
-----------------------------------------------------------------------------
(* Cooldowns, provider health, scores, and the clock.                      *)

Expired(id) == models[id].status = "cooldown" /\ ~InCooldown(id)

(* refreshExpiredCooldownsLocked, the first step of every read. *)
Refresh ==
  /\ \E id \in Ids : Expired(id)
  /\ models' = [id \in Ids |->
                  IF Expired(id)
                  THEN [models[id] EXCEPT !.status = "unknown", !.until = 0]
                  ELSE models[id]]
  /\ RebuildSlots
  /\ quarantined' = {id \in quarantined : ~Expired(id)}
  /\ UNCHANGED <<byProvider, policy, now, suspect>>

\* Mutant: a provider that recovers makes its models healthy.
OnHealthChange_Revives(p, new) ==
  LET touched == {id \in byProvider[p] :
                    models[id].status \notin {"absent", "cooldown"}}
  IN  /\ models' = [id \in Ids |-> IF id \in touched
                                   THEN [models[id] EXCEPT !.status = new]
                                   ELSE models[id]]
      /\ RebuildSlots
      /\ UNCHANGED <<byProvider, policy, now, history>>

(* The health loop's callback.  It degrades the models of a provider and   *)
(* never revives one: a recovery (new = healthy) changes no entry.         *)
OnHealthChange(p, new) ==
  LET touched == {id \in byProvider[p] :
                    models[id].status \notin {"absent", "cooldown", "unknown"}}
  IN  /\ models' = [id \in Ids |-> IF id \in touched /\ new # "healthy"
                                   THEN [models[id] EXCEPT !.status = new]
                                   ELSE models[id]]
      /\ RebuildSlots
      /\ UNCHANGED <<byProvider, policy, now, history>>

\* Mutant: values that are not positive are taken as they are.
Adopt_TakesZero(c) ==
  [enabled |-> c.enabled, default |-> c.default,
   max |-> IF c.max < c.default THEN c.default ELSE c.max]

(* Values that are not positive keep the current ones. *)
Adopt(c) ==
  LET default == IF c.default = 0 THEN policy.default ELSE c.default
      max     == IF c.max = 0 THEN policy.max ELSE c.max
  IN  [enabled |-> c.enabled, default |-> default,
       max |-> IF max < default THEN default ELSE max]

SetCooldownPolicy(c) ==
  /\ policy' = Adopt(c)
  /\ IF c.enabled
     THEN UNCHANGED <<models, bySlot, quarantined>>
     ELSE /\ models' = [id \in Ids |->
               IF models[id].status = "cooldown"
               THEN [models[id] EXCEPT !.status = "degraded", !.until = 0]
               ELSE [models[id] EXCEPT !.until = 0]]
          /\ RebuildSlots
          /\ quarantined' = {}
  /\ UNCHANGED <<byProvider, now, suspect>>

(* RecordLatency, reclassify and RestoreModelMetadata change what the      *)
(* scores are computed from.                                               *)
Rescore ==
  /\ models' = models
  /\ RebuildSlots
  /\ UNCHANGED <<byProvider, policy, now, history>>

Tick ==
  /\ now <= MaxTime
  /\ now' = now + 1
  /\ UNCHANGED <<models, byProvider, bySlot, policy, history>>
-----------------------------------------------------------------------------
Init ==
  /\ models = [id \in Ids |-> Absent]
  /\ byProvider = [p \in Providers |-> {}]
  /\ bySlot = [s \in Slots |-> None]
  /\ \E c \in Policies :
       policy = [enabled |-> c.enabled,
                 default |-> IF c.default = 0 THEN 1 ELSE c.default,
                 max |-> IF c.max < c.default \/ c.max = 0
                         THEN IF c.default = 0 THEN 1 ELSE c.default
                         ELSE c.max]
  /\ now = 1
  /\ suspect = {}
  /\ quarantined = {}

Operation ==
  \/ \E p \in Providers :
       \/ \E ids \in SUBSET Offers[p] :
            \E fresh \in [ids -> FreshStates] : RegisterProvider(p, ids, fresh)
       \/ UnregisterProvider(p)
       \/ \E restoreAt \in {0} \cup {now + d : d \in ResetDelays} :
            RecordProviderFailure(p, restoreAt)
       \/ \E new \in {"healthy", "degraded", "unhealthy"} : OnHealthChange(p, new)
  \/ \E id \in Ids :
       RecordFailure(id) \/ RecordSuccess(id)
  \/ \E c \in Policies : SetCooldownPolicy(c)
  \/ Refresh \/ Rescore

Next == Operation \/ Tick

Spec == Init /\ [][Next]_vars
-----------------------------------------------------------------------------
(* Properties.                                                             *)

(* The owner of an ID: only one provider may list it. *)
Sole(id) ==
  \A p, q \in Providers : id \in Offers[p] /\ id \in Offers[q] => p = q

(* A slot never holds a model that has left the catalog, is not healthy or *)
(* is in cooldown, after any sequence of operations and at any time: the   *)
(* route read from a slot is one the router may use.                       *)
SlotsRoutable == \A s \in Slots : bySlot[s] # None => Routable(bySlot[s])

(* Every slot has a model as soon as one model is healthy and free of      *)
(* cooldowns: no operation that makes a model usable forgets the slots.    *)
SlotsFilled ==
  (\E id \in Ids : models[id].status = "healthy" /\ models[id].until = 0)
    => \A s \in Slots : bySlot[s] # None

(* For an ID that a single provider lists, the catalog and the index by    *)
(* provider agree: provider-wide failures and health changes reach exactly *)
(* the provider's models.                                                  *)
IndexConsistent ==
  \A id \in Ids : Sole(id) =>
    \A p \in Providers : id \in byProvider[p] <=> models[id].provider = p

(* docs/gap-analysis.md:14: a model that was put in cooldown comes back as *)
(* healthy only through a success of its own.  Neither the expiry, nor the *)
(* recovery of its provider, nor a new registration with a configuration   *)
(* that calls it healthy, nor the end of the cooldown policy revives it.   *)
NoUnprobedRevival ==
  \A id \in suspect : Sole(id) => models[id].status # "healthy"

(* README.md:254: "Provider quota/reset signals quarantine every model in  *)
(* that provider until the explicit reset time": a failure that arrives    *)
(* later, of a request that was in flight, must not shorten it.            *)
QuarantineHolds ==
  [][\A id \in quarantined :
       RecordFailure(id) => models'[id].until >= models[id].until]_vars
=============================================================================
