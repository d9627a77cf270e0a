--------------------------- MODULE CatalogStoreProofs ---------------------------
(***************************************************************************)
(* Proofs about Catalog, Migration and CatalogStore.                       *)
(* The invariant of the catalog holds for any models, providers, offers,   *)
(* slots, policies and bounds.                                             *)
(* For any tables, columns, migrations and number of processes, whatever   *)
(* version each of them has and wherever it stops, an open database has    *)
(* the complete schema of the program that opened it; the catalog's store  *)
(* implements that specification of its schema.                            *)
(* The invariant of the catalog holds in the store too, across stops,      *)
(* restarts and the commands that replace the stored rows, for any models, *)
(* providers and bounds.                                                   *)
(***************************************************************************)
EXTENDS CatalogStore, TLAPS, WellFoundedInduction

(* --- the catalog (module Catalog) --- *)

(* Every entry of the function is an entry or Absent. *)
Typed(m) == m \in [Ids -> Entry \cup {Absent}]

(* What buildCatalogModels yields is a status and a time. *)
LEMMA FreshType ==
  ASSUME now \in Nat
  PROVE  FreshStates \subseteq [status : Statuses, until : Nat]
  BY ConstantsAssumption DEF FreshStates, Statuses

(* The backoff is a time. *)
LEMMA DelayType ==
  ASSUME TypeOK, NEW k \in 0..MaxFailures
  PROVE  Delay(k + 1) \in Nat
<1>1. k + 1 - 1 = k
  BY ConstantsAssumption
<1>2. 2^k \in Nat
  BY PowersAssumption
<1> DEFINE power == 2^k
<1>3. power \in Nat
  BY <1>2
<1>4. policy.default \in Nat /\ policy.max \in Nat
  BY DEF TypeOK
<1> HIDE DEF power
<1>5. policy.default * power \in Nat
  BY <1>3, <1>4
<1>6. Delay(k + 1) = IF policy.default * power > policy.max
                     THEN policy.max ELSE policy.default * power
  BY <1>1 DEF Delay, power
<1> QED BY <1>4, <1>5, <1>6

(* One more failure makes an entry of an entry. *)
LEMMA FailedType ==
  ASSUME TypeOK, NEW m \in Entry, m.failures < MaxFailures, NEW floor \in Nat
  PROVE  Failed(m, floor) \in Entry
<1>1. m.failures \in 0..MaxFailures /\ m.failures + 1 \in 0..MaxFailures
  BY ConstantsAssumption DEF Entry
<1>2. Delay(m.failures + 1) \in Nat
  BY <1>1, DelayType
<1>3. now + Delay(m.failures + 1) \in Nat
  BY <1>2, ConstantsAssumption DEF TypeOK
<1> QED BY <1>1, <1>3 DEF Failed, Entry, Statuses

(* A registration makes an entry of what it finds and what it is given. *)
LEMMA MergeType ==
  ASSUME NEW p \in Providers, NEW old \in Entry \cup {Absent},
         NEW new \in [status : Statuses, until : Nat]
  PROVE  Merge(p, old, new) \in Entry
  BY ConstantsAssumption DEF Merge, Entry, Absent, Statuses

(* Absent is no entry. *)
LEMMA AbsentNoEntry == Absent \notin Entry
  BY DEF Absent, Entry, Statuses

(* rebuildSlots only ever yields routable models, and one as soon as there *)
(* is one.                                                                 *)
LEMMA RebuildEstablishes ==
  ASSUME Typed(models'), now \in Nat, now' = now, RebuildSlots
  PROVE  /\ bySlot' \in [Slots -> Ids \cup {None}]
         /\ SlotsRoutable'
         /\ SlotsFilled'
<1> DEFINE best == {id \in Ids : models'[id].status = "healthy"
                                 /\ ~(now < models'[id].until)}
<1>1. bySlot' \in [Slots -> IF best = {} THEN {None} ELSE best]
  BY DEF RebuildSlots
<1>2. bySlot' \in [Slots -> Ids \cup {None}]
  BY <1>1
<1>3. ASSUME NEW s \in Slots, bySlot'[s] # None
      PROVE  Routable(bySlot[s])'
  <2>1. bySlot'[s] \in best
    BY <1>1, <1>3
  <2> QED BY <2>1 DEF Routable, InCooldown
<1>4. ASSUME NEW id \in Ids, models'[id].status = "healthy", models'[id].until = 0,
             NEW s \in Slots
      PROVE  bySlot'[s] # None
  <2>1. id \in best
    BY <1>4
  <2>2. bySlot'[s] \in Ids
    BY <1>1, <2>1
  <2> QED BY <2>2, ConstantsAssumption
<1> QED BY <1>2, <1>3, <1>4 DEF SlotsRoutable, SlotsFilled
-----------------------------------------------------------------------------
(* The index: every ID a provider registered is one it offers, and for an  *)
(* ID of a single provider the catalog holds exactly the registered ones.  *)
IndexInv ==
  /\ \A p \in Providers : byProvider[p] \subseteq Offers[p]
  /\ IndexConsistent

(* A suspect of a single provider is in the catalog and not healthy. *)
SuspectInv ==
  \A id \in suspect : Sole(id) => models[id] # Absent /\ models[id].status # "healthy"

Inv == TypeOK /\ SlotsRoutable /\ SlotsFilled /\ IndexInv /\ SuspectInv

LEMMA InitInv == Init => Inv
<1> SUFFICES ASSUME Init PROVE Inv
  OBVIOUS
<1> USE ConstantsAssumption
<1>1. PICK c \in Policies :
        policy = [enabled |-> c.enabled,
                  default |-> IF c.default = 0 THEN 1 ELSE c.default,
                  max |-> IF c.max < c.default \/ c.max = 0
                          THEN IF c.default = 0 THEN 1 ELSE c.default
                          ELSE c.max]
  BY DEF Init
<1>2. policy \in [enabled : BOOLEAN, default : Nat \ {0}, max : Nat \ {0}]
  <2>1. c \in RawPolicy
    OBVIOUS
  <2> QED BY <1>1, <2>1 DEF RawPolicy
<1>3. TypeOK
  BY <1>2 DEF Init, TypeOK
<1>4. SlotsRoutable /\ SlotsFilled
  BY DEF Init, SlotsRoutable, SlotsFilled, Absent
<1>5. IndexInv
  BY DEF Init, IndexInv, IndexConsistent, Absent
<1> QED BY <1>3, <1>4, <1>5 DEF Inv, SuspectInv, Init
-----------------------------------------------------------------------------
(* One lemma per operation.                                                *)

LEMMA RegisterStep ==
  ASSUME Inv, NEW p \in Providers, NEW ids \in SUBSET Offers[p],
         NEW fresh \in [ids -> FreshStates], RegisterProvider(p, ids, fresh)
  PROVE  Inv'
<1> DEFINE previous == [id \in Ids |-> IF id \in byProvider[p] THEN models[id] ELSE Absent]
<1> USE ConstantsAssumption
<1>0. ids \subseteq Ids /\ now \in Nat
  BY DEF Inv, TypeOK
<1>1. \A id \in Ids : previous[id] \in Entry \cup {Absent}
  BY DEF Inv, TypeOK
<1>2. \A id \in ids : fresh[id] \in [status : Statuses, until : Nat]
  BY <1>0, FreshType
<1>3. \A id \in ids : Merge(p, previous[id], fresh[id]) \in Entry
  BY <1>0, <1>1, <1>2, MergeType
<1> HIDE DEF previous
<1>4. models' = [id \in Ids |->
                   IF id \in ids THEN Merge(p, previous[id], fresh[id])
                   ELSE IF id \in byProvider[p] THEN Absent
                   ELSE models[id]]
  BY DEF RegisterProvider, previous
<1>5. Typed(models')
  BY <1>0, <1>3, <1>4 DEF Typed, Inv, TypeOK
<1>6. /\ bySlot' \in [Slots -> Ids \cup {None}]
      /\ SlotsRoutable' /\ SlotsFilled'
  BY <1>0, <1>5, RebuildEstablishes DEF RegisterProvider
<1>7. TypeOK'
  BY <1>0, <1>5, <1>6 DEF RegisterProvider, Inv, TypeOK, Typed
<1>8. byProvider' = [byProvider EXCEPT ![p] = ids] /\ byProvider \in [Providers -> SUBSET Ids]
  BY DEF RegisterProvider, Inv, TypeOK
<1>9. IndexInv'
  <2>1. \A q \in Providers : byProvider'[q] \subseteq Offers[q]
    BY <1>8 DEF Inv, IndexInv
  <2>2. ASSUME NEW id \in Ids, Sole(id), NEW q \in Providers
        PROVE  id \in byProvider'[q] <=> models'[id].provider = q
    <3>1. CASE id \in ids
      <4>1. models'[id].provider = p
        BY <1>4, <3>1 DEF Merge
      <4>2. id \in byProvider'[q] <=> q = p
        BY <1>8, <2>1, <2>2, <3>1 DEF Sole
      <4> QED BY <4>1, <4>2
    <3>2. CASE id \notin ids /\ id \in byProvider[p]
      <4>1. models'[id].provider = None
        BY <1>4, <3>2 DEF Absent
      <4>2. id \notin byProvider'[q]
        BY <1>8, <2>2, <3>2 DEF Sole, Inv, IndexInv
      <4> QED BY <4>1, <4>2
    <3>3. CASE id \notin ids /\ id \notin byProvider[p]
      <4>1. models'[id] = models[id]
        BY <1>4, <3>3
      <4>2. id \in byProvider'[q] <=> id \in byProvider[q]
        BY <1>8, <3>3
      <4> QED BY <2>2, <4>1, <4>2 DEF Inv, IndexInv, IndexConsistent
    <3> QED BY <3>1, <3>2, <3>3
  <2> QED BY <2>1, <2>2 DEF IndexInv, IndexConsistent, Sole
<1>10. SuspectInv'
  <2> SUFFICES ASSUME NEW id \in suspect', Sole(id)
               PROVE  models'[id] # Absent /\ models'[id].status # "healthy"
    BY DEF SuspectInv, Sole
  <2>1. id \in suspect /\ ~(id \in byProvider[p] /\ id \notin ids)
    BY DEF RegisterProvider
  <2>2. id \in Ids /\ models[id] # Absent /\ models[id].status # "healthy"
    BY <2>1 DEF Inv, SuspectInv, TypeOK
  <2>3. CASE id \in ids
    <3>1. models[id] \in Entry
      BY <2>2 DEF Inv, TypeOK
    <3>2. models[id].provider \in Providers
      BY <3>1 DEF Entry
    <3>3. id \in byProvider[models[id].provider]
      BY <2>2, <3>2 DEF Inv, IndexInv, IndexConsistent
    <3>4. models[id].provider = p
      BY <2>3, <3>2, <3>3 DEF Sole, Inv, IndexInv
    <3>5. previous[id] = models[id]
      BY <2>2, <3>3, <3>4 DEF previous
    <3>6. models'[id] = Merge(p, models[id], fresh[id])
      BY <1>4, <2>2, <2>3, <3>5
    <3>7. models'[id].status # "healthy"
      BY <2>2, <3>6 DEF Merge
    <3>8. models'[id] \in Entry
      BY <1>3, <2>3, <3>5, <3>6
    <3> QED BY <3>7, <3>8, AbsentNoEntry
  <2>4. CASE id \notin ids
    BY <1>4, <2>1, <2>2, <2>4
  <2> QED BY <2>3, <2>4
<1> QED BY <1>6, <1>7, <1>9, <1>10 DEF Inv

LEMMA UnregisterStep ==
  ASSUME Inv, NEW p \in Providers, UnregisterProvider(p)
  PROVE  Inv'
<1> USE ConstantsAssumption
<1>1. models' = [id \in Ids |-> IF id \in byProvider[p] THEN Absent ELSE models[id]]
  BY DEF UnregisterProvider
<1>2. Typed(models') /\ now \in Nat
  BY <1>1 DEF Typed, Inv, TypeOK
<1>3. /\ bySlot' \in [Slots -> Ids \cup {None}]
      /\ SlotsRoutable' /\ SlotsFilled'
  BY <1>2, RebuildEstablishes DEF UnregisterProvider
<1>4. TypeOK'
  BY <1>2, <1>3 DEF UnregisterProvider, Inv, TypeOK, Typed
<1>5. byProvider' = [byProvider EXCEPT ![p] = {}] /\ byProvider \in [Providers -> SUBSET Ids]
  BY DEF UnregisterProvider, Inv, TypeOK
<1>6. IndexInv'
  <2>1. \A q \in Providers : byProvider'[q] \subseteq Offers[q]
    BY <1>5 DEF Inv, IndexInv
  <2>2. ASSUME NEW id \in Ids, Sole(id), NEW q \in Providers
        PROVE  id \in byProvider'[q] <=> models'[id].provider = q
    <3>1. CASE id \in byProvider[p]
      <4>1. models'[id].provider = None
        BY <1>1, <3>1 DEF Absent
      <4>2. id \notin byProvider'[q]
        BY <1>5, <2>2, <3>1 DEF Sole, Inv, IndexInv
      <4> QED BY <4>1, <4>2
    <3>2. CASE id \notin byProvider[p]
      <4>1. models'[id] = models[id] /\ (id \in byProvider'[q] <=> id \in byProvider[q])
        BY <1>1, <1>5, <3>2
      <4> QED BY <2>2, <4>1 DEF Inv, IndexInv, IndexConsistent
    <3> QED BY <3>1, <3>2
  <2> QED BY <2>1, <2>2 DEF IndexInv, IndexConsistent, Sole
<1>7. SuspectInv'
  BY <1>1 DEF UnregisterProvider, Inv, SuspectInv, Sole, TypeOK
<1> QED BY <1>3, <1>4, <1>6, <1>7 DEF Inv

(* An operation that rewrites entries, leaves their provider alone and     *)
(* ends with rebuildSlots keeps the invariant if it keeps the suspects.    *)
LEMMA EntryStep ==
  ASSUME Inv, Typed(models'), RebuildSlots, now' = now, byProvider' = byProvider,
         policy' \in [enabled : BOOLEAN, default : Nat \ {0}, max : Nat \ {0}],
         suspect' \in SUBSET Ids, quarantined' \in SUBSET Ids,
         \A id \in Ids : models'[id].provider = models[id].provider,
         SuspectInv'
  PROVE  Inv'
<1>1. now \in Nat
  BY ConstantsAssumption DEF Inv, TypeOK
<1>2. /\ bySlot' \in [Slots -> Ids \cup {None}]
      /\ SlotsRoutable' /\ SlotsFilled'
  BY <1>1, RebuildEstablishes
<1>3. TypeOK'
  BY <1>2 DEF Inv, TypeOK, Typed
<1>4. IndexInv'
  BY DEF Inv, IndexInv, IndexConsistent, Sole
<1> QED BY <1>2, <1>3, <1>4 DEF Inv

(* Entries that fail together: one model's failure, or a whole provider's. *)
LEMMA FailsStep ==
  ASSUME Inv, NEW ids \in SUBSET Ids, \A id \in ids : models[id] # Absent,
         NEW floor \in Nat, Fails(ids, floor), quarantined' \in SUBSET Ids
  PROVE  Inv'
<1>1. models' = [id \in Ids |-> IF id \in ids THEN Failed(models[id], floor)
                                              ELSE models[id]]
  BY DEF Fails
<1>2. \A id \in ids : models[id] \in Entry /\ models[id].failures < MaxFailures
  BY DEF Fails, Inv, TypeOK
<1>3. \A id \in ids : Failed(models[id], floor) \in Entry
  BY <1>2, FailedType DEF Inv
<1>4. Typed(models')
  BY <1>1, <1>3 DEF Typed, Inv, TypeOK
<1>5. \A id \in Ids : models'[id].provider = models[id].provider
  <2>1. \A id \in ids : Failed(models[id], floor).provider = models[id].provider
    BY <1>2 DEF Failed, Entry
  <2> QED BY <1>1, <2>1
<1>6. \A id \in ids : Failed(models[id], floor).status # "healthy"
  BY <1>2 DEF Failed, Entry
<1>7. SuspectInv'
  <2> SUFFICES ASSUME NEW id \in suspect', Sole(id)
               PROVE  models'[id] # Absent /\ models'[id].status # "healthy"
    BY DEF SuspectInv, Sole
  <2>1. id \in Ids
    BY DEF Fails, Inv, TypeOK
  <2>2. CASE id \in ids
    BY <1>1, <1>3, <1>6, <2>1, <2>2, AbsentNoEntry
  <2>3. CASE id \notin ids
    BY <1>1, <2>1, <2>3 DEF Fails, Inv, SuspectInv
  <2> QED BY <2>2, <2>3
<1> QED BY <1>4, <1>5, <1>7, EntryStep DEF Fails, Inv, TypeOK

LEMMA ProviderFailureStep ==
  ASSUME Inv, NEW p \in Providers, NEW restoreAt \in Nat,
         RecordProviderFailure(p, restoreAt)
  PROVE  Inv'
<1> DEFINE ids == {id \in byProvider[p] : models[id] # Absent}
<1>1. ids \in SUBSET Ids /\ \A id \in ids : models[id] # Absent
  BY DEF Inv, TypeOK
<1>2. Fails(ids, restoreAt) /\ quarantined' \in SUBSET Ids
  BY <1>1 DEF RecordProviderFailure, Inv, TypeOK
<1> QED BY <1>1, <1>2, FailsStep

LEMMA FailureStep ==
  ASSUME Inv, NEW id \in Ids, RecordFailure(id)
  PROVE  Inv'
  BY FailsStep DEF RecordFailure, Inv, TypeOK

LEMMA SuccessStep ==
  ASSUME Inv, NEW i \in Ids, RecordSuccess(i)
  PROVE  Inv'
<1>1. models' = [models EXCEPT ![i].status = "healthy", ![i].until = 0,
                               ![i].failures = 0]
  BY DEF RecordSuccess
<1>2. models[i] \in Entry
  BY DEF RecordSuccess, Inv, TypeOK
<1>3. models'[i] = [models[i] EXCEPT !.status = "healthy", !.until = 0, !.failures = 0]
      /\ \A id \in Ids \ {i} : models'[id] = models[id]
  BY <1>1 DEF Inv, TypeOK
<1>4. models'[i] \in Entry /\ models'[i].provider = models[i].provider
  <2>1. models'[i] = [provider |-> models[i].provider, status |-> "healthy",
                      until |-> 0, failures |-> 0]
    BY <1>2, <1>3 DEF Entry
  <2>2. models[i].provider \in Providers /\ 0 \in 0..MaxFailures
    BY <1>2, ConstantsAssumption DEF Entry
  <2> QED BY <2>1, <2>2 DEF Entry, Statuses
<1>5. Typed(models')
  BY <1>1, <1>3, <1>4 DEF Typed, Inv, TypeOK
<1>6. \A id \in Ids : models'[id].provider = models[id].provider
  BY <1>3, <1>4
<1>7. SuspectInv'
  BY <1>3 DEF RecordSuccess, SuspectInv, Sole, Inv, TypeOK
<1> QED BY <1>5, <1>6, <1>7, EntryStep DEF RecordSuccess, Inv, TypeOK

LEMMA RefreshStep ==
  ASSUME Inv, Refresh
  PROVE  Inv'
<1>1. models' = [id \in Ids |->
                   IF Expired(id)
                   THEN [models[id] EXCEPT !.status = "unknown", !.until = 0]
                   ELSE models[id]]
  BY DEF Refresh
<1>2. \A id \in Ids : Expired(id) => models[id] \in Entry
  BY DEF Expired, Absent, Inv, TypeOK
<1>3. \A id \in Ids : Expired(id) =>
        /\ models'[id] \in Entry
        /\ models'[id].provider = models[id].provider
        /\ models'[id].status = "unknown"
  BY <1>1, <1>2 DEF Entry, Statuses
<1>4. Typed(models')
  BY <1>1, <1>3 DEF Typed, Inv, TypeOK
<1>5. \A id \in Ids : models'[id].provider = models[id].provider
  BY <1>1, <1>3
<1>6. SuspectInv'
  <2> SUFFICES ASSUME NEW id \in suspect, Sole(id)
               PROVE  models'[id] # Absent /\ models'[id].status # "healthy"
    BY DEF Refresh, SuspectInv, Sole
  <2>1. id \in Ids /\ models[id] # Absent /\ models[id].status # "healthy"
    BY DEF Inv, SuspectInv, TypeOK
  <2>2. CASE Expired(id)
    BY <1>3, <2>1, <2>2, AbsentNoEntry
  <2>3. CASE ~Expired(id)
    BY <1>1, <2>1, <2>3
  <2> QED BY <2>2, <2>3
<1> QED BY <1>4, <1>5, <1>6, EntryStep DEF Refresh, Inv, TypeOK

LEMMA HealthChangeStep ==
  ASSUME Inv, NEW p \in Providers, NEW new \in {"healthy", "degraded", "unhealthy"},
         OnHealthChange(p, new)
  PROVE  Inv'
<1> DEFINE touched == {id \in byProvider[p] :
                         models[id].status \notin {"absent", "cooldown", "unknown"}}
<1>1. models' = [id \in Ids |-> IF id \in touched /\ new # "healthy"
                                THEN [models[id] EXCEPT !.status = new]
                                ELSE models[id]]
  BY DEF OnHealthChange
<1>2. \A id \in Ids : id \in touched => models[id] \in Entry
  BY DEF Absent, Inv, TypeOK
<1> HIDE DEF touched
<1>3. \A id \in Ids : id \in touched /\ new # "healthy" =>
        /\ models'[id] \in Entry
        /\ models'[id].provider = models[id].provider
        /\ models'[id].status # "healthy"
  BY <1>1, <1>2 DEF Entry, Statuses
<1>4. Typed(models')
  BY <1>1, <1>3 DEF Typed, Inv, TypeOK
<1>5. \A id \in Ids : models'[id].provider = models[id].provider
  BY <1>1, <1>3
<1>6. SuspectInv'
  BY <1>1, <1>3, AbsentNoEntry DEF OnHealthChange, history, SuspectInv, Sole, Inv, TypeOK
<1> QED BY <1>4, <1>5, <1>6, EntryStep DEF OnHealthChange, history, Inv, TypeOK

LEMMA PolicyStep ==
  ASSUME Inv, NEW c \in Policies, SetCooldownPolicy(c)
  PROVE  Inv'
<1>1. policy' \in [enabled : BOOLEAN, default : Nat \ {0}, max : Nat \ {0}]
  <2>1. c \in RawPolicy
    BY ConstantsAssumption
  <2> QED BY <2>1 DEF SetCooldownPolicy, Adopt, RawPolicy, Inv, TypeOK
<1>2. CASE c.enabled
  BY <1>1, <1>2 DEF SetCooldownPolicy, Inv, TypeOK, SlotsRoutable, Routable, InCooldown,
     SlotsFilled, IndexInv, IndexConsistent, SuspectInv, Sole
<1>3. CASE ~c.enabled
  <2>1. models' = [id \in Ids |->
                     IF models[id].status = "cooldown"
                     THEN [models[id] EXCEPT !.status = "degraded", !.until = 0]
                     ELSE [models[id] EXCEPT !.until = 0]]
    BY <1>3 DEF SetCooldownPolicy
  <2>2. ASSUME NEW id \in Ids
        PROVE  /\ models'[id] \in Entry \cup {Absent}
               /\ models'[id].provider = models[id].provider
               /\ models[id] # Absent => models'[id] # Absent
               /\ models[id].status # "healthy" => models'[id].status # "healthy"
    <3>1. CASE models[id] = Absent
      <4>1. [Absent EXCEPT !.until = 0] = Absent /\ Absent.status # "cooldown"
        BY DEF Absent
      <4>2. models'[id] = Absent
        BY <2>1, <3>1, <4>1
      <4> QED BY <3>1, <4>2
    <3>2. CASE models[id] \in Entry
      <4>1. /\ models'[id] \in Entry
            /\ models'[id].provider = models[id].provider
            /\ models[id].status # "healthy" => models'[id].status # "healthy"
        BY <2>1, <3>2 DEF Entry, Statuses
      <4> QED BY <4>1, AbsentNoEntry
    <3> QED BY <3>1, <3>2 DEF Inv, TypeOK
  <2>3. Typed(models')
    BY <2>1, <2>2 DEF Typed
  <2>4. SuspectInv'
    BY <2>2 DEF SetCooldownPolicy, SuspectInv, Sole, Inv, TypeOK
  <2> QED BY <1>1, <1>3, <2>2, <2>3, <2>4, EntryStep DEF SetCooldownPolicy, Inv, TypeOK
<1> QED BY <1>2, <1>3

LEMMA RescoreStep ==
  ASSUME Inv, Rescore
  PROVE  Inv'
<1>1. Typed(models')
  BY DEF Rescore, Typed, Inv, TypeOK
<1>2. SuspectInv'
  BY DEF Rescore, history, SuspectInv, Sole, Inv
<1> QED BY <1>1, <1>2, EntryStep DEF Rescore, history, Inv, TypeOK

(* Time only ever ends a cooldown. *)
LEMMA TickStep ==
  ASSUME Inv, Tick
  PROVE  Inv'
<1> USE ConstantsAssumption
<1>1. TypeOK'
  BY DEF Tick, history, Inv, TypeOK
<1>2. SlotsRoutable'
  <2> SUFFICES ASSUME NEW s \in Slots, bySlot[s] # None
               PROVE  models[bySlot[s]].status = "healthy" /\ ~(now + 1 < models[bySlot[s]].until)
    BY DEF Tick, SlotsRoutable, Routable, InCooldown
  <2>1. models[bySlot[s]].status = "healthy" /\ ~(now < models[bySlot[s]].until)
    BY DEF Inv, SlotsRoutable, Routable, InCooldown
  <2>2. models[bySlot[s]].until \in Nat
    BY DEF Inv, TypeOK, Entry, Absent
  <2> QED BY <2>1, <2>2 DEF Inv, TypeOK
<1>3. SlotsFilled' /\ IndexInv' /\ SuspectInv'
  BY DEF Tick, history, Inv, SlotsFilled, IndexInv, IndexConsistent, SuspectInv, Sole
<1> QED BY <1>1, <1>2, <1>3 DEF Inv
-----------------------------------------------------------------------------
(* The catalog keeps its invariant, whatever the order of its operations.  *)
LEMMA CatalogStep ==
  ASSUME Inv, [Next]_vars
  PROVE  Inv'
<1>1. ASSUME NEW p \in Providers, NEW ids \in SUBSET Offers[p],
             NEW fresh \in [ids -> FreshStates], RegisterProvider(p, ids, fresh)
      PROVE  Inv'
  BY <1>1, RegisterStep
<1>2. ASSUME NEW p \in Providers, UnregisterProvider(p)
      PROVE  Inv'
  BY <1>2, UnregisterStep
<1>3. ASSUME NEW p \in Providers,
             NEW restoreAt \in {0} \cup {now + d : d \in ResetDelays},
             RecordProviderFailure(p, restoreAt)
      PROVE  Inv'
  <2>1. restoreAt \in Nat
    <3>1. now \in Nat
      BY DEF Inv, TypeOK
    <3>2. CASE restoreAt = 0
      BY <3>2
    <3>3. CASE \E d \in ResetDelays : restoreAt = now + d
      <4>1. PICK d \in ResetDelays : restoreAt = now + d
        BY <3>3
      <4>2. d \in Nat
        BY ConstantsAssumption
      <4> QED BY <3>1, <4>1, <4>2
    <3> QED BY <3>2, <3>3
  <2> QED BY <1>3, <2>1, ProviderFailureStep
<1>4. ASSUME NEW p \in Providers, NEW new \in {"healthy", "degraded", "unhealthy"},
             OnHealthChange(p, new)
      PROVE  Inv'
  BY <1>4, HealthChangeStep
<1>5. ASSUME NEW id \in Ids, RecordFailure(id) \/ RecordSuccess(id)
      PROVE  Inv'
  BY <1>5, FailureStep, SuccessStep
<1>6. ASSUME NEW c \in Policies, SetCooldownPolicy(c)
      PROVE  Inv'
  BY <1>6, PolicyStep
<1>7. CASE Refresh \/ Rescore \/ Tick
  BY <1>7, RefreshStep, RescoreStep, TickStep
<1>8. CASE UNCHANGED vars
  BY <1>8 DEF vars, history, Inv, TypeOK, SlotsRoutable, Routable, InCooldown,
     SlotsFilled, IndexInv, IndexConsistent, SuspectInv, Sole
<1> QED BY <1>1, <1>2, <1>3, <1>4, <1>5, <1>6, <1>7, <1>8 DEF Next, Operation

(* Entries, index, slots and histories agree in every reachable state.     *)
THEOREM CatalogInvariant == Spec => []Inv
BY InitInv, CatalogStep, PTL DEF Spec

(* The type invariant. *)
THEOREM TypeCorrect == Spec => []TypeOK
<1>1. Inv => TypeOK
  BY DEF Inv
<1> QED BY <1>1, CatalogInvariant, PTL

(* A slot never names a model that cannot be routed to. *)
THEOREM SlotsAlwaysRoutable == Spec => []SlotsRoutable
<1>1. Inv => SlotsRoutable
  BY DEF Inv
<1> QED BY <1>1, CatalogInvariant, PTL

(* No operation that makes a model usable leaves a slot empty. *)
THEOREM SlotsAlwaysFilled == Spec => []SlotsFilled
<1>1. Inv => SlotsFilled
  BY DEF Inv
<1> QED BY <1>1, CatalogInvariant, PTL

(* The catalog and its index agree on the models of a single provider. *)
THEOREM IndexAlwaysConsistent == Spec => []IndexConsistent
<1>1. Inv => IndexConsistent
  BY DEF Inv, IndexInv
<1> QED BY <1>1, CatalogInvariant, PTL

(* A model that was put in cooldown is healthy again only after a success  *)
(* of its own.                                                             *)
THEOREM OnlySuccessRevives == Spec => []NoUnprobedRevival
<1>1. Inv => NoUnprobedRevival
  BY DEF Inv, SuspectInv, NoUnprobedRevival
<1> QED BY <1>1, CatalogInvariant, PTL

(* --- the schema (module Migration) and the store --- *)

(* What SchemaAssumption says of the versions, named for the proofs. *)

LEMMA VersionsBounded ==
  /\ \E n \in Nat : Versions \subseteq 1..n
  /\ \A v \in Versions : Ensures[v] \subseteq Columns
BY SchemaAssumption DEF Versions

(* A non-empty set of versions has a greatest one: the least of its bounds. *)
LEMMA GreatestVersion ==
  ASSUME NEW S, S \subseteq Versions, S # {}
  PROVE  \E v \in S : \A w \in S : w <= v
<1>1. PICK n \in Nat : Versions \subseteq 1..n
  BY VersionsBounded
<1> DEFINE Bounds == {k \in Nat : \A w \in S : w <= k}
<1>2. Bounds \subseteq Nat /\ n \in Bounds
  BY <1>1
<1>3. \E x \in Bounds : \A y \in Bounds : ~ (<<y, x>> \in OpToRel(<, Nat))
  <2> HIDE DEF Bounds
  <2> QED BY <1>2, WFMin, NatLessThanWellFounded
<1>4. PICK v \in Bounds : \A y \in Bounds : ~ (y < v)
  BY <1>2, <1>3 DEF OpToRel
<1>5. v \in S
  <2>1. SUFFICES ASSUME v \notin S PROVE FALSE
    OBVIOUS
  <2>2. v \in Nat /\ \A w \in S : w \in Nat /\ w >= 1 /\ w < v
    BY <1>1, <1>2, <1>4, <2>1
  <2>3. v - 1 \in Bounds
    BY <2>2
  <2> QED BY <1>4, <2>2, <2>3
<1> QED BY <1>4, <1>5

LEMMA LatestRecorded ==
  ASSUME recorded \subseteq Versions
  PROVE  /\ SchemaVersion \in Nat
         /\ recorded # {} => SchemaVersion \in recorded
         /\ recorded = {} => SchemaVersion = 0
<1>1. CASE recorded = {}
  BY <1>1 DEF SchemaVersion
<1>2. CASE recorded # {}
  <2>1. \E v \in recorded : \A w \in recorded : w <= v
    BY <1>2, GreatestVersion
  <2>2. SchemaVersion \in recorded
    BY <1>2, <2>1 DEF SchemaVersion
  <2> QED BY <1>2, <2>2, VersionsBounded
<1> QED BY <1>1, <1>2
-----------------------------------------------------------------------------
(* Whoever records a version has ensured its columns, and all the versions *)
(* before it are recorded.                                                 *)
RecordedApplied ==
  \A v \in recorded : Ensures[v] \subseteq columns /\ 1..v \subseteq recorded

(* Where a process is says what it has ensured so far. *)
Progress(o) ==
  LET p == opener[o]
  IN  /\ p.at \in {"columns", "add", "open"} => tables = Tables
      /\ p.at = "open" => 1..Latest[o] \subseteq recorded
      /\ p.at \in {"columns", "add"} =>
           /\ p.version \in 1..Latest[o]
           /\ \A v \in 1..Latest[o] : v < p.version => v \in recorded
           /\ p.left \subseteq Columns
      /\ p.at = "columns" => Ensures[p.version] \subseteq columns \cup p.left
      /\ p.at = "add" => /\ p.column \in Columns
                         /\ Ensures[p.version] \subseteq columns \cup p.left \cup {p.column}

SchemaInv ==
  /\ SchemaTypeOK
  /\ RecordedApplied
  /\ \A o \in Openers : Progress(o)

(* The process goes on with the migration after one that is recorded, or   *)
(* has applied its last one.                                               *)
LEMMA AfterProgress ==
  ASSUME NEW o \in Openers, NEW v \in 0..Latest[o]
  PROVE  LET p == After(o, v)
         IN  \/ /\ v = Latest[o] /\ p = [Closed EXCEPT !.at = "open"]
             \/ /\ v < Latest[o] /\ v + 1 \in 1..Latest[o] /\ v + 1 \in Versions
                /\ p = [at |-> "columns", version |-> v + 1, left |-> Ensures[v + 1],
                        column |-> NoColumn]
BY SchemaAssumption DEF After, Closed

LEMMA SchemaInitInv == SchemaInit => SchemaInv
<1> SUFFICES ASSUME SchemaInit PROVE SchemaInv
  OBVIOUS
<1>1. PICK d \in OldDatabases : tables = d.tables /\ columns = d.columns /\ recorded = d.recorded
  BY DEF SchemaInit
<1>2. opener = [o \in Openers |-> Closed]
  BY DEF SchemaInit
<1>3. SchemaTypeOK
  BY <1>1, <1>2, OldDatabasesAssumption DEF SchemaTypeOK, Closed
<1>4. RecordedApplied
  BY <1>1, OldDatabasesAssumption DEF RecordedApplied
<1>5. \A o \in Openers : Progress(o)
  BY <1>2 DEF Progress, Closed
<1> QED BY <1>3, <1>4, <1>5 DEF SchemaInv

LEMMA SchemaNextInv == SchemaInv /\ [SchemaNext]_schema => SchemaInv'
<1> SUFFICES ASSUME SchemaInv, [SchemaNext]_schema PROVE SchemaInv'
  OBVIOUS
<1> USE DEF SchemaInv
<1>1. ASSUME NEW o \in Openers, Open(o) PROVE SchemaInv'
  <2>1. SchemaTypeOK'
    BY <1>1 DEF SchemaTypeOK, Open
  <2>2. RecordedApplied'
    BY <1>1 DEF RecordedApplied, Open
  <2>3. \A p \in Openers : Progress(p)'
    BY <1>1 DEF SchemaTypeOK, Progress, Open
  <2> QED BY <2>1, <2>2, <2>3
<1>2. ASSUME NEW o \in Openers, NEW t \in Tables, CreateTable(o, t) PROVE SchemaInv'
  <2>1. SchemaTypeOK'
    BY <1>2, SchemaAssumption DEF SchemaTypeOK, CreateTable
  <2>2. RecordedApplied'
    BY <1>2 DEF RecordedApplied, CreateTable
  <2>3. \A p \in Openers : Progress(p)'
    BY <1>2 DEF SchemaTypeOK, Progress, CreateTable
  <2> QED BY <2>1, <2>2, <2>3
<1>3. ASSUME NEW o \in Openers, ReadVersion(o) PROVE SchemaInv'
  <2>1. UNCHANGED <<tables, columns, recorded>> /\ tables = Tables
    BY <1>3 DEF ReadVersion
  <2>2. SchemaVersion \in Nat /\ 1..SchemaVersion \subseteq recorded
    BY LatestRecorded DEF SchemaTypeOK, RecordedApplied
  <2>3. CASE SchemaVersion > Latest[o]
    BY <1>3, <2>1, <2>3 DEF ReadVersion, SchemaTypeOK, RecordedApplied, Progress, Closed
  <2>4. CASE SchemaVersion \in 0..Latest[o]
    <3> DEFINE newer == SchemaVersion > Latest[o]
    <3>0. ~ newer
      BY <2>4, SchemaAssumption
    <3>1. opener' = [opener EXCEPT ![o] = After(o, SchemaVersion)]
      <4>1. opener' = [opener EXCEPT ![o] = IF newer THEN [Closed EXCEPT !.at = "failed"]
                                                     ELSE After(o, SchemaVersion)]
        BY <1>3 DEF ReadVersion
      <4> HIDE DEF newer
      <4> QED BY <3>0, <4>1, Zenon
    <3>2. CASE /\ SchemaVersion = Latest[o]
               /\ After(o, SchemaVersion) = [Closed EXCEPT !.at = "open"]
      BY <2>1, <2>2, <3>1, <3>2 DEF SchemaTypeOK, RecordedApplied, Progress, Closed
    <3>3. CASE /\ SchemaVersion + 1 \in 1..Latest[o] /\ SchemaVersion + 1 \in Versions
               /\ After(o, SchemaVersion) =
                    [at |-> "columns", version |-> SchemaVersion + 1,
                     left |-> Ensures[SchemaVersion + 1], column |-> NoColumn]
      <4> DEFINE w == SchemaVersion + 1
      <4>1. opener' = [opener EXCEPT ![o] = [at |-> "columns", version |-> w,
                         left |-> Ensures[w], column |-> NoColumn]]
        BY <3>1, <3>3
      <4>2. /\ w \in 1..Latest[o] /\ w \in Versions /\ Ensures[w] \subseteq Columns
            /\ \A u \in 1..Latest[o] : u < w => u \in recorded
        BY <2>2, <3>3, SchemaAssumption, VersionsBounded
      <4> HIDE DEF w
      <4>3. SchemaTypeOK' /\ RecordedApplied'
        BY <2>1, <4>1, <4>2 DEF SchemaTypeOK, RecordedApplied
      <4>4. ASSUME NEW p \in Openers PROVE Progress(p)'
        BY <2>1, <4>1, <4>2 DEF SchemaTypeOK, Progress
      <4> QED BY <4>3, <4>4
    <3> QED BY <2>4, <3>2, <3>3, AfterProgress
  <2> QED BY <2>2, <2>3, <2>4, SchemaAssumption
<1>4. ASSUME NEW o \in Openers, NEW c \in Columns, EnsureColumn(o, c) PROVE SchemaInv'
  <2>1. SchemaTypeOK'
    BY <1>4 DEF SchemaTypeOK, EnsureColumn
  <2>2. RecordedApplied'
    BY <1>4 DEF RecordedApplied, EnsureColumn
  <2>3. ASSUME NEW p \in Openers PROVE Progress(p)'
    BY <1>4 DEF SchemaTypeOK, Progress, EnsureColumn
  <2> QED BY <2>1, <2>2, <2>3
<1>5. ASSUME NEW o \in Openers, AddColumn(o) PROVE SchemaInv'
  <2>1. SchemaTypeOK'
    BY <1>5 DEF SchemaTypeOK, AddColumn, Closed, Progress
  <2>2. RecordedApplied'
    BY <1>5 DEF RecordedApplied, AddColumn
  <2>3. ASSUME NEW p \in Openers PROVE Progress(p)'
    BY <1>5 DEF SchemaTypeOK, Progress, AddColumn, Closed
  <2> QED BY <2>1, <2>2, <2>3
<1>6. ASSUME NEW o \in Openers, RecordVersion(o) PROVE SchemaInv'
  <2> DEFINE v == opener[o].version
  <2>1. /\ v \in 1..Latest[o] /\ v \in Versions /\ v \in 0..Latest[o]
        /\ 1..v \subseteq recorded \cup {v}
        /\ Ensures[v] \subseteq columns
        /\ tables = Tables
    BY <1>6, SchemaAssumption DEF RecordVersion, Progress, SchemaTypeOK
  <2>2. recorded' = recorded \cup {v} /\ UNCHANGED <<tables, columns>>
    BY <1>6 DEF RecordVersion
  <2>3. RecordedApplied'
    BY <2>1, <2>2 DEF RecordedApplied
  <2>4. opener' = [opener EXCEPT ![o] = [Closed EXCEPT !.at = "failed"]]
        \/ opener' = [opener EXCEPT ![o] = After(o, v)]
    BY <1>6 DEF RecordVersion
  <2>5. CASE opener' = [opener EXCEPT ![o] = [Closed EXCEPT !.at = "failed"]]
    BY <2>1, <2>2, <2>3, <2>5 DEF SchemaTypeOK, Progress, Closed
  <2>6. CASE opener' = [opener EXCEPT ![o] = After(o, v)]
    <3>1. CASE v = Latest[o] /\ After(o, v) = [Closed EXCEPT !.at = "open"]
      BY <2>1, <2>2, <2>3, <2>6, <3>1 DEF SchemaTypeOK, Progress, Closed
    <3>2. CASE /\ v + 1 \in 1..Latest[o] /\ v + 1 \in Versions
               /\ After(o, v) = [at |-> "columns", version |-> v + 1,
                                 left |-> Ensures[v + 1], column |-> NoColumn]
      <4> DEFINE w == v + 1
      <4>1. opener' = [opener EXCEPT ![o] = [at |-> "columns", version |-> w,
                         left |-> Ensures[w], column |-> NoColumn]]
        BY <2>6, <3>2
      <4>2. /\ w \in 1..Latest[o] /\ w \in Versions /\ Ensures[w] \subseteq Columns
            /\ \A u \in 1..Latest[o] : u < w => u \in recorded'
        BY <2>1, <2>2, <3>2, SchemaAssumption, VersionsBounded
      <4> HIDE DEF w
      <4>3. SchemaTypeOK'
        BY <2>1, <2>2, <4>1, <4>2 DEF SchemaTypeOK
      <4>4. ASSUME NEW p \in Openers PROVE Progress(p)'
        BY <2>1, <2>2, <4>1, <4>2 DEF SchemaTypeOK, Progress
      <4> QED BY <2>3, <4>3, <4>4
    <3> QED BY <2>1, <3>1, <3>2, AfterProgress
  <2> QED BY <2>4, <2>5, <2>6
<1>7. ASSUME NEW o \in Openers, CloseDatabase(o) PROVE SchemaInv'
  BY <1>7 DEF CloseDatabase, SchemaTypeOK, RecordedApplied, Progress, Closed
<1>8. CASE UNCHANGED schema
  BY <1>8 DEF schema, SchemaTypeOK, RecordedApplied, Progress
<1> QED
  BY <1>1, <1>2, <1>3, <1>4, <1>5, <1>6, <1>7, <1>8 DEF SchemaNext, OpenStep

LEMMA SchemaInvariant == SchemaSpec => []SchemaInv
BY SchemaInitInv, SchemaNextInv, PTL DEF SchemaSpec

(* The database and the processes stay in their ranges (Open, migrate).    *)
THEOREM SchemaTypeCorrect == SchemaSpec => []SchemaTypeOK
<1>1. SchemaInv => SchemaTypeOK
  BY DEF SchemaInv
<1> QED BY <1>1, SchemaInvariant, PTL

(* docs/storage.md:73-75: no process has a database open whose schema is   *)
(* incomplete for it, wherever earlier ones stopped and whatever others    *)
(* migrate at the same time.                                               *)
THEOREM SchemaAlwaysComplete == SchemaSpec => []SchemaComplete
<1>1. SchemaInv => SchemaComplete
  BY SchemaAssumption DEF SchemaInv, SchemaComplete, RecordedApplied, Progress
<1> QED BY <1>1, SchemaInvariant, PTL
-----------------------------------------------------------------------------
(* The store takes no step of the database's schema but the ones of        *)
(* Migration: whatever holds of a migration holds while the server runs,   *)
(* stops and starts, and while commands store rows.                        *)
LEMMA SchemaOfStore ==
  ASSUME [StoreNext]_storeVars
  PROVE  [SchemaNext]_schema
<1>1. CASE Stop
  BY <1>1, ServerAssumption DEF Stop, SchemaNext
<1>2. CASE Opening
  BY <1>2 DEF Opening, SchemaNext
<1>3. CASE Snapshot \/ ReplaceCatalog
  BY <1>3 DEF Snapshot, ReplaceCatalog
<1>4. ASSUME NEW ids \in Listings, NEW fresh \in [Listed(ids) -> FreshStates], Restore(ids, fresh)
      PROVE  UNCHANGED schema
  BY <1>4 DEF Restore
<1>5. ASSUME NEW ids \in Listings, NEW fresh \in [Listed(ids) -> FreshStates],
             NEW tested \in SUBSET Listed(ids), NEW working \in SUBSET tested,
             PersistCurrentState(ids, fresh, tested, working)
      PROVE  UNCHANGED schema
  BY <1>5 DEF PersistCurrentState
<1>6. CASE UNCHANGED storeVars
  BY <1>6 DEF storeVars
<1> QED BY <1>1, <1>2, <1>3, <1>4, <1>5, <1>6 DEF StoreNext

(* The store implements the opening of its database.                       *)
THEOREM StoreImplementsMigration == StoreSpec => SchemaSpec
<1>1. StoreInit => SchemaInit
  BY DEF StoreInit
<1> QED BY <1>1, SchemaOfStore, PTL DEF StoreSpec, SchemaSpec

(* docs/storage.md:73-75: while the server serves, stops and restarts, no  *)
(* process has the database open with an incomplete schema.                *)
THEOREM StoreSchemaComplete == StoreSpec => []SchemaComplete
BY StoreImplementsMigration, SchemaAlwaysComplete, PTL
-----------------------------------------------------------------------------
(* What a new process registers and restores.                              *)

LEMMA RegisteredType ==
  ASSUME NEW ids \in Listings, NEW fresh \in [Listed(ids) -> FreshStates],
         now \in Nat, NEW id \in Listed(ids)
  PROVE  /\ id \in Ids
         /\ Registered(ids, fresh, id) \in Entry
         /\ Registered(ids, fresh, id).failures = 0
         /\ Sole(id) => \A p \in Providers : id \in ids[p] <=> Registered(ids, fresh, id).provider = p
<1>1. /\ ids \in [Providers -> SUBSET Ids]
      /\ \A p \in Providers : ids[p] \subseteq Offers[p]
  BY DEF Listings
<1>2. PICK p \in Providers : id \in ids[p]
  BY DEF Listed
<1> DEFINE owner == CHOOSE q \in Providers : id \in ids[q]
<1>3. owner \in Providers /\ id \in ids[owner]
  BY <1>2
<1>4. fresh[id] \in [status : Statuses, until : Nat]
  BY FreshType
<1>5. Registered(ids, fresh, id) = Merge(owner, Absent, fresh[id])
  BY DEF Registered
<1> HIDE DEF owner
<1>6. Registered(ids, fresh, id) \in Entry
  <2>1. Merge(owner, Absent, fresh[id]) \in Entry
    BY <1>3, <1>4, MergeType
  <2> QED BY <1>5, <2>1
<1>7. Registered(ids, fresh, id).provider = owner /\ Registered(ids, fresh, id).failures = 0
  BY <1>5 DEF Merge, Absent
<1>8. ASSUME Sole(id), NEW q \in Providers PROVE id \in ids[q] <=> owner = q
  BY <1>1, <1>3, <1>8 DEF Sole
<1> QED BY <1>1, <1>2, <1>6, <1>7, <1>8

(* A model keeps its provider; it is healthy only if its row is, or says   *)
(* nothing.                                                                *)
LEMMA RestoredType ==
  ASSUME NEW m \in Entry, NEW record \in Entry \cup {Absent}, now \in Nat
  PROVE  LET r == RestoreModelState(m, record)
         IN  /\ r \in Entry /\ r.provider = m.provider
             /\ record.status \notin {"unknown", "healthy", "absent"} => r.status # "healthy"
<1>1. m # Absent
  BY AbsentNoEntry
<1>2. CASE record = Absent
  BY <1>2 DEF RestoreModelState, Absent
<1>3. CASE record # Absent
  <2>1. record \in Entry
    BY <1>3
  <2> QED BY <1>1, <1>3, <2>1 DEF RestoreModelState, Entry, Statuses
<1> QED BY <1>2, <1>3

LEMMA ProbedType ==
  ASSUME TypeOK, NEW m \in Entry, m.failures < MaxFailures
  PROVE  /\ Failed(m, 0) \in Entry
         /\ [m EXCEPT !.status = "healthy", !.until = 0, !.failures = 0] \in Entry
<1>1. Failed(m, 0) \in Entry
  BY FailedType
<1>2. [m EXCEPT !.status = "healthy", !.until = 0, !.failures = 0] \in Entry
  <2>1. 0 \in 0..MaxFailures /\ m.provider \in Providers
    BY ConstantsAssumption DEF Entry
  <2> QED BY <2>1 DEF Entry, Statuses
<1> QED BY <1>1, <1>2
-----------------------------------------------------------------------------
(* The catalog of a process that has just restored is one that a process   *)
(* may have: its slots, its index and its suspects are consistent.         *)
StoreInv == StoreTypeOK /\ Inv

LEMMA StoreInitInv == StoreInit => StoreInv
<1> SUFFICES ASSUME StoreInit PROVE StoreInv
  OBVIOUS
<1>1. Inv /\ SchemaInv
  BY InitInv, SchemaInitInv DEF StoreInit
<1>2. models \in [Ids -> Entry \cup {Absent}]
  BY <1>1 DEF Inv, TypeOK
<1> QED BY <1>1, <1>2 DEF StoreInit, StoreInv, StoreTypeOK, Inv, SchemaInv, Table

LEMMA RestoreStep ==
  ASSUME StoreInv, NEW ids \in Listings, NEW fresh \in [Listed(ids) -> FreshStates],
         Restore(ids, fresh)
  PROVE  StoreInv'
<1> USE DEF StoreInv, StoreTypeOK, Inv
<1>1. stored.rows \in [Ids -> Entry \cup {Absent}] /\ stored.suspect \subseteq Ids
  BY DEF Table
<1>2. now \in Nat /\ now' = now
  BY DEF Restore, TypeOK
<1> DEFINE restored(id) == RestoreModelState(Registered(ids, fresh, id), stored.rows[id])
<1>3. models' = [id \in Ids |-> IF id \in Listed(ids) THEN restored(id) ELSE Absent]
  BY DEF Restore
<1>4. ASSUME NEW id \in Listed(ids)
      PROVE  /\ id \in Ids /\ restored(id) \in Entry
             /\ Sole(id) => \A p \in Providers : id \in ids[p] <=> restored(id).provider = p
             /\ stored.rows[id].status \notin {"unknown", "healthy", "absent"} =>
                  restored(id).status # "healthy"
  <2>1. /\ id \in Ids /\ Registered(ids, fresh, id) \in Entry
        /\ Sole(id) => \A p \in Providers :
             id \in ids[p] <=> Registered(ids, fresh, id).provider = p
    BY <1>2, RegisteredType
  <2>2. stored.rows[id] \in Entry \cup {Absent}
    BY <1>1, <2>1
  <2> QED BY <1>2, <2>1, <2>2, RestoredType
<1> HIDE DEF restored
<1>5. Typed(models')
  BY <1>3, <1>4 DEF Typed
<1>6. byProvider' = ids /\ RebuildSlots
  BY DEF Restore
<1>7. bySlot' \in [Slots -> Ids \cup {None}] /\ SlotsRoutable' /\ SlotsFilled'
  BY <1>2, <1>5, <1>6, RebuildEstablishes
<1>8. suspect' \subseteq {id \in Listed(ids) : stored.rows[id].status \notin {"unknown", "healthy", "absent"}}
  BY DEF Restore
<1>9. suspect' \subseteq Ids
  BY <1>4, <1>8
<1>10. TypeOK'
  BY <1>5, <1>6, <1>7, <1>9 DEF Restore, TypeOK, Typed, Listings
<1>11. SuspectInv'
  BY <1>3, <1>4, <1>8, AbsentNoEntry DEF SuspectInv
<1>12. IndexInv'
  <2>1. \A p \in Providers : ids[p] \subseteq Offers[p]
    BY DEF Listings
  <2>2. ASSUME NEW id \in Ids, Sole(id), NEW p \in Providers
        PROVE  id \in ids[p] <=> models'[id].provider = p
    <3>1. CASE id \in Listed(ids)
      BY <1>3, <1>4, <2>2, <3>1
    <3>2. CASE id \notin Listed(ids)
      BY <1>3, <3>2, ConstantsAssumption DEF Listed, Absent
    <3> QED BY <3>1, <3>2
  <2> QED BY <1>6, <2>1, <2>2 DEF IndexInv, IndexConsistent, Sole
<1>13. StoreTypeOK'
  <2>1. stored' \in Table
    BY <1>5, <1>9 DEF Restore, Table, Typed
  <2>2. lapsed' \subseteq Ids
    BY <1>1 DEF Restore
  <2>3. serving' = TRUE /\ snapshot' = snapshot /\ UNCHANGED schema
    BY DEF Restore
  <2> QED BY <1>10, <2>1, <2>2, <2>3 DEF schema, SchemaTypeOK
<1> QED BY <1>7, <1>10, <1>11, <1>12, <1>13

(* A process that has stopped has an empty catalog.                        *)
LEMMA StopStep ==
  ASSUME StoreInv, Stop, SchemaTypeOK'
  PROVE  StoreInv'
<1> USE DEF StoreInv, StoreTypeOK, Inv
<1>1. TypeOK'
  BY ConstantsAssumption DEF Stop, TypeOK
<1>2. SlotsRoutable' /\ SlotsFilled' /\ IndexInv' /\ SuspectInv'
  BY ConstantsAssumption
  DEF Stop, SlotsRoutable, SlotsFilled, IndexInv, IndexConsistent, SuspectInv, Absent
<1>3. StoreTypeOK'
  BY <1>1 DEF Stop
<1> QED BY <1>1, <1>2, <1>3

(* What a command stores are rows.                                         *)
LEMMA PersistStep ==
  ASSUME StoreInv, NEW ids \in Listings, NEW fresh \in [Listed(ids) -> FreshStates],
         NEW tested \in SUBSET Listed(ids), NEW working \in SUBSET tested,
         PersistCurrentState(ids, fresh, tested, working)
  PROVE  stored' \in Table
<1> DEFINE entry(id) == IF id \in tested THEN Probed(Registered(ids, fresh, id), id \in working)
                                         ELSE Registered(ids, fresh, id)
           asked   == {id \in tested : ~(now < Registered(ids, fresh, id).until)}
           failing == IF policy.enabled THEN asked \ working ELSE {}
<1>1. stored' = [rows |-> [id \in Ids |-> IF id \in Listed(ids) THEN entry(id) ELSE Absent],
                 suspect |-> (stored.suspect \ (asked \cap working)) \cup failing]
  BY DEF PersistCurrentState
<1>2. ASSUME NEW id \in Listed(ids) PROVE id \in Ids /\ entry(id) \in Entry
  <2>1. now \in Nat /\ TypeOK
    BY DEF StoreInv, StoreTypeOK, TypeOK
  <2>2. /\ id \in Ids /\ Registered(ids, fresh, id) \in Entry
        /\ Registered(ids, fresh, id).failures < MaxFailures
    BY <2>1, RegisteredType, StoreAssumption, ConstantsAssumption
  <2>3. Probed(Registered(ids, fresh, id), id \in working) \in Entry
    BY <2>1, <2>2, ProbedType DEF Probed
  <2> QED BY <2>2, <2>3
<1>3. stored.suspect \subseteq Ids
  BY DEF StoreInv, StoreTypeOK, Table
<1>4. failing \subseteq Ids
  BY <1>2
<1> HIDE DEF entry, failing, asked
<1>5. [id \in Ids |-> IF id \in Listed(ids) THEN entry(id) ELSE Absent] \in [Ids -> Entry \cup {Absent}]
  BY <1>2
<1> QED BY <1>1, <1>3, <1>4, <1>5 DEF Table

LEMMA StoreStep ==
  ASSUME StoreInv, SchemaTypeOK', [StoreNext]_storeVars
  PROVE  StoreInv'
<1> USE DEF StoreInv, StoreTypeOK
<1>1. ASSUME [Next]_vars, UNCHANGED <<storage, serving>>, lapsed' \in SUBSET Ids
      PROVE  StoreInv'
  <2>1. Inv'
    BY <1>1, CatalogStep
  <2> QED BY <1>1, <2>1 DEF Inv, storage
<1>2. CASE serving /\ Operation /\ lapsed' = {} /\ UNCHANGED <<storage, serving, schema>>
  BY <1>1, <1>2 DEF Next
<1>3. CASE Tick /\ lapsed' = {} /\ UNCHANGED <<storage, serving, schema>>
  BY <1>1, <1>3 DEF Next
<1>4. CASE Opening \/ UNCHANGED storeVars
  BY <1>1, <1>4 DEF Opening, storeVars
<1>5. ASSUME UNCHANGED <<vars, lapsed, serving>>, snapshot' \in Table \cup {NoSnapshot}, stored' \in Table
      PROVE  StoreInv'
  <2>1. Inv'
    BY <1>5, CatalogStep
  <2> QED BY <1>5, <2>1 DEF Inv
<1>6. CASE Snapshot
  <2>1. [rows |-> models, suspect |-> suspect] \in Table
    BY DEF Table, TypeOK
  <2> QED BY <1>5, <1>6, <2>1 DEF Snapshot
<1>7. CASE ReplaceCatalog
  BY <1>5, <1>7 DEF ReplaceCatalog
<1>8. CASE Stop
  BY <1>8, StopStep
<1>9. ASSUME NEW ids \in Listings, NEW fresh \in [Listed(ids) -> FreshStates], Restore(ids, fresh)
      PROVE  StoreInv'
  BY <1>9, RestoreStep
<1>10. ASSUME NEW ids \in Listings, NEW fresh \in [Listed(ids) -> FreshStates],
              NEW tested \in SUBSET Listed(ids), NEW working \in SUBSET tested,
              PersistCurrentState(ids, fresh, tested, working)
       PROVE  StoreInv'
  <2>1. stored' \in Table
    BY <1>10, PersistStep
  <2> QED BY <1>5, <1>10, <2>1 DEF PersistCurrentState
<1> QED BY <1>2, <1>3, <1>4, <1>6, <1>7, <1>8, <1>9, <1>10 DEF StoreNext

(* The catalog's own invariant holds in every process that uses the store: *)
(* what Restore builds from any rows satisfies it as what Init builds does.*)
THEOREM StoreInvariant == StoreSpec => []StoreInv
<1>1. StoreSpec => []SchemaTypeOK
  BY StoreImplementsMigration, SchemaTypeCorrect, PTL
<1> QED BY <1>1, StoreInitInv, StoreStep, PTL DEF StoreSpec

(* The stored rows, the snapshot and the catalog keep their types.         *)
THEOREM StoreTypeCorrect == StoreSpec => []StoreTypeOK
<1>1. StoreInv => StoreTypeOK
  BY DEF StoreInv
<1> QED BY <1>1, StoreInvariant, PTL

(* The slots and the index are consistent in every process that is started *)
(* on the stored rows, whatever they say.                                  *)
THEOREM RestartConsistent == StoreSpec => [](SlotsRoutable /\ SlotsFilled /\ IndexConsistent)
<1>1. StoreInv => SlotsRoutable /\ SlotsFilled /\ IndexConsistent
  BY DEF StoreInv, Inv, IndexInv
<1> QED BY <1>1, StoreInvariant, PTL

(* A restart does not make a model healthy whose failure was stored: not   *)
(* the expiry while the process was down, nor the configuration, nor the   *)
(* commands that probe it (RestoreModelState, restoreCatalogState).        *)
THEOREM SuspicionSurvives == StoreSpec => []SuspicionSurvivesRestart
<1>1. StoreInv => SuspicionSurvivesRestart
  BY DEF StoreInv, Inv, SuspectInv, SuspicionSurvivesRestart, NoUnprobedRevival
<1> QED BY <1>1, StoreInvariant, PTL
=============================================================================
