--------------------------- MODULE ServerConfig ---------------------------
(***************************************************************************)
(* The locks of the server and the configuration they protect              *)
(* (internal/server/server.go, control_plane.go): configMu, s.mu and the   *)
(* telemetry mutex, taken by request handlers, by the end of a request, by *)
(* LiveSnapshot, AttachProvider, ReloadConfig, the control plane and the   *)
(* verification worker; the end of ListenAndServe takes none.  A goroutine *)
(* runs a program, a sequence of steps on locks and on the data they       *)
(* guard.  sync.RWMutex prefers writers: a Lock that waits stops later     *)
(* RLocks, also those of a goroutine that already reads.                   *)
(***************************************************************************)
EXTENDS Integers, Sequences, FiniteSets

CONSTANTS
    Handlers,       \* requests and health probes, up to their report to the telemetry
    Verifiers,      \* workers that store the results of model probes
    Lives,          \* LiveSnapshot
    Attachers,      \* AttachProvider of a provider that is new
    Editors,        \* PUT or DELETE of one control-plane resource
    Reloaders,      \* SIGHUP (a goroutine in both sets is either)
    Closers,        \* the end of ListenAndServe
    Names,          \* names of pools and combos
    Leaves,         \* models a pool may name
    Edit,           \* Edit[t]: the resource a PUT or a DELETE writes: [name, members]
    InitResources,  \* pools and combos of the configuration file
    None            \* no goroutine; a resource that does not exist

Threads == Handlers \cup Verifiers \cup Lives \cup Attachers \cup Editors \cup Reloaders \cup Closers
Resources == [Names -> (SUBSET (Names \cup Leaves)) \cup {None}]

\* A goroutine that attaches a provider or verifies models changes nothing
\* else.
ASSUME GoroutinesAssumption ==
    /\ None \notin Threads
    /\ (Attachers \cup Verifiers) \cap (Editors \cup Reloaders) = {}
    /\ Edit \in [Editors -> [name : Names, members : (SUBSET (Names \cup Leaves)) \cup {None}]]
    /\ InitResources \in Resources

Locks == {"config", "state", "telemetry"}
Parts == {"providers", "catalog", "tables", "models"}
Cells == {"runners", "models"}

VARIABLES
    kind,           \* kind[t]: the program of goroutine t
    pc,             \* pc[t]: the number of its next step
    readers,        \* readers[l][t]: read locks of l that t holds
    writer,         \* writer[l]: the goroutine that holds l
    waiting,        \* waiting[l]: the goroutine whose Lock has stopped new readers
    part,           \* part[x]: the goroutine that wrote this part of the configuration last
    size,           \* number of configured providers
    resources,      \* the control plane: a set of members for each name, or None
    draft           \* draft[t]: the configuration a reload brings: [res, size]

vars == <<kind, pc, readers, writer, waiting, part, size, resources, draft>>

(***************************************************************************)
(* Programs.                                                               *)
(***************************************************************************)
Read(l, steps) == <<<<"rlock", l>>>> \o steps \o <<<<"runlock", l>>>>
Write(l, steps) == <<<<"lock", l>>>> \o steps \o <<<<"unlock", l>>>>
See(x) == <<<<"read", x>>>>
Set(x) == <<<<"write", x>>>>

\* So do providerIsActive, getProvider and the brain selector.
ProviderHealthy == Read("state", See("runners"))
ModelSummaries == Read("config", ProviderHealthy \o See("models"))
TelemetrySnapshot == Write("telemetry", <<>>)
ConnectionFor == Read("state", <<>>)

\* resolveModelByProvider reads s.providers and what a provider offers under
\* configMu alone.
RouteOpenAIRequest == Read("config", ProviderHealthy \o See("runners") \o See("models"))
HandleModels == ModelSummaries
HealthSnapshot == Read("state", See("runners"))
\* Mutant: healthSnapshot's caller already holds s.mu.
HandleHealth_Nested == Read("config", Read("state", ProviderHealthy))
HandleHealth == Read("config", HealthSnapshot \o ProviderHealthy)
HandleMetrics == Read("config", TelemetrySnapshot \o See("runners"))
BootstrapSnapshot == Read("state", <<>>)
RequestEnd == Write("telemetry", ConnectionFor)
BuildRoutingGraph == ModelSummaries
LiveSnapshot == Read("config", Read("state",
    ProviderHealthy \o TelemetrySnapshot \o BuildRoutingGraph))

\* Mutant: an attachment excludes the readers of configMu alone.
AttachProvider_ConfigOnly == Write("config",
    Set("runners") \o Set("providers") \o Set("models") \o Set("catalog"))
AttachProvider == Write("config",
    Write("state", Set("runners") \o Set("providers") \o Set("models")) \o Set("catalog"))
RefreshRuntimeCatalog == Write("state", Set("catalog"))
\* Mutant: configMu is given back before the tables are replaced.
ReloadConfig_UnlocksEarly == Write("config", See("runners") \o <<<<"check", "providers">>>>
    \o Write("state", Set("providers")) \o RefreshRuntimeCatalog \o See("runners"))
    \o Write("state", Set("models") \o Set("tables"))
ReloadConfig == Write("config", See("runners") \o <<<<"check", "providers">>>>
    \o Write("state", Set("providers")) \o RefreshRuntimeCatalog \o See("runners")
    \o Write("state", Set("models") \o Set("tables")))
EditResource == <<<<"get", "resources">>>> \o Read("state", <<<<"get", "config">>>>)
    \o <<<<"check", "resources">>>> \o ReloadConfig
\* The models of the providers, their ModelInfo and the model lists, under
\* s.mu alone.
ApplyModelVerification == Write("state", Set("models"))
VerifyConfiguredModels == ProviderHealthy \o ApplyModelVerification
\* The deferred loop over s.providers takes no lock.
CloseRunners == See("runners")

Program == [
    route |-> RouteOpenAIRequest, models |-> HandleModels, health |-> HandleHealth, metrics |-> HandleMetrics,
    bootstrap |-> BootstrapSnapshot, end |-> RequestEnd, live |-> LiveSnapshot, attach |-> AttachProvider,
    reload |-> ReloadConfig, edit |-> EditResource, verification |-> VerifyConfiguredModels,
    close |-> CloseRunners]

Kinds(t) ==
    UNION {IF t \in Handlers THEN {"route", "models", "health", "metrics", "bootstrap", "end"} ELSE {},
           IF t \in Verifiers THEN {"verification"} ELSE {}, IF t \in Lives THEN {"live"} ELSE {},
           IF t \in Attachers THEN {"attach"} ELSE {}, IF t \in Editors THEN {"edit"} ELSE {},
           IF t \in Reloaders THEN {"reload"} ELSE {}, IF t \in Closers THEN {"close"} ELSE {}}

Init ==
    /\ kind \in [Threads -> DOMAIN Program] /\ \A t \in Threads : kind[t] \in Kinds(t)
    /\ pc = [t \in Threads |-> 1]
    /\ readers = [l \in Locks |-> [t \in Threads |-> 0]]
    /\ writer = [l \in Locks |-> None]
    /\ waiting = [l \in Locks |-> None]
    /\ part = [x \in Parts |-> None]
    /\ size = 0
    /\ resources = InitResources
    /\ draft = [t \in Threads |-> [res |-> InitResources, size |-> 0]]

Steps(t) == Program[kind[t]]
Done(t) == pc[t] > Len(Steps(t))
At(t, op, x) == ~Done(t) /\ Steps(t)[pc[t]] = <<op, x>>
Step(t) == pc' = [pc EXCEPT ![t] = @ + 1]
Fail(t) == pc' = [pc EXCEPT ![t] = Len(Steps(t)) + 1]

(***************************************************************************)
(* Locks.  Lock announces itself, which stops new readers, and then waits  *)
(* for the readers inside to leave.                                        *)
(***************************************************************************)
NoReaders(l) == \A t \in Threads : readers[l][t] = 0
Free(l) == writer[l] = None /\ waiting[l] = None

RLock(t, l) ==
    /\ At(t, "rlock", l) /\ Free(l) /\ Step(t)
    /\ readers' = [readers EXCEPT ![l][t] = @ + 1]
    /\ UNCHANGED <<kind, writer, waiting, part, size, resources, draft>>

RUnlock(t, l) ==
    /\ At(t, "runlock", l) /\ Step(t)
    /\ readers' = [readers EXCEPT ![l][t] = @ - 1]
    /\ UNCHANGED <<kind, writer, waiting, part, size, resources, draft>>

Announce(t, l) ==
    /\ At(t, "lock", l) /\ Free(l)
    /\ waiting' = [waiting EXCEPT ![l] = t]
    /\ UNCHANGED <<kind, pc, readers, writer, part, size, resources, draft>>

\* Mutant: the writer does not wait for the readers inside.
Acquire_IgnoresReaders(t, l) ==
    /\ At(t, "lock", l) /\ waiting[l] = t /\ Step(t)
    /\ waiting' = [waiting EXCEPT ![l] = None]
    /\ writer' = [writer EXCEPT ![l] = t]
    /\ UNCHANGED <<kind, readers, part, size, resources, draft>>

Acquire(t, l) ==
    /\ At(t, "lock", l) /\ waiting[l] = t /\ NoReaders(l) /\ Step(t)
    /\ waiting' = [waiting EXCEPT ![l] = None]
    /\ writer' = [writer EXCEPT ![l] = t]
    /\ UNCHANGED <<kind, readers, part, size, resources, draft>>

Unlock(t, l) ==
    /\ At(t, "unlock", l) /\ Step(t)
    /\ writer' = [writer EXCEPT ![l] = None]
    /\ UNCHANGED <<kind, readers, waiting, part, size, resources, draft>>

(***************************************************************************)
(* Data.                                                                   *)
(***************************************************************************)
ReadData(t) ==
    /\ \E x \in Cells : At(t, "read", x)
    /\ Step(t)
    /\ UNCHANGED <<kind, readers, writer, waiting, part, size, resources, draft>>

\* s.providers[provider.Name] = runner, s.cfg.Providers = append(...)
WriteRunners(t) ==
    /\ At(t, "write", "runners") /\ Step(t)
    /\ size' = size + 1
    /\ UNCHANGED <<kind, readers, writer, waiting, part, resources, draft>>

WritePart(t) ==
    \E x \in Parts :
      /\ At(t, "write", x) /\ Step(t)
      /\ part' = [part EXCEPT ![x] = t]
      /\ resources' = IF x = "tables" THEN draft[t].res ELSE resources
      /\ UNCHANGED <<kind, readers, writer, waiting, size, draft>>

\* len(next.Providers) != len(s.cfg.Providers): the deferred Unlock of
\* configMu is all that is left.
CheckProviders(t) ==
    /\ At(t, "check", "providers")
    /\ IF draft[t].size = size
         THEN Step(t) /\ UNCHANGED writer
         ELSE Fail(t) /\ writer' = [writer EXCEPT !["config"] = None]
    /\ UNCHANGED <<kind, readers, waiting, part, size, resources, draft>>

\* A PUT replaces or appends the resource of that name.
Edited(t, res) == [res EXCEPT ![Edit[t].name] = Edit[t].members]

\* controlPlanePayload, read without a lock, and the edit of the copy.
GetResources(t) ==
    /\ At(t, "get", "resources") /\ Step(t)
    /\ draft' = [draft EXCEPT ![t].res = Edited(t, resources)]
    /\ UNCHANGED <<kind, readers, writer, waiting, part, size, resources>>

GetConfig(t) ==
    /\ At(t, "get", "config") /\ Step(t)
    /\ draft' = [draft EXCEPT ![t].size = size]
    /\ UNCHANGED <<kind, readers, writer, waiting, part, size, resources>>

Members(res, n) == IF res[n] = None THEN {} ELSE res[n]
Resolved(res) == \A n \in Names : \A x \in Members(res, n) : x \in Leaves \/ (x \in Names /\ res[x] # None)
\* validateControlPlaneCycles: a set of names each of which names another of
\* the set is a cycle.
Acyclic(res) == \A s \in (SUBSET Names) \ {{}} : \E n \in s : Members(res, n) \cap s = {}
Validate(res) == (\A n \in Names : res[n] # {}) /\ Resolved(res) /\ Acyclic(res)

\* Mutant: the graph is not checked for cycles.
CheckResources_AllowsCycles(t) ==
    /\ At(t, "check", "resources")
    /\ IF Resolved(draft[t].res) THEN Step(t) ELSE Fail(t)
    /\ UNCHANGED <<kind, readers, writer, waiting, part, size, resources, draft>>

CheckResources(t) ==
    /\ At(t, "check", "resources")
    /\ IF Validate(draft[t].res) THEN Step(t) ELSE Fail(t)
    /\ UNCHANGED <<kind, readers, writer, waiting, part, size, resources, draft>>

Next ==
    \E t \in Threads :
      \/ \E l \in Locks : RLock(t, l) \/ RUnlock(t, l) \/ Announce(t, l) \/ Acquire(t, l) \/ Unlock(t, l)
      \/ ReadData(t) \/ WriteRunners(t) \/ WritePart(t)
      \/ CheckProviders(t) \/ GetResources(t) \/ GetConfig(t) \/ CheckResources(t)

Spec == Init /\ [][Next]_vars

(***************************************************************************)
(* Properties.                                                             *)
(***************************************************************************)
TypeOK ==
    /\ pc \in [Threads -> Nat \ {0}]
    /\ readers \in [Locks -> [Threads -> 0 .. 2]]
    /\ writer \in [Locks -> Threads \cup {None}] /\ waiting \in [Locks -> Threads \cup {None}]
    /\ part \in [Parts -> Threads \cup {None}] /\ size \in Nat
    /\ \A l \in Locks : writer[l] # None => NoReaders(l)

\* A handler that holds configMu never sees half of a change: the providers,
\* the catalog and the tables are those of complete reloads and attachments.
\* The models and their lists are those of the same change, or what a
\* verification has made of them, which needs s.mu alone and may do so while
\* the handler reads (server.go:1088).
ConfigAtomic ==
    (\E t \in Threads : readers["config"][t] > 0) =>
        /\ part["providers"] = part["catalog"]
        /\ part["providers"] \in Editors \cup Reloaders => part["tables"] = part["providers"]
        /\ part["models"] \in Verifiers \cup {part["providers"]}

Race(t, u, x) == t # u /\ At(t, "write", x) /\ (At(u, "read", x) \/ At(u, "write", x))

\* s.providers is never written while another goroutine may read or write
\* it, although some readers hold configMu only and others s.mu only; but for
\* the loop that ends ListenAndServe and holds neither (server.go:1518).
RunnersRaceFree ==
    \A t, u \in Threads : kind[u] # "close" => ~Race(t, u, "runners")

\* README.md:496: "Pass all quality gates (... `go test -race` ...)".  No
\* data of the server is written by one goroutine while another may read it.
RaceFree == \A t, u \in Threads, x \in Cells : ~Race(t, u, x)

Ready(t) ==
    \/ \E l \in Locks : At(t, "rlock", l) /\ Free(l)
    \/ \E l \in Locks : At(t, "lock", l) /\ (Free(l) \/ (waiting[l] = t /\ NoReaders(l)))
    \/ ~Done(t) /\ Steps(t)[pc[t]][1] \notin {"rlock", "lock"}

\* The locks are in order everywhere but in LiveSnapshot: when nobody can go
\* on, everybody has ended or a LiveSnapshot is among those that wait.
StuckOnlyInLiveSnapshot ==
    (\A t \in Threads : ~Ready(t)) =>
        (\A t \in Threads : Done(t)) \/ \E t \in Lives : kind[t] = "live" /\ ~Done(t) /\ pc[t] > 1

\* The pools and combos in use name what exists and form no cycle, whatever
\* edits and reloads overlap (docs/routing.md:101).
ResourcesClosed == Validate(resources)

\* "resource-level PUT and DELETE update one named item"
\* (docs/config.md:68): an edit leaves what another edit has stored.
OneItemUpdated ==
    [][\A n \in Names : resources'[n] # resources[n] =>
          \E t \in Threads : At(t, "write", "tables") /\ (kind[t] = "edit" => Edit[t].name = n)]_vars
=============================================================================
