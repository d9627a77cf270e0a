--------------------------- MODULE ServerConfigProofs ---------------------------
(***************************************************************************)
(* Proofs about ServerConfig for any number of goroutines of each program, *)
(* any names of pools and combos and any edits: what the three locks       *)
(* protect, that they cannot be waited for in a circle that has no         *)
(* LiveSnapshot in it, and what overlapping edits leave.                   *)
(***************************************************************************)
EXTENDS ServerConfig, TLAPS

(* Before which steps of its program a goroutine holds a lock.             *)
In(t, k, S) == kind[t] = k /\ pc[t] \in S

ReadsConfig(t) ==
  \/ In(t, "route", 2..7) \/ In(t, "models", 2..6) \/ In(t, "health", 2..8)
  \/ In(t, "metrics", 2..5) \/ In(t, "live", 2..15)

ReadsState(t) ==
  \/ In(t, "route", {3, 4}) \/ In(t, "models", {3, 4}) \/ In(t, "health", {3, 4, 6, 7})
  \/ In(t, "bootstrap", {2}) \/ In(t, "end", {3}) \/ In(t, "edit", {3, 4})
  \/ In(t, "live", 3..14) \/ In(t, "verification", {2, 3})

WritesConfig(t) ==
  In(t, "attach", 2..8) \/ In(t, "reload", 2..15) \/ In(t, "edit", 7..20)

WritesState(t) ==
  \/ In(t, "attach", 3..6) \/ In(t, "reload", {5, 6, 8, 9, 12, 13, 14})
  \/ In(t, "edit", {10, 11, 13, 14, 17, 18, 19}) \/ In(t, "verification", {5, 6})

WritesTelemetry(t) ==
  In(t, "metrics", {3}) \/ In(t, "end", 2..4) \/ In(t, "live", {7})

(* LiveSnapshot takes two of its read locks twice. *)
ReadLocks(t) ==
  /\ readers["config"][t] =
       IF In(t, "live", 9..13) THEN 2 ELSE IF ReadsConfig(t) THEN 1 ELSE 0
  /\ readers["state"][t] =
       IF In(t, "live", {4, 5, 10, 11}) THEN 2 ELSE IF ReadsState(t) THEN 1 ELSE 0
  /\ readers["telemetry"][t] = 0

WriteLocks(t) ==
  /\ writer["config"] = t <=> WritesConfig(t)
  /\ writer["state"] = t <=> WritesState(t)
  /\ writer["telemetry"] = t <=> WritesTelemetry(t)

LockInv(l) ==
  /\ writer[l] # None => NoReaders(l) /\ waiting[l] = None
  /\ waiting[l] # None => At(waiting[l], "lock", l)

TypeInv ==
  /\ TypeOK
  /\ kind \in [Threads -> DOMAIN Program]
  /\ \A t \in Threads : kind[t] \in Kinds(t)

(* A change of the configuration is under way: it has written the          *)
(* providers, then also the catalog, then also the models.                 *)
Changing(t) ==
  In(t, "attach", 5..7) \/ In(t, "reload", 6..13) \/ In(t, "edit", 11..18)
CatalogDone(t) == In(t, "reload", 9..13) \/ In(t, "edit", 14..18)
ModelsDone(t) == In(t, "attach", 6..7) \/ In(t, "reload", {13}) \/ In(t, "edit", {18})

Agreed ==
  /\ part["providers"] = part["catalog"]
  /\ part["providers"] \in Editors \cup Reloaders => part["tables"] = part["providers"]
  /\ part["models"] \in Verifiers \cup {part["providers"]}

PartInv ==
  /\ (\A t \in Threads : ~ Changing(t)) => Agreed
  /\ \A t \in Threads :
       /\ Changing(t) => part["providers"] = t
       /\ CatalogDone(t) => part["catalog"] = t
       /\ ModelsDone(t) => part["models"] \in Verifiers \cup {t}

IInv ==
  /\ TypeInv
  /\ \A t \in Threads : ReadLocks(t) /\ WriteLocks(t)
  /\ \A l \in Locks : LockInv(l)
  /\ PartInv

(* What a goroutine has found closed is what it stores. *)
ResourcesInv ==
  /\ resources \in Resources /\ draft \in [Threads -> [res : Resources, size : Nat]]
  /\ Validate(resources)
  /\ \A t \in Threads : kind[t] = "reload" \/ In(t, "edit", 6..20) => Validate(draft[t].res)
-----------------------------------------------------------------------------
(* The steps of the programs.                                              *)

Op == ({"rlock", "runlock", "lock", "unlock"} \X Locks)
        \cup ({"read", "write", "check", "get"}
                \X {"runners", "providers", "catalog", "tables", "models", "resources", "config"})

LEMMA Ops ==
  /\ \A l \in Locks : <<"rlock", l>> \in Op /\ <<"runlock", l>> \in Op
                      /\ <<"lock", l>> \in Op /\ <<"unlock", l>> \in Op
  /\ \A x \in {"runners", "providers", "catalog", "tables", "models", "resources", "config"} :
       <<"read", x>> \in Op /\ <<"write", x>> \in Op /\ <<"check", x>> \in Op /\ <<"get", x>> \in Op
  /\ "config" \in Locks /\ "state" \in Locks /\ "telemetry" \in Locks
BY DEF Op, Locks

LEMMA Nothing == <<>> \in Seq(Op) /\ Len(<<>>) = 0
OBVIOUS

LEMMA Single ==
  ASSUME NEW S, NEW e \in S
  PROVE  <<e>> \in Seq(S) /\ Len(<<e>>) = 1 /\ <<e>>[1] = e
OBVIOUS

(* w is P and then Q. *)
Joins(w, P, Q) ==
  /\ Len(w) = Len(P) + Len(Q)
  /\ \A j \in 1..Len(P) : w[j] = P[j]
  /\ \A j \in (Len(P) + 1)..(Len(P) + Len(Q)) : w[j] = Q[j - Len(P)]

LEMMA Joined ==
  ASSUME NEW S, NEW P \in Seq(S), NEW Q \in Seq(S)
  PROVE  P \o Q \in Seq(S) /\ Joins(P \o Q, P, Q)
BY DEF Joins

(* w takes a lock first, goes through s and gives the lock back last. *)
Wraps(w, o, s, u) ==
  /\ Len(w) = Len(s) + 2
  /\ w[1] = o /\ w[Len(s) + 2] = u
  /\ \A j \in 2..(Len(s) + 1) : w[j] = s[j - 1]

LEMMA Guarded ==
  ASSUME NEW S, NEW s \in Seq(S), NEW o \in S, NEW u \in S
  PROVE  <<o>> \o s \o <<u>> \in Seq(S) /\ Wraps(<<o>> \o s \o <<u>>, o, s, u)
<1> DEFINE a == <<o>>
           b == <<u>>
           v == a \o s
           w == v \o b
           n == Len(s)
<1>1. a \in Seq(S) /\ Len(a) = 1 /\ a[1] = o /\ b \in Seq(S) /\ Len(b) = 1 /\ b[1] = u /\ n \in Nat
  BY Single
<1> HIDE DEF a, b
<1>2. v \in Seq(S) /\ Len(v) = 1 + n /\ v[1] = o
      /\ \A j \in 2..(1 + n) : v[j] = s[j - 1]
  <2>1. v \in Seq(S) /\ Joins(v, a, s)
    BY <1>1, Joined
  <2> HIDE DEF v
  <2> QED BY <1>1, <2>1 DEF Joins
<1> HIDE DEF v
<1>3. w \in Seq(S) /\ Len(w) = n + 2 /\ w[n + 2] = u
      /\ \A j \in 1..(1 + n) : w[j] = v[j]
  <2>1. v \in Seq(S) /\ b \in Seq(S)
    BY <1>1, <1>2
  <2>2. w \in Seq(S) /\ Joins(w, v, b)
    BY <2>1, Joined
  <2> HIDE DEF w
  <2> QED BY <1>1, <1>2, <2>2 DEF Joins
<1> HIDE DEF w, n
<1>4. w[1] = o /\ \A j \in 2..(n + 1) : w[j] = s[j - 1]
  BY <1>1, <1>2, <1>3
<1> QED BY <1>3, <1>4 DEF w, v, a, b, n, Wraps

LEMMA EmptySteps ==
  LET p == BootstrapSnapshot
  IN  /\ p \in Seq(Op) /\ Len(p) = 2
      /\ p[1] = <<"rlock", "state">> /\ p[2] = <<"runlock", "state">>
<1>1. BootstrapSnapshot \in Seq(Op) /\ Wraps(BootstrapSnapshot, <<"rlock", "state">>, <<>>, <<"runlock", "state">>)
  BY Nothing, Ops, Guarded DEF BootstrapSnapshot, Read
<1> QED BY <1>1, Nothing DEF Wraps

LEMMA SeeStep ==
  ASSUME NEW x \in {"runners", "models"}
  PROVE  See(x) \in Seq(Op) /\ Len(See(x)) = 1 /\ See(x)[1] = <<"read", x>>
BY Ops, Single DEF See

LEMMA SetStep ==
  ASSUME NEW x \in {"runners", "providers", "catalog", "tables", "models"}
  PROVE  Set(x) \in Seq(Op) /\ Len(Set(x)) = 1 /\ Set(x)[1] = <<"write", x>>
BY Ops, Single DEF Set

LEMMA HealthySteps ==
  LET p == ProviderHealthy
  IN  /\ p \in Seq(Op) /\ Len(p) = 3
      /\ p[1] = <<"rlock", "state">> /\ p[2] = <<"read", "runners">>
      /\ p[3] = <<"runlock", "state">>
<1> DEFINE a == See("runners")
<1>1. ProviderHealthy = Read("state", a)
  BY DEF ProviderHealthy
<1> HIDE DEF a
<1>2. a \in Seq(Op) /\ Len(a) = 1 /\ a[1] = <<"read", "runners">>
  BY SeeStep DEF a
<1>3. ProviderHealthy \in Seq(Op) /\ Wraps(ProviderHealthy, <<"rlock", "state">>, a, <<"runlock", "state">>)
  BY <1>1, <1>2, Ops, Guarded DEF Read
<1> QED BY <1>2, <1>3 DEF Wraps

LEMMA SummariesSteps ==
  LET p == ModelSummaries
  IN  /\ p \in Seq(Op) /\ Len(p) = 6
      /\ p[1] = <<"rlock", "config">> /\ p[2] = <<"rlock", "state">>
      /\ p[3] = <<"read", "runners">> /\ p[4] = <<"runlock", "state">>
      /\ p[5] = <<"read", "models">> /\ p[6] = <<"runlock", "config">>
<1> DEFINE a == See("models")
           b == ProviderHealthy \o a
<1>1. ModelSummaries = Read("config", b)
  BY DEF ModelSummaries
<1> HIDE DEF a, b
<1>2. a \in Seq(Op) /\ Len(a) = 1 /\ a[1] = <<"read", "models">>
  BY SeeStep DEF a
<1>3. b \in Seq(Op) /\ Joins(b, ProviderHealthy, a)
  BY HealthySteps, <1>2, Joined DEF b
<1>4. ModelSummaries \in Seq(Op) /\ Wraps(ModelSummaries, <<"rlock", "config">>, b, <<"runlock", "config">>)
  BY <1>1, <1>3, Ops, Guarded DEF Read
<1> QED BY <1>2, <1>3, <1>4, HealthySteps DEF Joins, Wraps

LEMMA SnapshotSteps ==
  LET p == TelemetrySnapshot
  IN  /\ p \in Seq(Op) /\ Len(p) = 2
      /\ p[1] = <<"lock", "telemetry">> /\ p[2] = <<"unlock", "telemetry">>
<1>1. TelemetrySnapshot \in Seq(Op) /\ Wraps(TelemetrySnapshot, <<"lock", "telemetry">>, <<>>, <<"unlock", "telemetry">>)
  BY Nothing, Ops, Guarded DEF TelemetrySnapshot, Write
<1> QED BY <1>1, Nothing DEF Wraps

LEMMA RouteSteps ==
  LET p == RouteOpenAIRequest
  IN  /\ p \in Seq(Op) /\ Len(p) = 7
      /\ p[1] = <<"rlock", "config">> /\ p[2] = <<"rlock", "state">>
      /\ p[3] = <<"read", "runners">> /\ p[4] = <<"runlock", "state">>
      /\ p[5] = <<"read", "runners">> /\ p[6] = <<"read", "models">>
      /\ p[7] = <<"runlock", "config">>
<1> DEFINE a == See("runners")
           b == ProviderHealthy \o a
           c == See("models")
           d == b \o c
<1>1. RouteOpenAIRequest = Read("config", d)
  BY DEF RouteOpenAIRequest
<1> HIDE DEF a, b, c, d
<1>2. /\ a \in Seq(Op) /\ Len(a) = 1 /\ a[1] = <<"read", "runners">>
      /\ c \in Seq(Op) /\ Len(c) = 1 /\ c[1] = <<"read", "models">>
  BY SeeStep DEF a, c
<1>3. b \in Seq(Op) /\ Joins(b, ProviderHealthy, a)
  BY HealthySteps, <1>2, Joined DEF b
<1>4. d \in Seq(Op) /\ Joins(d, b, c)
  BY <1>2, <1>3, Joined DEF d
<1>5. RouteOpenAIRequest \in Seq(Op) /\ Wraps(RouteOpenAIRequest, <<"rlock", "config">>, d, <<"runlock", "config">>)
  BY <1>1, <1>4, Ops, Guarded DEF Read
<1> QED BY <1>2, <1>3, <1>4, <1>5, HealthySteps DEF Joins, Wraps

LEMMA HealthSteps ==
  LET p == HandleHealth
  IN  /\ p \in Seq(Op) /\ Len(p) = 8
      /\ p[1] = <<"rlock", "config">> /\ p[2] = <<"rlock", "state">>
      /\ p[3] = <<"read", "runners">> /\ p[4] = <<"runlock", "state">>
      /\ p[5] = <<"rlock", "state">> /\ p[6] = <<"read", "runners">>
      /\ p[7] = <<"runlock", "state">> /\ p[8] = <<"runlock", "config">>
<1> DEFINE a == ProviderHealthy \o ProviderHealthy
<1>1. HandleHealth = Read("config", a)
  BY DEF HandleHealth, HealthSnapshot, ProviderHealthy
<1> HIDE DEF a
<1>2. a \in Seq(Op) /\ Joins(a, ProviderHealthy, ProviderHealthy)
  BY HealthySteps, Joined DEF a
<1>3. HandleHealth \in Seq(Op) /\ Wraps(HandleHealth, <<"rlock", "config">>, a, <<"runlock", "config">>)
  BY <1>1, <1>2, Ops, Guarded DEF Read
<1> QED BY <1>2, <1>3, HealthySteps DEF Joins, Wraps

LEMMA MetricsSteps ==
  LET p == HandleMetrics
  IN  /\ p \in Seq(Op) /\ Len(p) = 5
      /\ p[1] = <<"rlock", "config">> /\ p[2] = <<"lock", "telemetry">>
      /\ p[3] = <<"unlock", "telemetry">> /\ p[4] = <<"read", "runners">>
      /\ p[5] = <<"runlock", "config">>
<1> DEFINE a == See("runners")
           b == TelemetrySnapshot \o a
<1>1. HandleMetrics = Read("config", b)
  BY DEF HandleMetrics
<1> HIDE DEF a, b
<1>2. a \in Seq(Op) /\ Len(a) = 1 /\ a[1] = <<"read", "runners">>
  BY SeeStep DEF a
<1>3. b \in Seq(Op) /\ Joins(b, TelemetrySnapshot, a)
  BY SnapshotSteps, <1>2, Joined DEF b
<1>4. HandleMetrics \in Seq(Op) /\ Wraps(HandleMetrics, <<"rlock", "config">>, b, <<"runlock", "config">>)
  BY <1>1, <1>3, Ops, Guarded DEF Read
<1> QED BY <1>2, <1>3, <1>4, SnapshotSteps DEF Joins, Wraps

LEMMA EndSteps ==
  LET p == RequestEnd
  IN  /\ p \in Seq(Op) /\ Len(p) = 4
      /\ p[1] = <<"lock", "telemetry">> /\ p[2] = <<"rlock", "state">>
      /\ p[3] = <<"runlock", "state">> /\ p[4] = <<"unlock", "telemetry">>
<1>1. RequestEnd = Write("telemetry", BootstrapSnapshot)
  BY DEF RequestEnd, ConnectionFor, BootstrapSnapshot
<1>2. RequestEnd \in Seq(Op) /\ Wraps(RequestEnd, <<"lock", "telemetry">>, BootstrapSnapshot, <<"unlock", "telemetry">>)
  BY <1>1, EmptySteps, Ops, Guarded DEF Write
<1> QED BY <1>2, EmptySteps DEF Wraps

LEMMA LiveSteps ==
  LET p == LiveSnapshot
  IN  /\ p \in Seq(Op) /\ Len(p) = 15
      /\ p[1] = <<"rlock", "config">> /\ p[2] = <<"rlock", "state">>
      /\ p[3] = <<"rlock", "state">> /\ p[4] = <<"read", "runners">>
      /\ p[5] = <<"runlock", "state">> /\ p[6] = <<"lock", "telemetry">>
      /\ p[7] = <<"unlock", "telemetry">> /\ p[8] = <<"rlock", "config">>
      /\ p[9] = <<"rlock", "state">> /\ p[10] = <<"read", "runners">>
      /\ p[11] = <<"runlock", "state">> /\ p[12] = <<"read", "models">>
      /\ p[13] = <<"runlock", "config">> /\ p[14] = <<"runlock", "state">>
      /\ p[15] = <<"runlock", "config">>
<1> DEFINE a == ProviderHealthy \o TelemetrySnapshot
           b == a \o ModelSummaries
           c == Read("state", b)
<1>1. LiveSnapshot = Read("config", c)
  BY DEF LiveSnapshot, BuildRoutingGraph
<1> HIDE DEF a, b, c
<1>2. a \in Seq(Op) /\ Joins(a, ProviderHealthy, TelemetrySnapshot)
  BY HealthySteps, SnapshotSteps, Joined DEF a
<1>3. b \in Seq(Op) /\ Joins(b, a, ModelSummaries)
  BY <1>2, SummariesSteps, Joined DEF b
<1>4. c \in Seq(Op) /\ Wraps(c, <<"rlock", "state">>, b, <<"runlock", "state">>)
  BY <1>3, Ops, Guarded DEF c, Read
<1>5. LiveSnapshot \in Seq(Op) /\ Wraps(LiveSnapshot, <<"rlock", "config">>, c, <<"runlock", "config">>)
  BY <1>1, <1>4, Ops, Guarded DEF Read
<1>6. /\ Len(b) = 11 /\ \A j \in 1..3 : b[j] = ProviderHealthy[j]
      /\ \A j \in 4..5 : b[j] = TelemetrySnapshot[j - 3]
      /\ \A j \in 6..11 : b[j] = ModelSummaries[j - 5]
  BY <1>2, <1>3, HealthySteps, SnapshotSteps, SummariesSteps DEF Joins
<1>7. /\ b[1] = <<"rlock", "state">> /\ b[2] = <<"read", "runners">> /\ b[3] = <<"runlock", "state">>
      /\ b[4] = <<"lock", "telemetry">> /\ b[5] = <<"unlock", "telemetry">>
      /\ b[6] = <<"rlock", "config">> /\ b[7] = <<"rlock", "state">> /\ b[8] = <<"read", "runners">>
      /\ b[9] = <<"runlock", "state">> /\ b[10] = <<"read", "models">> /\ b[11] = <<"runlock", "config">>
  BY <1>6, HealthySteps, SnapshotSteps, SummariesSteps
<1>8. /\ Len(c) = 13 /\ c[1] = <<"rlock", "state">> /\ c[13] = <<"runlock", "state">>
      /\ \A j \in 2..12 : c[j] = b[j - 1]
  BY <1>4, <1>6 DEF Wraps
<1>9. /\ Len(LiveSnapshot) = 15 /\ LiveSnapshot[1] = <<"rlock", "config">>
      /\ LiveSnapshot[15] = <<"runlock", "config">>
      /\ \A j \in 2..14 : LiveSnapshot[j] = c[j - 1]
  BY <1>5, <1>8 DEF Wraps
<1>10. LiveSnapshot[2] = c[1] /\ LiveSnapshot[14] = c[13] /\ \A j \in 3..13 : LiveSnapshot[j] = b[j - 2]
  BY <1>8, <1>9
<1>11. /\ LiveSnapshot[3] = b[1] /\ LiveSnapshot[4] = b[2] /\ LiveSnapshot[5] = b[3]
       /\ LiveSnapshot[6] = b[4] /\ LiveSnapshot[7] = b[5] /\ LiveSnapshot[8] = b[6]
       /\ LiveSnapshot[9] = b[7] /\ LiveSnapshot[10] = b[8] /\ LiveSnapshot[11] = b[9]
       /\ LiveSnapshot[12] = b[10] /\ LiveSnapshot[13] = b[11]
  BY <1>10
<1> QED BY <1>5, <1>7, <1>8, <1>9, <1>10, <1>11

LEMMA AttachSteps ==
  LET p == AttachProvider
  IN  /\ p \in Seq(Op) /\ Len(p) = 8
      /\ p[1] = <<"lock", "config">> /\ p[2] = <<"lock", "state">>
      /\ p[3] = <<"write", "runners">> /\ p[4] = <<"write", "providers">>
      /\ p[5] = <<"write", "models">> /\ p[6] = <<"unlock", "state">>
      /\ p[7] = <<"write", "catalog">> /\ p[8] = <<"unlock", "config">>
<1> DEFINE a == Set("runners")
           b == Set("providers")
           c == a \o b
           d == Set("models")
           e == c \o d
           f == Write("state", e)
           g == Set("catalog")
           h == f \o g
<1>1. AttachProvider = Write("config", h)
  BY DEF AttachProvider
<1> HIDE DEF a, b, c, d, e, f, g, h
<1>2. /\ a \in Seq(Op) /\ Len(a) = 1 /\ a[1] = <<"write", "runners">>
      /\ b \in Seq(Op) /\ Len(b) = 1 /\ b[1] = <<"write", "providers">>
      /\ d \in Seq(Op) /\ Len(d) = 1 /\ d[1] = <<"write", "models">>
      /\ g \in Seq(Op) /\ Len(g) = 1 /\ g[1] = <<"write", "catalog">>
  BY SetStep DEF a, b, d, g
<1>3. c \in Seq(Op) /\ Joins(c, a, b)
  BY <1>2, Joined DEF c
<1>4. e \in Seq(Op) /\ Joins(e, c, d)
  BY <1>2, <1>3, Joined DEF e
<1>5. f \in Seq(Op) /\ Wraps(f, <<"lock", "state">>, e, <<"unlock", "state">>)
  BY <1>4, Ops, Guarded DEF f, Write
<1>6. h \in Seq(Op) /\ Joins(h, f, g)
  BY <1>2, <1>5, Joined DEF h
<1>7. AttachProvider \in Seq(Op) /\ Wraps(AttachProvider, <<"lock", "config">>, h, <<"unlock", "config">>)
  BY <1>1, <1>6, Ops, Guarded DEF Write
<1>8. /\ Len(e) = 3 /\ e[1] = <<"write", "runners">> /\ e[2] = <<"write", "providers">>
      /\ e[3] = <<"write", "models">>
  BY <1>2, <1>3, <1>4 DEF Joins
<1> QED BY <1>2, <1>5, <1>6, <1>7, <1>8 DEF Joins, Wraps

LEMMA CatalogSteps ==
  LET p == RefreshRuntimeCatalog
  IN  /\ p \in Seq(Op) /\ Len(p) = 3
      /\ p[1] = <<"lock", "state">> /\ p[2] = <<"write", "catalog">>
      /\ p[3] = <<"unlock", "state">>
<1> DEFINE a == Set("catalog")
<1>1. RefreshRuntimeCatalog = Write("state", a)
  BY DEF RefreshRuntimeCatalog
<1> HIDE DEF a
<1>2. a \in Seq(Op) /\ Len(a) = 1 /\ a[1] = <<"write", "catalog">>
  BY SetStep DEF a
<1>3. RefreshRuntimeCatalog \in Seq(Op) /\ Wraps(RefreshRuntimeCatalog, <<"lock", "state">>, a, <<"unlock", "state">>)
  BY <1>1, <1>2, Ops, Guarded DEF Write
<1> QED BY <1>2, <1>3 DEF Wraps

LEMMA ReloadSteps ==
  LET p == ReloadConfig
  IN  /\ p \in Seq(Op) /\ Len(p) = 15
      /\ p[1] = <<"lock", "config">> /\ p[2] = <<"read", "runners">>
      /\ p[3] = <<"check", "providers">> /\ p[4] = <<"lock", "state">>
      /\ p[5] = <<"write", "providers">> /\ p[6] = <<"unlock", "state">>
      /\ p[7] = <<"lock", "state">> /\ p[8] = <<"write", "catalog">>
      /\ p[9] = <<"unlock", "state">> /\ p[10] = <<"read", "runners">>
      /\ p[11] = <<"lock", "state">> /\ p[12] = <<"write", "models">>
      /\ p[13] = <<"write", "tables">> /\ p[14] = <<"unlock", "state">>
      /\ p[15] = <<"unlock", "config">>
<1> DEFINE a == See("runners")
           b == <<<<"check", "providers">>>>
           c == a \o b
           d == Set("providers")
           e == Write("state", d)
           f == c \o e
           g == f \o RefreshRuntimeCatalog
           h == g \o a
           x == Set("models")
           y == Set("tables")
           i == x \o y
           j == Write("state", i)
           k == h \o j
<1>1. ReloadConfig = Write("config", k)
  BY DEF ReloadConfig
<1> HIDE DEF a, b, c, d, e, f, g, h, x, y, i, j, k
<1>2. a \in Seq(Op) /\ Len(a) = 1 /\ a[1] = <<"read", "runners">>
  BY SeeStep DEF a
<1>3. b \in Seq(Op) /\ Len(b) = 1 /\ b[1] = <<"check", "providers">>
  BY Ops, Single DEF b
<1>4. c \in Seq(Op) /\ Joins(c, a, b)
  BY <1>2, <1>3, Joined DEF c
<1>5. d \in Seq(Op) /\ Len(d) = 1 /\ d[1] = <<"write", "providers">>
  BY SetStep DEF d
<1>6. e \in Seq(Op) /\ Wraps(e, <<"lock", "state">>, d, <<"unlock", "state">>)
  BY <1>5, Ops, Guarded DEF e, Write
<1>7. f \in Seq(Op) /\ Joins(f, c, e)
  BY <1>4, <1>6, Joined DEF f
<1>8. g \in Seq(Op) /\ Joins(g, f, RefreshRuntimeCatalog)
  BY <1>7, CatalogSteps, Joined DEF g
<1>9. h \in Seq(Op) /\ Joins(h, g, a)
  BY <1>8, <1>2, Joined DEF h
<1>10. /\ i \in Seq(Op) /\ Len(i) = 2
       /\ i[1] = <<"write", "models">> /\ i[2] = <<"write", "tables">>
  <2>1. /\ x \in Seq(Op) /\ Len(x) = 1 /\ x[1] = <<"write", "models">>
        /\ y \in Seq(Op) /\ Len(y) = 1 /\ y[1] = <<"write", "tables">>
    BY SetStep DEF x, y
  <2>2. i \in Seq(Op) /\ Joins(i, x, y)
    BY <2>1, Joined DEF i
  <2> QED BY <2>1, <2>2 DEF Joins
<1>11. j \in Seq(Op) /\ Wraps(j, <<"lock", "state">>, i, <<"unlock", "state">>)
  BY <1>10, Ops, Guarded DEF j, Write
<1>12. k \in Seq(Op) /\ Joins(k, h, j)
  BY <1>9, <1>11, Joined DEF k
<1>13. ReloadConfig \in Seq(Op) /\ Wraps(ReloadConfig, <<"lock", "config">>, k, <<"unlock", "config">>)
  BY <1>1, <1>12, Ops, Guarded DEF Write
<1>14. /\ Len(f) = 5
       /\ f[1] = <<"read", "runners">> /\ f[2] = <<"check", "providers">>
       /\ f[3] = <<"lock", "state">> /\ f[4] = <<"write", "providers">>
       /\ f[5] = <<"unlock", "state">>
  <2>1. Len(c) = 2 /\ c[1] = <<"read", "runners">> /\ c[2] = <<"check", "providers">>
    BY <1>2, <1>3, <1>4 DEF Joins
  <2>2. Len(e) = 3 /\ e[1] = <<"lock", "state">> /\ e[2] = <<"write", "providers">>
        /\ e[3] = <<"unlock", "state">>
    BY <1>5, <1>6 DEF Wraps
  <2> QED BY <1>7, <2>1, <2>2 DEF Joins
<1>15. /\ Len(g) = 8 /\ \A n \in 1..5 : g[n] = f[n]
       /\ g[6] = <<"lock", "state">> /\ g[7] = <<"write", "catalog">>
       /\ g[8] = <<"unlock", "state">>
  BY <1>8, <1>14, CatalogSteps DEF Joins
<1>16. /\ Len(h) = 9 /\ \A n \in 1..8 : h[n] = g[n]
       /\ h[9] = <<"read", "runners">>
  BY <1>2, <1>9, <1>15 DEF Joins
<1>17. /\ Len(k) = 13 /\ \A n \in 1..9 : k[n] = h[n]
       /\ k[10] = <<"lock", "state">> /\ k[11] = <<"write", "models">>
       /\ k[12] = <<"write", "tables">> /\ k[13] = <<"unlock", "state">>
  <2>1. /\ Len(j) = 4 /\ j[1] = <<"lock", "state">> /\ j[2] = <<"write", "models">>
        /\ j[3] = <<"write", "tables">> /\ j[4] = <<"unlock", "state">>
    BY <1>10, <1>11 DEF Wraps
  <2> QED BY <1>12, <1>16, <2>1 DEF Joins
<1>18. /\ Len(ReloadConfig) = 15 /\ \A n \in 2..14 : ReloadConfig[n] = k[n - 1]
       /\ ReloadConfig[1] = <<"lock", "config">> /\ ReloadConfig[15] = <<"unlock", "config">>
  BY <1>13, <1>17 DEF Wraps
<1>19. /\ ReloadConfig[2] = f[1] /\ ReloadConfig[3] = f[2] /\ ReloadConfig[4] = f[3]
       /\ ReloadConfig[5] = f[4] /\ ReloadConfig[6] = f[5]
  BY <1>15, <1>16, <1>17, <1>18
<1>20. /\ ReloadConfig[7] = g[6] /\ ReloadConfig[8] = g[7] /\ ReloadConfig[9] = g[8]
       /\ ReloadConfig[10] = h[9] /\ ReloadConfig[11] = k[10] /\ ReloadConfig[12] = k[11]
       /\ ReloadConfig[13] = k[12] /\ ReloadConfig[14] = k[13]
  BY <1>16, <1>17, <1>18
<1> QED BY <1>13, <1>14, <1>15, <1>16, <1>17, <1>18, <1>19, <1>20

LEMMA EditSteps ==
  LET p == EditResource
  IN  /\ p \in Seq(Op) /\ Len(p) = 20
      /\ p[1] = <<"get", "resources">> /\ p[2] = <<"rlock", "state">>
      /\ p[3] = <<"get", "config">> /\ p[4] = <<"runlock", "state">>
      /\ p[5] = <<"check", "resources">> /\ p[6] = <<"lock", "config">>
      /\ p[7] = <<"read", "runners">> /\ p[8] = <<"check", "providers">>
      /\ p[9] = <<"lock", "state">> /\ p[10] = <<"write", "providers">>
      /\ p[11] = <<"unlock", "state">> /\ p[12] = <<"lock", "state">>
      /\ p[13] = <<"write", "catalog">> /\ p[14] = <<"unlock", "state">>
      /\ p[15] = <<"read", "runners">> /\ p[16] = <<"lock", "state">>
      /\ p[17] = <<"write", "models">> /\ p[18] = <<"write", "tables">>
      /\ p[19] = <<"unlock", "state">> /\ p[20] = <<"unlock", "config">>
<1> DEFINE a == <<<<"get", "resources">>>>
           b == <<<<"get", "config">>>>
           c == Read("state", b)
           d == a \o c
           e == <<<<"check", "resources">>>>
           f == d \o e
<1>1. EditResource = f \o ReloadConfig
  BY DEF EditResource
<1> HIDE DEF a, b, c, d, e, f
<1>2. a \in Seq(Op) /\ Len(a) = 1 /\ a[1] = <<"get", "resources">>
  BY Ops, Single DEF a
<1>3. b \in Seq(Op) /\ Len(b) = 1 /\ b[1] = <<"get", "config">>
  BY Ops, Single DEF b
<1>4. c \in Seq(Op) /\ Wraps(c, <<"rlock", "state">>, b, <<"runlock", "state">>)
  BY <1>3, Ops, Guarded DEF c, Read
<1>5. d \in Seq(Op) /\ Joins(d, a, c)
  BY <1>2, <1>4, Joined DEF d
<1>6. e \in Seq(Op) /\ Len(e) = 1 /\ e[1] = <<"check", "resources">>
  BY Ops, Single DEF e
<1>7. f \in Seq(Op) /\ Joins(f, d, e)
  BY <1>5, <1>6, Joined DEF f
<1>8. EditResource \in Seq(Op) /\ Joins(EditResource, f, ReloadConfig)
  BY <1>1, <1>7, ReloadSteps, Joined
<1>9. /\ Len(f) = 5
      /\ f[1] = <<"get", "resources">> /\ f[2] = <<"rlock", "state">> /\ f[3] = <<"get", "config">>
      /\ f[4] = <<"runlock", "state">> /\ f[5] = <<"check", "resources">>
  <2>1. Len(c) = 3 /\ c[1] = <<"rlock", "state">> /\ c[2] = <<"get", "config">>
        /\ c[3] = <<"runlock", "state">>
    BY <1>3, <1>4 DEF Wraps
  <2>2. Len(d) = 4 /\ d[1] = <<"get", "resources">> /\ \A n \in 2..4 : d[n] = c[n - 1]
    BY <1>2, <1>5, <2>1 DEF Joins
  <2> QED BY <1>6, <1>7, <2>1, <2>2 DEF Joins
<1>10. /\ Len(EditResource) = 20 /\ \A n \in 1..5 : EditResource[n] = f[n]
       /\ \A n \in 6..20 : EditResource[n] = ReloadConfig[n - 5]
  BY <1>8, <1>9, ReloadSteps DEF Joins
<1>11. /\ EditResource[6] = ReloadConfig[1] /\ EditResource[7] = ReloadConfig[2]
       /\ EditResource[8] = ReloadConfig[3] /\ EditResource[9] = ReloadConfig[4]
       /\ EditResource[10] = ReloadConfig[5] /\ EditResource[11] = ReloadConfig[6]
       /\ EditResource[12] = ReloadConfig[7]
  BY <1>10
<1>12. /\ EditResource[13] = ReloadConfig[8] /\ EditResource[14] = ReloadConfig[9]
       /\ EditResource[15] = ReloadConfig[10] /\ EditResource[16] = ReloadConfig[11]
       /\ EditResource[17] = ReloadConfig[12] /\ EditResource[18] = ReloadConfig[13]
       /\ EditResource[19] = ReloadConfig[14]
       /\ EditResource[20] = ReloadConfig[15]
  BY <1>10
<1>13. /\ EditResource[1] = f[1] /\ EditResource[2] = f[2] /\ EditResource[3] = f[3]
       /\ EditResource[4] = f[4] /\ EditResource[5] = f[5]
  BY <1>10
<1> QED BY <1>8, <1>9, <1>10, <1>11, <1>12, <1>13, ReloadSteps

LEMMA VerificationSteps ==
  LET p == VerifyConfiguredModels
  IN  /\ p \in Seq(Op) /\ Len(p) = 6
      /\ p[1] = <<"rlock", "state">> /\ p[2] = <<"read", "runners">>
      /\ p[3] = <<"runlock", "state">> /\ p[4] = <<"lock", "state">>
      /\ p[5] = <<"write", "models">> /\ p[6] = <<"unlock", "state">>
<1> DEFINE a == Set("models")
<1>1. ApplyModelVerification = Write("state", a) /\ VerifyConfiguredModels = ProviderHealthy \o ApplyModelVerification
  BY DEF ApplyModelVerification, VerifyConfiguredModels
<1> HIDE DEF a
<1>2. a \in Seq(Op) /\ Len(a) = 1 /\ a[1] = <<"write", "models">>
  BY SetStep DEF a
<1>3. ApplyModelVerification \in Seq(Op) /\ Wraps(ApplyModelVerification, <<"lock", "state">>, a, <<"unlock", "state">>)
  BY <1>1, <1>2, Ops, Guarded DEF Write
<1>4. /\ Len(ApplyModelVerification) = 3 /\ ApplyModelVerification[1] = <<"lock", "state">>
      /\ ApplyModelVerification[2] = <<"write", "models">> /\ ApplyModelVerification[3] = <<"unlock", "state">>
  BY <1>2, <1>3 DEF Wraps
<1>5. VerifyConfiguredModels \in Seq(Op) /\ Joins(VerifyConfiguredModels, ProviderHealthy, ApplyModelVerification)
  BY <1>1, <1>3, HealthySteps, Joined
<1> QED BY <1>4, <1>5, HealthySteps DEF Joins

LEMMA CloseSteps ==
  LET p == CloseRunners
  IN  p \in Seq(Op) /\ Len(p) = 1 /\ p[1] = <<"read", "runners">>
BY SeeStep DEF CloseRunners

-----------------------------------------------------------------------------
(* Where a goroutine may take a lock, give it back, or touch the data.     *)

LEMMA StepsOf ==
  ASSUME NEW t
  PROVE
    /\ kind[t] = "route" => Steps(t) = RouteOpenAIRequest
    /\ kind[t] = "models" => Steps(t) = ModelSummaries
    /\ kind[t] = "health" => Steps(t) = HandleHealth
    /\ kind[t] = "metrics" => Steps(t) = HandleMetrics
    /\ kind[t] = "bootstrap" => Steps(t) = BootstrapSnapshot
    /\ kind[t] = "end" => Steps(t) = RequestEnd
    /\ kind[t] = "live" => Steps(t) = LiveSnapshot
    /\ kind[t] = "attach" => Steps(t) = AttachProvider
    /\ kind[t] = "reload" => Steps(t) = ReloadConfig
    /\ kind[t] = "edit" => Steps(t) = EditResource
    /\ kind[t] = "verification" => Steps(t) = VerifyConfiguredModels
    /\ kind[t] = "close" => Steps(t) = CloseRunners
BY DEF Steps, Program, HandleModels

LEMMA RouteAt ==
  ASSUME NEW t, kind[t] = "route", pc[t] \in Nat \ {0}, NEW o, NEW x, At(t, o, x)
  PROVE  <<pc[t], o, x>> \in {
           <<1, "rlock", "config">>, <<2, "rlock", "state">>, <<3, "read", "runners">>,
           <<4, "runlock", "state">>, <<5, "read", "runners">>, <<6, "read", "models">>,
           <<7, "runlock", "config">>}
<1>1. pc[t] \in 1..7 /\ RouteOpenAIRequest[pc[t]] = <<o, x>>
  BY StepsOf, RouteSteps DEF At, Done
<1>2. pc[t] \in {1, 2, 3, 4, 5, 6, 7}
  BY <1>1
<1> QED BY <1>1, <1>2, RouteSteps

LEMMA ModelsAt ==
  ASSUME NEW t, kind[t] = "models", pc[t] \in Nat \ {0}, NEW o, NEW x, At(t, o, x)
  PROVE  <<pc[t], o, x>> \in {
           <<1, "rlock", "config">>, <<2, "rlock", "state">>, <<3, "read", "runners">>,
           <<4, "runlock", "state">>, <<5, "read", "models">>, <<6, "runlock", "config">>}
<1>1. pc[t] \in 1..6 /\ ModelSummaries[pc[t]] = <<o, x>>
  BY StepsOf, SummariesSteps DEF At, Done
<1>2. pc[t] \in {1, 2, 3, 4, 5, 6}
  BY <1>1
<1> QED BY <1>1, <1>2, SummariesSteps

LEMMA HealthAt ==
  ASSUME NEW t, kind[t] = "health", pc[t] \in Nat \ {0}, NEW o, NEW x, At(t, o, x)
  PROVE  <<pc[t], o, x>> \in {
           <<1, "rlock", "config">>, <<2, "rlock", "state">>, <<3, "read", "runners">>,
           <<4, "runlock", "state">>, <<5, "rlock", "state">>, <<6, "read", "runners">>,
           <<7, "runlock", "state">>, <<8, "runlock", "config">>}
<1>1. pc[t] \in 1..8 /\ HandleHealth[pc[t]] = <<o, x>>
  BY StepsOf, HealthSteps DEF At, Done
<1>2. pc[t] \in {1, 2, 3, 4, 5, 6, 7, 8}
  BY <1>1
<1> QED BY <1>1, <1>2, HealthSteps

LEMMA MetricsAt ==
  ASSUME NEW t, kind[t] = "metrics", pc[t] \in Nat \ {0}, NEW o, NEW x, At(t, o, x)
  PROVE  <<pc[t], o, x>> \in {
           <<1, "rlock", "config">>, <<2, "lock", "telemetry">>, <<3, "unlock", "telemetry">>,
           <<4, "read", "runners">>, <<5, "runlock", "config">>}
<1>1. pc[t] \in 1..5 /\ HandleMetrics[pc[t]] = <<o, x>>
  BY StepsOf, MetricsSteps DEF At, Done
<1>2. pc[t] \in {1, 2, 3, 4, 5}
  BY <1>1
<1> QED BY <1>1, <1>2, MetricsSteps

LEMMA BootstrapAt ==
  ASSUME NEW t, kind[t] = "bootstrap", pc[t] \in Nat \ {0}, NEW o, NEW x, At(t, o, x)
  PROVE  <<pc[t], o, x>> \in {
           <<1, "rlock", "state">>, <<2, "runlock", "state">>}
<1>1. pc[t] \in 1..2 /\ BootstrapSnapshot[pc[t]] = <<o, x>>
  BY StepsOf, EmptySteps DEF At, Done
<1>2. pc[t] \in {1, 2}
  BY <1>1
<1> QED BY <1>1, <1>2, EmptySteps

LEMMA EndAt ==
  ASSUME NEW t, kind[t] = "end", pc[t] \in Nat \ {0}, NEW o, NEW x, At(t, o, x)
  PROVE  <<pc[t], o, x>> \in {
           <<1, "lock", "telemetry">>, <<2, "rlock", "state">>, <<3, "runlock", "state">>,
           <<4, "unlock", "telemetry">>}
<1>1. pc[t] \in 1..4 /\ RequestEnd[pc[t]] = <<o, x>>
  BY StepsOf, EndSteps DEF At, Done
<1>2. pc[t] \in {1, 2, 3, 4}
  BY <1>1
<1> QED BY <1>1, <1>2, EndSteps

LEMMA LiveAt ==
  ASSUME NEW t, kind[t] = "live", pc[t] \in Nat \ {0}, NEW o, NEW x, At(t, o, x)
  PROVE  <<pc[t], o, x>> \in {
           <<1, "rlock", "config">>, <<2, "rlock", "state">>, <<3, "rlock", "state">>,
           <<4, "read", "runners">>, <<5, "runlock", "state">>, <<6, "lock", "telemetry">>,
           <<7, "unlock", "telemetry">>, <<8, "rlock", "config">>, <<9, "rlock", "state">>,
           <<10, "read", "runners">>, <<11, "runlock", "state">>, <<12, "read", "models">>,
           <<13, "runlock", "config">>, <<14, "runlock", "state">>, <<15, "runlock", "config">>}
<1>1. pc[t] \in 1..15 /\ LiveSnapshot[pc[t]] = <<o, x>>
  <2>1. Steps(t) = LiveSnapshot /\ Len(LiveSnapshot) = 15
    BY StepsOf, LiveSteps
  <2> QED BY <2>1 DEF At, Done
<1>2. pc[t] \in 1..7 \/ pc[t] \in 8..14 \/ pc[t] \in 15..15
  BY <1>1
<1>3. CASE pc[t] \in 1..7
  <2>1. pc[t] \in {1, 2, 3, 4, 5, 6, 7}
    BY <1>3
  <2> QED BY <1>1, <2>1, LiveSteps
<1>4. CASE pc[t] \in 8..14
  <2>1. pc[t] \in {8, 9, 10, 11, 12, 13, 14}
    BY <1>4
  <2> QED BY <1>1, <2>1, LiveSteps
<1>5. CASE pc[t] \in 15..15
  <2>1. pc[t] \in {15}
    BY <1>5
  <2> QED BY <1>1, <2>1, LiveSteps
<1> QED BY <1>2, <1>3, <1>4, <1>5

LEMMA AttachAt ==
  ASSUME NEW t, kind[t] = "attach", pc[t] \in Nat \ {0}, NEW o, NEW x, At(t, o, x)
  PROVE  <<pc[t], o, x>> \in {
           <<1, "lock", "config">>, <<2, "lock", "state">>, <<3, "write", "runners">>,
           <<4, "write", "providers">>, <<5, "write", "models">>, <<6, "unlock", "state">>,
           <<7, "write", "catalog">>, <<8, "unlock", "config">>}
<1>1. pc[t] \in 1..8 /\ AttachProvider[pc[t]] = <<o, x>>
  BY StepsOf, AttachSteps DEF At, Done
<1>2. pc[t] \in {1, 2, 3, 4, 5, 6, 7, 8}
  BY <1>1
<1> QED BY <1>1, <1>2, AttachSteps

LEMMA ReloadAt ==
  ASSUME NEW t, kind[t] = "reload", pc[t] \in Nat \ {0}, NEW o, NEW x, At(t, o, x)
  PROVE  <<pc[t], o, x>> \in {
           <<1, "lock", "config">>, <<2, "read", "runners">>, <<3, "check", "providers">>,
           <<4, "lock", "state">>, <<5, "write", "providers">>, <<6, "unlock", "state">>,
           <<7, "lock", "state">>, <<8, "write", "catalog">>, <<9, "unlock", "state">>,
           <<10, "read", "runners">>, <<11, "lock", "state">>, <<12, "write", "models">>,
           <<13, "write", "tables">>, <<14, "unlock", "state">>, <<15, "unlock", "config">>}
<1>1. pc[t] \in 1..15 /\ ReloadConfig[pc[t]] = <<o, x>>
  <2>1. Steps(t) = ReloadConfig /\ Len(ReloadConfig) = 15
    BY StepsOf, ReloadSteps
  <2> QED BY <2>1 DEF At, Done
<1>2. pc[t] \in 1..7 \/ pc[t] \in 8..14 \/ pc[t] \in 15..15
  BY <1>1
<1>3. CASE pc[t] \in 1..7
  <2>1. pc[t] \in {1, 2, 3, 4, 5, 6, 7}
    BY <1>3
  <2> QED BY <1>1, <2>1, ReloadSteps
<1>4. CASE pc[t] \in 8..14
  <2>1. pc[t] \in {8, 9, 10, 11, 12, 13, 14}
    BY <1>4
  <2> QED BY <1>1, <2>1, ReloadSteps
<1>5. CASE pc[t] \in 15..15
  <2>1. pc[t] \in {15}
    BY <1>5
  <2> QED BY <1>1, <2>1, ReloadSteps
<1> QED BY <1>2, <1>3, <1>4, <1>5

LEMMA EditAt ==
  ASSUME NEW t, kind[t] = "edit", pc[t] \in Nat \ {0}, NEW o, NEW x, At(t, o, x)
  PROVE  <<pc[t], o, x>> \in {
           <<1, "get", "resources">>, <<2, "rlock", "state">>, <<3, "get", "config">>,
           <<4, "runlock", "state">>, <<5, "check", "resources">>, <<6, "lock", "config">>,
           <<7, "read", "runners">>, <<8, "check", "providers">>, <<9, "lock", "state">>,
           <<10, "write", "providers">>, <<11, "unlock", "state">>, <<12, "lock", "state">>,
           <<13, "write", "catalog">>, <<14, "unlock", "state">>, <<15, "read", "runners">>,
           <<16, "lock", "state">>, <<17, "write", "models">>, <<18, "write", "tables">>,
           <<19, "unlock", "state">>, <<20, "unlock", "config">>}
<1>1. pc[t] \in 1..20 /\ EditResource[pc[t]] = <<o, x>>
  <2>1. Steps(t) = EditResource /\ Len(EditResource) = 20
    BY StepsOf, EditSteps
  <2> QED BY <2>1 DEF At, Done
<1>2. pc[t] \in 1..7 \/ pc[t] \in 8..14 \/ pc[t] \in 15..20
  BY <1>1
<1>3. CASE pc[t] \in 1..7
  <2>1. pc[t] \in {1, 2, 3, 4, 5, 6, 7}
    BY <1>3
  <2> QED BY <1>1, <2>1, EditSteps
<1>4. CASE pc[t] \in 8..14
  <2>1. pc[t] \in {8, 9, 10, 11, 12, 13, 14}
    BY <1>4
  <2> QED BY <1>1, <2>1, EditSteps
<1>5. CASE pc[t] \in 15..20
  <2>1. pc[t] \in {15, 16, 17, 18, 19, 20}
    BY <1>5
  <2> QED BY <1>1, <2>1, EditSteps
<1> QED BY <1>2, <1>3, <1>4, <1>5

LEMMA VerificationAt ==
  ASSUME NEW t, kind[t] = "verification", pc[t] \in Nat \ {0}, NEW o, NEW x, At(t, o, x)
  PROVE  <<pc[t], o, x>> \in {
           <<1, "rlock", "state">>, <<2, "read", "runners">>, <<3, "runlock", "state">>,
           <<4, "lock", "state">>, <<5, "write", "models">>, <<6, "unlock", "state">>}
<1>1. pc[t] \in 1..6 /\ VerifyConfiguredModels[pc[t]] = <<o, x>>
  BY StepsOf, VerificationSteps DEF At, Done
<1>2. pc[t] \in {1, 2, 3, 4, 5, 6}
  BY <1>1
<1> QED BY <1>1, <1>2, VerificationSteps

LEMMA CloseAt ==
  ASSUME NEW t, kind[t] = "close", pc[t] \in Nat \ {0}, NEW o, NEW x, At(t, o, x)
  PROVE  <<pc[t], o, x>> \in {
           <<1, "read", "runners">>}
<1>1. pc[t] \in 1..1 /\ CloseRunners[pc[t]] = <<o, x>>
  BY StepsOf, CloseSteps DEF At, Done
<1>2. pc[t] \in {1}
  BY <1>1
<1> QED BY <1>1, <1>2, CloseSteps

AllKinds == {"route", "models", "health", "metrics", "bootstrap", "end", "live", "attach", "reload",
             "edit", "verification", "close"}

LEMMA KindOf ==
  ASSUME TypeInv, NEW t \in Threads
  PROVE  /\ kind[t] \in AllKinds /\ pc[t] \in Nat \ {0} /\ t # None
         /\ kind[t] = "live" => t \in Lives
         /\ kind[t] = "attach" => t \in Attachers /\ t \notin Editors \cup Reloaders
         /\ kind[t] = "reload" => t \in Reloaders
         /\ kind[t] = "edit" => t \in Editors
         /\ kind[t] = "verification" => t \in Verifiers
<1>1. kind[t] \in DOMAIN Program /\ kind[t] \in Kinds(t) /\ pc[t] \in Nat \ {0}
  BY DEF TypeInv, TypeOK
<1>2. kind[t] \in AllKinds
  BY <1>1 DEF Program, AllKinds
<1>3. /\ kind[t] = "live" => t \in Lives
      /\ kind[t] = "attach" => t \in Attachers
      /\ kind[t] = "reload" => t \in Reloaders
      /\ kind[t] = "edit" => t \in Editors
      /\ kind[t] = "verification" => t \in Verifiers
  BY <1>1 DEF Kinds
<1> QED BY <1>1, <1>2, <1>3, GoroutinesAssumption

LEMMA ReadLockPlaces ==
  ASSUME TypeInv, NEW t \in Threads
  PROVE
    /\ At(t, "rlock", "config") =>
         \/ In(t, "route", {1}) \/ In(t, "models", {1}) \/ In(t, "health", {1})
         \/ In(t, "metrics", {1}) \/ In(t, "live", {1, 8})
    /\ At(t, "rlock", "state") =>
         \/ In(t, "route", {2}) \/ In(t, "models", {2}) \/ In(t, "health", {2, 5})
         \/ In(t, "bootstrap", {1}) \/ In(t, "end", {2}) \/ In(t, "live", {2, 3, 9})
         \/ In(t, "edit", {2}) \/ In(t, "verification", {1})
    /\ At(t, "runlock", "config") =>
         \/ In(t, "route", {7}) \/ In(t, "models", {6}) \/ In(t, "health", {8})
         \/ In(t, "metrics", {5}) \/ In(t, "live", {13, 15})
    /\ At(t, "runlock", "state") =>
         \/ In(t, "route", {4}) \/ In(t, "models", {4}) \/ In(t, "health", {4, 7})
         \/ In(t, "bootstrap", {2}) \/ In(t, "end", {3}) \/ In(t, "live", {5, 11, 14})
         \/ In(t, "edit", {4}) \/ In(t, "verification", {3})
    /\ ~ At(t, "rlock", "telemetry") /\ ~ At(t, "runlock", "telemetry")
<1>1. kind[t] \in AllKinds /\ pc[t] \in Nat \ {0}
  BY KindOf
<1>2. ASSUME At(t, "rlock", "config")
      PROVE
        \/ In(t, "route", {1}) \/ In(t, "models", {1}) \/ In(t, "health", {1})
        \/ In(t, "metrics", {1}) \/ In(t, "live", {1, 8})
  BY <1>1, <1>2, RouteAt, ModelsAt, HealthAt, MetricsAt, BootstrapAt, EndAt,
       LiveAt, AttachAt, ReloadAt, EditAt, VerificationAt, CloseAt
    DEF AllKinds, In
<1>3. ASSUME At(t, "rlock", "state")
      PROVE
        \/ In(t, "route", {2}) \/ In(t, "models", {2}) \/ In(t, "health", {2, 5})
        \/ In(t, "bootstrap", {1}) \/ In(t, "end", {2}) \/ In(t, "live", {2, 3, 9})
        \/ In(t, "edit", {2}) \/ In(t, "verification", {1})
  BY <1>1, <1>3, RouteAt, ModelsAt, HealthAt, MetricsAt, BootstrapAt, EndAt,
       LiveAt, AttachAt, ReloadAt, EditAt, VerificationAt, CloseAt
    DEF AllKinds, In
<1>4. ASSUME At(t, "runlock", "config")
      PROVE
        \/ In(t, "route", {7}) \/ In(t, "models", {6}) \/ In(t, "health", {8})
        \/ In(t, "metrics", {5}) \/ In(t, "live", {13, 15})
  BY <1>1, <1>4, RouteAt, ModelsAt, HealthAt, MetricsAt, BootstrapAt, EndAt,
       LiveAt, AttachAt, ReloadAt, EditAt, VerificationAt, CloseAt
    DEF AllKinds, In
<1>5. ASSUME At(t, "runlock", "state")
      PROVE
        \/ In(t, "route", {4}) \/ In(t, "models", {4}) \/ In(t, "health", {4, 7})
        \/ In(t, "bootstrap", {2}) \/ In(t, "end", {3}) \/ In(t, "live", {5, 11, 14})
        \/ In(t, "edit", {4}) \/ In(t, "verification", {3})
  BY <1>1, <1>5, RouteAt, ModelsAt, HealthAt, MetricsAt, BootstrapAt, EndAt,
       LiveAt, AttachAt, ReloadAt, EditAt, VerificationAt, CloseAt
    DEF AllKinds, In
<1>6. ~ At(t, "rlock", "telemetry") /\ ~ At(t, "runlock", "telemetry")
  BY <1>1, RouteAt, ModelsAt, HealthAt, MetricsAt, BootstrapAt, EndAt,
       LiveAt, AttachAt, ReloadAt, EditAt, VerificationAt, CloseAt
    DEF AllKinds
<1> QED BY <1>2, <1>3, <1>4, <1>5, <1>6

LEMMA WriteLockPlaces ==
  ASSUME TypeInv, NEW t \in Threads
  PROVE
    /\ At(t, "lock", "config") =>
         \/ In(t, "attach", {1}) \/ In(t, "reload", {1}) \/ In(t, "edit", {6})
    /\ At(t, "lock", "state") =>
         \/ In(t, "attach", {2}) \/ In(t, "reload", {4, 7, 11}) \/ In(t, "edit", {9, 12, 16})
         \/ In(t, "verification", {4})
    /\ At(t, "lock", "telemetry") =>
         \/ In(t, "metrics", {2}) \/ In(t, "end", {1}) \/ In(t, "live", {6})
    /\ At(t, "unlock", "config") =>
         \/ In(t, "attach", {8}) \/ In(t, "reload", {15}) \/ In(t, "edit", {20})
    /\ At(t, "unlock", "state") =>
         \/ In(t, "attach", {6}) \/ In(t, "reload", {6, 9, 14}) \/ In(t, "edit", {11, 14, 19})
         \/ In(t, "verification", {6})
    /\ At(t, "unlock", "telemetry") =>
         \/ In(t, "metrics", {3}) \/ In(t, "end", {4}) \/ In(t, "live", {7})
<1>1. kind[t] \in AllKinds /\ pc[t] \in Nat \ {0}
  BY KindOf
<1>2. ASSUME At(t, "lock", "config")
      PROVE
        \/ In(t, "attach", {1}) \/ In(t, "reload", {1}) \/ In(t, "edit", {6})
  BY <1>1, <1>2, RouteAt, ModelsAt, HealthAt, MetricsAt, BootstrapAt, EndAt,
       LiveAt, AttachAt, ReloadAt, EditAt, VerificationAt, CloseAt
    DEF AllKinds, In
<1>3. ASSUME At(t, "lock", "state")
      PROVE
        \/ In(t, "attach", {2}) \/ In(t, "reload", {4, 7, 11}) \/ In(t, "edit", {9, 12, 16})
        \/ In(t, "verification", {4})
  BY <1>1, <1>3, RouteAt, ModelsAt, HealthAt, MetricsAt, BootstrapAt, EndAt,
       LiveAt, AttachAt, ReloadAt, EditAt, VerificationAt, CloseAt
    DEF AllKinds, In
<1>4. ASSUME At(t, "lock", "telemetry")
      PROVE
        \/ In(t, "metrics", {2}) \/ In(t, "end", {1}) \/ In(t, "live", {6})
  BY <1>1, <1>4, RouteAt, ModelsAt, HealthAt, MetricsAt, BootstrapAt, EndAt,
       LiveAt, AttachAt, ReloadAt, EditAt, VerificationAt, CloseAt
    DEF AllKinds, In
<1>5. ASSUME At(t, "unlock", "config")
      PROVE
        \/ In(t, "attach", {8}) \/ In(t, "reload", {15}) \/ In(t, "edit", {20})
  BY <1>1, <1>5, RouteAt, ModelsAt, HealthAt, MetricsAt, BootstrapAt, EndAt,
       LiveAt, AttachAt, ReloadAt, EditAt, VerificationAt, CloseAt
    DEF AllKinds, In
<1>6. ASSUME At(t, "unlock", "state")
      PROVE
        \/ In(t, "attach", {6}) \/ In(t, "reload", {6, 9, 14}) \/ In(t, "edit", {11, 14, 19})
        \/ In(t, "verification", {6})
  BY <1>1, <1>6, RouteAt, ModelsAt, HealthAt, MetricsAt, BootstrapAt, EndAt,
       LiveAt, AttachAt, ReloadAt, EditAt, VerificationAt, CloseAt
    DEF AllKinds, In
<1>7. ASSUME At(t, "unlock", "telemetry")
      PROVE
        \/ In(t, "metrics", {3}) \/ In(t, "end", {4}) \/ In(t, "live", {7})
  BY <1>1, <1>7, RouteAt, ModelsAt, HealthAt, MetricsAt, BootstrapAt, EndAt,
       LiveAt, AttachAt, ReloadAt, EditAt, VerificationAt, CloseAt
    DEF AllKinds, In
<1> QED BY <1>2, <1>3, <1>4, <1>5, <1>6, <1>7

LEMMA CellPlaces ==
  ASSUME TypeInv, NEW t \in Threads
  PROVE
    /\ At(t, "read", "runners") =>
         \/ In(t, "route", {3, 5}) \/ In(t, "models", {3}) \/ In(t, "health", {3, 6})
         \/ In(t, "metrics", {4}) \/ In(t, "live", {4, 10}) \/ In(t, "reload", {2, 10})
         \/ In(t, "edit", {7, 15}) \/ In(t, "verification", {2}) \/ In(t, "close", {1})
    /\ At(t, "read", "models") =>
         \/ In(t, "route", {6}) \/ In(t, "models", {5}) \/ In(t, "live", {12})
    /\ At(t, "write", "runners") =>
         In(t, "attach", {3})
<1>1. kind[t] \in AllKinds /\ pc[t] \in Nat \ {0}
  BY KindOf
<1>2. ASSUME At(t, "read", "runners")
      PROVE
        \/ In(t, "route", {3, 5}) \/ In(t, "models", {3}) \/ In(t, "health", {3, 6})
        \/ In(t, "metrics", {4}) \/ In(t, "live", {4, 10}) \/ In(t, "reload", {2, 10})
        \/ In(t, "edit", {7, 15}) \/ In(t, "verification", {2}) \/ In(t, "close", {1})
  BY <1>1, <1>2, RouteAt, ModelsAt, HealthAt, MetricsAt, BootstrapAt, EndAt,
       LiveAt, AttachAt, ReloadAt, EditAt, VerificationAt, CloseAt
    DEF AllKinds, In
<1>3. ASSUME At(t, "read", "models")
      PROVE
        \/ In(t, "route", {6}) \/ In(t, "models", {5}) \/ In(t, "live", {12})
  BY <1>1, <1>3, RouteAt, ModelsAt, HealthAt, MetricsAt, BootstrapAt, EndAt,
       LiveAt, AttachAt, ReloadAt, EditAt, VerificationAt, CloseAt
    DEF AllKinds, In
<1>4. ASSUME At(t, "write", "runners")
      PROVE
        In(t, "attach", {3})
  BY <1>1, <1>4, RouteAt, ModelsAt, HealthAt, MetricsAt, BootstrapAt, EndAt,
       LiveAt, AttachAt, ReloadAt, EditAt, VerificationAt, CloseAt
    DEF AllKinds, In
<1> QED BY <1>2, <1>3, <1>4

LEMMA DataPlaces ==
  ASSUME TypeInv, NEW t \in Threads
  PROVE
    /\ At(t, "write", "providers") =>
         \/ In(t, "attach", {4}) \/ In(t, "reload", {5}) \/ In(t, "edit", {10})
    /\ At(t, "write", "catalog") =>
         \/ In(t, "attach", {7}) \/ In(t, "reload", {8}) \/ In(t, "edit", {13})
    /\ At(t, "write", "tables") =>
         \/ In(t, "reload", {13}) \/ In(t, "edit", {18})
    /\ At(t, "write", "models") =>
         \/ In(t, "attach", {5}) \/ In(t, "reload", {12}) \/ In(t, "edit", {17})
         \/ In(t, "verification", {5})
    /\ At(t, "check", "providers") =>
         \/ In(t, "reload", {3}) \/ In(t, "edit", {8})
    /\ At(t, "get", "resources") =>
         In(t, "edit", {1})
    /\ At(t, "get", "config") =>
         In(t, "edit", {3})
    /\ At(t, "check", "resources") =>
         In(t, "edit", {5})
<1>1. kind[t] \in AllKinds /\ pc[t] \in Nat \ {0}
  BY KindOf
<1>2. ASSUME At(t, "write", "providers")
      PROVE
        \/ In(t, "attach", {4}) \/ In(t, "reload", {5}) \/ In(t, "edit", {10})
  BY <1>1, <1>2, RouteAt, ModelsAt, HealthAt, MetricsAt, BootstrapAt, EndAt,
       LiveAt, AttachAt, ReloadAt, EditAt, VerificationAt, CloseAt
    DEF AllKinds, In
<1>3. ASSUME At(t, "write", "catalog")
      PROVE
        \/ In(t, "attach", {7}) \/ In(t, "reload", {8}) \/ In(t, "edit", {13})
  BY <1>1, <1>3, RouteAt, ModelsAt, HealthAt, MetricsAt, BootstrapAt, EndAt,
       LiveAt, AttachAt, ReloadAt, EditAt, VerificationAt, CloseAt
    DEF AllKinds, In
<1>4. ASSUME At(t, "write", "tables")
      PROVE
        \/ In(t, "reload", {13}) \/ In(t, "edit", {18})
  BY <1>1, <1>4, RouteAt, ModelsAt, HealthAt, MetricsAt, BootstrapAt, EndAt,
       LiveAt, AttachAt, ReloadAt, EditAt, VerificationAt, CloseAt
    DEF AllKinds, In
<1>5. ASSUME At(t, "write", "models")
      PROVE
        \/ In(t, "attach", {5}) \/ In(t, "reload", {12}) \/ In(t, "edit", {17})
        \/ In(t, "verification", {5})
  BY <1>1, <1>5, RouteAt, ModelsAt, HealthAt, MetricsAt, BootstrapAt, EndAt,
       LiveAt, AttachAt, ReloadAt, EditAt, VerificationAt, CloseAt
    DEF AllKinds, In
<1>6. ASSUME At(t, "check", "providers")
      PROVE
        \/ In(t, "reload", {3}) \/ In(t, "edit", {8})
  BY <1>1, <1>6, RouteAt, ModelsAt, HealthAt, MetricsAt, BootstrapAt, EndAt,
       LiveAt, AttachAt, ReloadAt, EditAt, VerificationAt, CloseAt
    DEF AllKinds, In
<1>7. ASSUME At(t, "get", "resources")
      PROVE
        In(t, "edit", {1})
  BY <1>1, <1>7, RouteAt, ModelsAt, HealthAt, MetricsAt, BootstrapAt, EndAt,
       LiveAt, AttachAt, ReloadAt, EditAt, VerificationAt, CloseAt
    DEF AllKinds, In
<1>8. ASSUME At(t, "get", "config")
      PROVE
        In(t, "edit", {3})
  BY <1>1, <1>8, RouteAt, ModelsAt, HealthAt, MetricsAt, BootstrapAt, EndAt,
       LiveAt, AttachAt, ReloadAt, EditAt, VerificationAt, CloseAt
    DEF AllKinds, In
<1>9. ASSUME At(t, "check", "resources")
      PROVE
        In(t, "edit", {5})
  BY <1>1, <1>9, RouteAt, ModelsAt, HealthAt, MetricsAt, BootstrapAt, EndAt,
       LiveAt, AttachAt, ReloadAt, EditAt, VerificationAt, CloseAt
    DEF AllKinds, In
<1> QED BY <1>2, <1>3, <1>4, <1>5, <1>6, <1>7, <1>8, <1>9

-----------------------------------------------------------------------------
(* The steps.                                                              *)

(* t has gone to step n; the others are where they were. *)
Goes(t, n) == kind' = kind /\ pc' = [pc EXCEPT ![t] = n]

LEMMA Frame ==
  ASSUME TypeInv, NEW t \in Threads, NEW n, Goes(t, n)
  PROVE  /\ \A u \in Threads : kind'[u] = kind[u]
         /\ pc'[t] = n /\ \A u \in Threads : u # t => pc'[u] = pc[u]
BY DEF Goes, TypeInv, TypeOK

LEMMA OneStep ==
  ASSUME NEW t, NEW o, NEW x, NEW p, NEW y, At(t, o, x), At(t, p, y)
  PROVE  o = p /\ x = y
BY DEF At

(* The locks of a goroutine that has not moved. *)
LEMMA OthersLocks ==
  ASSUME NEW u, ReadLocks(u), WriteLocks(u), kind'[u] = kind[u], pc'[u] = pc[u],
         \A l \in Locks : readers'[l][u] = readers[l][u] /\ (writer'[l] = u <=> writer[l] = u)
  PROVE  ReadLocks(u)' /\ WriteLocks(u)'
<1>1. /\ readers'["config"][u] = readers["config"][u] /\ readers'["state"][u] = readers["state"][u]
      /\ readers'["telemetry"][u] = readers["telemetry"][u]
      /\ writer'["config"] = u <=> writer["config"] = u
      /\ writer'["state"] = u <=> writer["state"] = u
      /\ writer'["telemetry"] = u <=> writer["telemetry"] = u
  BY DEF Locks
<1>2. ReadLocks(u)'
  BY <1>1 DEF ReadLocks, In, ReadsConfig, ReadsState
<1>3. WriteLocks(u)'
  BY <1>1 DEF WriteLocks, In, WritesConfig, WritesState, WritesTelemetry
<1> QED BY <1>2, <1>3

LocksHeld == \A u \in Threads : ReadLocks(u) /\ WriteLocks(u)

LEMMA RLockStep ==
  ASSUME TypeInv, LocksHeld, NEW t \in Threads, NEW l \in Locks, RLock(t, l)
  PROVE  LocksHeld' /\ readers[l][t] \in 0..1
<1>1. /\ At(t, "rlock", l) /\ Goes(t, pc[t] + 1) /\ readers' = [readers EXCEPT ![l][t] = @ + 1]
      /\ writer' = writer /\ readers \in [Locks -> [Threads -> 0..2]] /\ ReadLocks(t) /\ WriteLocks(t)
  BY DEF RLock, Step, Goes, TypeInv, TypeOK, LocksHeld
<1>2. /\ kind'[t] = kind[t] /\ pc'[t] = pc[t] + 1
      /\ readers'[l][t] = readers[l][t] + 1
      /\ \A k \in Locks : k # l => readers'[k][t] = readers[k][t]
  BY <1>1, Frame
<1>3. ASSUME NEW u \in Threads, u # t
      PROVE  ReadLocks(u)' /\ WriteLocks(u)'
  BY <1>1, <1>3, Frame, OthersLocks DEF LocksHeld
<1>4. CASE l = "config"
  <2>1. \/ In(t, "route", {1}) \/ In(t, "models", {1}) \/ In(t, "health", {1})
        \/ In(t, "metrics", {1}) \/ In(t, "live", {1, 8})
    BY <1>1, <1>4, ReadLockPlaces
  <2>2. readers'["config"][t] = readers["config"][t] + 1 /\ readers'["state"][t] = readers["state"][t]
        /\ readers'["telemetry"][t] = readers["telemetry"][t]
    BY <1>2, <1>4 DEF Locks
  <2>3. ReadLocks(t)' /\ readers[l][t] \in 0..1
    BY <1>1, <1>2, <1>4, <2>1, <2>2 DEF ReadLocks, In, ReadsConfig, ReadsState
  <2>4. WriteLocks(t)'
    BY <1>1, <1>2, <2>1 DEF WriteLocks, In, WritesConfig, WritesState, WritesTelemetry
  <2> QED BY <1>3, <2>3, <2>4 DEF LocksHeld
<1>5. CASE l = "state"
  <2>1. \/ In(t, "route", {2}) \/ In(t, "models", {2}) \/ In(t, "health", {2, 5})
        \/ In(t, "bootstrap", {1}) \/ In(t, "end", {2}) \/ In(t, "live", {2, 3, 9})
        \/ In(t, "edit", {2}) \/ In(t, "verification", {1})
    BY <1>1, <1>5, ReadLockPlaces
  <2>2. readers'["state"][t] = readers["state"][t] + 1 /\ readers'["config"][t] = readers["config"][t]
        /\ readers'["telemetry"][t] = readers["telemetry"][t]
    BY <1>2, <1>5 DEF Locks
  <2>3. ReadLocks(t)' /\ readers[l][t] \in 0..1
    BY <1>1, <1>2, <1>5, <2>1, <2>2 DEF ReadLocks, In, ReadsConfig, ReadsState
  <2>4. WriteLocks(t)'
    BY <1>1, <1>2, <2>1 DEF WriteLocks, In, WritesConfig, WritesState, WritesTelemetry
  <2> QED BY <1>3, <2>3, <2>4 DEF LocksHeld
<1> QED BY <1>1, <1>4, <1>5, ReadLockPlaces DEF Locks

LEMMA RUnlockStep ==
  ASSUME TypeInv, LocksHeld, NEW t \in Threads, NEW l \in Locks, RUnlock(t, l)
  PROVE  LocksHeld' /\ readers[l][t] \in 1..2
<1>1. /\ At(t, "runlock", l) /\ Goes(t, pc[t] + 1) /\ readers' = [readers EXCEPT ![l][t] = @ - 1]
      /\ writer' = writer /\ readers \in [Locks -> [Threads -> 0..2]] /\ ReadLocks(t) /\ WriteLocks(t)
  BY DEF RUnlock, Step, Goes, TypeInv, TypeOK, LocksHeld
<1>2. /\ kind'[t] = kind[t] /\ pc'[t] = pc[t] + 1
      /\ readers'[l][t] = readers[l][t] - 1
      /\ \A k \in Locks : k # l => readers'[k][t] = readers[k][t]
  BY <1>1, Frame
<1>3. ASSUME NEW u \in Threads, u # t
      PROVE  ReadLocks(u)' /\ WriteLocks(u)'
  BY <1>1, <1>3, Frame, OthersLocks DEF LocksHeld
<1>4. CASE l = "config"
  <2>1. \/ In(t, "route", {7}) \/ In(t, "models", {6}) \/ In(t, "health", {8})
        \/ In(t, "metrics", {5}) \/ In(t, "live", {13, 15})
    BY <1>1, <1>4, ReadLockPlaces
  <2>2. readers'["config"][t] = readers["config"][t] - 1 /\ readers'["state"][t] = readers["state"][t]
        /\ readers'["telemetry"][t] = readers["telemetry"][t]
    BY <1>2, <1>4 DEF Locks
  <2>3. ReadLocks(t)' /\ readers[l][t] \in 1..2
    BY <1>1, <1>2, <1>4, <2>1, <2>2 DEF ReadLocks, In, ReadsConfig, ReadsState
  <2>4. WriteLocks(t)'
    BY <1>1, <1>2, <2>1 DEF WriteLocks, In, WritesConfig, WritesState, WritesTelemetry
  <2> QED BY <1>3, <2>3, <2>4 DEF LocksHeld
<1>5. CASE l = "state"
  <2>1. \/ In(t, "route", {4}) \/ In(t, "models", {4}) \/ In(t, "health", {4, 7})
        \/ In(t, "bootstrap", {2}) \/ In(t, "end", {3}) \/ In(t, "live", {5, 11, 14})
        \/ In(t, "edit", {4}) \/ In(t, "verification", {3})
    BY <1>1, <1>5, ReadLockPlaces
  <2>2. readers'["state"][t] = readers["state"][t] - 1 /\ readers'["config"][t] = readers["config"][t]
        /\ readers'["telemetry"][t] = readers["telemetry"][t]
    BY <1>2, <1>5 DEF Locks
  <2>3. ReadLocks(t)' /\ readers[l][t] \in 1..2
    BY <1>1, <1>2, <1>5, <2>1, <2>2 DEF ReadLocks, In, ReadsConfig, ReadsState
  <2>4. WriteLocks(t)'
    BY <1>1, <1>2, <2>1 DEF WriteLocks, In, WritesConfig, WritesState, WritesTelemetry
  <2> QED BY <1>3, <2>3, <2>4 DEF LocksHeld
<1> QED BY <1>1, <1>4, <1>5, ReadLockPlaces DEF Locks

LEMMA AcquireStep ==
  ASSUME TypeInv, LocksHeld, NEW t \in Threads, NEW l \in Locks, Acquire(t, l), writer[l] = None
  PROVE  LocksHeld'
<1>1. /\ At(t, "lock", l) /\ Goes(t, pc[t] + 1) /\ writer' = [writer EXCEPT ![l] = t]
      /\ readers' = readers /\ writer \in [Locks -> Threads \cup {None}]
      /\ ReadLocks(t) /\ WriteLocks(t)
  BY DEF Acquire, Step, Goes, TypeInv, TypeOK, LocksHeld
<1>2. /\ kind'[t] = kind[t] /\ pc'[t] = pc[t] + 1
      /\ writer'[l] = t /\ \A k \in Locks : k # l => writer'[k] = writer[k]
  BY <1>1, Frame
<1>3. ASSUME NEW u \in Threads, u # t
      PROVE  ReadLocks(u)' /\ WriteLocks(u)'
  <2>1. \A k \in Locks : readers'[k][u] = readers[k][u] /\ (writer'[k] = u <=> writer[k] = u)
    BY <1>1, <1>2, <1>3, KindOf
  <2> QED BY <1>1, <1>3, <2>1, Frame, OthersLocks DEF LocksHeld
<1>4. CASE l = "config"
  <2>1. In(t, "attach", {1}) \/ In(t, "reload", {1}) \/ In(t, "edit", {6})
    BY <1>1, <1>4, WriteLockPlaces
  <2>2. writer'["config"] = t /\ writer'["state"] = writer["state"]
        /\ writer'["telemetry"] = writer["telemetry"]
    BY <1>2, <1>4 DEF Locks
  <2>3. ReadLocks(t)'
    BY <1>1, <1>2, <2>1 DEF ReadLocks, In, ReadsConfig, ReadsState
  <2>4. WriteLocks(t)'
    BY <1>1, <1>2, <2>1, <2>2 DEF WriteLocks, In, WritesConfig, WritesState, WritesTelemetry
  <2> QED BY <1>3, <2>3, <2>4 DEF LocksHeld
<1>5. CASE l = "state"
  <2>1. \/ In(t, "attach", {2}) \/ In(t, "reload", {4, 7, 11}) \/ In(t, "edit", {9, 12, 16})
        \/ In(t, "verification", {4})
    BY <1>1, <1>5, WriteLockPlaces
  <2>2. writer'["state"] = t /\ writer'["config"] = writer["config"]
        /\ writer'["telemetry"] = writer["telemetry"]
    BY <1>2, <1>5 DEF Locks
  <2>3. ReadLocks(t)'
    BY <1>1, <1>2, <2>1 DEF ReadLocks, In, ReadsConfig, ReadsState
  <2>4. WriteLocks(t)'
    BY <1>1, <1>2, <2>1, <2>2 DEF WriteLocks, In, WritesConfig, WritesState, WritesTelemetry
  <2> QED BY <1>3, <2>3, <2>4 DEF LocksHeld
<1>6. CASE l = "telemetry"
  <2>1. In(t, "metrics", {2}) \/ In(t, "end", {1}) \/ In(t, "live", {6})
    BY <1>1, <1>6, WriteLockPlaces
  <2>2. writer'["telemetry"] = t /\ writer'["config"] = writer["config"]
        /\ writer'["state"] = writer["state"]
    BY <1>2, <1>6 DEF Locks
  <2>3. ReadLocks(t)'
    BY <1>1, <1>2, <2>1 DEF ReadLocks, In, ReadsConfig, ReadsState
  <2>4. WriteLocks(t)'
    BY <1>1, <1>2, <2>1, <2>2 DEF WriteLocks, In, WritesConfig, WritesState, WritesTelemetry
  <2> QED BY <1>3, <2>3, <2>4 DEF LocksHeld
<1> QED BY <1>4, <1>5, <1>6 DEF Locks

LEMMA UnlockStep ==
  ASSUME TypeInv, LocksHeld, NEW t \in Threads, NEW l \in Locks, Unlock(t, l)
  PROVE  LocksHeld' /\ writer[l] = t
<1>1. /\ At(t, "unlock", l) /\ Goes(t, pc[t] + 1) /\ writer' = [writer EXCEPT ![l] = None]
      /\ readers' = readers /\ writer \in [Locks -> Threads \cup {None}]
      /\ ReadLocks(t) /\ WriteLocks(t) /\ t # None
  BY KindOf DEF Unlock, Step, Goes, TypeInv, TypeOK, LocksHeld
<1>2. /\ kind'[t] = kind[t] /\ pc'[t] = pc[t] + 1
      /\ writer'[l] = None /\ \A k \in Locks : k # l => writer'[k] = writer[k]
  BY <1>1, Frame
<1>3. ASSUME writer[l] = t, NEW u \in Threads, u # t
      PROVE  ReadLocks(u)' /\ WriteLocks(u)'
  <2>1. \A k \in Locks : readers'[k][u] = readers[k][u] /\ (writer'[k] = u <=> writer[k] = u)
    BY <1>1, <1>2, <1>3, KindOf
  <2> QED BY <1>1, <1>3, <2>1, Frame, OthersLocks DEF LocksHeld
<1>4. CASE l = "config"
  <2>1. In(t, "attach", {8}) \/ In(t, "reload", {15}) \/ In(t, "edit", {20})
    BY <1>1, <1>4, WriteLockPlaces
  <2>2. writer'["config"] = None /\ writer'["state"] = writer["state"]
        /\ writer'["telemetry"] = writer["telemetry"]
    BY <1>2, <1>4 DEF Locks
  <2>3. ReadLocks(t)'
    BY <1>1, <1>2, <2>1 DEF ReadLocks, In, ReadsConfig, ReadsState
  <2>4. WriteLocks(t)' /\ writer["config"] = t
    BY <1>1, <1>2, <2>1, <2>2 DEF WriteLocks, In, WritesConfig, WritesState, WritesTelemetry
  <2> QED BY <1>3, <1>4, <2>3, <2>4 DEF LocksHeld
<1>5. CASE l = "state"
  <2>1. \/ In(t, "attach", {6}) \/ In(t, "reload", {6, 9, 14}) \/ In(t, "edit", {11, 14, 19})
        \/ In(t, "verification", {6})
    BY <1>1, <1>5, WriteLockPlaces
  <2>2. writer'["state"] = None /\ writer'["config"] = writer["config"]
        /\ writer'["telemetry"] = writer["telemetry"]
    BY <1>2, <1>5 DEF Locks
  <2>3. ReadLocks(t)'
    BY <1>1, <1>2, <2>1 DEF ReadLocks, In, ReadsConfig, ReadsState
  <2>4. WriteLocks(t)' /\ writer["state"] = t
    BY <1>1, <1>2, <2>1, <2>2 DEF WriteLocks, In, WritesConfig, WritesState, WritesTelemetry
  <2> QED BY <1>3, <1>5, <2>3, <2>4 DEF LocksHeld
<1>6. CASE l = "telemetry"
  <2>1. In(t, "metrics", {3}) \/ In(t, "end", {4}) \/ In(t, "live", {7})
    BY <1>1, <1>6, WriteLockPlaces
  <2>2. writer'["telemetry"] = None /\ writer'["config"] = writer["config"]
        /\ writer'["state"] = writer["state"]
    BY <1>2, <1>6 DEF Locks
  <2>3. ReadLocks(t)'
    BY <1>1, <1>2, <2>1 DEF ReadLocks, In, ReadsConfig, ReadsState
  <2>4. WriteLocks(t)' /\ writer["telemetry"] = t
    BY <1>1, <1>2, <2>1, <2>2 DEF WriteLocks, In, WritesConfig, WritesState, WritesTelemetry
  <2> QED BY <1>3, <1>6, <2>3, <2>4 DEF LocksHeld
<1> QED BY <1>4, <1>5, <1>6 DEF Locks

(* The steps on the data take and give back no lock, but for the check     *)
(* that fails, which gives back configMu.                                  *)
DataStep(t) ==
  \/ ReadData(t) \/ WriteRunners(t) \/ WritePart(t)
  \/ GetResources(t) \/ GetConfig(t) \/ CheckResources(t)

DataPlace(t) ==
  \/ In(t, "route", {3, 5, 6}) \/ In(t, "models", {3, 5}) \/ In(t, "health", {3, 6})
  \/ In(t, "metrics", {4}) \/ In(t, "live", {4, 10, 12}) \/ In(t, "attach", {3, 4, 5, 7})
  \/ In(t, "reload", {2, 5, 8, 10, 12, 13}) \/ In(t, "edit", {1, 3, 5, 7, 10, 13, 15, 17, 18})
  \/ In(t, "verification", {2, 5}) \/ In(t, "close", {1})

LEMMA DataMoves ==
  ASSUME TypeInv, NEW t \in Threads, DataStep(t)
  PROVE  /\ UNCHANGED <<readers, writer, waiting>>
         /\ \/ Goes(t, pc[t] + 1)
            \/ Goes(t, 21) /\ In(t, "edit", {5})
         /\ DataPlace(t)
<1>1. CASE ReadData(t) \/ WriteRunners(t)
  <2>1. At(t, "read", "runners") \/ At(t, "read", "models") \/ At(t, "write", "runners")
    BY <1>1 DEF ReadData, WriteRunners, Cells
  <2>2. DataPlace(t)
    BY <2>1, CellPlaces DEF DataPlace, In
  <2> QED BY <1>1, <2>2 DEF ReadData, WriteRunners, Step, Goes
<1>2. CASE WritePart(t)
  <2>1. PICK x \in Parts : At(t, "write", x) /\ Step(t)
    BY <1>2 DEF WritePart
  <2>2. DataPlace(t)
    BY <2>1, DataPlaces DEF Parts, DataPlace, In
  <2> QED BY <1>2, <2>1, <2>2 DEF WritePart, Step, Goes
<1>3. CASE GetResources(t) \/ GetConfig(t)
  BY <1>3, DataPlaces DEF GetResources, GetConfig, Step, Goes, DataPlace, In
<1>4. CASE CheckResources(t)
  <2>1. In(t, "edit", {5})
    BY <1>4, DataPlaces DEF CheckResources
  <2>2. Len(Steps(t)) = 20
    BY <2>1, StepsOf, EditSteps DEF In
  <2> QED BY <1>4, <2>1, <2>2 DEF CheckResources, Step, Fail, Goes, DataPlace, In
<1> QED BY <1>1, <1>2, <1>3, <1>4 DEF DataStep

LEMMA DataLocks ==
  ASSUME TypeInv, LocksHeld, NEW t \in Threads, DataStep(t)
  PROVE  LocksHeld'
<1>1. \A u \in Threads : ReadLocks(u) /\ WriteLocks(u)
  BY DEF LocksHeld
<1>2. UNCHANGED <<readers, writer>>
  BY DataMoves
<1>3. ASSUME NEW u \in Threads, u # t
      PROVE  ReadLocks(u)' /\ WriteLocks(u)'
  BY <1>1, <1>2, <1>3, DataMoves, Frame, OthersLocks
<1>4. kind'[t] = kind[t] /\ (pc'[t] = pc[t] + 1 \/ (pc'[t] = 21 /\ In(t, "edit", {5})))
  BY DataMoves, Frame
<1>5. DataPlace(t)
  BY DataMoves
<1>6. ReadLocks(t)'
  BY <1>1, <1>2, <1>4, <1>5 DEF DataPlace, ReadLocks, In, ReadsConfig, ReadsState
<1>7. WriteLocks(t)'
  BY <1>1, <1>2, <1>4, <1>5 DEF DataPlace, WriteLocks, In, WritesConfig, WritesState, WritesTelemetry
<1> QED BY <1>3, <1>6, <1>7 DEF LocksHeld

LEMMA CheckMoves ==
  ASSUME TypeInv, NEW t \in Threads, CheckProviders(t)
  PROVE  /\ In(t, "reload", {3}) \/ In(t, "edit", {8})
         /\ UNCHANGED <<kind, readers, waiting, part, size, resources, draft>>
         /\ \/ Goes(t, pc[t] + 1) /\ writer' = writer
            \/ /\ Goes(t, IF kind[t] = "reload" THEN 16 ELSE 21)
               /\ writer' = [writer EXCEPT !["config"] = None]
<1>1. In(t, "reload", {3}) \/ In(t, "edit", {8})
  BY DataPlaces DEF CheckProviders
<1>2. Len(Steps(t)) = IF kind[t] = "reload" THEN 15 ELSE 20
  BY <1>1, StepsOf, EditSteps, ReloadSteps DEF In
<1> QED BY <1>1, <1>2 DEF CheckProviders, Step, Fail, Goes

LEMMA CheckLocks ==
  ASSUME TypeInv, LocksHeld, NEW t \in Threads, CheckProviders(t)
  PROVE  LocksHeld' /\ writer["config"] = t
<1>1. /\ \A u \in Threads : ReadLocks(u) /\ WriteLocks(u)
      /\ writer \in [Locks -> Threads \cup {None}] /\ t # None
  BY KindOf DEF LocksHeld, TypeInv, TypeOK
<1>2. (In(t, "reload", {3}) \/ In(t, "edit", {8})) /\ readers' = readers
  BY CheckMoves
<1>3. writer["config"] = t /\ writer["state"] # t /\ writer["telemetry"] # t
  BY <1>1, <1>2 DEF WriteLocks, In, WritesConfig, WritesState, WritesTelemetry
<1>4. writer' = writer \/ writer' = [writer EXCEPT !["config"] = None]
  BY CheckMoves
<1>5. \A u \in Threads : u # t => kind'[u] = kind[u] /\ pc'[u] = pc[u]
  BY CheckMoves, Frame
<1>6. ASSUME NEW u \in Threads, u # t
      PROVE  ReadLocks(u)' /\ WriteLocks(u)'
  <2>1. \A k \in Locks : readers'[k][u] = readers[k][u] /\ (writer'[k] = u <=> writer[k] = u)
    BY <1>1, <1>2, <1>3, <1>4, <1>6, KindOf
  <2> QED BY <1>1, <1>5, <1>6, <2>1, OthersLocks
<1>7. /\ writer'["state"] = writer["state"] /\ writer'["telemetry"] = writer["telemetry"]
      /\ kind'[t] = kind[t]
      /\ \/ pc'[t] = pc[t] + 1 /\ writer'["config"] = t
         \/ pc'[t] = (IF kind[t] = "reload" THEN 16 ELSE 21) /\ writer'["config"] = None
  <2>1. CASE Goes(t, pc[t] + 1) /\ writer' = writer
    BY <1>3, <2>1, Frame
  <2>2. CASE Goes(t, IF kind[t] = "reload" THEN 16 ELSE 21) /\ writer' = [writer EXCEPT !["config"] = None]
    <3>1. writer'["config"] = None /\ writer'["state"] = writer["state"]
          /\ writer'["telemetry"] = writer["telemetry"]
      BY <1>1, <2>2 DEF Locks
    <3> QED BY <2>2, <3>1, Frame
  <2> QED BY <2>1, <2>2, CheckMoves
<1>8. ReadLocks(t)'
  BY <1>1, <1>2, <1>7 DEF ReadLocks, In, ReadsConfig, ReadsState
<1>9. WriteLocks(t)'
  BY <1>1, <1>2, <1>3, <1>7 DEF WriteLocks, In, WritesConfig, WritesState, WritesTelemetry
<1> QED BY <1>3, <1>6, <1>8, <1>9 DEF LocksHeld

-----------------------------------------------------------------------------
(* Types.                                                                  *)

(* TypeInv without its last fact, which LockInv implies. *)
Fields ==
  /\ pc \in [Threads -> Nat \ {0}]
  /\ readers \in [Locks -> [Threads -> 0..2]]
  /\ writer \in [Locks -> Threads \cup {None}] /\ waiting \in [Locks -> Threads \cup {None}]
  /\ part \in [Parts -> Threads \cup {None}] /\ size \in Nat
  /\ kind \in [Threads -> DOMAIN Program] /\ \A t \in Threads : kind[t] \in Kinds(t)

LEMMA FieldsSuffice ==
  /\ TypeInv => Fields
  /\ Fields /\ (\A l \in Locks : LockInv(l)) => TypeInv
BY DEF Fields, TypeInv, TypeOK, LockInv

LEMMA FieldsSufficeNext == Fields' /\ (\A l \in Locks : LockInv(l)') => TypeInv'
BY DEF Fields, TypeInv, TypeOK, LockInv, NoReaders

LEMMA FieldsMove ==
  ASSUME Fields, NEW t \in Threads, NEW n \in Nat \ {0}, Goes(t, n)
  PROVE  /\ pc' \in [Threads -> Nat \ {0}]
         /\ kind' \in [Threads -> DOMAIN Program] /\ \A u \in Threads : kind'[u] \in Kinds(u)
BY DEF Fields, Goes

LEMMA FieldsOfLockStep ==
  ASSUME TypeInv, LocksHeld, NEW t \in Threads, NEW l \in Locks,
         RLock(t, l) \/ RUnlock(t, l) \/ Announce(t, l) \/ Acquire(t, l) \/ Unlock(t, l)
  PROVE  Fields'
<1>1. Fields /\ pc[t] + 1 \in Nat \ {0}
  <2>1. Fields
    BY FieldsSuffice
  <2> QED BY <2>1 DEF Fields
<1>2. CASE RLock(t, l)
  <2>1. readers[l][t] \in 0..1 /\ Goes(t, pc[t] + 1) /\ readers' = [readers EXCEPT ![l][t] = @ + 1]
        /\ UNCHANGED <<writer, waiting, part, size>>
    BY <1>2, RLockStep DEF RLock, Step, Goes
  <2>2. readers[l][t] + 1 \in 0..2
    BY <2>1
  <2>3. readers' \in [Locks -> [Threads -> 0..2]]
    BY <1>1, <2>1, <2>2 DEF Fields
  <2> QED BY <1>1, <2>1, <2>3, FieldsMove DEF Fields
<1>3. CASE RUnlock(t, l)
  <2>1. readers[l][t] \in 1..2 /\ Goes(t, pc[t] + 1) /\ readers' = [readers EXCEPT ![l][t] = @ - 1]
        /\ UNCHANGED <<writer, waiting, part, size>>
    BY <1>3, RUnlockStep DEF RUnlock, Step, Goes
  <2>2. readers[l][t] - 1 \in 0..2
    BY <2>1
  <2>3. readers' \in [Locks -> [Threads -> 0..2]]
    BY <1>1, <2>1, <2>2 DEF Fields
  <2> QED BY <1>1, <2>1, <2>3, FieldsMove DEF Fields
<1>4. CASE Announce(t, l)
  BY <1>1, <1>4 DEF Announce, Fields
<1>5. CASE Acquire(t, l)
  <2>1. Goes(t, pc[t] + 1) /\ writer' = [writer EXCEPT ![l] = t] /\ waiting' = [waiting EXCEPT ![l] = None]
        /\ UNCHANGED <<readers, part, size>>
    BY <1>5 DEF Acquire, Step, Goes
  <2> QED BY <1>1, <2>1, FieldsMove DEF Fields
<1>6. CASE Unlock(t, l)
  <2>1. Goes(t, pc[t] + 1) /\ writer' = [writer EXCEPT ![l] = None]
        /\ UNCHANGED <<readers, waiting, part, size>>
    BY <1>6 DEF Unlock, Step, Goes
  <2> QED BY <1>1, <2>1, FieldsMove DEF Fields
<1> QED BY <1>2, <1>3, <1>4, <1>5, <1>6

LEMMA FieldsOfDataStep ==
  ASSUME TypeInv, NEW t \in Threads, DataStep(t)
  PROVE  Fields'
<1>1. Fields /\ pc[t] + 1 \in Nat \ {0}
  <2>1. Fields
    BY FieldsSuffice
  <2> QED BY <2>1 DEF Fields
<1>2. UNCHANGED <<readers, writer, waiting>> /\ (Goes(t, pc[t] + 1) \/ Goes(t, 21))
  BY DataMoves
<1>3. part' \in [Parts -> Threads \cup {None}] /\ size' \in Nat
  BY <1>1 DEF DataStep, ReadData, WriteRunners, WritePart, GetResources, GetConfig, CheckResources, Fields
<1>4. 21 \in Nat \ {0}
  OBVIOUS
<1> QED BY <1>1, <1>2, <1>3, <1>4, FieldsMove DEF Fields

LEMMA FieldsOfCheck ==
  ASSUME TypeInv, NEW t \in Threads, CheckProviders(t)
  PROVE  Fields'
<1>1. Fields /\ pc[t] + 1 \in Nat \ {0}
  <2>1. Fields
    BY FieldsSuffice
  <2> QED BY <2>1 DEF Fields
<1>2. UNCHANGED <<readers, waiting, part, size>>
      /\ (Goes(t, pc[t] + 1) \/ Goes(t, IF kind[t] = "reload" THEN 16 ELSE 21))
      /\ (writer' = writer \/ writer' = [writer EXCEPT !["config"] = None])
  BY CheckMoves
<1>3. (IF kind[t] = "reload" THEN 16 ELSE 21) \in Nat \ {0}
  OBVIOUS
<1> QED BY <1>1, <1>2, <1>3, FieldsMove DEF Fields

-----------------------------------------------------------------------------
(* The locks.                                                              *)

Exclusive == \A l \in Locks : LockInv(l)

(* Who waits for a lock still does when another goroutine, or one at       *)
(* another kind of step, moves.                                            *)
LEMMA WaitersStay ==
  ASSUME TypeInv, NEW l \in Locks, LockInv(l), NEW t \in Threads, NEW n, Goes(t, n),
         waiting'[l] = waiting[l], waiting[l] # t
  PROVE  waiting'[l] # None => At(waiting[l], "lock", l)'
<1> SUFFICES ASSUME waiting'[l] # None
             PROVE  At(waiting[l], "lock", l)'
  OBVIOUS
<1> DEFINE u == waiting[l]
<1>1. u \in Threads /\ u # t /\ At(u, "lock", l)
  BY DEF TypeInv, TypeOK, LockInv
<1>2. waiting'[l] = u
  OBVIOUS
<1> HIDE DEF u
<1>3. kind'[u] = kind[u] /\ pc'[u] = pc[u]
  BY <1>1, Frame
<1> QED BY <1>1, <1>2, <1>3 DEF At, Done, Steps, u

LEMMA NotWaiting ==
  ASSUME NEW l \in Locks, LockInv(l), NEW t \in Threads, t # None, NEW o, NEW x, At(t, o, x), o # "lock" \/ x # l
  PROVE  waiting[l] # t
BY OneStep DEF LockInv

LEMMA LockStepExclusive ==
  ASSUME TypeInv, LocksHeld, Exclusive, NEW t \in Threads, NEW k \in Locks,
         RLock(t, k) \/ RUnlock(t, k) \/ Announce(t, k) \/ Acquire(t, k) \/ Unlock(t, k)
  PROVE  Exclusive'
<1> SUFFICES ASSUME NEW l \in Locks
             PROVE  LockInv(l)'
  BY DEF Exclusive
<1>1. LockInv(l) /\ LockInv(k) /\ t # None
  BY KindOf DEF Exclusive
<1>2. /\ readers \in [Locks -> [Threads -> 0..2]]
      /\ writer \in [Locks -> Threads \cup {None}] /\ waiting \in [Locks -> Threads \cup {None}]
  BY DEF TypeInv, TypeOK
<1>3. CASE RLock(t, k)
  <2>1. Goes(t, pc[t] + 1) /\ At(t, "rlock", k) /\ Free(k) /\ UNCHANGED <<writer, waiting>>
        /\ readers' = [readers EXCEPT ![k][t] = @ + 1]
    BY <1>3 DEF RLock, Step, Goes
  <2>2. waiting'[l] # None => At(waiting[l], "lock", l)'
    BY <1>1, <2>1, NotWaiting, WaitersStay
  <2>3. CASE l = k
    BY <2>1, <2>2, <2>3 DEF LockInv, Free
  <2>4. CASE l # k
    <3>1. readers'[l] = readers[l]
      BY <1>2, <2>1, <2>4
    <3> QED BY <1>1, <2>1, <2>2, <3>1 DEF LockInv, NoReaders
  <2> QED BY <2>3, <2>4
<1>4. CASE RUnlock(t, k)
  <2>1. Goes(t, pc[t] + 1) /\ At(t, "runlock", k) /\ UNCHANGED <<writer, waiting>>
        /\ readers' = [readers EXCEPT ![k][t] = @ - 1] /\ readers[k][t] \in 1..2
    BY <1>4, RUnlockStep DEF RUnlock, Step, Goes
  <2>2. waiting'[l] # None => At(waiting[l], "lock", l)'
    BY <1>1, <2>1, NotWaiting, WaitersStay
  <2>3. CASE l = k
    <3>1. writer[k] = None
      BY <1>1, <2>1 DEF LockInv, NoReaders
    <3> QED BY <2>1, <2>2, <2>3, <3>1 DEF LockInv
  <2>4. CASE l # k
    <3>1. readers'[l] = readers[l]
      BY <1>2, <2>1, <2>4
    <3> QED BY <1>1, <2>1, <2>2, <3>1 DEF LockInv, NoReaders
  <2> QED BY <2>3, <2>4
<1>5. CASE Announce(t, k)
  <2>1. At(t, "lock", k) /\ Free(k) /\ waiting' = [waiting EXCEPT ![k] = t]
        /\ UNCHANGED <<kind, pc, readers, writer>>
    BY <1>5 DEF Announce
  <2>2. CASE l = k
    <3>1. waiting'[k] = t /\ writer'[k] = None
      BY <1>2, <2>1 DEF Free
    <3> QED BY <2>1, <2>2, <3>1 DEF LockInv, At, Done, Steps
  <2>3. CASE l # k
    <3>1. waiting'[l] = waiting[l]
      BY <1>2, <2>1, <2>3
    <3> QED BY <1>1, <2>1, <3>1 DEF LockInv, NoReaders, At, Done, Steps
  <2> QED BY <2>2, <2>3
<1>6. CASE Acquire(t, k)
  <2>1. Goes(t, pc[t] + 1) /\ At(t, "lock", k) /\ NoReaders(k) /\ readers' = readers
        /\ waiting' = [waiting EXCEPT ![k] = None] /\ writer' = [writer EXCEPT ![k] = t]
    BY <1>6 DEF Acquire, Step, Goes
  <2>2. CASE l = k
    <3>1. waiting'[k] = None
      BY <1>2, <2>1
    <3> QED BY <2>1, <2>2, <3>1 DEF LockInv, NoReaders
  <2>3. CASE l # k
    <3>1. waiting'[l] = waiting[l] /\ writer'[l] = writer[l]
      BY <1>2, <2>1, <2>3
    <3>2. waiting'[l] # None => At(waiting[l], "lock", l)'
      BY <1>1, <2>1, <2>3, <3>1, NotWaiting, WaitersStay
    <3> QED BY <1>1, <2>1, <3>1, <3>2 DEF LockInv, NoReaders
  <2> QED BY <2>2, <2>3
<1>7. CASE Unlock(t, k)
  <2>1. Goes(t, pc[t] + 1) /\ At(t, "unlock", k) /\ UNCHANGED <<readers, waiting>>
        /\ writer' = [writer EXCEPT ![k] = None]
    BY <1>7 DEF Unlock, Step, Goes
  <2>2. waiting'[l] # None => At(waiting[l], "lock", l)'
    BY <1>1, <2>1, NotWaiting, WaitersStay
  <2>3. writer'[l] # None => writer'[l] = writer[l]
    BY <1>2, <2>1
  <2> QED BY <1>1, <2>1, <2>2, <2>3 DEF LockInv, NoReaders
<1> QED BY <1>3, <1>4, <1>5, <1>6, <1>7

(* A step on the data is at no Lock. *)
LEMMA DataOp ==
  ASSUME NEW t, DataStep(t)
  PROVE  \E o \in {"read", "write", "get", "check"} :
           \E x \in Parts \cup {"runners", "resources", "config"} :
             At(t, o, x) /\ ((o = "write" /\ x \in Parts) => WritePart(t))
BY DEF DataStep, ReadData, WriteRunners, WritePart, GetResources, GetConfig, CheckResources, Parts, Cells

LEMMA DataStepExclusive ==
  ASSUME TypeInv, LocksHeld, Exclusive, NEW t \in Threads, DataStep(t) \/ CheckProviders(t)
  PROVE  Exclusive'
<1> SUFFICES ASSUME NEW l \in Locks
             PROVE  LockInv(l)'
  BY DEF Exclusive
<1>1. LockInv(l) /\ t # None /\ writer \in [Locks -> Threads \cup {None}]
  BY KindOf DEF Exclusive, TypeInv, TypeOK
<1>2. \E o \in {"read", "write", "get", "check"} : \E x : At(t, o, x)
  BY DataOp DEF CheckProviders
<1>3. waiting[l] # t
  BY <1>1, <1>2, NotWaiting
<1>4. UNCHANGED <<readers, waiting>> /\ \E n : Goes(t, n)
  BY DataMoves, CheckMoves
<1>5. writer'[l] # None => writer'[l] = writer[l]
  BY <1>1, DataMoves, CheckMoves
<1>6. waiting'[l] # None => At(waiting[l], "lock", l)'
  BY <1>1, <1>3, <1>4, WaitersStay
<1> QED BY <1>1, <1>4, <1>5, <1>6 DEF LockInv, NoReaders

-----------------------------------------------------------------------------
(* The parts of the configuration.                                         *)

(* What the places where a part is written, or resources are checked, do.  *)
LEMMA PlacesOfData ==
  ASSUME NEW t
  PROVE
    /\ In(t, "attach", {4}) \/ In(t, "reload", {5}) \/ In(t, "edit", {10}) => At(t, "write", "providers")
    /\ In(t, "attach", {7}) \/ In(t, "reload", {8}) \/ In(t, "edit", {13}) => At(t, "write", "catalog")
    /\ In(t, "attach", {5}) \/ In(t, "reload", {12}) \/ In(t, "edit", {17}) => At(t, "write", "models")
    /\ In(t, "reload", {13}) \/ In(t, "edit", {18}) => At(t, "write", "tables")
    /\ In(t, "edit", {5}) => At(t, "check", "resources")
<1>1. /\ In(t, "attach", {4}) => At(t, "write", "providers")
      /\ In(t, "attach", {5}) => At(t, "write", "models")
      /\ In(t, "attach", {7}) => At(t, "write", "catalog")
  BY StepsOf, AttachSteps DEF In, At, Done
<1>2. /\ In(t, "reload", {5}) => At(t, "write", "providers")
      /\ In(t, "reload", {8}) => At(t, "write", "catalog")
      /\ In(t, "reload", {12}) => At(t, "write", "models")
      /\ In(t, "reload", {13}) => At(t, "write", "tables")
  BY StepsOf, ReloadSteps DEF In, At, Done
<1>3. /\ In(t, "edit", {10}) => At(t, "write", "providers")
      /\ In(t, "edit", {13}) => At(t, "write", "catalog")
      /\ In(t, "edit", {17}) => At(t, "write", "models")
      /\ In(t, "edit", {18}) => At(t, "write", "tables")
      /\ In(t, "edit", {5}) => At(t, "check", "resources")
  BY StepsOf, EditSteps DEF In, At, Done
<1> QED BY <1>1, <1>2, <1>3

(* A step that writes no part neither starts nor ends a change. *)
LEMMA PartKept ==
  ASSUME TypeInv, PartInv, NEW t \in Threads, part' = part,
         \/ Goes(t, pc[t] + 1) /\ \A x \in Parts : ~ At(t, "write", x)
         \/ Goes(t, 16) /\ In(t, "reload", {3})
         \/ Goes(t, 21) /\ In(t, "edit", {5, 8})
  PROVE  PartInv'
<1>1. \A u \in Threads : u # t => kind'[u] = kind[u] /\ pc'[u] = pc[u]
  BY Frame
<1>2. pc[t] \in Nat /\ kind'[t] = kind[t]
      /\ \/ pc'[t] = pc[t] + 1 /\ \A x \in Parts : ~ At(t, "write", x)
         \/ pc'[t] = 16 /\ In(t, "reload", {3})
         \/ pc'[t] = 21 /\ In(t, "edit", {5, 8})
  BY Frame, KindOf
<1>3. (\A x \in Parts : ~ At(t, "write", x)) =>
        ~ (In(t, "attach", {4, 5, 7}) \/ In(t, "reload", {5, 8, 12, 13}) \/ In(t, "edit", {10, 13, 17, 18}))
  BY PlacesOfData DEF Parts, In
<1>4. /\ Changing(t)' <=> Changing(t)
      /\ CatalogDone(t)' => CatalogDone(t)
      /\ ModelsDone(t)' => ModelsDone(t)
  <2>1. CASE pc'[t] = pc[t] + 1 /\ \A x \in Parts : ~ At(t, "write", x)
    BY <1>2, <1>3, <2>1 DEF Changing, CatalogDone, ModelsDone, In
  <2>2. CASE pc'[t] = 16 /\ In(t, "reload", {3})
    BY <1>2, <2>2 DEF Changing, CatalogDone, ModelsDone, In
  <2>3. CASE pc'[t] = 21 /\ In(t, "edit", {5, 8})
    BY <1>2, <2>3 DEF Changing, CatalogDone, ModelsDone, In
  <2> QED BY <1>2, <2>1, <2>2, <2>3
<1>5. \A u \in Threads :
        /\ Changing(u)' <=> Changing(u)
        /\ CatalogDone(u)' => CatalogDone(u)
        /\ ModelsDone(u)' => ModelsDone(u)
  BY <1>1, <1>4 DEF Changing, CatalogDone, ModelsDone, In
<1> QED BY <1>5 DEF PartInv, Agreed

LEMMA ChangingHolds ==
  ASSUME LocksHeld, NEW t \in Threads, Changing(t)
  PROVE  writer["config"] = t
<1>1. WritesConfig(t)
  BY DEF Changing, WritesConfig, In
<1> QED BY <1>1 DEF LocksHeld, WriteLocks

(* The holder of configMu writes a part. *)
LEMMA PartChanged ==
  ASSUME TypeInv, LocksHeld, PartInv, NEW t \in Threads, NEW x \in Parts, At(t, "write", x),
         Goes(t, pc[t] + 1), part' = [part EXCEPT ![x] = t], kind[t] # "verification"
  PROVE  PartInv'
<1>2. /\ "providers" \in Parts /\ "catalog" \in Parts /\ "tables" \in Parts /\ "models" \in Parts
      /\ part \in [Parts -> Threads \cup {None}] /\ pc[t] \in Nat
  BY KindOf DEF TypeInv, TypeOK, Parts
<1>3. kind'[t] = kind[t] /\ pc'[t] = pc[t] + 1
      /\ \A u \in Threads : u # t => kind'[u] = kind[u] /\ pc'[u] = pc[u]
  BY Frame
<1>4. writer["config"] = t
  <2>1. WritesConfig(t)
    BY DataPlaces DEF Parts, WritesConfig, In
  <2> QED BY <2>1 DEF LocksHeld, WriteLocks
<1>5. \A u \in Threads : u # t => ~ Changing(u)'
  <2>1. \A u \in Threads : u # t => ~ Changing(u)
    BY <1>4, ChangingHolds
  <2> QED BY <1>3, <2>1 DEF Changing, In
<1>6. \A u \in Threads : CatalogDone(u)' \/ ModelsDone(u)' => Changing(u)'
  BY DEF Changing, CatalogDone, ModelsDone, In
<1>7. CASE x = "providers"
  <2>1. In(t, "attach", {4}) \/ In(t, "reload", {5}) \/ In(t, "edit", {10})
    BY <1>7, DataPlaces
  <2>2. part'["providers"] = t
    BY <1>2, <1>7
  <2>3. Changing(t)' /\ ~ CatalogDone(t)' /\ ~ ModelsDone(t)'
    BY <1>3, <2>1 DEF Changing, CatalogDone, ModelsDone, In
  <2> QED BY <1>5, <1>6, <2>2, <2>3 DEF PartInv
<1>8. CASE x = "catalog"
  <2>1. In(t, "attach", {7}) \/ In(t, "reload", {8}) \/ In(t, "edit", {13})
    BY <1>8, DataPlaces
  <2>2. part'["catalog"] = t /\ part'["providers"] = part["providers"] /\ part'["models"] = part["models"]
    BY <1>2, <1>8
  <2>3. Changing(t) /\ ~ ModelsDone(t)'
    BY <1>3, <2>1 DEF Changing, ModelsDone, In
  <2>4. part'["providers"] = t
    BY <2>2, <2>3 DEF PartInv
  <2>5. Changing(t)' \/ (t \notin Editors \cup Reloaders /\ ModelsDone(t))
    BY <1>3, <2>1, KindOf DEF Changing, ModelsDone, In
  <2>6. ModelsDone(t) => part'["models"] \in Verifiers \cup {t}
    BY <2>2 DEF PartInv
  <2>7. (\A u \in Threads : ~ Changing(u)') => Agreed'
    BY <2>2, <2>4, <2>5, <2>6 DEF Agreed
  <2> QED BY <1>5, <1>6, <2>2, <2>3, <2>4, <2>7 DEF PartInv
<1>9. CASE x = "models"
  <2>1. In(t, "attach", {5}) \/ In(t, "reload", {12}) \/ In(t, "edit", {17})
    BY <1>9, DataPlaces DEF In
  <2>2. /\ part'["models"] = t /\ part'["providers"] = part["providers"]
        /\ part'["catalog"] = part["catalog"]
    BY <1>2, <1>9
  <2>3. Changing(t) /\ Changing(t)' /\ (CatalogDone(t)' => CatalogDone(t))
    BY <1>3, <2>1 DEF Changing, CatalogDone, In
  <2> QED BY <1>5, <1>6, <2>2, <2>3 DEF PartInv
<1>10. CASE x = "tables"
  <2>1. In(t, "reload", {13}) \/ In(t, "edit", {18})
    BY <1>10, DataPlaces
  <2>2. /\ part'["tables"] = t /\ part'["providers"] = part["providers"]
        /\ part'["catalog"] = part["catalog"] /\ part'["models"] = part["models"]
    BY <1>2, <1>10
  <2>3. Changing(t) /\ CatalogDone(t) /\ ModelsDone(t)
    BY <2>1 DEF Changing, CatalogDone, ModelsDone, In
  <2>4. part'["providers"] = t /\ part'["catalog"] = t /\ part'["models"] \in Verifiers \cup {t}
    BY <2>2, <2>3 DEF PartInv
  <2>5. Agreed'
    BY <2>2, <2>4 DEF Agreed
  <2> QED BY <1>5, <1>6, <2>4, <2>5 DEF PartInv
<1> QED BY <1>7, <1>8, <1>9, <1>10 DEF Parts

(* A verification writes the models whoever holds configMu. *)
LEMMA PartVerified ==
  ASSUME TypeInv, PartInv, NEW t \in Threads, NEW x \in Parts, At(t, "write", x),
         Goes(t, pc[t] + 1), part' = [part EXCEPT ![x] = t], kind[t] = "verification"
  PROVE  PartInv'
<1>1. x = "models" /\ t \in Verifiers
  BY DataPlaces, KindOf DEF Parts, In
<1>2. /\ part'["models"] = t /\ part'["providers"] = part["providers"]
      /\ part'["catalog"] = part["catalog"] /\ part'["tables"] = part["tables"]
  <2>1. part \in [Parts -> Threads \cup {None}]
    BY DEF TypeInv, TypeOK
  <2> QED BY <1>1, <2>1 DEF Parts
<1>3. \A u \in Threads :
        /\ Changing(u)' <=> Changing(u)
        /\ CatalogDone(u)' => CatalogDone(u)
  <2>1. kind'[t] = kind[t] /\ \A u \in Threads : u # t => kind'[u] = kind[u] /\ pc'[u] = pc[u]
    BY Frame
  <2> QED BY <2>1 DEF Changing, CatalogDone, In
<1> QED BY <1>1, <1>2, <1>3 DEF PartInv, Agreed

LEMMA PartWritten ==
  ASSUME TypeInv, LocksHeld, PartInv, NEW t \in Threads, WritePart(t)
  PROVE  PartInv'
<1>1. PICK x \in Parts : /\ At(t, "write", x) /\ Goes(t, pc[t] + 1)
                         /\ part' = [part EXCEPT ![x] = t]
  BY DEF WritePart, Step, Goes
<1> QED BY <1>1, PartChanged, PartVerified

-----------------------------------------------------------------------------
(* The invariant.                                                          *)

LEMMA InitInv == Init => IInv
<1> SUFFICES ASSUME Init PROVE IInv
  OBVIOUS
<1>1. \A t \in Threads : pc[t] = 1 /\ t # None
  BY GoroutinesAssumption DEF Init
<1>2. /\ \A l \in Locks : writer[l] = None /\ waiting[l] = None /\ NoReaders(l)
      /\ \A t \in Threads : \A l \in Locks : readers[l][t] = 0
      /\ \A x \in Parts : part[x] = None
  BY DEF Init, NoReaders
<1>3. TypeInv
  BY <1>2 DEF Init, TypeInv, TypeOK
<1>4. \A t \in Threads : ReadLocks(t) /\ WriteLocks(t)
  <2> SUFFICES ASSUME NEW t \in Threads PROVE ReadLocks(t) /\ WriteLocks(t)
    OBVIOUS
  <2>1. ReadLocks(t)
    BY <1>1, <1>2 DEF Locks, ReadLocks, In, ReadsConfig, ReadsState
  <2>2. WriteLocks(t)
    BY <1>1, <1>2 DEF Locks, WriteLocks, In, WritesConfig, WritesState, WritesTelemetry
  <2> QED BY <2>1, <2>2
<1>5. \A l \in Locks : LockInv(l)
  BY <1>2 DEF LockInv
<1>6. \A t \in Threads : ~ Changing(t) /\ ~ CatalogDone(t) /\ ~ ModelsDone(t)
  BY <1>1 DEF Changing, CatalogDone, ModelsDone, In
<1>7. Agreed
  BY <1>2, GoroutinesAssumption DEF Agreed, Parts, Threads
<1> QED BY <1>3, <1>4, <1>5, <1>6, <1>7 DEF IInv, PartInv

LEMMA NextCases ==
  ASSUME Next
  PROVE  \E t \in Threads :
           \/ \E l \in Locks : RLock(t, l) \/ RUnlock(t, l) \/ Announce(t, l) \/ Acquire(t, l) \/ Unlock(t, l)
           \/ DataStep(t)
           \/ CheckProviders(t)
BY DEF Next, DataStep

LEMMA LockStepInv ==
  ASSUME IInv, NEW t \in Threads, NEW l \in Locks,
         RLock(t, l) \/ RUnlock(t, l) \/ Announce(t, l) \/ Acquire(t, l) \/ Unlock(t, l)
  PROVE  IInv'
<1>1. TypeInv /\ LocksHeld /\ Exclusive /\ PartInv
  BY DEF IInv, LocksHeld, Exclusive
<1>2. Fields' /\ Exclusive'
  BY <1>1, FieldsOfLockStep, LockStepExclusive
<1>3. TypeInv'
  BY <1>2, FieldsSufficeNext DEF Exclusive
<1>4. CASE Announce(t, l)
  <2>1. UNCHANGED <<kind, pc, readers, writer, part>>
    BY <1>4 DEF Announce
  <2>2. LocksHeld'
    BY <1>1, <2>1 DEF LocksHeld, ReadLocks, WriteLocks, In, ReadsConfig, ReadsState,
         WritesConfig, WritesState, WritesTelemetry
  <2>3. PartInv'
    BY <1>1, <2>1 DEF PartInv, Agreed, Changing, CatalogDone, ModelsDone, In
  <2> QED BY <1>2, <1>3, <2>2, <2>3 DEF IInv, LocksHeld, Exclusive
<1>5. CASE RLock(t, l) \/ RUnlock(t, l) \/ Acquire(t, l) \/ Unlock(t, l)
  <2>1. Acquire(t, l) => writer[l] = None
    BY <1>1, KindOf DEF Acquire, Exclusive, LockInv
  <2>2. LocksHeld'
    BY <1>1, <1>5, <2>1, RLockStep, RUnlockStep, AcquireStep, UnlockStep
  <2>3. Goes(t, pc[t] + 1) /\ part' = part
        /\ \E o \in {"rlock", "runlock", "lock", "unlock"} : At(t, o, l)
    BY <1>5 DEF RLock, RUnlock, Acquire, Unlock, Step, Goes
  <2>4. \A x \in Parts : ~ At(t, "write", x)
    BY <2>3, OneStep
  <2>5. PartInv'
    BY <1>1, <2>3, <2>4, PartKept
  <2> QED BY <1>2, <1>3, <2>2, <2>5 DEF IInv, LocksHeld, Exclusive
<1> QED BY <1>4, <1>5

LEMMA DataStepInv ==
  ASSUME IInv, NEW t \in Threads, DataStep(t)
  PROVE  IInv'
<1>1. TypeInv /\ LocksHeld /\ Exclusive /\ PartInv
  BY DEF IInv, LocksHeld, Exclusive
<1>2. Fields' /\ Exclusive' /\ LocksHeld'
  BY <1>1, FieldsOfDataStep, DataStepExclusive, DataLocks
<1>3. TypeInv'
  BY <1>2, FieldsSufficeNext DEF Exclusive
<1>4. PartInv'
  <2>1. CASE WritePart(t)
    BY <1>1, <2>1, PartWritten
  <2>2. CASE ~ WritePart(t)
    <3>1. part' = part
      BY <2>2 DEF DataStep, ReadData, WriteRunners, GetResources, GetConfig, CheckResources
    <3>2. PICK o \in {"read", "write", "get", "check"} : \E x \in Parts \cup {"runners", "resources", "config"} :
             At(t, o, x) /\ ((o = "write" /\ x \in Parts) => WritePart(t))
      BY DataOp
    <3>3. \A x \in Parts : ~ At(t, "write", x)
      BY <2>2, <3>2, OneStep
    <3>4. Goes(t, pc[t] + 1) \/ (Goes(t, 21) /\ In(t, "edit", {5, 8}))
      BY <1>1, DataMoves DEF In
    <3> QED BY <1>1, <3>1, <3>3, <3>4, PartKept
  <2> QED BY <2>1, <2>2
<1> QED BY <1>2, <1>3, <1>4 DEF IInv, LocksHeld, Exclusive

LEMMA CheckInv ==
  ASSUME IInv, NEW t \in Threads, CheckProviders(t)
  PROVE  IInv'
<1>1. TypeInv /\ LocksHeld /\ Exclusive /\ PartInv
  BY DEF IInv, LocksHeld, Exclusive
<1>2. Fields' /\ Exclusive' /\ LocksHeld'
  BY <1>1, FieldsOfCheck, DataStepExclusive, CheckLocks
<1>3. TypeInv'
  BY <1>2, FieldsSufficeNext DEF Exclusive
<1>4. PartInv'
  <2>1. part' = part /\ At(t, "check", "providers")
    BY DEF CheckProviders
  <2>2. \A x \in Parts : ~ At(t, "write", x)
    BY <2>1, OneStep
  <2>3. \/ Goes(t, pc[t] + 1)
        \/ Goes(t, 16) /\ In(t, "reload", {3})
        \/ Goes(t, 21) /\ In(t, "edit", {5, 8})
    BY <1>1, CheckMoves DEF In
  <2> QED BY <1>1, <2>1, <2>2, <2>3, PartKept
<1> QED BY <1>2, <1>3, <1>4 DEF IInv, LocksHeld, Exclusive

LEMMA Inductive == IInv /\ [Next]_vars => IInv'
<1> SUFFICES ASSUME IInv, [Next]_vars PROVE IInv'
  OBVIOUS
<1>1. CASE Next
  BY <1>1, NextCases, LockStepInv, DataStepInv, CheckInv
<1>2. CASE UNCHANGED vars
  BY <1>2 DEF vars, IInv, TypeInv, TypeOK, NoReaders, ReadLocks, WriteLocks, In, ReadsConfig, ReadsState,
       WritesConfig, WritesState, WritesTelemetry, LockInv, At, Done, Steps, PartInv, Agreed, Changing,
       CatalogDone, ModelsDone
<1> QED BY <1>1, <1>2

LEMMA Invariant == Spec => []IInv
BY InitInv, Inductive, PTL DEF Spec

(***************************************************************************)
(* The state of the server has its type whatever goroutines run: nobody    *)
(* holds more than two read locks of one mutex, and a mutex that is held   *)
(* for writing has no reader.                                              *)
(***************************************************************************)
THEOREM TypeCorrect == Spec => []TypeOK
<1>1. IInv => TypeOK
  BY DEF IInv, TypeInv
<1> QED BY <1>1, Invariant, PTL

(***************************************************************************)
(* Whoever holds configMu sees the providers, the catalog and the routing  *)
(* tables of one reload, or those of complete attachments                  *)
(* (AttachProvider, ReloadConfig), however many overlap, and with them the *)
(* models of the same change or those that a verification has put in their *)
(* place, which it may do while the reader holds configMu                  *)
(* (applyModelVerification takes s.mu alone).                              *)
(***************************************************************************)
THEOREM ReadersSeeOneConfig == Spec => []ConfigAtomic
<1>1. IInv => ConfigAtomic
  <2> SUFFICES ASSUME IInv, NEW t \in Threads, readers["config"][t] > 0
               PROVE  Agreed
    BY DEF ConfigAtomic, Agreed
  <2>1. "config" \in Locks /\ readers["config"][t] # 0
    <3>1. "config" \in Locks /\ readers \in [Locks -> [Threads -> 0..2]]
      BY Ops DEF IInv, TypeInv, TypeOK
    <3> QED BY <3>1
  <2>2. writer["config"] = None
    BY <2>1 DEF IInv, LockInv, NoReaders
  <2>3. \A u \in Threads : ~ Changing(u)
    BY <2>2, ChangingHolds, KindOf DEF IInv, LocksHeld
  <2> QED BY <2>3 DEF IInv, PartInv
<1> QED BY <1>1, Invariant, PTL

(***************************************************************************)
(* s.providers is written under configMu and s.mu together, so nobody      *)
(* reads or writes it at the same time: neither the readers that hold      *)
(* configMu alone (routes, metrics, reloads) nor those that hold s.mu      *)
(* alone (providerHealthy, healthSnapshot, the verification worker).  The  *)
(* end of ListenAndServe reads it under neither and is excepted.           *)
(***************************************************************************)
THEOREM NoRaceOnRunners == Spec => []RunnersRaceFree
<1>1. IInv => RunnersRaceFree
  <2> SUFFICES ASSUME IInv, NEW t \in Threads, NEW u \in Threads, t # u, kind[u] # "close",
                      At(t, "write", "runners")
               PROVE  ~ At(u, "read", "runners") /\ ~ At(u, "write", "runners")
    BY DEF RunnersRaceFree, Race
  <2>1. /\ TypeInv /\ ReadLocks(u) /\ WriteLocks(u) /\ WriteLocks(t) /\ t # None
        /\ LockInv("config") /\ LockInv("state")
    BY Ops, KindOf DEF IInv
  <2>2. writer["config"] = t /\ writer["state"] = t
    BY <2>1, CellPlaces DEF WriteLocks, WritesConfig, WritesState, In
  <2>3. readers["config"][u] = 0 /\ readers["state"][u] = 0 /\ ~ WritesConfig(u)
    BY <2>1, <2>2 DEF LockInv, NoReaders, WriteLocks
  <2>4. ~ ReadsConfig(u)
    BY <2>1, <2>3 DEF ReadLocks
  <2>5. ~ ReadsState(u)
    BY <2>1, <2>3 DEF ReadLocks
  <2>6. At(u, "read", "runners") =>
          ReadsConfig(u) \/ ReadsState(u) \/ WritesConfig(u) \/ kind[u] = "close"
    BY <2>1, CellPlaces DEF ReadsConfig, ReadsState, WritesConfig, In
  <2>7. At(u, "write", "runners") => WritesConfig(u)
    BY <2>1, CellPlaces DEF WritesConfig, In
  <2> QED BY <2>3, <2>4, <2>5, <2>6, <2>7
<1> QED BY <1>1, Invariant, PTL

-----------------------------------------------------------------------------
(* Who waits for whom.                                                     *)

Holds(t) == ReadsConfig(t) \/ ReadsState(t) \/ WritesConfig(t) \/ WritesState(t) \/ WritesTelemetry(t)

LEMMA Lengths ==
  ASSUME NEW t
  PROVE
    /\ kind[t] = "route" => Len(Steps(t)) = 7
    /\ kind[t] = "models" => Len(Steps(t)) = 6
    /\ kind[t] = "health" => Len(Steps(t)) = 8
    /\ kind[t] = "metrics" => Len(Steps(t)) = 5
    /\ kind[t] = "bootstrap" => Len(Steps(t)) = 2
    /\ kind[t] = "end" => Len(Steps(t)) = 4
    /\ kind[t] = "live" => Len(Steps(t)) = 15
    /\ kind[t] = "attach" => Len(Steps(t)) = 8
    /\ kind[t] = "reload" => Len(Steps(t)) = 15
    /\ kind[t] = "edit" => Len(Steps(t)) = 20
    /\ kind[t] = "verification" => Len(Steps(t)) = 6
    /\ kind[t] = "close" => Len(Steps(t)) = 1
<1>1. kind[t] = "route" => Len(Steps(t)) = 7
  BY StepsOf, RouteSteps
<1>2. kind[t] = "models" => Len(Steps(t)) = 6
  BY StepsOf, SummariesSteps
<1>3. kind[t] = "health" => Len(Steps(t)) = 8
  BY StepsOf, HealthSteps
<1>4. kind[t] = "metrics" => Len(Steps(t)) = 5
  BY StepsOf, MetricsSteps
<1>5. kind[t] = "bootstrap" => Len(Steps(t)) = 2
  BY StepsOf, EmptySteps
<1>6. kind[t] = "end" => Len(Steps(t)) = 4
  BY StepsOf, EndSteps
<1>7. kind[t] = "live" => Len(Steps(t)) = 15
  BY StepsOf, LiveSteps
<1>8. kind[t] = "attach" => Len(Steps(t)) = 8
  BY StepsOf, AttachSteps
<1>9. kind[t] = "reload" => Len(Steps(t)) = 15
  BY StepsOf, ReloadSteps
<1>10. kind[t] = "edit" => Len(Steps(t)) = 20
  BY StepsOf, EditSteps
<1>11. kind[t] = "verification" => Len(Steps(t)) = 6
  BY StepsOf, VerificationSteps
<1>12. kind[t] = "close" => Len(Steps(t)) = 1
  BY StepsOf, CloseSteps
<1> QED BY <1>1, <1>2, <1>3, <1>4, <1>5, <1>6, <1>7, <1>8, <1>9, <1>10, <1>11, <1>12

(* Every lock is given back before the end. *)
LEMMA HoldersGoOn ==
  ASSUME NEW t, Holds(t)
  PROVE  ~ Done(t)
<1>1. \E k \in AllKinds \ {"close"} : kind[t] = k
  BY DEF Holds, ReadsConfig, ReadsState, WritesConfig, WritesState, WritesTelemetry, In, AllKinds
<1>2. /\ kind[t] = "route" => pc[t] \in Nat /\ pc[t] <= 7
      /\ kind[t] = "models" => pc[t] \in Nat /\ pc[t] <= 6
      /\ kind[t] = "health" => pc[t] \in Nat /\ pc[t] <= 8
      /\ kind[t] = "metrics" => pc[t] \in Nat /\ pc[t] <= 5
      /\ kind[t] = "bootstrap" => pc[t] \in Nat /\ pc[t] <= 2
      /\ kind[t] = "end" => pc[t] \in Nat /\ pc[t] <= 4
      /\ kind[t] = "live" => pc[t] \in Nat /\ pc[t] <= 15
      /\ kind[t] = "attach" => pc[t] \in Nat /\ pc[t] <= 8
      /\ kind[t] = "reload" => pc[t] \in Nat /\ pc[t] <= 15
      /\ kind[t] = "edit" => pc[t] \in Nat /\ pc[t] <= 20
      /\ kind[t] = "verification" => pc[t] \in Nat /\ pc[t] <= 6
  BY DEF Holds, ReadsConfig, ReadsState, WritesConfig, WritesState, WritesTelemetry, In
<1> DEFINE n == Len(Steps(t))
<1>3. /\ kind[t] = "route" => pc[t] \in Nat /\ n = 7 /\ pc[t] <= 7
      /\ kind[t] = "models" => pc[t] \in Nat /\ n = 6 /\ pc[t] <= 6
      /\ kind[t] = "health" => pc[t] \in Nat /\ n = 8 /\ pc[t] <= 8
      /\ kind[t] = "metrics" => pc[t] \in Nat /\ n = 5 /\ pc[t] <= 5
      /\ kind[t] = "bootstrap" => pc[t] \in Nat /\ n = 2 /\ pc[t] <= 2
      /\ kind[t] = "end" => pc[t] \in Nat /\ n = 4 /\ pc[t] <= 4
      /\ kind[t] = "live" => pc[t] \in Nat /\ n = 15 /\ pc[t] <= 15
      /\ kind[t] = "attach" => pc[t] \in Nat /\ n = 8 /\ pc[t] <= 8
      /\ kind[t] = "reload" => pc[t] \in Nat /\ n = 15 /\ pc[t] <= 15
      /\ kind[t] = "edit" => pc[t] \in Nat /\ n = 20 /\ pc[t] <= 20
      /\ kind[t] = "verification" => pc[t] \in Nat /\ n = 6 /\ pc[t] <= 6
  BY <1>2, Lengths
<1> HIDE DEF n
<1>4. pc[t] \in Nat /\ n \in Nat /\ ~ (pc[t] > n)
  BY <1>1, <1>3 DEF AllKinds
<1> QED BY <1>4 DEF Done, n

LEMMA StepsAreOps ==
  ASSUME TypeInv, NEW t \in Threads, ~ Done(t)
  PROVE  Steps(t)[pc[t]] \in Op
<1>1. kind[t] \in AllKinds /\ pc[t] \in Nat \ {0}
  BY KindOf
<1>2. Steps(t) \in Seq(Op)
  <2>1. CASE kind[t] \in {"route", "models", "health", "metrics", "bootstrap", "end"}
    BY <2>1, StepsOf, RouteSteps, SummariesSteps, HealthSteps, MetricsSteps, EmptySteps, EndSteps
  <2>2. CASE kind[t] \in {"live", "attach", "reload", "edit", "verification", "close"}
    BY <2>2, StepsOf, LiveSteps, AttachSteps, ReloadSteps, EditSteps, VerificationSteps, CloseSteps
  <2> QED BY <1>1, <2>1, <2>2 DEF AllKinds
<1>3. pc[t] \in 1..Len(Steps(t))
  BY <1>1, <1>2 DEF Done
<1> QED BY <1>2, <1>3

(* A goroutine that cannot go on is at a lock that is not free. *)
LEMMA WhoWaits ==
  ASSUME TypeInv, NEW t \in Threads, ~ Done(t), ~ Ready(t)
  PROVE  \E l \in Locks :
           /\ ~ Free(l)
           /\ \/ At(t, "rlock", l)
              \/ At(t, "lock", l) /\ ~ (waiting[l] = t /\ NoReaders(l))
<1>1. Steps(t)[pc[t]] \in Op
  BY StepsAreOps
<1>2. PICK o, x : Steps(t)[pc[t]] = <<o, x>> /\ (o \in {"rlock", "lock"} => x \in Locks)
  BY <1>1 DEF Op
<1>3. Steps(t)[pc[t]][1] \in {"rlock", "lock"}
  BY DEF Ready
<1>4. o \in {"rlock", "lock"} /\ x \in Locks /\ At(t, o, x)
  BY <1>2, <1>3 DEF At
<1> QED BY <1>4 DEF Ready

(* Nobody can go on, and no LiveSnapshot has begun and not ended. *)
Stuck == (\A t \in Threads : ~ Ready(t)) /\ (\A t \in Lives : kind[t] = "live" => Done(t) \/ ~ pc[t] > 1)

LEMMA NotInLive ==
  ASSUME TypeInv, Stuck, NEW t \in Threads, Holds(t)
  PROVE  kind[t] # "live"
<1>1. ~ Done(t)
  BY HoldersGoOn
<1>2. ASSUME kind[t] = "live"
      PROVE  FALSE
  <2>1. pc[t] > 1
    BY <1>2 DEF Holds, ReadsConfig, ReadsState, WritesConfig, WritesState, WritesTelemetry, In
  <2>2. t \in Lives
    BY <1>2, KindOf
  <2> QED BY <1>1, <1>2, <2>1, <2>2 DEF Stuck
<1> QED BY <1>2

LEMMA StateFree ==
  ASSUME IInv, Stuck
  PROVE  Free("state")
<1>1. TypeInv /\ LockInv("state") /\ "state" \in Locks /\ \A t \in Threads : ReadLocks(t) /\ WriteLocks(t)
  BY Ops DEF IInv
<1>2. ASSUME NEW t \in Threads, WritesState(t) \/ ReadsState(t)
      PROVE  FALSE
  <2>1. Holds(t)
    BY <1>2 DEF Holds
  <2>2. PICK l \in Locks : At(t, "rlock", l) \/ At(t, "lock", l)
    BY <1>1, <2>1, HoldersGoOn, WhoWaits DEF Stuck
  <2>3. kind[t] # "live"
    BY <1>1, <2>1, NotInLive
  <2>4. CASE At(t, "rlock", l)
    BY <1>1, <1>2, <2>3, <2>4, ReadLockPlaces DEF Locks, WritesState, ReadsState, In
  <2>5. CASE At(t, "lock", l)
    BY <1>1, <1>2, <2>3, <2>5, WriteLockPlaces DEF Locks, WritesState, ReadsState, In
  <2> QED BY <2>2, <2>4, <2>5
<1>3. NoReaders("state")
  <2> SUFFICES ASSUME NEW t \in Threads PROVE readers["state"][t] = 0
    BY DEF NoReaders
  <2>1. ~ ReadsState(t) /\ ReadLocks(t)
    BY <1>1, <1>2
  <2>2. ~ In(t, "live", {4, 5, 10, 11})
    BY <2>1 DEF ReadsState, In
  <2> QED BY <2>1, <2>2 DEF ReadLocks
<1>4. writer["state"] = None
  BY <1>1, <1>2 DEF WriteLocks, TypeInv, TypeOK
<1>5. waiting["state"] = None
  <2> SUFFICES ASSUME waiting["state"] # None PROVE FALSE
    OBVIOUS
  <2>1. waiting["state"] \in Threads /\ At(waiting["state"], "lock", "state")
    BY <1>1 DEF TypeInv, TypeOK, LockInv
  <2>2. Ready(waiting["state"])
    BY <1>1, <1>3, <2>1 DEF Ready
  <2> QED BY <2>1, <2>2 DEF Stuck
<1> QED BY <1>4, <1>5 DEF Free

LEMMA TelemetryFree ==
  ASSUME IInv, Stuck
  PROVE  Free("telemetry")
<1>1. TypeInv /\ LockInv("telemetry") /\ "telemetry" \in Locks
      /\ \A t \in Threads : ReadLocks(t) /\ WriteLocks(t)
  BY Ops DEF IInv
<1>2. ASSUME NEW t \in Threads, WritesTelemetry(t)
      PROVE  FALSE
  <2>1. Holds(t)
    BY <1>2 DEF Holds
  <2>2. PICK l \in Locks : ~ Free(l) /\ (At(t, "rlock", l) \/ At(t, "lock", l))
    BY <1>1, <2>1, HoldersGoOn, WhoWaits DEF Stuck
  <2>3. kind[t] # "live" /\ l # "state"
    BY <1>1, <2>1, <2>2, NotInLive, StateFree
  <2>4. CASE At(t, "rlock", l)
    BY <1>1, <1>2, <2>3, <2>4, ReadLockPlaces DEF Locks, WritesTelemetry, In
  <2>5. CASE At(t, "lock", l)
    BY <1>1, <1>2, <2>3, <2>5, WriteLockPlaces DEF Locks, WritesTelemetry, In
  <2> QED BY <2>2, <2>4, <2>5
<1>3. NoReaders("telemetry")
  BY <1>1 DEF NoReaders, ReadLocks
<1>4. writer["telemetry"] = None
  BY <1>1, <1>2 DEF WriteLocks, TypeInv, TypeOK
<1>5. waiting["telemetry"] = None
  <2> SUFFICES ASSUME waiting["telemetry"] # None PROVE FALSE
    OBVIOUS
  <2>1. waiting["telemetry"] \in Threads /\ At(waiting["telemetry"], "lock", "telemetry")
    BY <1>1 DEF TypeInv, TypeOK, LockInv
  <2>2. Ready(waiting["telemetry"])
    BY <1>1, <1>3, <2>1 DEF Ready
  <2> QED BY <2>1, <2>2 DEF Stuck
<1> QED BY <1>4, <1>5 DEF Free

LEMMA ConfigFree ==
  ASSUME IInv, Stuck
  PROVE  Free("config")
<1>1. TypeInv /\ LockInv("config") /\ "config" \in Locks
      /\ \A t \in Threads : ReadLocks(t) /\ WriteLocks(t)
  BY Ops DEF IInv
<1>2. ASSUME NEW t \in Threads, WritesConfig(t) \/ ReadsConfig(t)
      PROVE  FALSE
  <2>1. Holds(t)
    BY <1>2 DEF Holds
  <2>2. PICK l \in Locks : ~ Free(l) /\ (At(t, "rlock", l) \/ At(t, "lock", l))
    BY <1>1, <2>1, HoldersGoOn, WhoWaits DEF Stuck
  <2>3. kind[t] # "live" /\ l = "config"
    BY <1>1, <2>1, <2>2, NotInLive, StateFree, TelemetryFree DEF Locks
  <2>4. CASE At(t, "rlock", l)
    BY <1>1, <1>2, <2>3, <2>4, ReadLockPlaces DEF WritesConfig, ReadsConfig, In
  <2>5. CASE At(t, "lock", l)
    BY <1>1, <1>2, <2>3, <2>5, WriteLockPlaces DEF WritesConfig, ReadsConfig, In
  <2> QED BY <2>2, <2>4, <2>5
<1>3. NoReaders("config")
  <2> SUFFICES ASSUME NEW t \in Threads PROVE readers["config"][t] = 0
    BY DEF NoReaders
  <2>1. ~ ReadsConfig(t) /\ ReadLocks(t)
    BY <1>1, <1>2
  <2>2. ~ In(t, "live", 9..13)
    BY <2>1 DEF ReadsConfig, In
  <2> QED BY <2>1, <2>2 DEF ReadLocks
<1>4. writer["config"] = None
  BY <1>1, <1>2 DEF WriteLocks, TypeInv, TypeOK
<1>5. waiting["config"] = None
  <2> SUFFICES ASSUME waiting["config"] # None PROVE FALSE
    OBVIOUS
  <2>1. waiting["config"] \in Threads /\ At(waiting["config"], "lock", "config")
    BY <1>1 DEF TypeInv, TypeOK, LockInv
  <2>2. Ready(waiting["config"])
    BY <1>1, <1>3, <2>1 DEF Ready
  <2> QED BY <2>1, <2>2 DEF Stuck
<1> QED BY <1>4, <1>5 DEF Free

(***************************************************************************)
(* configMu, s.mu and the telemetry mutex are taken in an order that       *)
(* cannot close a circle of goroutines that wait for each other, whatever  *)
(* requests, reloads, attachments, edits and verifications overlap: when   *)
(* nobody can go on, either all have ended or one of those that wait is a  *)
(* LiveSnapshot, which takes configMu and s.mu a second time.              *)
(***************************************************************************)
THEOREM OnlyLiveSnapshotStops == Spec => []StuckOnlyInLiveSnapshot
<1>1. IInv => StuckOnlyInLiveSnapshot
  <2> SUFFICES ASSUME IInv, Stuck, NEW t \in Threads
               PROVE  Done(t)
    BY DEF StuckOnlyInLiveSnapshot, Stuck
  <2>1. TypeInv
    BY DEF IInv
  <2>2. \A l \in Locks : Free(l)
    BY ConfigFree, StateFree, TelemetryFree DEF Locks
  <2> QED BY <2>1, <2>2, WhoWaits DEF Stuck
<1> QED BY <1>1, Invariant, PTL

-----------------------------------------------------------------------------
(* Pools and combos.                                                       *)

LEMMA EditedType ==
  ASSUME NEW t \in Editors, NEW res \in Resources
  PROVE  Edited(t, res) \in Resources
<1>1. /\ Edit[t].name \in Names /\ Edit[t].members \in (SUBSET (Names \cup Leaves)) \cup {None}
  BY GoroutinesAssumption
<1> QED BY <1>1 DEF Edited, Resources

LEMMA RecordOf ==
  ASSUME NEW R, NEW d \in [res : R, size : Nat], NEW y
  PROVE  /\ [d EXCEPT !.res = y] = [res |-> y, size |-> d.size]
         /\ [d EXCEPT !.size = y] = [res |-> d.res, size |-> y]
OBVIOUS

(* What a goroutine has closed, unless it has just edited it. *)
Checked(t) == kind[t] = "reload" \/ In(t, "edit", 6..20)

(* Only the check of the control plane leads past it. *)
LEMMA CheckedKept ==
  ASSUME TypeInv, NEW t \in Threads, NEW n, Goes(t, n),
         \/ n = pc[t] + 1 /\ ~ At(t, "check", "resources")
         \/ n \in {16, 21} /\ ~ (n = 16 /\ kind[t] = "edit")
  PROVE  \A u \in Threads : Checked(u)' => Checked(u)
<1>1. \A u \in Threads : u # t => kind'[u] = kind[u] /\ pc'[u] = pc[u]
  BY Frame
<1>2. kind'[t] = kind[t] /\ pc'[t] = n /\ pc[t] \in Nat
  BY Frame, KindOf
<1>3. n = pc[t] + 1 => ~ In(t, "edit", {5})
  BY <1>2, PlacesOfData DEF In
<1>4. Checked(t)' => Checked(t)
  BY <1>2, <1>3 DEF Checked, In
<1> QED BY <1>1, <1>4 DEF Checked, In

LEMMA ResourcesKept ==
  ASSUME ResourcesInv, UNCHANGED <<resources, draft>>, \A u \in Threads : Checked(u)' => Checked(u)
  PROVE  ResourcesInv'
BY DEF ResourcesInv, Checked

LEMMA ResourcesInit == Init /\ Validate(InitResources) => ResourcesInv
<1> SUFFICES ASSUME Init, Validate(InitResources) PROVE ResourcesInv
  OBVIOUS
<1>1. \A t \in Threads : draft[t].res = InitResources
  BY DEF Init
<1>2. draft \in [Threads -> [res : Resources, size : Nat]]
  BY GoroutinesAssumption DEF Init
<1> QED BY <1>1, <1>2, GoroutinesAssumption DEF Init, ResourcesInv

LEMMA ResourcesStep ==
  ASSUME TypeInv, ResourcesInv, [Next]_vars
  PROVE  ResourcesInv'
<1>1. ASSUME NEW t \in Threads, NEW l \in Locks,
             RLock(t, l) \/ RUnlock(t, l) \/ Announce(t, l) \/ Acquire(t, l) \/ Unlock(t, l)
      PROVE  ResourcesInv'
  <2>1. CASE Announce(t, l)
    BY <2>1, ResourcesKept DEF Announce, Checked, In
  <2>2. CASE RLock(t, l) \/ RUnlock(t, l) \/ Acquire(t, l) \/ Unlock(t, l)
    <3>1. Goes(t, pc[t] + 1) /\ UNCHANGED <<resources, draft>>
          /\ \E o \in {"rlock", "runlock", "lock", "unlock"} : At(t, o, l)
      BY <2>2 DEF RLock, RUnlock, Acquire, Unlock, Step, Goes
    <3>2. ~ At(t, "check", "resources")
      BY <3>1, OneStep
    <3> QED BY <3>1, <3>2, CheckedKept, ResourcesKept
  <2> QED BY <1>1, <2>1, <2>2
<1>2. ASSUME NEW t \in Threads, CheckProviders(t)
      PROVE  ResourcesInv'
  <2>1. UNCHANGED <<resources, draft>> /\ ~ At(t, "check", "resources")
    BY <1>2, OneStep DEF CheckProviders
  <2>2. \/ Goes(t, pc[t] + 1)
        \/ Goes(t, 16) /\ kind[t] = "reload"
        \/ Goes(t, 21)
    BY <1>2, CheckMoves DEF In
  <2> QED BY <2>1, <2>2, CheckedKept, ResourcesKept
<1>3. ASSUME NEW t \in Threads, ReadData(t) \/ WriteRunners(t)
      PROVE  ResourcesInv'
  <2>1. UNCHANGED <<resources, draft>> /\ ~ At(t, "check", "resources") /\ Goes(t, pc[t] + 1)
    BY <1>3, OneStep DEF ReadData, WriteRunners, Step, Goes
  <2> QED BY <2>1, CheckedKept, ResourcesKept
<1>4. ASSUME NEW t \in Threads, WritePart(t)
      PROVE  ResourcesInv'
  <2>1. PICK x \in Parts : /\ At(t, "write", x) /\ Goes(t, pc[t] + 1) /\ draft' = draft
                           /\ resources' = IF x = "tables" THEN draft[t].res ELSE resources
    BY <1>4 DEF WritePart, Step, Goes
  <2>2. ~ At(t, "check", "resources")
    BY <2>1, OneStep
  <2>3. \A u \in Threads : Checked(u)' => Checked(u)
    BY <2>1, <2>2, CheckedKept
  <2>4. CASE x = "tables"
    <3>1. Checked(t)
      BY <2>1, <2>4, DataPlaces DEF Checked, In
    <3>2. Validate(draft[t].res) /\ draft[t].res \in Resources
      BY <3>1 DEF ResourcesInv, Checked
    <3> QED BY <2>1, <2>3, <2>4, <3>2 DEF ResourcesInv, Checked
  <2>5. CASE x # "tables"
    BY <2>1, <2>3, <2>5, ResourcesKept
  <2> QED BY <2>4, <2>5
<1>5. ASSUME NEW t \in Threads, GetResources(t)
      PROVE  ResourcesInv'
  <2>1. /\ At(t, "get", "resources") /\ Goes(t, pc[t] + 1) /\ resources' = resources
        /\ draft' = [draft EXCEPT ![t].res = Edited(t, resources)]
    BY <1>5 DEF GetResources, Step, Goes
  <2>2. In(t, "edit", {1}) /\ t \in Editors
    BY <2>1, DataPlaces, KindOf DEF In
  <2>3. Edited(t, resources) \in Resources /\ draft \in [Threads -> [res : Resources, size : Nat]]
    BY <2>2, EditedType DEF ResourcesInv
  <2>4. draft' = [draft EXCEPT ![t] = [res |-> Edited(t, resources), size |-> draft[t].size]]
    <3>1. [draft[t] EXCEPT !.res = Edited(t, resources)]
            = [res |-> Edited(t, resources), size |-> draft[t].size]
      BY <2>3, RecordOf
    <3> QED BY <2>1, <3>1
  <2>5. draft' \in [Threads -> [res : Resources, size : Nat]] /\ \A u \in Threads : u # t => draft'[u] = draft[u]
    BY <2>3, <2>4
  <2>6. \A u \in Threads : Checked(u)' => Checked(u)
    BY <2>1, CheckedKept, OneStep
  <2>7. ~ Checked(t)
    BY <2>2 DEF Checked, In
  <2> QED BY <2>1, <2>5, <2>6, <2>7 DEF ResourcesInv, Checked
<1>6. ASSUME NEW t \in Threads, GetConfig(t)
      PROVE  ResourcesInv'
  <2>1. /\ At(t, "get", "config") /\ Goes(t, pc[t] + 1) /\ resources' = resources
        /\ draft' = [draft EXCEPT ![t].size = size] /\ size \in Nat
    BY <1>6 DEF GetConfig, Step, Goes, TypeInv, TypeOK
  <2>2. draft \in [Threads -> [res : Resources, size : Nat]]
    BY DEF ResourcesInv
  <2>3. draft' = [draft EXCEPT ![t] = [res |-> draft[t].res, size |-> size]]
    <3>1. [draft[t] EXCEPT !.size = size] = [res |-> draft[t].res, size |-> size]
      BY <2>2, RecordOf
    <3> QED BY <2>1, <3>1
  <2>4. draft' \in [Threads -> [res : Resources, size : Nat]] /\ \A u \in Threads : draft'[u].res = draft[u].res
    <3>1. [res |-> draft[t].res, size |-> size] \in [res : Resources, size : Nat]
      BY <2>1, <2>2
    <3>2. \A u \in Threads : draft'[u] = IF u = t THEN [res |-> draft[t].res, size |-> size] ELSE draft[u]
      BY <2>2, <2>3
    <3>3. draft' \in [Threads -> [res : Resources, size : Nat]]
      BY <2>2, <2>3, <3>1
    <3> QED BY <3>2, <3>3
  <2>5. \A u \in Threads : Checked(u)' => Checked(u)
    BY <2>1, CheckedKept, OneStep
  <2> QED BY <2>1, <2>4, <2>5 DEF ResourcesInv, Checked
<1>7. ASSUME NEW t \in Threads, CheckResources(t)
      PROVE  ResourcesInv'
  <2>1. UNCHANGED <<resources, draft>>
    BY <1>7 DEF CheckResources
  <2>2. CASE Validate(draft[t].res)
    <3>1. Goes(t, pc[t] + 1)
      BY <1>7, <2>2 DEF CheckResources, Step, Goes
    <3>2. \A u \in Threads : u # t => (Checked(u)' => Checked(u))
      BY <3>1, Frame DEF Checked, In
    <3> QED BY <2>1, <2>2, <3>2 DEF ResourcesInv, Checked
  <2>3. CASE ~ Validate(draft[t].res)
    <3>1. In(t, "edit", {5})
      BY <1>7, DataPlaces DEF CheckResources
    <3>2. Len(Steps(t)) = 20
      BY <3>1, Lengths DEF In
    <3>3. Goes(t, 21)
      BY <1>7, <2>3, <3>2 DEF CheckResources, Fail, Goes
    <3> QED BY <2>1, <3>3, CheckedKept, ResourcesKept
  <2> QED BY <2>2, <2>3
<1>8. CASE UNCHANGED vars
  BY <1>8 DEF vars, ResourcesInv, In
<1> QED BY <1>1, <1>2, <1>3, <1>4, <1>5, <1>6, <1>7, <1>8 DEF Next

(***************************************************************************)
(* If the configuration file names only what exists and forms no cycle,    *)
(* so do the pools and combos in use, whatever PUTs, DELETEs and reloads   *)
(* overlap: each stores a whole control plane that validateControlPlane    *)
(* has accepted (config.Load does not check the file itself).              *)
(***************************************************************************)
THEOREM EditsKeepResourcesClosed ==
  ASSUME Validate(InitResources)
  PROVE  Spec => []ResourcesClosed
<1>1. Init => IInv /\ ResourcesInv
  BY InitInv, ResourcesInit
<1>2. IInv /\ ResourcesInv /\ [Next]_vars => (IInv /\ ResourcesInv)'
  <2> SUFFICES ASSUME IInv, ResourcesInv, [Next]_vars PROVE IInv' /\ ResourcesInv'
    OBVIOUS
  <2>1. TypeInv
    BY DEF IInv
  <2> QED BY <2>1, Inductive, ResourcesStep
<1>3. IInv /\ ResourcesInv => ResourcesClosed
  BY DEF ResourcesInv, ResourcesClosed
<1> QED BY <1>1, <1>2, <1>3, PTL DEF Spec
=============================================================================
