------------------------------ MODULE Routing ------------------------------
(***************************************************************************)
(* Which model a request gets (internal/server/server.go, explain.go,      *)
(* brain.go): the name is a virtual list, a pool or a combo, an explicit   *)
(* provider/model, a bare model, a pattern of the route table, or nothing. *)
(* RouteOpenAIRequest selects one model, routeCandidates the ones that are *)
(* tried after it.  Providers and models change between any two requests;  *)
(* the cursors of round-robin lists and routes and the sticky table        *)
(* remember earlier requests.  An explanation or a probe of a name asks    *)
(* for it as a request does, and moves them too.                           *)
(*                                                                         *)
(* What a request asks for is its needs (module Profile), what a model can *)
(* do its abilities.  Scores are a fixed rank per model.                   *)
(***************************************************************************)
EXTENDS Integers, Sequences, FiniteSets, SequencesExt, Profile

CONSTANTS
    ProviderOf,         \* the provider of each of Models
    Providers,          \* providers in configured order
    Brain,              \* the local-brain provider
    Unlisted,           \* names that no list has and their provider, a custom one, takes for models
    FirstModel,         \* the first of the models of each provider
    Lists,              \* name -> [members, automatic, virtual, rr]; members are models or names
    Routes,             \* the route table: a sequence of [pattern, mode, provider, fallback]
    Hash,               \* what stableIndex sums up for each of Sessions
    Abilities,          \* Abilities[m]: needs that m meets, and "fast", "free", "thinking"
    Rank,               \* Rank[m]: the rest of the score, different for every model
    Volatile,           \* bound: models whose status changes
    Sessions            \* keys of the sticky table: session IDs, or names where there is none

NoModel == "no model"

\* The catalog's status and, where they decide, the verification evidence
\* (an unverified healthy model) and the policy (an excluded one).
Statuses == {"healthy", "unverified", "unknown", "unhealthy", "cooldown", "excluded"}
ListNames == DOMAIN Lists

\* routeStrategy; "auto", "fusion" and "graph" remember nothing, and any
\* other one ("fallback", or the name of a provider) is the default.
Strategy(route) == IF route.mode /= "" THEN route.mode ELSE route.provider
RouteStrategies == {"auto", "round-robin", "fusion", "graph", "sticky"}
PatternsOf(strategy) == {Routes[i].pattern : i \in {j \in DOMAIN Routes : Strategy(Routes[j]) = strategy}}
TurnPatterns == PatternsOf("round-robin")
StickyKeys == PatternsOf("sticky") \X Sessions

VARIABLES
    healthy,    \* providerHealthy of each provider
    status,     \* of each model
    brainReady, \* brainReadyForSelection
    cursor,     \* rrCursor of each round-robin list
    routeCursor,\* rrCursor of each pattern of a round-robin route
    sticky,     \* sticky[p, s]: the model that session s got from a route of pattern p
    given       \* history: what each round-robin list gave last

envVars == <<healthy, status, brainReady>>
routingVars == <<envVars, cursor, routeCursor, sticky, given>>

RRLists == {l \in ListNames : Lists[l].rr /\ ~Lists[l].automatic}

RoutingInit ==
    /\ healthy = [p \in ToSet(Providers) |-> TRUE]
    /\ status = [m \in Models |-> "healthy"]
    /\ brainReady = FALSE
    /\ cursor = [l \in RRLists |-> 0]
    /\ routeCursor = [p \in TurnPatterns |-> 0]
    /\ sticky = [k \in StickyKeys |-> NoModel]
    /\ given = [l \in RRLists |-> NoModel]

(***************************************************************************)
(* The gates.                                                              *)
(***************************************************************************)
Allowed(m) == status[m] /= "excluded"
Healthy(m) == status[m] \in {"healthy", "unverified"}
Awake(m) == ProviderOf[m] = Brain => brainReady

ExplicitlyRoutable(m) ==
    healthy[ProviderOf[m]] /\ Awake(m) /\ Allowed(m) /\ status[m] \notin {"unhealthy", "cooldown"}

Routable(m) == ExplicitlyRoutable(m) /\ status[m] = "healthy"

\* requestModelEligible: the catalog has to know the model.
Eligible(m, req) == m \notin Unlisted /\ req.needs \cap {"tools", "vision", "long", "effort"} \subseteq Abilities[m]

(***************************************************************************)
(* Selection.                                                              *)
(***************************************************************************)
Best(S) == IF S = {} THEN NoModel ELSE CHOOSE m \in S : \A n \in S : Rank[n] <= Rank[m]

Able(S, wanted) == {m \in S : Abilities[m] \cap wanted /= {}}
Prefer(T, S) == IF T = {} THEN S ELSE T

\* modelMatchesSlot.
InSlot(S, slot) ==
    CASE slot = "tool-use" -> Able(S, {"tools"})
      [] slot = "vision" -> Able(S, {"vision"})
      [] slot = "cheap-chat" -> Able(S, {"free"})
      [] slot = "long-context" -> Able(S, {"long"})
      [] slot = "fast-code" -> Able(S, {"fast", "code", "tools", "long"})
      [] slot = "strong-reason" -> Able(S, {"thinking"})
      [] OTHER -> S

\* prioritizeModelCandidates: the models of the request's slot, of these the
\* strong and the coding ones if it wants them, then the free ones unless
\* the request is complex.  A preference that no model meets is dropped.
Narrowed(S, wanted) == Prefer(Able(S, wanted), S)
Strong(S, req) ==
    IF Intent(req.needs) = "reasoning" \/ req.needs \cap {"long", "effort"} /= {}
    THEN Narrowed(S, {"thinking"} \cup (req.needs \cap {"long"})) ELSE S
Coding(S, req) ==
    IF Intent(req.needs) = "code" \/ "tools" \in req.needs THEN Narrowed(S, {"code", "tools"}) ELSE S
Free(S, req) ==
    IF "economy" \in req.needs \/ ~Complex(req.needs) THEN Narrowed(S, {"free"}) ELSE S
Prioritized(S, req) == Free(Coding(Strong(Prefer(InSlot(S, SlotFor(req.needs)), S), req), req), req)

\* The fast models take a simple request.
Backup(S, req) == IF Simple(req.needs) THEN Narrowed(S, {"fast"}) ELSE S
BestScored(S, req) == Best(Backup(S, req))

\* What selectWithLocalBrain may answer, besides nothing: any candidate.
BrainChoices(S) == IF brainReady /\ \E m, n \in S : m /= n THEN S ELSE {}

PolicyCandidates(req) ==
    {m \in Models : Allowed(m) /\ Awake(m) /\ Eligible(m, req) /\ Healthy(m)}

BestPolicyModels(req) ==
    LET S == Prioritized(PolicyCandidates(req), req) IN BrainChoices(S) \cup {BestScored(S, req)}

\* Lists may name lists; one that is being expanded is not entered again.
Leaves ==
    LET expand[visiting \in SUBSET ListNames, reference \in ListNames \cup Models] ==
          IF reference \notin ListNames THEN <<reference>>
          ELSE IF reference \in visiting THEN <<>>
          ELSE FlattenSeq([i \in DOMAIN Lists[reference].members |-> expand[visiting \cup {reference}, Lists[reference].members[i]]])
    IN  [l \in ListNames |-> expand[{}, l]]

\* Whom the configuration names exists, and a configured provider has models.
ASSUME RoutingAssumption ==
    /\ IsFiniteSet(Models) /\ NoModel \notin Models
    /\ ProviderOf \in [Models -> ToSet(Providers)]
    /\ Unlisted \subseteq Models
    /\ \A p \in ToSet(Providers) : FirstModel[p] \in Models \ Unlisted /\ ProviderOf[FirstModel[p]] = p
    /\ Rank \in [Models -> Nat]
    /\ \A l \in ListNames : Leaves[l] \in Seq(Models)
    /\ Len(Routes) \in Nat /\ DOMAIN Routes = 1..Len(Routes)
    /\ \A i \in DOMAIN Routes : Routes[i].fallback \in Seq(ToSet(Providers) \cup Models)
    /\ Hash \in [Sessions -> Nat]

\* Mutant: the provider's health and the model's are not looked at.
ListCandidates_Ungated(l, req) == Kept(Leaves[l], {m \in Models : Eligible(m, req)})

\* The local models take part in every automatic list.
ListCandidates(l, req) ==
    LET usable == Kept(Leaves[l], {m \in Models : Routable(m) /\ Eligible(m, req)})
        local == {m \in Models \ ToSet(usable) : Lists[l].automatic /\ ProviderOf[m] = Brain /\ Routable(m) /\ Eligible(m, req)}
    IN  usable \o SetToSeq(local)

Turn(l, req) == LET c == ListCandidates(l, req) IN c[(cursor[l] % Len(c)) + 1]

\* resolveModelList: the models it may return.
ResolveModelList(l, req) ==
    LET c == ListCandidates(l, req)
        S == Prioritized(ToSet(c), req)
    IN  IF c = <<>> THEN {NoModel}
        ELSE IF Lists[l].automatic THEN BrainChoices(S) \cup {BestScored(S, req)}
        ELSE IF Lists[l].rr THEN {Turn(l, req)}
        ELSE {Best(ToSet(c))}

(***************************************************************************)
(* The route table.                                                        *)
(***************************************************************************)
HealthyFallbacks(route) ==
    Kept((IF route.provider \in RouteStrategies \cup {""} THEN <<>> ELSE <<route.provider>>) \o route.fallback,
         {p \in ToSet(Providers) : healthy[p]})

\* resolveProviderChoice: the model that is asked for, or else the first one.
Choice(p, req) ==
    IF req.kind = "bare" /\ ProviderOf[req.name] = p THEN req.name ELSE FirstModel[p]

\* The default hands the name itself on: no routable model, unless it is one
\* of the provider's or the provider takes any.
HandedOn(p, req) ==
    LET taken == {m \in Unlisted : ProviderOf[m] = p}
    IN  IF req.kind = "bare" /\ ProviderOf[req.name] = p THEN req.name
        ELSE IF taken = {} THEN NoModel ELSE CHOOSE m \in taken : TRUE

\* Mutant: the table of earlier choices is not read.
StickyModel_Rehashes(i, req, table) ==
    LET f == HealthyFallbacks(Routes[i]) IN IF f = <<>> THEN NoModel ELSE Choice(f[(Hash[req.session] % Len(f)) + 1], req)

\* resolveStickyRoute: what the table has for the session, if its provider
\* is a healthy one of the route, or else what the session hashes to.
StickyModel(i, req, table) ==
    LET f == HealthyFallbacks(Routes[i])
        old == table[<<Routes[i].pattern, req.session>>]
    IN  IF f = <<>> THEN NoModel
        ELSE IF old /= NoModel /\ ProviderOf[old] \in ToSet(f) THEN old
        ELSE Choice(f[(Hash[req.session] % Len(f)) + 1], req)

RoundRobinModel(i, req, cursors) ==
    LET f == HealthyFallbacks(Routes[i])
    IN  IF f = <<>> THEN NoModel ELSE Choice(f[(cursors[Routes[i].pattern] % Len(f)) + 1], req)

\* bestPolicyModelForRequest(nil): the brain is not asked.
AnyPolicyModel(req) ==
    LET nothing == [req EXCEPT !.needs = {}]
    IN  BestScored(Prioritized(PolicyCandidates(nothing), nothing), nothing)

\* resolveConfiguredRoute, with what is remembered when it comes to the route.
RouteModel(i, req, memory) ==
    LET f == HealthyFallbacks(Routes[i])
        first == IF f = <<>> THEN NoModel ELSE Choice(f[1], req)
    IN  CASE Strategy(Routes[i]) = "auto" -> AnyPolicyModel(req)
          [] Strategy(Routes[i]) = "round-robin" -> RoundRobinModel(i, req, memory.cursors)
          [] Strategy(Routes[i]) = "fusion" -> Best({Choice(p, req) : p \in ToSet(f)})
          [] Strategy(Routes[i]) = "graph" -> first
          [] Strategy(Routes[i]) = "sticky" -> StickyModel(i, req, memory.table)
          [] OTHER -> IF f = <<>> THEN AnyPolicyModel(req) ELSE HandedOn(f[1], req)

\* What the route leaves behind, whether or not its model is routable.
NextCursors(i, cursors) ==
    LET f == HealthyFallbacks(Routes[i])
    IN  IF Strategy(Routes[i]) = "round-robin" /\ f /= <<>>
        THEN [cursors EXCEPT ![Routes[i].pattern] = (@ % Len(f)) + 1] ELSE cursors
NextTable(i, req, table) ==
    IF Strategy(Routes[i]) = "sticky" /\ StickyModel(i, req, table) /= NoModel
    THEN [table EXCEPT ![<<Routes[i].pattern, req.session>>] = StickyModel(i, req, table)] ELSE table

\* The routes that match are asked in turn until one has a routable model.
\* Routes of one pattern share a cursor, and a session's entry.
Matching(req) == {i \in DOMAIN Routes : Routes[i].pattern \in {req.name, "*"}}
AskRoute(i, req, memory) ==
    LET m == RouteModel(i, req, memory)
    IN  [model |-> IF m /= NoModel /\ Routable(m) THEN m ELSE NoModel,
         cursors |-> NextCursors(i, memory.cursors), table |-> NextTable(i, req, memory.table)]
Walk(req) ==
    LET matching == Matching(req)
        walk[k \in 0 .. Len(Routes)] ==
          IF k = 0 THEN [model |-> NoModel, cursors |-> routeCursor, table |-> sticky]
          ELSE LET memory == walk[k - 1]
               IN  IF k \notin matching \/ memory.model /= NoModel THEN memory ELSE AskRoute(k, req, memory)
    IN  walk[Len(Routes)]

(***************************************************************************)
(* RouteOpenAIRequest.                                                     *)
(***************************************************************************)
\* A name provider/model: an unverified or unhealthy model is still asked
\* for, one that cools down is not; of a model not listed nothing is known.
Explicit(m) ==
    IF (m \in Unlisted /\ Awake(m)) \/ ExplicitlyRoutable(m) \/ (healthy[ProviderOf[m]] /\ Allowed(m) /\ Awake(m) /\ status[m] /= "cooldown")
    THEN {m} ELSE {NoModel}

RouteByModelName(req) ==
    LET listed == IF req.kind = "name" /\ req.name \in ListNames THEN ResolveModelList(req.name, req) ELSE {NoModel}
        other == IF req.kind = "explicit" THEN Explicit(req.name)
                 ELSE IF req.kind = "bare" /\ ExplicitlyRoutable(req.name) THEN {req.name}
                 ELSE IF req.kind = "none" THEN {NoModel}
                 ELSE {Walk(req).model}
    IN  (listed \ {NoModel}) \cup (IF NoModel \in listed THEN other ELSE {})

BestHealthyModel == IF \E n \in Models : ~Allowed(n) THEN {NoModel} ELSE
    LET m == Best({n \in Models \ Unlisted : Healthy(n)}) IN {IF m /= NoModel /\ ~Awake(m) THEN NoModel ELSE m}

RouteOpenAIRequest(req) ==
    LET named == RouteByModelName(req)
        policy == BestPolicyModels(req)
    IN  (named \ {NoModel})
        \cup (IF NoModel \in named THEN (policy \ {NoModel}) \cup (IF NoModel \in policy THEN BestHealthyModel ELSE {}) ELSE {})

(***************************************************************************)
(* routeCandidates.                                                        *)
(***************************************************************************)
Virtual(req) == req.kind = "name" /\ req.name \in ListNames /\ Lists[req.name].virtual

\* Mutant: the selected model needs no gate.
Appended_TrustsSelection(m, selected, req) ==
    /\ m /= NoModel
    /\ m = selected \/ (Routable(m) /\ healthy[ProviderOf[m]])
    /\ Virtual(req) => Eligible(m, req)

Appended(m, selected, req) ==
    /\ m /= NoModel /\ healthy[ProviderOf[m]] /\ status[m] /= "cooldown"
    /\ Routable(m) \/ (m = selected /\ ExplicitlyRoutable(m))
    /\ Virtual(req) => Eligible(m, req)

\* The selected model, the members of the list, the fallbacks of the first
\* route that matches: providers or models.
Offered(selected, req) ==
    LET listed == IF req.kind = "name" /\ req.name \in ListNames THEN Leaves[req.name] ELSE <<>>
        first == CHOOSE i \in Matching(req) : \A j \in Matching(req) : i <= j
        named == IF Matching(req) = {} THEN <<>> ELSE Routes[first].fallback
        fallbacks == [k \in DOMAIN named |-> IF named[k] \in Models THEN named[k]
                                             ELSE IF healthy[named[k]] THEN Choice(named[k], req) ELSE NoModel]
    IN  <<selected>> \o listed \o fallbacks

Distinct(s) ==
    LET distinct[k \in 0 .. Len(s)] ==
          IF k = 0 THEN <<>>
          ELSE LET before == distinct[k - 1]
               IN  IF s[k] \in ToSet(before) THEN before ELSE Append(before, s[k])
    IN  distinct[Len(s)]

\* rankRouteCandidates: for a virtual name, the prioritized first, each half
\* by score; a stable sort.
Ranked(candidates, req) ==
    LET preferred == Prioritized(ToSet(candidates), req)
        Before(m, n) == IF (m \in preferred) = (n \in preferred) THEN Rank[m] > Rank[n] ELSE m \in preferred
        ranked[k \in 0 .. Len(candidates)] ==
          IF k = 0 THEN <<>>
          ELSE LET worse == {n \in Models : Before(candidates[k], n)}
                   before == ranked[k - 1]
               IN  Kept(before, Models \ worse) \o <<candidates[k]>> \o Kept(before, worse)
    IN  IF Virtual(req) THEN ranked[Len(candidates)] ELSE candidates

\* The selected model stays ahead of the ranking.
RouteCandidates(selected, req) ==
    LET c == Distinct(Kept(Offered(selected, req), {m \in Models : Appended(m, selected, req)}))
    IN  Kept(c, {selected}) \o Kept(Ranked(c, req), Models \ {selected})

(***************************************************************************)
(* What is told about routing.                                             *)
(***************************************************************************)
\* functionalModelListMembers: a list is advertised while it has such
\* members.  The policy and the brain are not asked.
FunctionalMembers(l) ==
    {m \in ToSet(Leaves[l]) : healthy[ProviderOf[m]] /\ status[m] \in {"healthy", "excluded"}}

\* ExplainRequest: the model it calls selected, and those it calls eligible.
\* For a name only the selected one has priority, and none if virtual.
ExplainRequest(req) ==
    IF req.kind = "none"
    THEN LET prioritized == Prioritized(PolicyCandidates(req), req)
         IN  {[selected |-> m, eligible |-> prioritized] : m \in BrainChoices(prioritized)}
             \cup {[selected |-> BestScored(prioritized, req), eligible |-> Backup(prioritized, req)]}
    ELSE {[selected |-> m,
           eligible |-> IF m /= NoModel /\ ExplicitlyRoutable(m) /\ (Virtual(req) => RouteCandidates(m, req) = <<>>)
                        THEN {m} ELSE {}] : m \in {IF n \in Unlisted THEN NoModel ELSE n : n \in RouteByModelName(req)}}

(***************************************************************************)
(* The requests, and what changes between them.                            *)
(***************************************************************************)
Patterns == {Routes[i].pattern : i \in DOMAIN Routes}
Names == [kind : {"name"}, name : ListNames \cup Patterns] \cup [kind : {"explicit"}, name : Models]
         \cup [kind : {"bare"}, name : Models \ Unlisted] \cup [kind : {"none"}, name : {NoModel}]
Requests == {[kind |-> n.kind, name |-> n.name, needs |-> t, session |-> s] : n \in Names, t \in Asked, s \in Sessions}

Resolves(req) == req.kind = "name" /\ req.name \in ListNames /\ ListCandidates(req.name, req) /= <<>>

\* Mutant: the cursor is not advanced.
AdvanceCursor_Stays(req) ==
    /\ UNCHANGED cursor
    /\ given' = IF Resolves(req) /\ req.name \in RRLists THEN [given EXCEPT ![req.name] = Turn(req.name, req)] ELSE given

AdvanceCursor(req) ==
    IF Resolves(req) /\ req.name \in RRLists
    THEN /\ cursor' = [cursor EXCEPT ![req.name] = (@ % Len(ListCandidates(req.name, req))) + 1]
         /\ given' = [given EXCEPT ![req.name] = Turn(req.name, req)]
    ELSE UNCHANGED <<cursor, given>>

\* The route table is asked if neither a list nor a model has the name.
Remember(req) ==
    IF (req.kind = "name" /\ ~Resolves(req)) \/ (req.kind = "bare" /\ ~ExplicitlyRoutable(req.name))
    THEN LET walk == Walk(req) IN routeCursor' = walk.cursors /\ sticky' = walk.table
    ELSE UNCHANGED <<routeCursor, sticky>>

Route(req) == UNCHANGED envVars /\ AdvanceCursor(req) /\ Remember(req)

Forget(k) ==
    /\ sticky[k] /= NoModel /\ sticky' = [sticky EXCEPT ![k] = NoModel]
    /\ UNCHANGED <<envVars, cursor, routeCursor, given>>

ProviderChanges(p) ==
    /\ healthy' = [healthy EXCEPT ![p] = ~@]
    /\ UNCHANGED <<status, brainReady, cursor, routeCursor, sticky, given>>

ModelChanges(m) ==
    /\ \E s \in Statuses : status' = [status EXCEPT ![m] = s]
    /\ UNCHANGED <<healthy, brainReady, cursor, routeCursor, sticky, given>>

BrainStarts == ~brainReady /\ brainReady' = TRUE /\ UNCHANGED <<healthy, status, cursor, routeCursor, sticky, given>>

RoutingNext ==
    \/ \E req \in Requests : Route(req)
    \/ \E k \in DOMAIN sticky : Forget(k)
    \/ \E p \in ToSet(Providers) : ProviderChanges(p)
    \/ \E m \in Volatile : ModelChanges(m)
    \/ BrainStarts

Plain(l) == [kind |-> "name", name |-> l, needs |-> {}, session |-> CHOOSE s \in Sessions : TRUE]

\* Clients go on asking for each round-robin list that can answer; nothing
\* else is fair.
TakesTurn(l) == Resolves(Plain(l)) /\ AdvanceCursor(Plain(l)) /\ UNCHANGED <<envVars, routeCursor, sticky>>
RoutingSpec == RoutingInit /\ [][RoutingNext]_routingVars /\ \A l \in RRLists : WF_routingVars(TakesTurn(l))

RoutingTypeOK ==
    /\ healthy \in [ToSet(Providers) -> BOOLEAN]
    /\ status \in [Models -> Statuses]
    /\ brainReady \in BOOLEAN
    /\ cursor \in [RRLists -> Nat]
    /\ routeCursor \in [TurnPatterns -> Nat]
    /\ sticky \in [StickyKeys -> Models \cup {NoModel}]
    /\ given \in [RRLists -> Models \cup {NoModel}]

(***************************************************************************)
(* Properties, of every request that may come in a state.                  *)
(***************************************************************************)
\* docs/routing.md: explicit names, lists and slots pass through the same
\* gate.  Whatever selected it, no candidate is of an unhealthy provider,
\* cools down, is unhealthy, or is excluded by the policy; and only the
\* selected one may be unverified: because the client named it, or because
\* PolicyCandidates does not ask, and then its status is healthy.  What an
\* explanation calls eligible passes too, were it selected, if its provider
\* is healthy (and no route has the name of a virtual list: the explanation
\* does not ask whether what such a route gives is eligible).
GateHolds ==
    \A req \in Requests :
      /\ \A selected \in RouteOpenAIRequest(req) : \A m \in ToSet(RouteCandidates(selected, req)) :
           /\ healthy[ProviderOf[m]] /\ status[m] \notin {"cooldown", "unhealthy"} /\ Allowed(m)
           /\ Routable(m) \/ (m = selected /\ (Healthy(m) \/ req.kind \in {"explicit", "bare"}))
      /\ (Virtual(req) => Matching(req) = {}) =>
           \A e \in ExplainRequest(req) : \A m \in e.eligible :
             healthy[ProviderOf[m]] => m \in ToSet(RouteCandidates(m, req))

\* A list that is advertised is served by one of its members, or by the
\* local brain in an automatic list, first: if one can serve the request,
\* is allowed, and is no brain that has not started.
Servable(l, req) == {m \in FunctionalMembers(l) : Eligible(m, req) /\ Allowed(m) /\ Awake(m)}
ListServed ==
    \A req \in Requests : req.kind = "name" /\ req.name \in ListNames /\ Servable(req.name, req) /= {} =>
      \A selected \in RouteOpenAIRequest(req) :
        LET c == RouteCandidates(selected, req)
        IN  c /= <<>> /\ c[1] = selected /\ (c[1] \in Servable(req.name, req) \/ (Lists[req.name].automatic /\ ProviderOf[c[1]] = Brain))

\* A session that has a model keeps it while the model can serve it: where
\* the first route of the name is sticky and has the model's provider, and
\* the name is not also a list's.  (Routes of one pattern share the entry:
\* another of them may have made it, with a provider that is not its own.)
SessionStays ==
    \A req \in Requests : req.kind = "name" /\ req.name \notin ListNames /\ Matching(req) /= {} =>
      LET first == Routes[CHOOSE i \in Matching(req) : \A j \in Matching(req) : i <= j]
          old == sticky[<<first.pattern, req.session>>]
      IN  ( /\ Strategy(first) = "sticky" /\ old /= NoModel
            /\ Routable(old) /\ ProviderOf[old] \in ToSet(HealthyFallbacks(first)) )
          => RouteOpenAIRequest(req) = {old}

\* A model that stays a candidate of a round-robin list is given to those
\* who ask for the list again and again.  The list's candidates stay, and so
\* do the needs, as far as they have other candidates: requests with and
\* without tools that take turns may pass a model over for ever.  Whatever
\* else changes, and what other names are asked for, does not matter.
Steady(l) ==
    /\ \A m \in ToSet(Leaves[l]) : Routable(m)' = Routable(m)
    /\ <<cursor[l], given[l]>>' /= <<cursor[l], given[l]>> =>
         \E req \in Requests : req.name = l /\ ListCandidates(l, req) = ListCandidates(l, Plain(l)) /\ Route(req)
EveryMemberServed ==
    \A l \in RRLists : <>[][Steady(l)]_routingVars =>
      \A m \in ToSet(Leaves[l]) : <>[](m \in ToSet(ListCandidates(l, Plain(l)))) => []<>(given[l] = m)

\* docs/routing.md: an explicit provider prefix pins the request.
ExplicitPinned ==
    \A req \in Requests : req.kind = "explicit" /\ ProviderOf[req.name] /= Brain =>
      \A selected \in RouteOpenAIRequest(req) : \A m \in ToSet(RouteCandidates(selected, req)) : ProviderOf[m] = ProviderOf[req.name]

\* README.md: a round-robin route, whose fallbacks are models in the example,
\* distributes requests across the healthy ones.
PoolServed ==
    \A req \in Requests : \A i \in Matching(req) :
      ( /\ req.kind = "name" /\ req.name \notin ListNames /\ \A j \in Matching(req) : i <= j
        /\ Strategy(Routes[i]) = "round-robin" /\ \E m \in ToSet(Routes[i].fallback) \cap Models : Routable(m) )
      => RouteOpenAIRequest(req) \subseteq ToSet(Routes[i].fallback)

\* docs/routing.md: a list without a verified member is verified first.
ListConfined ==
    \A req \in Requests : Virtual(req) => \A selected \in RouteOpenAIRequest(req) : \A m \in ToSet(RouteCandidates(selected, req)) :
      m \in ToSet(Leaves[req.name]) \/ ProviderOf[m] = Brain

\* docs/routing.md:69-75: an advertised list has the "functional behavior":
\* members that are policy-eligible and routable.
AdvertisedServed ==
    \A l \in ListNames : FunctionalMembers(l) /= {} =>
      \A selected \in RouteOpenAIRequest(Plain(l)) : ToSet(RouteCandidates(selected, Plain(l))) \cap FunctionalMembers(l) /= {}

\* explain.go:32: an explanation "describes the observable decision path".
ExplainedTried ==
    \A req \in Requests : \A e \in ExplainRequest(req) :
      e.selected /= NoModel => e.selected \in ToSet(RouteCandidates(e.selected, req))
=============================================================================
