# ghrouter: a verification project

ghrouter is an HTTP router in Go: it takes OpenAI, Responses and Anthropic
requests, chooses a provider and a model from a live catalog, runs the provider
(a CLI subprocess, a warm ACP agent or an HTTP server) and streams the answer,
falling back to other candidates when one fails. This directory holds TLA+
models of it, the TLC runs that check them and TLAPS proofs about them.
Source paths below are relative to `src/`.

## 1. Inventory

| component | state | operations | interacts with | hard behaviour | what makes it correct |
|---|---|---|---|---|---|
| circuit breaker, `internal/providers/runner.go` | `circuitState`, `ProviderHealth`, one goroutine per `Invoke` | `allowCircuitRequest`, `executeCLI`, `recordCircuitSuccess/Failure`, `SetCircuitPolicy`, `MarkHealthy` | chat path, routing (`GetHealth`), reload, attachment | outcomes of an older window arriving late; two locks; cancelled probes | one probe per window, the slot is given back, recovery |
| catalog, `internal/catalog/catalog.go` | entries by ID, index by provider, model per slot, policy | register, unregister, failures, success, expiry, health callback, policy | every request, probes, health loop, reload, storage | long sequences of calls from many goroutines | slots hold routable models, index agrees, only a success revives |
| catalog persistence, `server.go`, `storage/sqlite.go` | `model_catalog` rows | snapshot, replace, restore | catalog, configuration, schema | crash between snapshot and transaction; time passing while down | a restart does not make a failed model usable |
| schema and migrations, `storage/sqlite.go` | tables, columns, `schema_migrations` | `Open`, `migrate`, `ensureColumn` | server, CLI commands | stops between statements, two processes | an open database is complete |
| event queue, `storage/sqlite.go` | channel, closed flag, writer | `EnqueueRequest`, `writeLoop`, `persist`, `Close` | end of every request, shutdown | enqueue against close, full queue, failing transaction | an accepted event is written or counted |
| resource governor, `internal/resourcegov/governor.go` | pressure state, pending state and its time, two counters, notify channel | `Observe`, `Admit`, `AdmitWait`, release | brain selector | unlocked window in `AdmitWait`, lost wake-ups, hysteresis | exact slot counts, paced recovery, calls end |
| ACP clients and the warm pool, `generic_acp_pool.go`, `generic_acp.go`, `cursor_acp.go` | mutex, process, reader goroutine | `do`, `ensure`, `startGenericACPProcess`, `request`, `call`, `close`, `executeGenericACP`, `executeCursorACP` | agent process, `executeCLIOnce` | deadlines, death of the agent, updates without call ID | no stray process, no output across requests, requests end |
| request path, `server.go`, `stream.go`, `responses.go`, `anthropic.go` | candidate list, position, channels | the three handlers, `firstProviderEvent`, fallback | runner, catalog, routing | selects over several channels, abandoned producers, bounded channel under a mutex | one candidate speaks, complete means whole, nobody is stuck |
| one attempt, `runner.go`, `http_provider.go`, `generic_acp.go`, the three streams | messages, emitted flag, retries, stream state | parsers, `emitStreamEvent`, `writeStart/Delta/Finish/Failure` | request path | retries after output, ends in any order | a well-formed stream with all the text once, no retry of what was heard |
| routing and lists, `server.go`, `explain.go`, `brain.go` | configuration, cursors, sticky table | `RouteOpenAIRequest`, `routeCandidates`, `ExplainRequest` | catalog, health, brain | several gates for one decision; memory across changes | only eligible models, lists are served, sessions stay, turns come round |
| health loop, `internal/health/loop.go` | result per provider | `checkOne`, `Register`, `RecordSuccess` | catalog, attachment | late results, callback outside the lock | debounce, recovery |
| probes, `server.go` | single-flight maps, verification evidence | `TestModel`, `verifyVirtualRouteOnDemand`, the worker | request path, catalog, configuration | leaders that leave, followers | one probe at a time, nobody waits for ever |
| server locks, `server.go` | `s.mu`, `configMu`, telemetry mutex | `LiveSnapshot`, `ReloadConfig`, `AttachProvider`, handlers | all | nested read locks, opposite orders, data read under one of two locks | no half-applied configuration, no race, no deadlock |
| control plane, `control_plane.go` | pools and combos | PUT, DELETE, validation | reload | lost updates, cycles | references resolve |
| fusion and graph, `fusion.go`, `graph.go` | workers, results channel | fan-out, first_complete, stages, judge | runner | cancellation against completion | a candidate's answer, workers end |
| brain selector and supervision, `brain_selector.go`, `local_brain/runtime.go` | backoff, gate, child process, restart loop | `selectWithLocalBrain`, `Start`, `Stop`, `monitor`, `restart` | governor, attachment, serve | crash during start, restart or stop | supervised process |
| lifecycle and ports, `server.go`, `port.go`, `cli.go` | context, session record | serve, `Shutdown`, reclaiming a port | brain, queue | shutdown with work in flight, a rival | the program ends |
| rate limit, ACL; accounts; detectors; CLI and TUI; keys; update; logging; types | small or none | | | mostly I/O | section 5 |

The hazards, each at its line, with the property that covers it or the reason
why none does, are in `PROJECT.json`.

## 2. Modules

    CircuitBreaker <- CircuitBreakerProofs, MCCircuitBreaker
    Catalog        <- MCCatalog
    Migration
      CatalogStore (EXTENDS Catalog, Migration)  <- CatalogStoreProofs (of all three), MCCatalogStore
    SlotPool (abstract)
      Governor (INSTANCE SlotPool)               <- GovernorProofs, MCGovernor
    WarmPool       <- WarmPoolProofs, MCWarmPool
    Chat           <- ChatProofs, MCChat
    Attempt        <- MCAttempt
    Profile
      Routing (EXTENDS Profile)                  <- MCRouting
      FanOut  (EXTENDS Profile)                  <- MCFanOut
    Probes         <- MCProbes
      RequestProofs (EXTENDS Routing, FanOut, Attempt, Probes)
    ServerConfig   <- ServerConfigProofs, MCServerConfig
    LocalBrain, EventStore
      Service (EXTENDS LocalBrain, EventStore)   <- ServiceProofs, MCService

`Name_Something` operators marked "Mutant" are plausible bugs; no specification
uses them. They show that each property can be broken by the code.

**CircuitBreaker** — one runner. A request's goroutine is `pc[r]`: idle, running
(inside `executeCLI`, whose tries are module Attempt's) or refused (between the
refusal under `circuit.mu` and the update of the record under `health.mu`).
`Admit`, `AdmitProbe`, `Refuse` are the three results of `allowCircuitRequest`;
`Succeed`, `Fail`, `Cancel` the critical section that records the outcome.
`MarkHealthy` and `MarkHealthyReset` are the two critical sections of
`MarkHealthy`. The clock is relative to `openedAt`. `probe` and
`probeCancelled` are history variables.

**Catalog** — an action for each operation under `Catalog.mu`. A model is its
provider, status, cooldown expiry and failure count; 0 is Go's zero time. Every
action ends with the `rebuildSlots` of the code (`RebuildSlots` reads the primed
entries); the score only ranks, so any routable model may be chosen. A tick
alone does *not* rebuild the slots, as in the code. `suspect` and `quarantined`
are histories. `FreshStates` is what `buildCatalogModels` can produce.

**Migration** — the processes that open one database, each at a statement of
`Open`/`migrate`: a table, the reading of the version, and for each migration
its columns (asking, then adding) and the row of its version. `CloseDatabase` is
also a stop between any two. An error of a second process that adds the same
column or records the same version leaves it `failed`.

**CatalogStore** — the catalog with its table: `Snapshot` (`GetAllModels`, after
its refresh), `ReplaceCatalog` (one transaction), `Stop`, `Opening` (steps of
Migration) and `Restore` (registration of any configuration, then
`RestoreModelState` on each row and the write-back). `PersistCurrentState` is a
CLI command (`probe`, `verify-models`): a process with a catalog of its own, which
it never restores, probes some models and replaces the rows of all.

**Governor** — `Observe` takes a pressure as its place among the six thresholds;
`ObserveInvalid` is a failed, stale or empty sample. `AdmitWait` is split where
the code releases the lock: `Admit`/`Refuse`, then `ReadNotify`, then the select
(`Wake`, `GiveUp`). `Release` wakes exactly those asleep on the channel it
closes. **SlotPool** states what a bounded admission promises; the brain slots
are shown to implement it with `holders <- BrainHolders`.

**WarmPool** — a request's `pc` is the mutex queue, or writing or awaiting one of
three calls (initialize, session/new, session/prompt; the calls that set the
model and the effort behave as session/new does). The agent is external: it
prints output, answers, refusals and lines of other kinds, dies, or does nothing.
It is taken to print output of a prompt only before it answers it, as ACP says.
Where `client` is not "pool", each request runs an agent of its own (`Spawn`,
the calls of its `Dialogue`, `Leave`), which is killed by the deferred function
of every return and by the goroutine that waits for the context.

**Chat** — the handler of one request of any of the three APIs, streamed or whole,
and the goroutines of its attempts. An attempt's goroutine is running, finishing
(holding `health.mu` while it sends the last event) or ended; `events` is the
bounded channel, `failure` the error channel. `Emit` is a piece of text the provider
prints: it enters the channel, or is dropped at a deadline that an ACP client
survives. `SayDone` is the provider's own end, which a parser sends while
`executeCLI` still runs: a stream takes it for the end of the response, whatever
follows; `EmitDone` is the last event, which `Invoke` sends. What the attempt that the
handler listens to has printed, dropped and said before its own end are the history
variables `produced`, `dropped`, `early` and `before`. `AttemptFails` gathers what ends an
attempt before anything was written; the APIs differ in what they do then
(`Advance`, `AdvanceResponses`, `AdvanceMessages`) and in how a stream breaks.
`Ask`/`GetHealth` stand for the routing of another request.

**Attempt** — the inside of one attempt. A provider's message is a set of contents
(text, tool calls, an empty delta, an error, "done"); `ParseLine`, `ParseChunk`
and `ParseUpdate` say what each transport's parser makes of it, `Read`, `Retry`,
`Succeed` what the runner does. The handler writes *kinds* of events (`wire`):
item opened, delta, finish, error and so on, as `writeStart`, `writeDelta`,
`writeFinish`, `writeFailure` and their counterparts decide. Texts are counted,
not spelled.

**Profile** — a request as the set of its needs; intent, complexity, stages and
slot are functions of it. **Routing** — the names and gates of
`RouteOpenAIRequest`, one operator per function of the code; a request is routed
in one step (`Route`), which advances cursors and sticky entries as a side
effect, while providers, models and the brain change between requests. The
properties quantify over every request in every state, so each state checks the
whole decision. `Walk` is the loop of `routeByModelName` over the route table:
`AskRoute` asks each route that matches for its model (`RouteModel` has a case for
each strategy of `resolveConfiguredRoute`) and leaves behind the round-robin cursor
and the sticky entry of the route's *pattern*, also where the model is then not
routable and the next route is asked. `given` is a history of what each round-robin
list gave last. **FanOut** — the workers of fusion and graph, the channel of their
results, the handler that waits, stops the others, runs stages one by one, asks
the judge and writes one of three bodies.

**Probes** — the check of one provider (`CheckOne` stores a result, `Tell` calls
`onChange` after the unlock; a check may be late, from before an attachment), the
catalog's status of its models, and the callers that probe them: clients, who may
leave at any time, and the worker. `flight` and `list` are the two single-flight
maps with their leaders. `verified` and `info` are the two copies of the
verification evidence.

**ServerConfig** — every kind of goroutine is a *program*: the sequence of its lock
operations and of its reads and writes of shared parts, composed from the programs
of the functions it calls
(`ModelSummaries == Read("config", ProviderHealthy \o See("models"))`).
`RLock`, `Announce`, `Acquire`, `Unlock` interpret it with the writer preference of
`sync.RWMutex`. `s.providers` ("runners") is read by handlers under `configMu` alone
and by `healthSnapshot`, `providerHealthy` and the brain selector under `s.mu` alone.
What providers offer and the model lists ("models") are written by attachments and
reloads under both, and by `applyModelVerification` under `s.mu` alone. The deferred
loop of `ListenAndServe` reads `s.providers` with no lock (`CloseRunners`). The control
plane's edits read a copy, edit, validate and reload.

**LocalBrain** — `Start` in its steps, the monitor, the restart loop and `Stop`, on
processes numbered by launch. **EventStore** — queue, writer and close. **Service** —
both, under the life of `serve`: requests that select with the brain (admission,
gate, answer), enqueue their event and end; interrupt, `Shutdown`, and a rival
ghrouter that wants the port.

## 3. Runs

| run | what it shows |
|---|---|
| circuit | one probe per window, no lost slot, no open circuit recorded as available, recovery; 3 requests |
| catalog | slots routable and filled, index consistent, only a success revives; 2 providers sharing an ID |
| catalog_restart | a failed model stays excluded across crashes, restarts and the rows CLI commands store of what they probed; an open database is complete whoever migrates and stops |
| governor | exact counts, paced recovery, SlotPool implemented (refinement), calls end |
| warm_pool | no stray process, no foreign output, requests end, with a shared agent or one each |
| chat | one candidate speaks, a complete answer has all that was printed but for what a deadline drops or follows the provider's own end, goroutines and health readers are not stuck |
| attempt | streams follow their protocol's grammar, a success has all the text of its try once, no try follows one that was heard |
| routing | gates hold for all candidates and explanations, lists that can serve do, sessions stay, every member gets its turn |
| fan_out | the answer is that of a candidate that gave one, workers end with it, losers are not punished, it ends |
| probes | debounce, single flights, nobody waits for ever, recovery after the outage |
| server_config | configuration seen whole but for the results of verifications, no race on the runners but with the end of the server, every deadlock has a LiveSnapshot in it, references resolve |
| service | brain supervised, events settled, the program ends |

Each property has a mutant of the code, in `PROJECT.json`, that breaks it.

### Disagreements between documentation and code

These configurations reproduce the counterexamples of the findings in
`PROJECT.json`; TLC ends each with a violation.

| configuration | property | what happens |
|---|---|---|
| circuit_cancelled_probe | RecoveryWindowHonoured | a cancelled probe keeps the slot; the provider stays refused with nothing in flight |
| catalog_quarantine | QuarantineHolds | a late failure shortens the quarantine until a declared reset |
| catalog_lapsed | ExpiredStaysExcluded, FailureKept, LegacyUpgraded | a cooldown that expired before the stop is undone by the configuration; a CLI command replaces the stored failures of models it did not probe; of two processes that migrate one database one fails to open it |
| governor_lost_wakeup | NoLostWakeup | a selector sleeps beside a free slot |
| warm_pool_dead | DeadProcessDiscarded | a dead agent found by a failed write stays in the pool |
| chat_quota | NoAttemptInCooldown | a candidate just put in cooldown is tried |
| attempt (\*) | TextExact, RetriesBeforeHeaders | text is lost at a deadline, or said twice by the cursor client |
| routing (\*) | ExplicitPinned, ListConfined, AdvertisedServed, ExplainedTried, PoolServed | an explicit model falls back to another provider; a round-robin route over models, as the README shows it, never answers; and three more |
| probes_verified | VerifiedAgain | an old verification error outlives every success |
| server_config (\*) | OneItemUpdated, RaceFree | an edit undoes another one; the loop that closes the runners and the handlers that read models race with writers |
| service_orphan | NoOrphan, EventsKept, BackoffHonoured, FailedStartStops | the brain's process outlives the program, and three more |

Where a row has several properties the configuration names the first; put another in
its place to see it. A configuration with (\*) is that of a run which passes: put
the property in the place of those it names. Met on the way and not stated as
properties: the scanner of a CLI may stop on a long line and leave `cmd.Wait` to the
deadline; a streamed response always says `finish_reason: stop`; a message with text
and tool calls loses the calls; a responses stream has no timer once it has begun
(hence `Timed` in AttemptsEnd); the messages API drops tool calls of a fan-out; the
limit of a fan-out cuts before the budget filters; a round-robin list shares its cursor
between requests of different needs, so that requests with and without tools that take
turns, or explanations, which move the cursor too, may pass one member over for ever
(hence `Steady` in EveryMemberServed); a sequential graph that fails in
its first stage discards everything; the rotation of verification batches (see the
hazards).

### Bounds

- circuit: 3 requests (a late one, a probe, a newcomer), threshold 2, one retry,
  `Horizon` = the longest open duration (the code only compares with it),
  `MaxFailures` 4, twice the threshold, so a window opens and is re-armed.
- catalog: 2 IDs, 2 providers, one slot (slots do not interact), `MaxTime` 2,
  2 failures (the backoff doubles once and meets its cap), a reset 2 ticks ahead.
- catalog_restart: one model, whose rows CLI commands store while the server serves;
  `MaxTime` 1 and `MaxFailures` 1 let a cooldown expire before, during and after the
  stop. Two processes of versions 3 and 2, three migrations, four earlier databases
  (none, one without versions, versions 1 and 2). CLI commands that migrate end
  before the server restores. A command that stores rows does so while the server
  serves and has no snapshot in hand: what it stores while the server is down it
  might have stored just before, and what it stores between a snapshot and its
  transaction is lost.
- governor: one caller of each class on one slot of each kind, all seven places of
  the pressure, holds of one tick.
- warm_pool: 3 requests (holder, waiter, newcomer), 2 starts of a process, 2 unread
  lines; a provider with the pool and both kinds without. Requests run once each, so
  the system stops: deadlock is not checked.
- chat: two models of one provider, since the health mutex is what attempts
  share; a channel of 2 events (64 in the code), 2 deltas and the two events that end
  the output, so the channel fills and overflows. The request ends, so deadlock is not checked.
- attempt: seven kinds of messages, four messages a try, two tries, a channel of 2.
  One attempt, which ends.
- routing: three models of three providers, the brain among them, two of which
  change, and a name that only its provider takes for a model; lists that name each
  other in a cycle, a route of each strategy, two sticky ones and a round-robin one of
  one pattern, one session, three kinds of requests, and all names. The round-robin
  routes of the instance have one provider each, so that their cursor has two values:
  it only decides which provider is asked, which no property depends on. Routing
  never stops.
- fan_out: three candidates of different cost, one with a timeout, every
  combination of strategy, limit, budget, first_complete and judge, one to three
  stages. One request, which ends.
- probes: one model (models meet only in the list), two clients that ask once, the
  worker, debounce 2, one outage. Clients and outages are used up, but the loop
  goes on; deadlock is not checked.
- server_config: a handler that may be the end of the server, a verification that may
  be a LiveSnapshot, an attachment, and two editors of which one may be a reload; two
  names that can form a cycle. Each runs its program once: a deadlock
  is what StuckOnlyInLiveSnapshot is about, so TLC's own check is off.
- service: two requests that compete for the brain, a queue of one event, one
  restart, two processes, one rival. The program ends.

### Fairness

- circuit: goroutines that can run do, a provider call is bounded by its timeout
  (`executeCLIOnce` gives each a context), time passes. Nothing is assumed of
  clients: cancellation, reloads and new requests are never required.
- governor: weak fairness of each caller's own steps, `Expire` (the selector's
  context has five seconds), `Release` (it is deferred). Strong fairness of
  `GiveUp`: Go's select picks among ready cases at random, so a done context is
  not ignored for ever. `Call` and `Observe` are not fair.
- warm_pool: strong fairness of `Enter`, as `sync.Mutex` hands over to a waiter
  after a millisecond and starves none; weak fairness of the other steps of a
  request, of `Expire`, as every request has the provider's timeout, and of
  `GivesUp`: while it waits for an answer a done context stays ready, and Go's
  select does not ignore it for ever. Nothing is assumed of the agent, except
  that it reads its input.
- chat: the handler goes on, since its timer of three minutes bounds every wait
  for a provider and the server's write timeout every wait for the client. A
  provider is only required to end once its context is done. Strong fairness of
  `GetHealth` for the mutex.
- fan_out: the handler, and each worker, whose attempt has a timer.
- probes: the outage ends; the loop and the worker run on their timers, a probe ends
  by its time limit, a cooldown by its expiry, and each caller takes its steps.
  Nothing makes a client ask or leave.
- routing: each round-robin list that can answer is asked again and again.
  EveryMemberServed supposes that from some time on the list's own members stay as
  routable as they are, and that who asks for it has the same candidates; the other
  providers, models, names and sessions go on changing.
- service: the writer, and the three steps of the shutdown, one of which is the
  timer of three seconds. Nothing else needs to happen for the program to end.

## 4. Proofs

For every value of the constants that satisfies the assumptions their modules
name (for the catalog also `PowersAssumption`: powers of two are positive
naturals, which TLC evaluates, as the provers have no theory of exponentiation):

- **CircuitBreakerProofs**: `TypeCorrect`, `ProbeSlotOwned`, `OpenUnavailable`,
  `AtMostOneProbe`. ProbeOwned is not inductive: nothing in it says
  that a slot belongs to an open window of an enabled policy. `WindowInv` adds
  that (open implies enabled, a taken slot implies open, a probe implies open).
  SingleProbe needs more: an open window has counted at least the threshold, so any further failure
  re-arms it (`ThresholdInv`). That is false when a reload raises the threshold
  while the circuit is open, hence the hypothesis `SameThreshold`.
- **GovernorProofs**: `TypeCorrect`, `SlotsAlwaysCounted`, `RecoveryPaced`,
  `BrainSlotsImplementPool`. `CalmInv` relates the time since the last emergency to
  the state and to the hold already served; the refinement follows from the exact
  count of the holders.
- **CatalogStoreProofs**, on Catalog: one inductive invariant, `Inv`, proved operation
  by operation, gives `TypeCorrect`, `SlotsAlwaysRoutable`, `SlotsAlwaysFilled`,
  `IndexAlwaysConsistent` and `OnlySuccessRevives`. The lemma
  `RebuildEstablishes` carries the slots: whatever the entries have become, the
  slots agree with them afterwards. On Migration: `SchemaTypeCorrect`, `SchemaAlwaysComplete`,
  about `SchemaSpec` with any tables, columns, migrations and processes.
  SchemaComplete is not inductive, as it says nothing of a process under way.
  `RecordedApplied` adds what a recorded version means (its columns exist, and the
  versions before it are recorded), `Progress` what the place of a process says
  (the tables exist; the versions below its own are recorded; what it need not
  ensure any more is there). Columns and versions are never taken back, so the
  steps of one process keep what another has. The version is the greatest recorded
  one, which exists by well-foundedness (`GreatestVersion`).
  On CatalogStore: `StoreImplementsMigration`, that every step of the server and of
  the commands is a step of SchemaSpec or leaves the database's schema alone, hence
  `StoreSchemaComplete`; and `StoreInvariant`, that the invariant of the catalog
  holds in every process that uses the store, hence `StoreTypeCorrect`,
  `RestartConsistent` and `SuspicionSurvives`. The step that matters is Restore:
  what it builds from any rows and any configuration satisfies `Inv` as what Init
  builds does (`RestoredType`: it calls a model healthy only if its row does or
  says nothing). `StoreAssumption` excludes a bound of no failures at all, with
  which a probe of a command could not be counted.
- **WarmPoolProofs**: `TypeCorrect`, `NoProcessLeft`, `OutputOwned`. NoForeignOutput
  says nothing of what the agent still has to say. `NothingStale` does: a process
  *in use* works on no prompt but that of the holder of the mutex, has left no
  output of another unread, and no output behind an answer. A holder that
  gives up leaves such output behind; then the process is not in use any more
  (`InUse`), which is why the property holds.
- **ChatProofs**: `TypeCorrect`, `OneCandidateHeard`, `CompleteIsWhole`, for any
  candidates and any capacity of the channels. `HistoryInv` balances, for the attempt
  the handler listens to, what was sent (`Sent`: what was printed and not dropped, or
  what preceded the provider's own end, where a stream believes it) with what the
  handler has read and what the channel still owes it (`Owed`: the texts before the
  event at which this handler stops); and it says why there is such an event:
  the provider's word, or a run that ended without a failure. `StartedInv` says that
  who was asked is a candidate up to the current one and no candidate comes twice, so
  that no channel is used again; `CompleteInv` that a response is closed only when all
  that was sent is written.
- **ServiceProofs**: `TypeCorrect`, `SupervisionHolds`, `EventsAccounted`, of the
  composition, so that the life of `serve` is covered. `BrainInv` names the one
  process that may run unkilled (`Owner`: the supervisor's, or the restart loop's
  until it installs it). `PlacesInv` and `CountInv` put an accepted event in one
  place: queue, writer, written or failed; a request enqueues its event when it ends
  and only then, so none is accepted twice. That the events are distinct from
  "exited", the writer's last state, is the only new assumption.
- **ServerConfigProofs**: `TypeCorrect`, `ReadersSeeOneConfig`, `NoRaceOnRunners`,
  `OnlyLiveSnapshotStops`, `EditsKeepResourcesClosed`, for any number of
  goroutines of each program. The first lemmas unfold the programs (`RouteSteps` to
  `CloseSteps`); `ReadLocks` and `WriteLocks` then say which locks a
  goroutine holds before each of its steps, `LockInv` that a lock held for writing
  has no reader and nobody in front of its door, and `PartInv` that only a
  goroutine that is between two of its writes, and holds configMu, may have left
  the parts apart. ConfigAtomic lets the models be those of a verification, and
  RunnersRaceFree leaves out the loop that closes the runners: of both the code does
  not hold the lock, and `RaceFree` is the finding about them. That nobody else races
  on the runners follows from `CellPlaces`: who writes them holds both locks, who reads
  them one of the two. The deadlock theorem frees the locks one by one: s.mu first, as
  who holds it asks for nothing (but for LiveSnapshot), then the telemetry mutex,
  whose holders ask at most for s.mu, then configMu. `EditsKeepResourcesClosed` has
  the hypothesis that the configuration file is closed, `Validate(InitResources)`:
  config.Load does not check it. `GoroutinesAssumption` says that a goroutine
  that attaches a provider does nothing else, and types the edits.
- **RequestProofs** is about the specifications of four modules, which share the
  constants of Profile and have names of their own for the rest:
  - Routing, for any providers, models, lists, route table and scores: `RoutingTypeCorrect`,
    `OneGate`, `ListsServe`, `SessionsStay`. The last three are statements about the decision in a
    state more than about steps, and need of the steps only the types: a cursor is a
    number, and a session's model a configured one. The work is in
    the lemmas about the operators, one for each function of the code: what a list
    resolves to is one of its candidates (`ListResolves`), what a route gives is a model
    or nothing and keeps the types of what is remembered (`RouteGives`, `AskedRoute`),
    what the table gives has passed `Routable` (`FromRoutesGives`), a first route that
    still has a session's model ends the walk with it (`StaysOnModel`), filtering,
    deduplicating and ranking neither add nor lose a model. `RoutingAssumption` says
    that lists expand to models, that routes name providers or models, and that a
    provider has models.
  - FanOut: `FanOutTypeCorrect`, `FanOutsSettle`. Settled speaks of the end only;
    `FanOutInv` says for each phase where the usable results are: with the worker,
    in the channel, with the winner, or in what was collected.
  - Attempt: `AttemptTypeCorrect`, `StreamsWellFormed`, `TextsKept`, `RetriesNotHeard`. `WireInv` gives
    the last event of the stream and whether an item is open for each place of the
    handler, so that what it writes next may follow. `TextInv` balances the texts:
    spoken = heard + those in the channel before the event at which the handler will
    stop. It needs who announced the end (`Announced`), that a text and the end
    never share an event (`Apart`), that a try which counts nothing as emitted was
    not heard (`Unheard`, by which a retry starts from nothing), and which tries
    lose text but then fail (`Sound`). RetriesNotHeard is an action property that
    follows from `Unheard` and from `Untouched`, that a try of no CLI which counts
    nothing has sent nothing. It excepts the cursor client after a deadline, which may have
    sent an event that it does not count as emitted (cursor_acp.go:117-124), so that
    the runner (runner.go:290) repeats what was heard: the finding `TextExact`.
  - Probes: `ProbesTypeCorrect`, `DebounceKept`, `OneLeaderPerFlight`. `DebounceInv`
    bounds the recorded errors by the failures in a row; `ProbesInv` types the
    callers and says that who is in hand has a model. FlightsOwned is inductive with
    that.

Each of these invariants was first checked by TLC on the instance of its run.

The provers cannot instantiate the library's induction theorems, whose parameter is an
operator. `IntervalInduction` states induction over an interval for a *set*, proved by
well-foundedness; `Folded` follows, that a recursive function over a sequence exists
and obeys its equations (`Steps`, which it follows from, is the same for a recursion
over numbers, as the walk along the route table is), and from it `KeptProperties` and
the lemmas about `Distinct` and `Ranked`. For this Routing and FanOut use recursive functions where
they had RECURSIVE operators and SelectSeq. How lists expand into their leaves
(`Leaves`) stays unproved: RoutingAssumption takes it that they are models, and TLC
evaluates that.

What the proofs found in the models, where TLC had found nothing: `Begin` of FanOut had
two cases for a sequential graph without a candidate; the exception of TextKept for a
provider that announces its end also covered plain responses and an announcement
that was dropped, and the last event of a success was sent under the context of the
try in place of the request's; an error may follow the `message_stop` of any
messages stream, not only of one whose provider announced its end, and WellFormed
now covers them all; and SessionStays and GateHolds hold for any route table only if the conditions their
comments name are added (a route after the first of its pattern is not asked; a
route with the name of a virtual list is explained without asking for eligibility).

Only model-checked:

- liveness (RecoveryOffered, CallsEnd, RequestsEnd, AttemptsEnd, FanOutEnds,
  CallersEnd, Recovers, EveryMemberServed, ServeEnds): temporal reasoning under
  fairness and ENABLED are out of the prover's reach.

Every invariant that a run checks has its theorem. The findings of section 3 are
counterexamples and stay with TLC.

## 5. Not modelled

- The detectors, the TUI, most CLI commands, the bootstrap of the brain, keys,
  update and logging: files, processes, layout and formats, handled by one
  goroutine from beginning to end. No state is shared and no step can interleave,
  so a model would repeat the code.
- Rate limit and access control: one short critical section and one comparison.
- The text of requests and answers, headers, prompts and parsing by characters;
  the numbers that only rank (scores, latencies, costs except in FanOut).
- `verificationBatch`, the rotation of the batches of the worker.
- In the parts that are modelled: `SetCooldown` (tests only), a candidate whose
  runner is missing (nothing detaches one), the rows other than the catalog's,
  two overlapping snapshots of the server, the intervals of timers other than
  their order, connections in the control plane.

## 6. Plan

1. The rotation of verification batches with two providers.
2. The control-plane and health rows in CatalogStore, and overlapping snapshots.
3. Action properties of routing (what a request may change of the cursors and the
   sticky table), and a composition of Routing with Catalog in place of the free
   status of its models.
