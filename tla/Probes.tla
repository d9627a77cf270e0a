------------------------------- MODULE Probes -------------------------------
(***************************************************************************)
(* How a model is found to work: the periodic check of its provider        *)
(* (internal/health/loop.go), and the probes of the model itself, by the   *)
(* verification worker and by requests that found no routable member of a  *)
(* virtual list (internal/server/server.go).                               *)
(*                                                                         *)
(* The loop checks without its lock, stores under it and calls onChange    *)
(* after the unlock.  A probe is a single flight per model, the            *)
(* verification of a list a single flight per list; a leader runs under    *)
(* the context of its own client, which may leave at any time.             *)
(***************************************************************************)
EXTENDS Integers, FiniteSets

CONSTANTS
    Probed,         \* models of one provider, all members of one virtual list
    Clients,        \* requests for that list
    Worker,         \* the verification worker
    DebounceCount,  \* failed checks in a row that make a provider unhealthy
    MaxOutages,     \* bound: times the provider stops answering
    MaxAsks         \* bound: verifications one client asks for

Callers == Clients \cup {Worker}
Nobody == "nobody"

ASSUME ProbesAssumption ==
    /\ Worker \notin Clients /\ Nobody \notin Callers
    /\ DebounceCount \in Nat \ {0} /\ MaxOutages \in Nat /\ MaxAsks \in Nat

HealthStatuses == {"unknown", "healthy", "degraded", "unhealthy", "cooldown"}

VARIABLES
    up, outages,    \* the provider answers; times it stopped
    result,         \* the loop's entry: status and consecutive errors
    check,          \* "idle", or the status that the check has still to report to onChange
    failing,        \* failed checks in a row, as an observer counts them
    model,          \* model[m]: the catalog's status of m
    verified,       \* verified[m]: the configuration's ModelInfo[m].VerifiedAt is set
    info,           \* info[m]: what the catalog's copy of that entry says
    flight,         \* flight[m]: the leader of the probe of m (probeFlights)
    list,           \* the leader of the verification of the list (onDemand)
    caller,         \* caller[c]: where c is, the model it tests, the models left, those found healthy
    asks

loopVars == <<up, outages, result, check, failing>>
probeVars == <<verified, info, flight, list, caller, asks>>
allProbeVars == <<loopVars, model, probeVars>>

Idle == [at |-> "idle", m |-> Nobody, left |-> {}, found |-> {}, here |-> TRUE, last |-> "none"]

ProbesInit ==
    /\ up = TRUE /\ outages = 0
    /\ result = [status |-> "none", errors |-> 0] /\ check = "idle" /\ failing = 0
    /\ verified \in [Probed -> BOOLEAN]
    /\ model = [m \in Probed |-> IF verified[m] THEN "healthy" ELSE "unknown"]
    /\ info \in [Probed -> {"verified", "none", "error"}] /\ \A m \in Probed : verified[m] <=> info[m] = "verified"
    /\ flight = [m \in Probed |-> Nobody] /\ list = Nobody
    /\ caller = [c \in Callers |-> Idle]
    /\ asks = [c \in Clients |-> 0]

(***************************************************************************)
(* The provider and the loop.                                              *)
(***************************************************************************)
Outage ==
    /\ up /\ outages < MaxOutages
    /\ up' = FALSE /\ outages' = outages + 1
    /\ UNCHANGED <<result, check, failing, model, probeVars>>

Recovery ==
    /\ ~up /\ up' = TRUE
    /\ UNCHANGED <<outages, result, check, failing, model, probeVars>>

\* Mutant: failures from before the window count.
Errors_IgnoresWindow(err, late) == IF ~err THEN 0 ELSE result.errors + 1

\* late: the last result is older than debounceWindow.
Errors(err, late) == IF ~err THEN 0 ELSE (IF late THEN 0 ELSE result.errors) + 1

Judged(errors) ==
    CASE errors = 0 -> "healthy"
      [] errors >= DebounceCount -> "unhealthy"
      [] OTHER -> "degraded"

Capped(n) == IF n > DebounceCount THEN DebounceCount ELSE n

\* checkAll and checkOne.  Both counts are capped where they change nothing
\* any more.
CheckOne(late) ==
    LET errors == Capped(Errors(~up, late))
        status == IF up THEN "healthy" ELSE Judged(errors)
    IN  /\ check = "idle"
        /\ result' = [status |-> status, errors |-> errors]
        /\ check' = IF status = result.status THEN "idle" ELSE status
        /\ failing' = IF up THEN 0 ELSE IF late THEN 1 ELSE Capped(failing + 1)
        /\ UNCHANGED <<up, outages, model, probeVars>>

\* A healthy provider does not make its models healthy again: only a
\* success of their own does.
OnHealthChange(status) ==
    model' = [m \in Probed |-> IF model[m] \in {"cooldown", "unknown"} \/ status = "healthy" THEN model[m] ELSE status]

Tell ==
    /\ check \in HealthStatuses /\ OnHealthChange(check) /\ check' = "idle"
    /\ UNCHANGED <<up, outages, result, failing, probeVars>>

\* RecordSuccess by an attachment, with the RegisterProvider that copies
\* the configuration's ModelInfo into the catalog: as a reload does.
RegisterProvider ==
    /\ \E m \in Probed : info[m] /= "verified" /\ verified[m]
    /\ info' = [m \in Probed |-> IF verified[m] THEN "verified" ELSE info[m]]
    /\ result' = [status |-> "healthy", errors |-> 0] /\ failing' = 0
    /\ UNCHANGED <<up, outages, check, model, verified, flight, list, caller, asks>>

\* A cooldown ends: the model is unknown and its verification is void.
Expire(m) ==
    /\ model[m] = "cooldown"
    /\ model' = [model EXCEPT ![m] = "unknown"]
    /\ info' = [info EXCEPT ![m] = IF @ = "verified" THEN "none" ELSE @]
    /\ UNCHANGED <<loopVars, verified, flight, list, caller, asks>>

(***************************************************************************)
(* The probes.                                                             *)
(***************************************************************************)
ProviderHealthy == result.status /= "unhealthy"
ModelVerified(m) == info[m] = "verified" \/ (info[m] = "none" /\ verified[m])
ModelRoutable(m) == ModelVerified(m) /\ ProviderHealthy /\ model[m] = "healthy"

Go(c, at) == caller' = [caller EXCEPT ![c].at = at]

\* A request finds no routable member: it verifies the list, or waits for
\* the request that does.
Ask(c) ==
    LET targets == {m \in Probed : ~ModelVerified(m) /\ model[m] /= "cooldown"}
    IN  /\ caller[c].at = "idle" /\ asks[c] < MaxAsks
        /\ ProviderHealthy /\ targets /= {} /\ ~\E m \in Probed : ModelRoutable(m)
        /\ asks' = [asks EXCEPT ![c] = @ + 1]
        /\ IF list = Nobody
           THEN list' = c /\ caller' = [caller EXCEPT ![c] = [Idle EXCEPT !.at = "pick", !.left = targets]]
           ELSE UNCHANGED list /\ Go(c, "wait")
        /\ UNCHANGED <<loopVars, model, verified, info, flight>>

\* NeedsVerification: the unknown models, and those whose last check is
\* older than the interval.
NeedsVerification(m, due) == model[m] = "unknown" \/ (m \in due /\ model[m] /= "cooldown")

\* Mutant: only models that were never probed are due.
Tick_UnknownOnly(due) ==
    LET targets == {m \in Probed : model[m] = "unknown"}
    IN  /\ caller[Worker].at = "idle" /\ targets /= {} /\ ProviderHealthy
        /\ caller' = [caller EXCEPT ![Worker] = [Idle EXCEPT !.at = "pick", !.left = targets]]
        /\ UNCHANGED <<loopVars, model, verified, info, flight, list, asks>>

\* The worker's tick.  A batch takes all that are due; the models of an
\* unhealthy provider are reported, not probed.
Tick(due) ==
    LET targets == {m \in Probed : NeedsVerification(m, due)}
    IN  /\ caller[Worker].at = "idle" /\ targets /= {} /\ ProviderHealthy
        /\ caller' = [caller EXCEPT ![Worker] = [Idle EXCEPT !.at = "pick", !.left = targets]]
        /\ UNCHANGED <<loopVars, model, verified, info, flight, list, asks>>

\* The client leaves, or its 20 seconds are over.
Depart(c) ==
    /\ caller[c].at /= "idle" /\ caller[c].here
    /\ caller' = [caller EXCEPT ![c].here = FALSE]
    /\ UNCHANGED <<loopVars, model, verified, info, flight, list, asks>>

\* Mutant: the flight of another caller is not looked for.
TestModel_NoFlight(c, m) ==
    /\ caller[c].at = "pick" /\ m \in caller[c].left /\ caller[c].here
    /\ flight' = [flight EXCEPT ![m] = c]
    /\ caller' = [caller EXCEPT ![c].m = m, ![c].left = @ \ {m}, ![c].at = "probe"]
    /\ UNCHANGED <<loopVars, model, verified, info, list, asks>>

TestModel(c, m) ==
    /\ caller[c].at = "pick" /\ m \in caller[c].left /\ caller[c].here
    /\ flight' = [flight EXCEPT ![m] = IF @ = Nobody THEN c ELSE @]
    /\ caller' = [caller EXCEPT ![c].m = m, ![c].left = @ \ {m},
                                ![c].at = IF flight[m] = Nobody THEN "probe" ELSE "follow"]
    /\ UNCHANGED <<loopVars, model, verified, info, list, asks>>

\* testModelResolved: a cooldown defers the probe; a departed client fails
\* it as a provider that does not answer does.
Probe(c) ==
    LET m == caller[c].m
        outcome == IF model[m] = "cooldown" THEN "cooldown" ELSE IF up /\ caller[c].here THEN "healthy" ELSE "failed"
    IN  /\ caller[c].at = "probe"
        /\ model' = [model EXCEPT ![m] = IF outcome = "failed" THEN "cooldown" ELSE IF outcome = "healthy" THEN "healthy" ELSE @]
        /\ caller' = [caller EXCEPT ![c].at = "publish", ![c].last = outcome]
        /\ UNCHANGED <<loopVars, verified, info, flight, list, asks>>

Noted(k, m, outcome) == [k EXCEPT !.at = "pick", !.m = Nobody, !.last = "none", !.found = IF outcome = "healthy" THEN @ \cup {m} ELSE @]

\* Mutant: a leader whose client left returns without ending its flight.
Publish_LeavesFlight(c) ==
    LET m == caller[c].m
    IN  /\ caller[c].at = "publish"
        /\ flight' = [flight EXCEPT ![m] = IF caller[c].here THEN Nobody ELSE @]
        /\ caller' = [d \in Callers |->
             IF d = c THEN Noted(caller[c], m, caller[c].last)
             ELSE IF caller[d].at = "follow" /\ caller[d].m = m THEN [caller[d] EXCEPT !.at = "join", !.last = caller[c].last]
             ELSE caller[d]]
        /\ UNCHANGED <<loopVars, model, verified, info, list, asks>>

\* The leader stores its result, closes done and removes the flight: its
\* followers hold the flight and read the result when they run.
Publish(c) ==
    LET m == caller[c].m
    IN  /\ caller[c].at = "publish"
        /\ flight' = [flight EXCEPT ![m] = Nobody]
        /\ caller' = [d \in Callers |->
             IF d = c THEN Noted(caller[c], m, caller[c].last)
             ELSE IF caller[d].at = "follow" /\ caller[d].m = m THEN [caller[d] EXCEPT !.at = "join", !.last = caller[c].last]
             ELSE caller[d]]
        /\ UNCHANGED <<loopVars, model, verified, info, list, asks>>

\* The follower takes the result, or "cooldown" when its own context ended.
Join(c) ==
    /\ \/ caller[c].at = "join" /\ caller' = [caller EXCEPT ![c] = Noted(@, @.m, @.last)]
       \/ /\ caller[c].at \in {"follow", "join"} /\ ~caller[c].here
          /\ caller' = [caller EXCEPT ![c] = Noted(@, @.m, "cooldown")]
    /\ UNCHANGED <<loopVars, model, verified, info, flight, list, asks>>

\* applyModelVerification: the configuration, never the catalog's copy.
ApplyModelVerification(results) ==
    verified' = [m \in Probed |-> verified[m] \/ m \in results]

\* The results are applied; the end of the list's verification wakes the
\* requests that wait for it.
Finish(c) ==
    /\ caller[c].at = "pick" /\ (caller[c].left = {} \/ ~caller[c].here)
    /\ ApplyModelVerification(caller[c].found)
    /\ list' = IF list = c THEN Nobody ELSE list
    /\ caller' = [d \in Callers |-> IF d = c \/ (list = c /\ caller[d].at = "wait") THEN Idle ELSE caller[d]]
    /\ UNCHANGED <<loopVars, model, info, flight, asks>>

\* A request that waits for another's verification leaves.
GiveUp(c) ==
    /\ caller[c].at = "wait" /\ ~caller[c].here
    /\ caller' = [caller EXCEPT ![c] = Idle]
    /\ UNCHANGED <<loopVars, model, verified, info, flight, list, asks>>

CallerStep(c) ==
    \/ \E m \in Probed : TestModel(c, m)
    \/ Probe(c) \/ Publish(c) \/ Join(c) \/ Finish(c) \/ GiveUp(c)

ProbesNext ==
    \/ Outage \/ Recovery \/ Tell \/ RegisterProvider
    \/ \E late \in BOOLEAN : CheckOne(late)
    \/ \E m \in Probed : Expire(m)
    \/ \E c \in Clients : Ask(c) \/ Depart(c)
    \/ \E due \in SUBSET Probed : Tick(due)
    \/ \E c \in Callers : CallerStep(c)

\* An outage ends; the loop and the worker run on their timers, a probe
\* ends by its own time limit, a cooldown by its expiry.  Nothing makes a
\* client ask, leave, or the configuration be loaded again.
Fairness ==
    /\ WF_allProbeVars(Recovery) /\ WF_allProbeVars(Tell)
    /\ WF_allProbeVars(\E late \in BOOLEAN : CheckOne(late))
    /\ \A m \in Probed : WF_allProbeVars(Expire(m))
    /\ WF_allProbeVars(Tick(Probed))
    /\ \A c \in Callers : WF_allProbeVars(CallerStep(c))

ProbesSpec == ProbesInit /\ [][ProbesNext]_allProbeVars /\ Fairness

\* What a caller is doing, with which model.
CallerType ==
    [at    : {"idle", "wait", "pick", "probe", "publish", "follow", "join"},
     m     : Probed \cup {Nobody},
     left  : SUBSET Probed,
     found : SUBSET Probed,
     here  : BOOLEAN,
     last  : {"none", "healthy", "failed", "cooldown"}]

ProbesTypeOK ==
    /\ model \in [Probed -> HealthStatuses]
    /\ verified \in [Probed -> BOOLEAN]
    /\ flight \in [Probed -> Callers \cup {Nobody}]
    /\ list \in Clients \cup {Nobody}
    /\ caller \in [Callers -> CallerType]
    /\ asks \in [Clients -> Nat]

(***************************************************************************)
(* Properties.                                                             *)
(***************************************************************************)
\* A provider is unhealthy only after DebounceCount failed checks in a row,
\* with no success and no attachment between them.
DebounceHonoured == result.status = "unhealthy" => failing >= DebounceCount

\* A probe in flight has exactly the leader the map names, and every
\* follower follows one: at most one probe of a model runs, and no flight
\* or follower is left behind by the end of a leader.
FlightsOwned ==
    \A m \in Probed :
      /\ \A c \in Callers : caller[c].at \in {"probe", "publish"} /\ caller[c].m = m <=> flight[m] = c
      /\ (\E c \in Callers : caller[c].at = "follow" /\ caller[c].m = m) => flight[m] /= Nobody

\* A call that started ends, whoever leads the flights it waits for.
CallersEnd == \A c \in Callers : caller[c].at /= "idle" ~> caller[c].at = "idle"

\* After the last outage every model is healthy again, and stays so when
\* the clients have stopped leaving.
Recovers == <>[](\A m \in Probed : model[m] = "healthy")

\* docs/routing.md: excluded until a real probe succeeds.  A model whose
\* probes succeed is verified again in the end.
VerifiedAgain == \A m \in Probed : <>[](model[m] = "healthy" => ModelVerified(m))
=============================================================================
