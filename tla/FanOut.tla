------------------------------ MODULE FanOut ------------------------------
(***************************************************************************)
(* A request whose route fans out (internal/server/fusion.go and graph.go):*)
(* fusion asks several candidates at once, graph gives two specialists a   *)
(* stage each, at once or one after the other.  With first_complete the    *)
(* first usable answer cancels the others.  An optional judge rewrites     *)
(* what was collected.  The three APIs differ in the body they write.      *)
(* A worker is a goroutine with its own attempt (module Chat has the       *)
(* inside of one) and hands its result over in a channel.                  *)
(***************************************************************************)
EXTENDS Naturals, Sequences, FiniteSets, Profile

CONSTANTS
  CandidateLists, \* the candidate lists that routing may return
  Cost,           \* the cost of this request on each model, 0 if unknown
  JudgeModel,     \* the model that a route with a judge names
  Limited,        \* the models whose provider has a timeout
  FanOutRoutes    \* the routes that an operator may have configured

Strategies == {"fusion", "graph"}
FanOutAPIs == {"chat", "responses", "messages"}

ASSUME FanOutAssumption ==
  /\ CandidateLists \subseteq {s \in Seq(Models) : s # <<>>}
  /\ Cost \in [Models -> Nat]
  /\ Limited \subseteq Models
  /\ JudgeModel \in Models
  /\ \A r \in FanOutRoutes :
       /\ r.strategy \in Strategies
       /\ r.limit \in Nat /\ r.budget \in Nat
       /\ r.firstComplete \in BOOLEAN /\ r.judge \in BOOLEAN
  /\ Asked \subseteq SUBSET Needs

VARIABLES
  request,    \* its api, whether it streams, what it needs
  route,      \* the route that matches
  tried,      \* the candidates after limit and budget
  progress,   \* where the handler is
  worker,     \* the state or the outcome of the attempt on each model
  results,    \* the channel of results
  winner,     \* the first usable result, in a sequence of one
  stop,       \* workCtx was cancelled by the handler
  stage,      \* the stage of a sequential graph, from 1
  working,    \* the usable results in the order the handler has them
  cooling,    \* the models with a recorded failure
  sent,       \* the body written to the client
  departed    \* the context of the request is done

fanOutVars == <<request, route, tried, progress, worker, results, winner, stop, stage,
                working, cooling, sent, departed>>

Usable   == {"text", "tools"}
Outcomes == Usable \cup {"error", "expired"}

Graph  == TaskGraph(request.needs)
Stages == Len(Graph.stages)

Sequential == route.strategy = "graph" /\ ~Graph.parallel /\ Stages > 1
-----------------------------------------------------------------------------
(* What is tried.                                                          *)

(* fusionRoute and graphRoute: the strategy of the first match. *)
FusionRoute == route.strategy = "fusion"
GraphRoute  == route.strategy = "graph"

(* candidateWithinCostBudget: under a budget an unknown cost is too much. *)
WithinBudget(m) == route.budget > 0 => Cost[m] \in 1..route.budget

Limit ==
  LET most == IF route.strategy = "graph" /\ route.limit \notin 1..2 THEN 2 ELSE route.limit
  IN  IF most = 0 THEN Len(tried) ELSE most

(* The limit cuts the list before the budget is looked at. *)
Trimmed ==
  Kept(SubSeq(tried, 1, IF Limit < Len(tried) THEN Limit ELSE Len(tried)),
       {m \in Models : WithinBudget(m)})

FanOutInit ==
  /\ request \in [api : FanOutAPIs, stream : BOOLEAN, needs : Asked]
  /\ route \in FanOutRoutes
  /\ tried \in CandidateLists
  /\ progress = "routed"
  /\ worker = [m \in Models |-> "none"]
  /\ results = <<>> /\ winner = <<>> /\ working = <<>>
  /\ stop = FALSE /\ departed = FALSE
  /\ stage = 0
  /\ cooling = {}
  /\ sent = <<>>

InTried == {tried[k] : k \in DOMAIN tried}

(* One goroutine per candidate; the sequential graph starts with a stage. *)
Begin ==
  /\ progress = "routed"
  /\ tried' = Trimmed
  /\ progress' = CASE Trimmed = <<>> -> "collected"
                [] Trimmed # <<>> /\ Sequential -> "stage"
                [] OTHER -> IF route.firstComplete THEN "race" ELSE "wait"
  /\ worker' = IF Sequential THEN worker
               ELSE [m \in Models |-> IF \E k \in DOMAIN Trimmed : Trimmed[k] = m
                                      THEN "running" ELSE "none"]
  /\ UNCHANGED <<request, route, results, winner, stop, stage, working, cooling, sent, departed>>
-----------------------------------------------------------------------------
(* The workers.                                                            *)

(* collectProviderResponse returns.  An error is the provider's own or     *)
(* that of the timer of three minutes, or it is a context's: cancelled by  *)
(* the handler, ended with the request, timed out by the provider's        *)
(* configuration.                                                          *)
Returns(m, outcome) ==
  /\ worker[m] = "running"
  /\ outcome \in Outcomes
  /\ outcome = "expired" => stop \/ departed \/ m \in Limited
  /\ worker' = [worker EXCEPT ![m] = outcome]

(* The errors of contexts are nobody's failure.  (An error about a quota   *)
(* hits every model of the provider; here each has a provider of its own.) *)
Recorded(m, outcome) ==
  CASE outcome = "error"   -> cooling \cup {m}
    [] outcome \in Usable  -> cooling \ {m}
    [] OTHER               -> cooling

\* Mutant: the channel of results has room for one.
WorkerEnds_OneSlot(m) ==
  /\ FusionRoute
  /\ Len(results) < 1
  /\ \E outcome \in Outcomes :
       /\ Returns(m, outcome)
       /\ cooling' = Recorded(m, outcome)
  /\ results' = Append(results, m)
  /\ UNCHANGED <<request, route, tried, progress, winner, stop, stage, working, sent, departed>>

WorkerEnds(m) ==
  /\ FusionRoute
  /\ \E outcome \in Outcomes :
       /\ Returns(m, outcome)
       /\ cooling' = Recorded(m, outcome)
  /\ results' = Append(results, m)
  /\ UNCHANGED <<request, route, tried, progress, winner, stop, stage, working, sent, departed>>

SpecialistEnds(m) ==
  /\ GraphRoute /\ ~Sequential
  /\ \E outcome \in Outcomes :
       /\ Returns(m, outcome)
       /\ cooling' = Recorded(m, outcome)
  /\ results' = Append(results, m)
  /\ UNCHANGED <<request, route, tried, progress, winner, stop, stage, working, sent, departed>>
-----------------------------------------------------------------------------
(* The collection of the results.                                          *)

AllEnded == \A m \in Models : worker[m] # "running"

(* first_complete: as many results as there are workers are read; the      *)
(* first usable one wins and cancels the rest.                             *)
Race ==
  /\ progress = "race"
  /\ results # <<>>
  /\ results' = Tail(results)
  /\ IF winner = <<>> /\ worker[Head(results)] \in Usable
     THEN winner' = <<Head(results)>> /\ stop' = TRUE
     ELSE UNCHANGED <<winner, stop>>
  /\ progress' = IF AllEnded /\ Len(results) = 1 THEN "wait" ELSE "race"
  /\ UNCHANGED <<request, route, tried, worker, stage, working, cooling, sent, departed>>

(* Both collectors wait for the group before they return. *)
Collected(list) ==
  /\ progress = "wait" /\ AllEnded
  /\ working' = IF route.firstComplete THEN winner ELSE list
  /\ results' = <<>>
  /\ progress' = "collected"
  /\ UNCHANGED <<request, route, tried, worker, winner, stop, stage, cooling, sent, departed>>

Answered == {m \in Models : worker[m] \in Usable}
UsableResults == Kept(results, Answered)

\* Mutant: the collector does not wait for its group.
CollectFusion_NoWait ==
  /\ FusionRoute
  /\ progress = "wait"
  /\ working' = IF route.firstComplete THEN winner ELSE UsableResults
  /\ results' = <<>>
  /\ progress' = "collected"
  /\ UNCHANGED <<request, route, tried, worker, winner, stop, stage, cooling, sent, departed>>

(* Fusion keeps the order in which the results came. *)
CollectFusion == FusionRoute /\ Collected(UsableResults)

(* Graph sorts by the score of the models, a given total order: here the   *)
(* order of the list.                                                      *)
CollectGraph ==
  /\ GraphRoute
  /\ Collected(Kept(tried, Answered))

(* A stage of the sequential graph: its candidate gets the output of the   *)
(* stage before.  The first failure ends it without a result; that of the  *)
(* last stage is the only one kept.                                        *)
Specialist == tried[(stage % Len(tried)) + 1]

StageBegins ==
  /\ progress = "stage" /\ stage < Stages /\ worker[Specialist] # "running"
  /\ worker' = [worker EXCEPT ![Specialist] = "running"]
  /\ progress' = "specialist"
  /\ UNCHANGED <<request, route, tried, results, winner, stop, stage, working, cooling, sent, departed>>

StageEnds ==
  /\ progress = "specialist"
  /\ \E outcome \in Outcomes :
       /\ Returns(Specialist, outcome)
       /\ cooling' = Recorded(Specialist, outcome)
       /\ progress' = IF outcome \in Usable /\ stage + 1 < Stages THEN "stage" ELSE "collected"
       /\ working' = IF outcome \in Usable /\ stage + 1 = Stages THEN <<Specialist>> ELSE <<>>
  /\ stage' = stage + 1
  /\ UNCHANGED <<request, route, tried, results, winner, stop, sent, departed>>
-----------------------------------------------------------------------------
(* The judge and the answer.                                               *)

(* What the client may get: the first result, or the text of the judge in  *)
(* place of its text and tool calls.                                       *)
Answer(content) == <<Head(working), content>>

(* runFusionJudge: any error is a failure of the judge's model, that of    *)
(* its own timeout and of the client's departure too.                      *)
JudgeCalled ==
  \/ sent' = Answer("text") /\ cooling' = cooling \ {JudgeModel}
  \/ sent' = Answer(worker[Head(working)]) /\ cooling' = cooling \cup {JudgeModel}
  \/ sent' = Answer(worker[Head(working)]) /\ UNCHANGED cooling  \* not started or silent

Judge ==
  /\ progress = "collected" /\ working # <<>> /\ sent = <<>>
  /\ IF route.judge THEN JudgeCalled
     ELSE sent' = Answer(worker[Head(working)]) /\ UNCHANGED cooling
  /\ UNCHANGED <<request, route, tried, progress, worker, results, winner, stop, stage, working, departed>>

(* Tool calls reach a chat or a responses client; a messages client gets   *)
(* one text block, be it empty.                                            *)
ChatBody(answer)      == answer
ResponsesBody(answer) == answer
MessagesBody(answer)  == [answer EXCEPT ![2] = IF @ = "text" THEN "text" ELSE "empty"]

Body(answer) ==
  CASE request.api = "chat"      -> ChatBody(answer)
    [] request.api = "responses" -> ResponsesBody(answer)
    [] OTHER                     -> MessagesBody(answer)

(* The handler writes and returns, which ends the request's context. *)
Reply ==
  /\ progress = "collected" /\ (working = <<>> \/ sent # <<>>)
  /\ sent' = IF working = <<>> THEN <<"failed">> ELSE Body(sent)
  /\ progress' = "ended" /\ departed' = TRUE
  /\ UNCHANGED <<request, route, tried, worker, results, winner, stop, stage, working, cooling>>

ReplyFusion == FusionRoute /\ Reply
ReplyGraph  == GraphRoute /\ Reply

(* The client goes away or the server shuts down. *)
ClientLeaves ==
  /\ ~departed
  /\ departed' = TRUE
  /\ UNCHANGED <<request, route, tried, progress, worker, results, winner, stop, stage, working,
                 cooling, sent>>
-----------------------------------------------------------------------------
Handle == Begin \/ Race \/ CollectFusion \/ CollectGraph \/ StageBegins \/ StageEnds
          \/ Judge \/ ReplyFusion \/ ReplyGraph

FanOutNext ==
  \/ Handle
  \/ \E m \in Models : WorkerEnds(m) \/ SpecialistEnds(m)
  \/ ClientLeaves

FanOutSpec == FanOutInit /\ [][FanOutNext]_fanOutVars

(* Goroutines are scheduled; every attempt has a timer. *)
FanOutFairSpec ==
  /\ FanOutSpec
  /\ WF_fanOutVars(Handle)
  /\ \A m \in Models : WF_fanOutVars(WorkerEnds(m)) /\ WF_fanOutVars(SpecialistEnds(m))

FanOutTypeOK ==
  /\ request \in [api : FanOutAPIs, stream : BOOLEAN, needs : Asked]
  /\ route \in FanOutRoutes
  /\ tried \in Seq(Models) /\ results \in Seq(Models)
  /\ winner \in Seq(Models) /\ working \in Seq(Models)
  /\ progress \in {"routed", "race", "wait", "stage", "specialist", "collected", "ended"}
  /\ worker \in [Models -> Outcomes \cup {"none", "running"}]
  /\ stage \in Nat
  /\ cooling \subseteq Models
-----------------------------------------------------------------------------
(* Properties.                                                             *)

(* docs/config.md:53: first_complete "cancels sibling candidates after the *)
(* first valid result".  When the client is answered no worker runs on;    *)
(* the answer is that of a candidate which was tried and gave one,         *)
(* parallel work fails only if nobody gave one, and no candidate is in     *)
(* cooldown because another one won.                                       *)
Settled ==
  progress = "ended" =>
    /\ AllEnded
    /\ Len(sent) = 2 => worker[sent[1]] \in Usable
    /\ Len(sent) = 1 /\ ~Sequential => \A m \in InTried : worker[m] \notin Usable
    /\ \A m \in cooling \ {JudgeModel} : worker[m] = "error"

(* Every fan-out ends, whatever the order in which workers finish, the     *)
(* winner cancels and the channel fills.                                   *)
FanOutEnds == progress = "routed" ~> progress = "ended"
=============================================================================
