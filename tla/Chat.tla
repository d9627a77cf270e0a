---------------------------------- MODULE Chat ----------------------------------
(***************************************************************************)
(* One request of the chat, responses or messages API (handleChat,         *)
(* handleResponses and handleAnthropicMessages with their streaming and    *)
(* plain halves in internal/server) from its ranked list of candidates to  *)
(* its end.  The candidates are tried one after the other.                 *)
(* Each attempt starts a goroutine (ProviderRunner.Invoke) that sends the  *)
(* provider's output into a bounded channel and its error into another;    *)
(* the handler selects among both, the request's context and a timer, so   *)
(* it may give up an attempt whose goroutine still runs.  That goroutine   *)
(* sends its last event while it holds the mutex of the provider's health, *)
(* which the routing of every other request reads.                         *)
(***************************************************************************)
EXTENDS Naturals, Sequences, FiniteSets

CONSTANTS
  Models,     \* provider/model pairs
  Providers,
  Provider,   \* the provider of each model
  First,      \* the candidate lists that routing may return
  Buffer,     \* capacity of the channel of events
  MaxDeltas,  \* bound of the output of an attempt
  Nobody      \* no provider

Unique(s) == \A j, k \in DOMAIN s : s[j] = s[k] => j = k

ASSUME ConstantsAssumption ==
  /\ Provider \in [Models -> Providers]
  /\ First \subseteq {s \in Seq(Models) : s # <<>> /\ Unique(s)}
  /\ Buffer \in Nat \ {0}
  /\ MaxDeltas \in Nat
  /\ Nobody \notin Providers

VARIABLES
  api,         \* "chat", "responses" or "messages"
  mode,        \* "stream" or "plain"
  virtual,     \* a chat for a ghrouter/ model: candidates may be added
  candidates,  \* the list of candidates
  at,          \* the place in it of the current one
  phase,       \* where the handler is
  run,         \* where the goroutine of each attempt is
  events,      \* what its event channel holds
  failure,     \* what its error channel holds
  emitted,     \* the attempts that have sent output
  produced,    \* history: the number of deltas the attempt that the handler
               \* listens to has printed
  dropped,     \* the number of them that a deadline kept from the channel
  early,       \* its provider said itself that it is done ...
  before,      \* ... when it had sent that many deltas
  received,    \* the number of them that the handler has read
  delivered,   \* the number of deltas of each model written to the client
  answer,      \* how the response ended
  done,        \* the request's context is done
  cooling,     \* the models that recordModelFailure has put in cooldown
  asked        \* the provider whose health another request reads, or Nobody

output   == <<produced, dropped, early, before>>
attempts == <<run, events, failure, emitted, output>>
response == <<received, delivered, answer>>
request  == <<api, mode, virtual>>
vars     == <<request, candidates, at, phase, attempts, response, done, cooling, asked>>

Failures == {"error", "quota"}
APIs     == {"chat", "responses", "messages"}

TypeOK ==
  /\ api \in APIs /\ mode \in {"stream", "plain"} /\ virtual \in BOOLEAN
  /\ candidates \in Seq(Models) /\ Unique(candidates)
  /\ at \in DOMAIN candidates
  /\ phase \in {"attempt", "first", "body", "closing", "collect", "failed", "ended"}
  /\ run \in [Models -> {"none", "running", "finishing", "ended"}]
  /\ events \in [Models -> Seq({"delta", "done"})]
  /\ \A m \in Models : Len(events[m]) <= Buffer
  /\ failure \in [Models -> Failures \cup {"none"}]
  /\ emitted \in SUBSET Models
  /\ produced \in 0..MaxDeltas /\ dropped \in 0..MaxDeltas /\ received \in 0..MaxDeltas
  /\ early \in BOOLEAN /\ before \in 0..MaxDeltas
  /\ delivered \in [Models -> 0..MaxDeltas]
  /\ answer \in {"none", "complete", "error"}
  /\ done \in BOOLEAN
  /\ cooling \in SUBSET Models
  /\ asked \in Providers \cup {Nobody}

Init ==
  /\ api \in APIs /\ mode \in {"stream", "plain"}
  /\ virtual \in BOOLEAN /\ (virtual => api = "chat")
  /\ candidates \in First
  /\ at = 1
  /\ phase = "attempt"
  /\ run = [m \in Models |-> "none"]
  /\ events = [m \in Models |-> <<>>]
  /\ failure = [m \in Models |-> "none"]
  /\ emitted = {}
  /\ produced = 0 /\ dropped = 0 /\ early = FALSE /\ before = 0 /\ received = 0
  /\ delivered = [m \in Models |-> 0]
  /\ answer = "none"
  /\ done = FALSE
  /\ cooling = {}
  /\ asked = Nobody

current == candidates[at]
-----------------------------------------------------------------------------
(* The goroutine of an attempt: Invoke.                                    *)

(* Whoever finishes holds the health mutex of the provider. *)
HealthLocked(p) == \E m \in Models : Provider[m] = p /\ run[m] = "finishing"

(* What the handler gave up is counted no more, and ends when its channel  *)
(* is full.                                                                *)
Listens(m) == m = current /\ phase \in {"first", "body", "collect"}

(* The provider prints a piece of text, which is sent.  The deadline of the *)
(* provider may pass at any moment: an update that waits then is dropped,  *)
(* or even one for which there was room.                                   *)
Emit(m) ==
  /\ run[m] = "running"
  /\ Listens(m) => produced < MaxDeltas
  /\ produced' = IF Listens(m) THEN produced + 1 ELSE produced
  /\ \/ /\ Len(events[m]) < Buffer
        /\ events' = [events EXCEPT ![m] = Append(@, "delta")]
        /\ emitted' = emitted \cup {m}
        /\ UNCHANGED dropped
     \/ /\ dropped' = IF Listens(m) THEN dropped + 1 ELSE dropped
        /\ UNCHANGED <<events, emitted>>
  /\ UNCHANGED <<request, candidates, at, phase, run, failure, early, before, response, done,
                 cooling, asked>>

(* A responses stream takes its first event for output, whatever it is. *)
Ignored == api = "responses" /\ phase = "first" /\ events[current] = <<>>

(* The provider prints that it is done, and may go on.  The event counts   *)
(* if the handler will believe it.  In a channel that nobody reads it is   *)
(* no other than a piece of text.                                          *)
SayDone(m) ==
  /\ run[m] = "running" /\ Listens(m) /\ ~early
  /\ Len(events[m]) < Buffer
  /\ events' = [events EXCEPT ![m] = Append(@, "done")]
  /\ IF Ignored THEN UNCHANGED <<early, before>>
                ELSE early' = TRUE /\ before' = produced - dropped
  /\ UNCHANGED <<request, candidates, at, phase, run, failure, emitted, produced, dropped,
                 response, done, cooling, asked>>

(* executeCLI succeeds, which it does not unless something was sent.  Only *)
(* an ACP client has succeeded after a deadline; module Attempt tells the  *)
(* clients and the tries apart.                                            *)
Succeed(m) ==
  /\ run[m] = "running"
  /\ m \in emitted
  /\ ~HealthLocked(Provider[m])
  /\ run' = [run EXCEPT ![m] = "finishing"]
  /\ UNCHANGED <<request, candidates, at, phase, events, failure, emitted, output, response,
                 done, cooling, asked>>

(* executeCLI fails or the circuit refuses the request.  The channel of    *)
(* errors has room for it; both channels are closed.                       *)
Fail(m) ==
  /\ run[m] = "running"
  /\ ~HealthLocked(Provider[m])
  /\ \E f \in Failures : failure' = [failure EXCEPT ![m] = f]
  /\ run' = [run EXCEPT ![m] = "ended"]
  /\ UNCHANGED <<request, candidates, at, phase, events, emitted, output, response, done,
                 cooling, asked>>

\* Mutant: the last event is sent without a look at the context.
EmitDone_IgnoresContext(m) ==
  /\ run[m] = "finishing"
  /\ Len(events[m]) < Buffer
  /\ events' = [events EXCEPT ![m] = Append(@, "done")]
  /\ run' = [run EXCEPT ![m] = "ended"]
  /\ UNCHANGED <<request, candidates, at, phase, failure, emitted, output, response, done,
                 cooling, asked>>

(* emitStreamEvent for the last event, still under the health mutex: it    *)
(* waits for room or for the end of the context, and takes either one.     *)
EmitDone(m) ==
  /\ run[m] = "finishing"
  /\ \/ /\ Len(events[m]) < Buffer
        /\ events' = [events EXCEPT ![m] = Append(@, "done")]
     \/ done /\ UNCHANGED events
  /\ run' = [run EXCEPT ![m] = "ended"]
  /\ UNCHANGED <<request, candidates, at, phase, failure, emitted, output, response, done,
                 cooling, asked>>
-----------------------------------------------------------------------------
(* The handler.                                                            *)

(* The handler returns: net/http ends the context of the request. *)
End(how) ==
  /\ phase' = "ended"
  /\ answer' = how
  /\ done' = TRUE

Attempt ==
  /\ phase = "attempt"
  /\ run' = [run EXCEPT ![current] = "running"]
  /\ phase' = IF mode = "stream" THEN "first" ELSE "collect"
  /\ UNCHANGED <<request, candidates, at, events, failure, emitted, output, response, done,
                 cooling, asked>>

(* The cases of the select. *)
NextEvent == Head(events[current])
HasEvent == events[current] # <<>>
Closed   == run[current] = "ended" /\ ~HasEvent

Take == events' = [events EXCEPT ![current] = Tail(@)]
Read == received' = received + 1
Write == delivered' = [delivered EXCEPT ![current] = @ + 1]

(* The ways an attempt fails before anything was written: its error, the   *)
(* context, the timer of three minutes, a channel that ends too early.     *)
(* Only an error of the provider can be one about its quota.               *)
GivesUp(kind) ==
  \/ failure[current] = kind
  \/ kind = "error"  \* the timer, the context, an early end

(* recordModelFailure: a quota error puts every model of the provider in   *)
(* cooldown, another one the model.                                        *)
Cool(kind) ==
  cooling' = cooling \cup
    IF kind = "quota" THEN {m \in Models : Provider[m] = Provider[current]} ELSE {current}

(* The history is that of the next attempt. *)
Forget == produced' = 0 /\ dropped' = 0 /\ early' = FALSE /\ before' = 0 /\ received' = 0

AttemptFails ==
  /\ phase \in {"first", "collect"}
  /\ \E kind \in Failures : GivesUp(kind) /\ Cool(kind)
  /\ phase' = "failed"
  /\ Forget
  /\ UNCHANGED <<request, candidates, at, run, events, failure, emitted, delivered, answer, done,
                 asked>>

(* firstProviderEvent has an event: the headers, the first chunks.  The    *)
(* writes may fail once the client is gone.                                *)
StreamFirst ==
  /\ phase = "first" /\ HasEvent
  /\ \/ NextEvent = "delta" /\ Read /\ Write
     \/ NextEvent = "done" /\ api = "responses" /\ UNCHANGED <<received, delivered>>
  /\ Take
  /\ phase' = "body"
  /\ UNCHANGED <<request, candidates, at, run, failure, emitted, output, answer, done,
                 cooling, asked>>

StreamDelta ==
  /\ phase = "body" /\ HasEvent /\ NextEvent = "delta"
  /\ Take /\ Read /\ Write
  /\ UNCHANGED <<request, candidates, at, phase, run, failure, emitted, output, answer, done,
                 cooling, asked>>

(* A done event ends the output, whether Invoke sent it or the provider's  *)
(* own parser, which may still have something to send.                     *)
TakeDone ==
  /\ phase = "body" \/ (phase = "first" /\ api # "responses")
  /\ HasEvent /\ NextEvent = "done"
  /\ Take
  /\ UNCHANGED <<request, candidates, at, run, failure, emitted, output, received, delivered,
                 asked>>

(* The chat stream ends with it. *)
ChatDone ==
  /\ api = "chat"
  /\ TakeDone
  /\ End("complete")
  /\ cooling' = cooling \ {current}

(* The two other streams read no more events, the messages API after it    *)
(* wrote its last one, and wait until the channel of errors is closed.     *)
StreamDone ==
  /\ api # "chat"
  /\ TakeDone
  /\ phase' = "closing"
  /\ UNCHANGED <<answer, done, cooling>>

Finish ==
  /\ phase = "closing" /\ run[current] = "ended" /\ failure[current] = "none"
  /\ End("complete")
  /\ cooling' = cooling \ {current}
  /\ UNCHANGED <<request, candidates, at, attempts, received, delivered, asked>>

\* Mutant: a stream that breaks is taken up by the next candidate.
StreamBreaks_FallsBack ==
  /\ phase = "body"
  /\ Cool("error")
  /\ phase' = "failed"
  /\ Forget
  /\ UNCHANGED <<request, candidates, at, run, events, failure, emitted, delivered, answer, done,
                 asked>>

(* The stream breaks after output was written: by the context, a failed    *)
(* write, an error or an early end of the provider, or a timer, which a    *)
(* responses stream lacks.  No other candidate is tried; the client is     *)
(* told if it is still there.                                              *)
StreamBreaks ==
  /\ api # "messages" /\ phase \in {"body", "closing"}
  /\ \/ done
     \/ api = "chat"
     \/ failure[current] # "none"
     \/ phase = "body" /\ Closed
  /\ End("error")
  /\ UNCHANGED <<request, candidates, at, attempts, received, delivered, cooling, asked>>

(* The messages API records the failure of the model even then, and when   *)
(* it is its own client who has left.                                      *)
MessagesBreaks ==
  /\ api = "messages" /\ phase \in {"body", "closing"}
  /\ \E kind \in Failures : GivesUp(kind) /\ Cool(kind)
  /\ End("error")
  /\ UNCHANGED <<request, candidates, at, attempts, received, delivered, asked>>

(* collectProviderResponse reads until both channels are closed. *)
Collect ==
  /\ phase = "collect" /\ HasEvent
  /\ Take
  /\ IF NextEvent = "delta" THEN Read ELSE UNCHANGED received
  /\ UNCHANGED <<request, candidates, at, phase, run, failure, emitted, output, delivered, answer,
                 done, cooling, asked>>

\* Mutant: the loop ends with the first channel that is closed.
Respond_Early ==
  /\ phase = "collect" /\ run[current] = "ended" /\ failure[current] = "none"
  /\ delivered' = [delivered EXCEPT ![current] = received]
  /\ End("complete")
  /\ cooling' = cooling \ {current}
  /\ UNCHANGED <<request, candidates, at, attempts, received, asked>>

(* The response is complete and its encoding succeeds. *)
Respond ==
  /\ phase = "collect" /\ Closed /\ failure[current] = "none"
  /\ delivered' = [delivered EXCEPT ![current] = received]
  /\ End("complete")
  /\ cooling' = cooling \ {current}
  /\ UNCHANGED <<request, candidates, at, attempts, received, asked>>

(* extendVirtualCandidatesAfterFailure: the verification on demand finds   *)
(* other models; routing offers them if they are not in cooldown.  One at  *)
(* most is added here.                                                     *)
Offered == {m \in Models : m \notin cooling}

\* Mutant: the candidates found are not compared with the list.
Extend_Duplicates(list) ==
  \E more \in {<<>>} \cup {<<m>> : m \in Models} :
    list = candidates \o more /\ (more # <<>> => virtual /\ ~done)

Extend(list) ==
  \E more \in {<<>>} \cup {<<m>> : m \in Offered \ {candidates[k] : k \in DOMAIN candidates}} :
    list = candidates \o more /\ (more # <<>> => virtual /\ ~done)

(* The next candidate, or the error of the last one. *)
MoveOn ==
  IF at < Len(candidates')
  THEN at' = at + 1 /\ phase' = "attempt" /\ UNCHANGED <<answer, done>>
  ELSE End("error") /\ UNCHANGED at

(* A chat stream asks for more candidates after its first one failed, a    *)
(* plain chat whenever its list is used up.                                *)
Advance ==
  /\ api = "chat" /\ phase = "failed"
  /\ IF at = (IF mode = "stream" THEN 1 ELSE Len(candidates))
     THEN Extend(candidates') ELSE UNCHANGED candidates
  /\ MoveOn
  /\ UNCHANGED <<request, attempts, received, delivered, cooling, asked>>

AdvanceResponses ==
  /\ api = "responses" /\ phase = "failed"
  /\ UNCHANGED candidates
  /\ MoveOn
  /\ UNCHANGED <<request, attempts, received, delivered, cooling, asked>>

(* A messages stream stops when its client is gone. *)
AdvanceMessages ==
  /\ api = "messages" /\ phase = "failed"
  /\ UNCHANGED candidates
  /\ IF mode = "stream" /\ done THEN End("error") /\ UNCHANGED at ELSE MoveOn
  /\ UNCHANGED <<request, attempts, received, delivered, cooling, asked>>

(* The client goes away or the server shuts down. *)
Leave ==
  /\ ~done
  /\ done' = TRUE
  /\ UNCHANGED <<request, candidates, at, phase, attempts, response, cooling, asked>>
-----------------------------------------------------------------------------
(* The routing of another request calls GetHealth.                         *)

Ask(p) ==
  /\ asked = Nobody
  /\ asked' = p
  /\ UNCHANGED <<request, candidates, at, phase, attempts, response, done, cooling>>

GetHealth ==
  /\ asked # Nobody
  /\ ~HealthLocked(asked)
  /\ asked' = Nobody
  /\ UNCHANGED <<request, candidates, at, phase, attempts, response, done, cooling>>
-----------------------------------------------------------------------------
Handle ==
  \/ Attempt \/ AttemptFails \/ Advance \/ AdvanceResponses \/ AdvanceMessages
  \/ StreamFirst \/ StreamDelta \/ ChatDone \/ StreamDone \/ Finish
  \/ StreamBreaks \/ MessagesBreaks
  \/ Collect \/ Respond

Produce(m) == Emit(m) \/ SayDone(m) \/ Succeed(m) \/ Fail(m) \/ EmitDone(m)

Next ==
  \/ Handle
  \/ \E m \in Models : Produce(m)
  \/ Leave
  \/ \E p \in Providers : Ask(p)
  \/ GetHealth

Spec == Init /\ [][Next]_vars

(* The handler goes on: its timer bounds every wait for a provider (but    *)
(* the one of a responses stream that has begun), the write timeout of the *)
(* server every wait for the client.  A provider may say nothing as long   *)
(* as the context is not done, but is killed then.                         *)
Fairness ==
  /\ WF_vars(Handle)
  /\ \A m \in Models :
       /\ WF_vars(done /\ (Succeed(m) \/ Fail(m)))
       /\ WF_vars(EmitDone(m))
  /\ SF_vars(GetHealth)

FairSpec == Spec /\ Fairness
-----------------------------------------------------------------------------
(* Properties.                                                             *)

(* docs/routing.md:90: streaming requests "cannot safely switch providers  *)
(* after a stream has started".  The client gets output of one candidate   *)
(* at most, whatever fails and whenever, and nobody is asked twice, though *)
(* the list grows while it is used.                                        *)
OneVoice ==
  /\ \A m, n \in Models : delivered[m] > 0 /\ delivered[n] > 0 => m = n
  /\ Unique(candidates)

(* A response that ends as a complete one accounts for every piece of text *)
(* the provider printed: it was written, or a deadline of the provider     *)
(* kept it from the channel (generic_acp.go:142-147), or, for a stream, it *)
(* followed the provider's own word that it is done (runner.go:629-634).   *)
(* No order in which the handler takes the events, the errors and the      *)
(* closing of the two channels loses anything else.                        *)
WholeAnswer ==
  answer = "complete" =>
    IF mode = "stream" /\ early
    THEN delivered[current] = before
    ELSE delivered[current] = produced - dropped /\ delivered[current] > 0

(* Every wait of the handler is bounded by a timer of three minutes, but   *)
(* that of a responses stream whose output has begun.                      *)
Timed == ~(api = "responses" /\ mode = "stream")

(* Every goroutine ends, even that of an attempt which the handler gave up *)
(* while the channel was full; and so does reading the health of its       *)
(* provider, although the goroutine may hold its mutex while it waits for  *)
(* a client that reads slowly.                                             *)
AttemptsEnd ==
  /\ \A m \in Models : run[m] = "running" /\ Timed ~> run[m] = "ended"
  /\ asked # Nobody /\ Timed ~> asked = Nobody

(* docs/routing.md:89: after a failure "the next healthy, routable         *)
(* candidate is tried".  No attempt begins on a model in cooldown.         *)
NoAttemptInCooldown ==
  [][Attempt => current \notin cooling]_vars
=============================================================================
