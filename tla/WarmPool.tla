-------------------------------- MODULE WarmPool --------------------------------
(***************************************************************************)
(* The ACP requests of one provider: those of the warm pool                *)
(* (internal/providers/generic_acp_pool.go), those that run an agent of    *)
(* their own (generic_acp.go, cursor_acp.go), and the client of their      *)
(* JSON-RPC dialogue (cursorACPClient.call in cursor_acp.go).              *)
(* The agent of a pool serves the requests one after the other, each in a  *)
(* session of its own; the pool's mutex is held for the whole request.     *)
(* The agent answers calls, reports output in updates that carry no call   *)
(* ID, refuses calls, dies or says nothing, as it likes.  The calls that   *)
(* choose the model and the effort have the shape of session/new.          *)
(***************************************************************************)
EXTENDS Naturals, Sequences, FiniteSets

CONSTANTS
  Requests,   \* calls of do; a retry is a call of its own
  MaxStarts,  \* bound of the processes started
  MaxLines,   \* bound of the unread lines of a process
  Nobody      \* no request, no process

ASSUME ConstantsAssumption ==
  /\ IsFiniteSet(Requests)
  /\ MaxStarts \in Nat
  /\ MaxLines \in Nat
  /\ Nobody \notin Requests \cup Nat

Methods == {"initialize", "session/new", "session/prompt"}

(* A call of a method for a request: its JSON-RPC ID, which is never used  *)
(* twice on a process (nextID).                                            *)
Calls == Requests \X Methods

(* What a process prints while it works on a call: output of a prompt, an  *)
(* answer, or something else (a notification, a request for permission).   *)
Answers == {"result", "error"}
Lines == [kind : Answers \cup {"update", "other"}, call : Calls]

VARIABLES
  client,    \* how the provider runs: "pool", or an agent for each request,
             \* "generic" or "cursor"
  own,       \* the process of a request that has its own, or Nobody
  pc,        \* where each request is
  mutex,     \* genericACPWarmPool.mu: the request that holds it, or Nobody
  process,   \* genericACPWarmPool.process, or Nobody
  starts,    \* number of processes started; the last one is called starts
  running,   \* the processes that run
  lines,     \* what process starts has printed and nobody has read
  tasks,     \* the calls it still works on
  done,      \* the requests whose context is done
  output,    \* history: the requests whose output each request emitted
  foundDead  \* history: the processes a request has found dead

pool  == <<mutex, process>>
agent == <<running, lines, tasks>>
alone == <<client, own>>
vars  == <<alone, pc, pool, starts, agent, done, output, foundDead>>

(* "write" m: about to write a call of method m; "await" m: in the loop    *)
(* that reads lines until its answer.                                      *)
Writing  == {"write"} \X Methods
Awaiting == {"await"} \X Methods
Waiting  == <<"lock">>
Holding  == Writing \cup Awaiting

(* The calls of a request with an agent of its own, in order; the dialogue *)
(* is at one of them.                                                      *)
Dialogue ==
  IF client = "cursor"
  THEN <<"initialize", "authenticate", "session/new", "select", "session/prompt">>
  ELSE <<"initialize", "session/new", "select", "session/prompt">>
Optional == {"authenticate", "select"}
Calling  == {"call"} \X (1..5)

TypeOK ==
  /\ client \in {"pool", "generic", "cursor"}
  /\ own \in [Requests -> (1..MaxStarts) \cup {Nobody}]
  /\ pc \in [Requests -> Holding \cup Calling \cup {<<"idle">>, Waiting, <<"ended">>}]
  /\ mutex \in Requests \cup {Nobody}
  /\ process \in {starts, Nobody}
  /\ starts \in 0..MaxStarts
  /\ running \in SUBSET (1..MaxStarts)
  /\ lines \in Seq(Lines) /\ Len(lines) <= MaxLines
  /\ tasks \in SUBSET Calls
  /\ done \in SUBSET Requests
  /\ output \in [Requests -> SUBSET Requests]
  /\ foundDead \in SUBSET (1..MaxStarts)

Init ==
  /\ client \in {"pool", "generic", "cursor"}
  /\ own = [r \in Requests |-> Nobody]
  /\ pc = [r \in Requests |-> <<"idle">>]
  /\ mutex = Nobody
  /\ process = Nobody
  /\ starts = 0
  /\ running = {}
  /\ lines = <<>>
  /\ tasks = {}
  /\ done = {}
  /\ output = [r \in Requests |-> {}]
  /\ foundDead = {}
-----------------------------------------------------------------------------
(* The request.                                                            *)

Goto(r, place) == pc' = [pc EXCEPT ![r] = place]

(* do returns and its deferred Unlock runs. *)
Return(r) ==
  /\ Goto(r, <<"ended">>)
  /\ mutex' = Nobody

(* A request without the mutex does not look at its context: it waits.     *)
Arrive(r) ==
  /\ client = "pool"
  /\ pc[r] = <<"idle">>
  /\ Goto(r, Waiting)
  /\ UNCHANGED <<alone, pool, starts, agent, done, output, foundDead>>

(* ensure finds a process: the request goes on to create its session. *)
Reuse(r) ==
  /\ pc[r] = Waiting /\ mutex = Nobody
  /\ process # Nobody
  /\ mutex' = r
  /\ Goto(r, <<"write", "session/new">>)
  /\ UNCHANGED <<alone, process, starts, agent, done, output, foundDead>>

\* Mutant: ensure starts a process although there is one.
Start_Always(r) ==
  /\ pc[r] = Waiting /\ mutex = Nobody
  /\ starts < MaxStarts
  /\ mutex' = r
  /\ starts' = starts + 1
  /\ running' = running \cup {starts'}
  /\ lines' = <<>> /\ tasks' = {}
  /\ Goto(r, <<"write", "initialize">>)
  /\ UNCHANGED <<alone, process, done, output, foundDead>>

(* ensure starts a process; startGenericACPProcess returns it to the pool  *)
(* only after the handshake.                                               *)
Start(r) ==
  /\ pc[r] = Waiting /\ mutex = Nobody
  /\ process = Nobody
  /\ starts < MaxStarts
  /\ mutex' = r
  /\ starts' = starts + 1
  /\ running' = running \cup {starts'}
  /\ lines' = <<>> /\ tasks' = {}
  /\ Goto(r, <<"write", "initialize">>)
  /\ UNCHANGED <<alone, process, done, output, foundDead>>

(* cmd.Start or one of the pipes fails. *)
StartFails(r) ==
  /\ pc[r] = Waiting /\ mutex = Nobody
  /\ process = Nobody
  /\ Goto(r, <<"ended">>)
  /\ UNCHANGED <<alone, pool, starts, agent, done, output, foundDead>>

(* cursorACPClient.call writes the call of method m.  The write looks at   *)
(* no context: the agent is taken to read its input.                       *)
Write(r, m) ==
  /\ pc[r] = <<"write", m>>
  /\ starts \in running
  /\ tasks' = tasks \cup {<<r, m>>}
  /\ Goto(r, <<"await", m>>)
  /\ UNCHANGED <<alone, pool, starts, running, lines, done, output, foundDead>>

(* process.close: the process is killed. *)
Kill == running' = running \ {starts}

(* The write to a dead process fails.  The error is not one that           *)
(* isFatalACPProcessError knows, so do leaves the process in the pool;     *)
(* a process that was being started is closed in any case.                 *)
WriteFails(r, m) ==
  /\ pc[r] = <<"write", m>>
  /\ starts \notin running
  /\ foundDead' = foundDead \cup {starts}
  /\ Return(r)
  /\ UNCHANGED <<alone, process, starts, agent, done, output>>

\* Mutant: context.Canceled and DeadlineExceeded are not fatal.
Abandon_KeepsProcess(r, m) ==
  /\ pc[r] = <<"await", m>>
  /\ Return(r)
  /\ IF m = "initialize" THEN Kill ELSE UNCHANGED running
  /\ UNCHANGED <<alone, process, starts, lines, tasks, done, output>>

(* call returns the context's error or io.EOF: both are fatal, so do       *)
(* closes the process and discards it; during the handshake                *)
(* startGenericACPProcess closes it and there is nothing to discard.       *)
Abandon(r, m) ==
  /\ pc[r] = <<"await", m>>
  /\ Return(r)
  /\ process' = Nobody
  /\ Kill
  /\ UNCHANGED <<alone, starts, lines, tasks, done, output>>

\* Mutant: the loop that reads lines does not look at the context.
Deadline_IgnoresContext(r, m) ==
  /\ m = "initialize"
  /\ Abandon(r, m)
  /\ UNCHANGED foundDead

(* The handshake has a context of its own, of ten seconds. *)
Deadline(r, m) ==
  /\ r \in done \/ m = "initialize"
  /\ Abandon(r, m)
  /\ UNCHANGED foundDead

Eof(r, m) ==
  /\ starts \notin running
  /\ lines = <<>>
  /\ Abandon(r, m)
  /\ foundDead' = foundDead \cup {starts}

(* The line read is output.  It is emitted, unless the context is done and *)
(* the select prefers that.                                                *)
ReadUpdate(r, m) ==
  /\ pc[r] = <<"await", m>>
  /\ lines # <<>> /\ Head(lines).kind = "update"
  /\ lines' = Tail(lines)
  /\ \/ output' = [output EXCEPT ![r] = @ \cup {Head(lines).call[1]}]
     \/ r \in done /\ UNCHANGED output
  /\ UNCHANGED <<alone, pc, pool, starts, running, tasks, done, foundDead>>

(* The line read is neither output nor the answer to this call: the loop   *)
(* goes on.                                                                *)
Skip(r, m) ==
  /\ pc[r] = <<"await", m>>
  /\ lines # <<>> /\ Head(lines).kind # "update"
  /\ Head(lines).kind \in Answers => Head(lines).call # <<r, m>>
  /\ lines' = Tail(lines)
  /\ UNCHANGED <<alone, pc, pool, starts, running, tasks, done, output, foundDead>>

(* The agent refuses the call, or its result is of no use (no session, an  *)
(* unknown model, a prompt that stopped with an error or without output):  *)
(* the request ends and the process stays, unless it was being started.    *)
Refused(r, m) ==
  /\ pc[r] = <<"await", m>>
  /\ lines # <<>> /\ Head(lines).kind \in Answers /\ Head(lines).call = <<r, m>>
  /\ lines' = Tail(lines)
  /\ Return(r)
  /\ IF m = "initialize" THEN Kill ELSE UNCHANGED running
  /\ UNCHANGED <<alone, process, starts, tasks, done, output, foundDead>>

(* The result is of use: the next call, or the end of the request.  After  *)
(* initialize the process becomes the pool's.                              *)
Accepted(r, m) ==
  /\ pc[r] = <<"await", m>>
  /\ lines # <<>> /\ Head(lines) = [kind |-> "result", call |-> <<r, m>>]
  /\ lines' = Tail(lines)
  /\ \/ /\ m = "initialize"
        /\ process' = starts
        /\ Goto(r, <<"write", "session/new">>)
        /\ UNCHANGED mutex
     \/ /\ m = "session/new"
        /\ Goto(r, <<"write", "session/prompt">>)
        /\ UNCHANGED pool
     \/ /\ m = "session/prompt"
        /\ output[r] # {}
        /\ Return(r)
        /\ UNCHANGED process
  /\ UNCHANGED <<alone, starts, running, tasks, done, output, foundDead>>

(* Close, when the server stops. *)
Close ==
  /\ mutex = Nobody
  /\ process # Nobody
  /\ Kill
  /\ process' = Nobody
  /\ UNCHANGED <<alone, pc, mutex, starts, lines, tasks, done, output, foundDead>>

(* The client goes away, or the provider's timeout passes. *)
Expire(r) ==
  /\ pc[r] \notin {<<"idle">>, <<"ended">>}
  /\ r \notin done
  /\ done' = done \cup {r}
  /\ UNCHANGED <<alone, pc, pool, starts, agent, output, foundDead>>
-----------------------------------------------------------------------------
(* Requests with an agent of their own: executeGenericACP, for a harness   *)
(* that has not shown that it can serve, and executeCursorACP.  Nobody     *)
(* else calls their agent, so what it answers is chosen when it is read,   *)
(* from a dead agent too: its last lines may have been read before.        *)

Spawn(r) ==
  /\ client # "pool"
  /\ pc[r] = <<"idle">>
  /\ starts < MaxStarts
  /\ starts' = starts + 1
  /\ running' = running \cup {starts'}
  /\ own' = [own EXCEPT ![r] = starts']
  /\ Goto(r, <<"call", 1>>)
  /\ UNCHANGED <<client, pool, lines, tasks, done, output, foundDead>>

SpawnFails(r) ==
  /\ client # "pool"
  /\ pc[r] = <<"idle">>
  /\ Goto(r, <<"ended">>)
  /\ UNCHANGED <<alone, pool, starts, agent, done, output, foundDead>>

(* The deferred function of both clients. *)
KillOwn(r) == running' = running \ {own[r]}

Leave(r) ==
  /\ pc[r] \in Calling
  /\ KillOwn(r)
  /\ Goto(r, <<"ended">>)
  /\ UNCHANGED <<alone, pool, starts, lines, tasks, done, output, foundDead>>

OwnDeadline(r) == r \in done /\ Leave(r)

(* A refusal, a result of no use, a write to a dead agent, its end.        *)
OwnFails(r) == Leave(r)

OwnUpdate(r) ==
  /\ pc[r] \in Calling
  /\ output' = [output EXCEPT ![r] = @ \cup {r}]
  /\ UNCHANGED <<alone, pc, pool, starts, agent, done, foundDead>>

(* The result is of use: the next call, past those the agent does not      *)
(* offer or the request does not need.                                     *)
OwnAccepted(r) ==
  /\ \E k \in DOMAIN Dialogue :
       /\ pc[r][1] = "call" /\ pc[r][2] < k
       /\ \A j \in (pc[r][2] + 1)..(k - 1) : Dialogue[j] \in Optional
       /\ Goto(r, <<"call", k>>)
  /\ UNCHANGED <<alone, pool, starts, agent, done, output, foundDead>>

(* The prompt's result, after some output. *)
OwnEnds(r) ==
  /\ pc[r] = <<"call", Len(Dialogue)>>
  /\ output[r] # {}
  /\ Leave(r)

(* The goroutine that waits for the end of the context. *)
KilledByContext(r) ==
  /\ pc[r] \in Calling /\ r \in done
  /\ own[r] \in running
  /\ running' = running \ {own[r]}
  /\ UNCHANGED <<alone, pc, pool, starts, lines, tasks, done, output, foundDead>>
-----------------------------------------------------------------------------
(* The agent process.                                                      *)

PrintLine(kind, call) ==
  /\ starts \in running
  /\ Len(lines) < MaxLines
  /\ lines' = Append(lines, [kind |-> kind, call |-> call])

Update ==
  /\ \E r \in Requests : <<r, "session/prompt">> \in tasks
                         /\ PrintLine("update", <<r, "session/prompt">>)
  /\ UNCHANGED <<alone, pc, pool, starts, running, tasks, done, output, foundDead>>

Answer ==
  /\ \E call \in tasks :
       /\ \E kind \in Answers : PrintLine(kind, call)
       /\ tasks' = tasks \ {call}
  /\ UNCHANGED <<alone, pc, pool, starts, running, done, output, foundDead>>

Chatter ==
  /\ \E call \in tasks : PrintLine("other", call)
  /\ UNCHANGED <<alone, pc, pool, starts, running, tasks, done, output, foundDead>>

Die ==
  /\ \E i \in running : running' = running \ {i}
  /\ UNCHANGED <<alone, pc, pool, starts, lines, tasks, done, output, foundDead>>
-----------------------------------------------------------------------------
Enter(r) == Reuse(r) \/ Start(r) \/ StartFails(r)

Step(r) ==
  \/ \E m \in Methods :
       \/ Write(r, m) \/ WriteFails(r, m)
       \/ Deadline(r, m) \/ Eof(r, m)
       \/ ReadUpdate(r, m) \/ Skip(r, m)
       \/ Refused(r, m) \/ Accepted(r, m)
  \/ OwnUpdate(r) \/ OwnAccepted(r) \/ OwnEnds(r)

(* What a context that is done leads to. *)
GivesUp(r) == OwnDeadline(r) \/ \E m \in Methods : Deadline(r, m)

Next ==
  \/ \E r \in Requests :
       \/ Arrive(r) \/ Spawn(r) \/ SpawnFails(r) \/ Expire(r)
       \/ Enter(r) \/ Step(r) \/ GivesUp(r) \/ OwnFails(r) \/ KilledByContext(r)
  \/ Close
  \/ Update \/ Answer \/ Chatter \/ Die

Spec == Init /\ [][Next]_vars

(* A goroutine that can run does (sync.Mutex starves nobody, which is the  *)
(* strong fairness of Enter), contexts end, and a select does not ignore a *)
(* done context for ever.                                                  *)
Fairness ==
  \A r \in Requests :
    /\ SF_vars(Enter(r)) /\ WF_vars(Step(r)) /\ WF_vars(Expire(r))
    /\ WF_vars(GivesUp(r))

FairSpec == Spec /\ Fairness
-----------------------------------------------------------------------------
(* Properties.                                                             *)

(* No process is left behind: one that runs is the pool's, or the one that *)
(* the holder of the mutex is shaking hands with, or that of a request     *)
(* which has not ended.                                                    *)
NoStrayProcess ==
  \A i \in running :
    \/ \E r \in Requests : own[r] = i /\ pc[r] \in Calling
    \/ i = process
    \/ i = starts /\ mutex # Nobody
         /\ pc[mutex] \in {"write", "await"} \X {"initialize"}

(* docs/performance.md:13-14: requests are serialised "so JSON-RPC         *)
(* response correlation remains deterministic".  Updates are matched to    *)
(* no call, yet a client never gets output of another client's prompt, as  *)
(* the process of an abandoned prompt is not used again.                   *)
NoForeignOutput == \A r \in Requests : output[r] \subseteq {r}

(* A request that holds the mutex or waits for it ends, even if the agent  *)
(* says nothing: whoever is ahead gives up at the end of its context.      *)
RequestsEnd == \A r \in Requests : pc[r] # <<"idle">> ~> pc[r] = <<"ended">>

(* docs/performance.md:17-19: "a canceled request, deadline, EOF, or dead  *)
(* ACP process invalidates the pool; the next request performs a fresh     *)
(* handshake instead of reusing a suspect process".                        *)
DeadProcessDiscarded == mutex = Nobody => process \notin foundDead
=============================================================================
