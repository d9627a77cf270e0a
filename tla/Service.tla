-------------------------------- MODULE Service --------------------------------
(***************************************************************************)
(* The life of `ghrouter serve` (serve in internal/cli/cli.go,             *)
(* ListenAndServe in internal/server/server.go): the HTTP server, its      *)
(* requests, the local brain they ask to select a model                    *)
(* (internal/server/brain_selector.go) and the store their events go to.   *)
(* When the context of serve is done the contexts of the requests are done *)
(* with it (BaseContext), Serve returns, Shutdown waits three seconds for  *)
(* the requests, the store is closed and the program ends; the goroutine   *)
(* that stops the brain is not waited for.  Another ghrouter that wants    *)
(* the same port (internal/server/port.go) interrupts this one and kills   *)
(* it two seconds later.  An admission to the brain is modelled in         *)
(* Governor; here it is one slot (BrainMaxInFlight).                       *)
(***************************************************************************)
EXTENDS LocalBrain, EventStore

CONSTANT Nobody

ASSUME ServiceConstants == Nobody \notin Events

Requests == Events  \* a request and the event it leaves

VARIABLES
  main,        \* where ListenAndServe is
  brainReady,  \* Server.brainReady and the address of the brain, set together
  cooling,     \* now is before Server.brainUntil
  pc,          \* where each request is
  gate,        \* the gate of the brain's base URL: its holder, or Nobody
  fallback,    \* the listener is not on the configured port
  rival,       \* where the other ghrouter is
  session      \* whom the session record names: "us", "rival" or Nobody

portVars   == <<fallback, rival, session>>
serverVars == <<main, brainReady, cooling, pc, gate, portVars>>
vars       == <<brainVars, storeVars, serverVars>>

Ended == main \in {"returned", "killed"}  \* the program, with its goroutines

(* "admission" waits for the slot of the brain, "gate" holds it and waits  *)
(* for the gate, "asking" holds both; the last three are selecting.        *)
Selecting == {"admission", "gate", "asking"}
HasSlot   == {"gate", "asking"}
Active(r) == pc[r] \in Selecting \cup {"running"}

ServiceTypeOK ==
  /\ BrainTypeOK /\ StoreTypeOK
  /\ main \in {"serving", "draining", "closing", "returned", "killed"}
  /\ brainReady \in BOOLEAN
  /\ cooling \in BOOLEAN
  /\ pc \in [Requests -> Selecting \cup {"idle", "running", "ended"}]
  /\ gate \in Requests \cup {Nobody}
  /\ fallback \in BOOLEAN
  /\ rival \in {"absent", "stopping", "listening", "gone"}
  /\ session \in {"us", "rival", Nobody}

Init ==
  /\ BrainInit /\ StoreInit
  /\ main = "serving"
  /\ brainReady = FALSE
  /\ cooling = FALSE
  /\ pc = [r \in Requests |-> "idle"]
  /\ gate = Nobody
  /\ fallback \in BOOLEAN
  /\ rival = "absent"
  /\ session = "us"
-----------------------------------------------------------------------------
Goto(r, place) == pc' = [pc EXCEPT ![r] = place]

(* selectWithLocalBrain asks nothing of a brain that cools down or is not  *)
(* attached.                                                               *)
Arrive(r) ==
  /\ main = "serving" /\ pc[r] = "idle"
  /\ Goto(r, IF brainReady /\ ~cooling THEN "admission" ELSE "running")
  /\ UNCHANGED <<brainVars, storeVars, main, brainReady, cooling, gate, portVars>>

Admitted(r) ==
  /\ pc[r] = "admission"
  /\ \A q \in Requests : pc[q] \notin HasSlot
  /\ Goto(r, "gate")
  /\ UNCHANGED <<brainVars, storeVars, main, brainReady, cooling, gate, portVars>>

(* AdmitWait times out: the selection is left out, and nothing recorded.   *)
Deferred(r) ==
  /\ pc[r] = "admission"
  /\ Goto(r, "running")
  /\ UNCHANGED <<brainVars, storeVars, main, brainReady, cooling, gate, portVars>>

(* AcquireLocalHTTP: a request that the brain itself serves, or another    *)
(* client of its address, may hold the gate.                               *)
Acquire(r) ==
  /\ pc[r] = "gate" /\ gate = Nobody
  /\ gate' = r
  /\ Goto(r, "asking")
  /\ UNCHANGED <<brainVars, storeVars, main, brainReady, cooling, portVars>>

(* The end of a selection: its cooldown is set or cleared, its slot and    *)
(* its gate are given back.                                                *)
Selected(r, ok) ==
  /\ cooling' = ~ok
  /\ gate' = IF gate = r THEN Nobody ELSE gate
  /\ Goto(r, "running")
  /\ UNCHANGED <<brainVars, storeVars, main, brainReady, portVars>>

(* An allowed model, in the five seconds the selection has: a runtime of   *)
(* ours answers, or the one that somebody else runs.                       *)
Answered(r) ==
  /\ pc[r] = "asking"
  /\ alive # {} \/ launched = 0
  /\ Selected(r, TRUE)

(* The gate was not to be had in time, or the brain gave no such answer:   *)
(* the brain cools down and its models are quarantined.                    *)
NotAnswered(r) ==
  /\ pc[r] \in HasSlot
  /\ Selected(r, FALSE)

CooldownEnds ==
  /\ cooling
  /\ cooling' = FALSE
  /\ UNCHANGED <<brainVars, storeVars, main, brainReady, pc, gate, portVars>>

(* The request is routed to a model of the brain: it holds the gate while  *)
(* it is executed (ExecuteWithCallback).                                   *)
UseBrain(r) ==
  /\ pc[r] = "running" /\ brainReady
  /\ gate = Nobody
  /\ gate' = r
  /\ UNCHANGED <<brainVars, storeVars, main, brainReady, cooling, pc, portVars>>

(* The request is over: the telemetry hands its event to the store. *)
Finish(r) ==
  /\ pc[r] = "running"
  /\ Goto(r, "ended")
  /\ gate' = IF gate = r THEN Nobody ELSE gate
  /\ EnqueueRequest(r)
  /\ UNCHANGED <<brainVars, main, brainReady, cooling, portVars>>
-----------------------------------------------------------------------------
(* The goroutine of serve that has started the brain. *)
AttachProvider ==
  /\ brain \in {"attach", "attachExternal"}
  /\ brain' = IF brain = "attach" THEN "serving" ELSE "ended"
  /\ brainReady' = TRUE
  /\ UNCHANGED <<ctxDone, supervisor, processes, restart, storeVars, main, cooling,
                 pc, gate, portVars>>

(* SIGINT: the context of serve is done. *)
Interrupt ==
  /\ ~ctxDone /\ ~Ended
  /\ ctxDone' = TRUE
  /\ UNCHANGED <<brain, supervisor, processes, restart, storeVars, serverVars>>

(* Shutdown begins and Serve returns. *)
Shutdown ==
  /\ main = "serving" /\ ctxDone
  /\ main' = "draining"
  /\ UNCHANGED <<brainVars, storeVars, brainReady, cooling, pc, gate, portVars>>

\* Mutant: Shutdown is given no time limit.
Drained_NoTimeout ==
  /\ main = "draining"
  /\ \A r \in Requests : ~Active(r)
  /\ main' = "closing"
  /\ session' = IF session = "us" THEN Nobody ELSE session
  /\ BeginClose
  /\ UNCHANGED <<brainVars, brainReady, cooling, pc, gate, fallback, rival>>

(* No request is left, or the three seconds are over.  The session record  *)
(* is removed if it is ours; the runners and then the store are closed.    *)
Drained ==
  /\ main = "draining"
  /\ main' = "closing"
  /\ session' = IF session = "us" THEN Nobody ELSE session
  /\ BeginClose
  /\ UNCHANGED <<brainVars, brainReady, cooling, pc, gate, fallback, rival>>

(* The store is closed: serve returns, and with it the program. *)
Return ==
  /\ main = "closing"
  /\ FinishClose
  /\ main' = "returned"
  /\ UNCHANGED <<brainVars, brainReady, cooling, pc, gate, portVars>>
-----------------------------------------------------------------------------
(* openListenerOnHostWithConfig of the rival: the configured port is in    *)
(* use, by a process whose command is ghrouter; the record is not asked.   *)
RivalInterrupts ==
  /\ rival = "absent" /\ ~fallback /\ main = "serving"
  /\ rival' = "stopping"
  /\ ctxDone' = TRUE
  /\ UNCHANGED <<brain, supervisor, processes, restart, storeVars, main, brainReady,
                 cooling, pc, gate, fallback, session>>

(* stopProcess: two seconds have passed. *)
RivalKills ==
  /\ rival = "stopping" /\ ~Ended
  /\ main' = "killed"
  /\ UNCHANGED <<brainVars, storeVars, brainReady, cooling, pc, gate, portVars>>

(* registerSession: on the configured port, or on a free one when a        *)
(* program that is not ghrouter has it.                                    *)
RivalListens ==
  /\ \/ rival = "absent" /\ (fallback \/ main # "serving")
     \/ rival = "stopping" /\ Ended
  /\ rival' = "listening"
  /\ session' = "rival"
  /\ UNCHANGED <<brainVars, storeVars, main, brainReady, cooling, pc, gate, fallback>>

(* Its cleanup removes the record that names it. *)
RivalLeaves ==
  /\ rival = "listening"
  /\ rival' = "gone"
  /\ session' = IF session = "rival" THEN Nobody ELSE session
  /\ UNCHANGED <<brainVars, storeVars, main, brainReady, cooling, pc, gate, fallback>>
-----------------------------------------------------------------------------
RequestStep(r) ==
  \/ Arrive(r) \/ Admitted(r) \/ Deferred(r) \/ Acquire(r) \/ Answered(r)
  \/ NotAnswered(r) \/ UseBrain(r) \/ Finish(r)

(* A goroutine of the program, until it ends. *)
Goroutine ==
  /\ ~Ended
  /\ \/ StartStep /\ UNCHANGED <<storeVars, serverVars>>
     \/ RestartStep /\ UNCHANGED <<storeVars, serverVars>>
     \/ \E p \in 1..launched :
          (KillAtEnd(p) \/ Monitor(p)) /\ UNCHANGED <<storeVars, serverVars>>
     \/ WriterStep /\ UNCHANGED <<brainVars, serverVars>>
     \/ \E r \in Requests : RequestStep(r)
     \/ CooldownEnds \/ AttachProvider \/ Shutdown \/ Drained \/ Return

Next ==
  \/ Goroutine
  \/ Interrupt
  \/ RivalInterrupts \/ RivalKills \/ RivalListens \/ RivalLeaves
  \/ \E p \in 1..launched : Die(p) /\ UNCHANGED <<storeVars, serverVars>>

Spec == Init /\ [][Next]_vars

(* The writer of the store, and the goroutine of serve, one step of which  *)
(* is the timer of Shutdown.  Neither requests nor the brain have to go    *)
(* on, and nobody has to interrupt the program.                            *)
FairSpec ==
  /\ Spec
  /\ WF_vars(WriterStep /\ UNCHANGED <<brainVars, serverVars>>)
  /\ WF_vars(Shutdown) /\ WF_vars(Drained) /\ WF_vars(Return)
-----------------------------------------------------------------------------
(* The program ends once it is interrupted, whatever its requests, the     *)
(* brain and the writer are doing.                                         *)
ServeEnds == ctxDone ~> Ended

(* brain_test.go:391 expects "one selector request during cooldown".  A    *)
(* selection that waited for its turn when another one failed asks the     *)
(* brain all the same.                                                     *)
BackoffHonoured ==
  [][\A r \in Requests : pc[r] = "gate" /\ pc'[r] = "asking" => ~cooling]_vars

(* docs/architecture.md:37: "process ownership" is "supervised".  Nothing  *)
(* waits for the goroutine that stops the brain: serve may return first,   *)
(* and its process then goes on without the program.                       *)
NoOrphan == Ended => alive \subseteq killed

(* docs/cli.md:72: "The process handles SIGINT for graceful shutdown".  A  *)
(* rival that reclaims the port waits two seconds for it, a shutdown may   *)
(* take three for the requests alone: what the queue holds is lost.        *)
EventsKept == Ended => accepted = written \cup failed
=============================================================================
