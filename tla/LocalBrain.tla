------------------------------- MODULE LocalBrain -------------------------------
(***************************************************************************)
(* The supervisor of the local brain (internal/local_brain/runtime.go) and *)
(* its only caller, attachLocalBrain with the goroutine of serve that runs *)
(* it (internal/cli/cli.go).  Start launches a runtime process, waits      *)
(* until its endpoint answers and returns; a monitor waits for the death   *)
(* of each installed process and may start a restart loop; Stop comes when *)
(* serve's context is done.  The goroutines meet in the supervisor's       *)
(* mutex; everything they do between two locks may interleave.             *)
(***************************************************************************)
EXTENDS Naturals, FiniteSets

CONSTANTS
  MaxRestarts,   \* attempts of one restart loop; 0 when cfg.Restart is off
  MaxProcesses   \* bound of the processes launched

ASSUME BrainConstants == MaxRestarts \in Nat /\ MaxProcesses \in Nat

None == 0  \* no process; processes are numbered from 1

VARIABLES
  ctxDone,    \* serve's context is done
  brain,      \* where the goroutine of serve is
  process,    \* Supervisor.process
  stopped,    \* Supervisor.stopped
  ready,      \* Supervisor.status.Ready
  launched,   \* number of processes launched
  alive,      \* the processes that run
  killed,     \* those among them that have been sent a kill
  monitored,  \* the processes a monitor waits for
  restart     \* the restart loop: its place, its process, the attempts left

supervisor == <<process, stopped, ready>>
processes  == <<launched, alive, killed, monitored>>
brainVars  == <<ctxDone, brain, supervisor, processes, restart>>

(* "attach" is the call of AttachProvider, for a runtime of our own or one *)
(* that somebody else runs, "serving" the wait for the end of the context, *)
(* "failed" a start given up.                                              *)
Places == {"discover", "launch", "probe", "warm", "commit", "attach",
           "attachExternal", "serving", "failed", "ended"}
Loops  == {"off", "backoff", "probe", "reap", "reapLast"}

NoRestart == [at |-> "off", process |-> None, left |-> 0]

BrainTypeOK ==
  /\ ctxDone \in BOOLEAN
  /\ brain \in Places
  /\ launched \in 0..MaxProcesses
  /\ process \in 0..launched
  /\ stopped \in BOOLEAN
  /\ ready \in BOOLEAN
  /\ alive \subseteq 1..launched
  /\ killed \subseteq alive
  /\ monitored \subseteq 1..launched
  /\ restart \in [at : Loops, process : 0..launched, left : 0..MaxRestarts]

BrainInit ==
  /\ ctxDone = FALSE
  /\ brain = "discover"
  /\ process = None
  /\ stopped = FALSE
  /\ ready = FALSE
  /\ launched = 0
  /\ alive = {}
  /\ killed = {}
  /\ monitored = {}
  /\ restart = NoRestart
-----------------------------------------------------------------------------
(* A port of the host serves the model already: no supervisor is made.     *)
FindEndpoint ==
  /\ brain = "discover"
  /\ brain' = "attachExternal"
  /\ UNCHANGED <<ctxDone, supervisor, processes, restart>>

(* attachLocalBrain goes on to Start, gives up (the brain is somebody      *)
(* else's and not there, or no port is free), or is disabled.              *)
Discover ==
  /\ brain = "discover"
  /\ brain' \in {"launch", "failed", "ended"}
  /\ UNCHANGED <<ctxDone, supervisor, processes, restart>>

(* deps.start: CommandContext launches nothing once the context is done.   *)
Launch ==
  /\ ~ctxDone
  /\ launched < MaxProcesses
  /\ launched' = launched + 1
  /\ alive' = alive \cup {launched'}
  /\ UNCHANGED killed

(* Start: no backend, no model or no process. *)
StartFails ==
  /\ brain = "launch"
  /\ brain' = "failed"
  /\ UNCHANGED <<ctxDone, supervisor, processes, restart>>

StartProcess ==
  /\ brain = "launch"
  /\ Launch
  /\ process' = launched'
  /\ monitored' = monitored \cup {launched'}
  /\ brain' = "probe"
  /\ UNCHANGED <<ctxDone, stopped, ready, restart>>

(* The endpoint has answered the probe; whichever process listens there.   *)
StartProbed ==
  /\ brain = "probe"
  /\ alive # {}
  /\ brain' = "warm"
  /\ UNCHANGED <<ctxDone, supervisor, processes, restart>>

(* Stop: it waits for the monitor for two seconds at most. *)
Stop ==
  /\ process' = None
  /\ stopped' = TRUE
  /\ ready' = FALSE
  /\ killed' = killed \cup ({process} \cap alive)
  /\ UNCHANGED <<launched, alive, monitored>>

(* The probe or the warm-up fails, or Alive says no: it asks for a signal  *)
(* of the process of Start, the first, which succeeds until the monitor    *)
(* has waited for it.                                                      *)
StartGivesUp ==
  /\ brain \in {"probe", "warm"}
  /\ Stop
  /\ brain' = "failed"
  /\ UNCHANGED <<ctxDone, restart>>

Warmed ==
  /\ brain = "warm"
  /\ 1 \in alive \cup monitored
  /\ brain' = "commit"
  /\ UNCHANGED <<ctxDone, supervisor, processes, restart>>

\* Mutant: the status is set without asking whether a process is there.
Commit_Unchecked ==
  /\ brain = "commit"
  /\ ready' = TRUE
  /\ brain' = "attach"
  /\ UNCHANGED <<ctxDone, process, stopped, processes, restart>>

(* The last lock of Start: without a process it fails, and does not Stop. *)
Commit ==
  /\ brain = "commit"
  /\ ready' = (ready \/ process # None)
  /\ brain' = IF process = None THEN "failed" ELSE "attach"
  /\ UNCHANGED <<ctxDone, process, stopped, processes, restart>>

(* serve: the context is done. *)
StopAtEnd ==
  /\ brain = "serving"
  /\ ctxDone
  /\ Stop
  /\ brain' = "ended"
  /\ UNCHANGED <<ctxDone, restart>>
-----------------------------------------------------------------------------
(* A process dies, of itself or of a kill. *)
Die(p) ==
  /\ p \in alive
  /\ alive' = alive \ {p}
  /\ killed' = killed \ {p}
  /\ UNCHANGED <<ctxDone, brain, supervisor, launched, monitored, restart>>

(* CommandContext kills its process when the context is done. *)
KillAtEnd(p) ==
  /\ ctxDone
  /\ p \in alive \ killed
  /\ killed' = killed \cup {p}
  /\ UNCHANGED <<ctxDone, brain, supervisor, launched, alive, monitored, restart>>

(* monitor: only the monitor of the installed process starts a restart.    *)
Monitor(p) ==
  /\ p \in monitored \ alive
  /\ monitored' = monitored \ {p}
  /\ \/ /\ p # process
        /\ UNCHANGED <<process, ready, restart>>
     \/ /\ p = process
        /\ process' = None
        /\ ready' = FALSE
        /\ restart' = IF MaxRestarts > 0 /\ ~stopped
                      THEN [NoRestart EXCEPT !.at = "backoff", !.left = MaxRestarts]
                      ELSE restart
  /\ UNCHANGED <<ctxDone, brain, stopped, launched, alive, killed>>

(* The restart loop: it ends with the context or with its attempts. *)
RestartEnds ==
  /\ restart.at = "backoff"
  /\ ctxDone \/ restart.left = 0
  /\ restart' = NoRestart
  /\ UNCHANGED <<ctxDone, brain, supervisor, processes>>

RestartLaunches ==
  /\ restart.at = "backoff" /\ restart.left > 0
  /\ \/ /\ Launch
        /\ restart' = [restart EXCEPT !.at = "probe", !.process = launched']
     \/ /\ restart' = [restart EXCEPT !.left = @ - 1]
        /\ UNCHANGED <<launched, alive, killed>>
  /\ UNCHANGED <<ctxDone, brain, supervisor, monitored>>

(* The probe fails: the process is killed and waited for. *)
RestartProbeFails ==
  /\ restart.at = "probe"
  /\ killed' = killed \cup ({restart.process} \cap alive)
  /\ restart' = [restart EXCEPT !.at = "reap"]
  /\ UNCHANGED <<ctxDone, brain, supervisor, launched, alive, monitored>>

\* Mutant: a Stop that came during the probe is not seen.
RestartInstalls_IgnoresStop ==
  /\ restart.at = "probe"
  /\ process' = restart.process
  /\ ready' = TRUE
  /\ monitored' = monitored \cup {restart.process}
  /\ restart' = NoRestart
  /\ UNCHANGED <<ctxDone, brain, stopped, launched, alive, killed>>

(* The probe has succeeded, and the process may have died since.  It is    *)
(* installed unless the supervisor was stopped meanwhile.                  *)
RestartInstalls ==
  /\ restart.at = "probe"
  /\ \/ /\ stopped \/ ctxDone
        /\ killed' = killed \cup ({restart.process} \cap alive)
        /\ restart' = [restart EXCEPT !.at = "reapLast"]
        /\ UNCHANGED <<process, ready, monitored>>
     \/ /\ ~stopped /\ ~ctxDone
        /\ process' = restart.process
        /\ ready' = TRUE
        /\ monitored' = monitored \cup {restart.process}
        /\ restart' = NoRestart
        /\ UNCHANGED killed
  /\ UNCHANGED <<ctxDone, brain, stopped, launched, alive>>

Reaped ==
  /\ restart.at \in {"reap", "reapLast"}
  /\ restart.process \notin alive
  /\ restart' = IF restart.at = "reapLast" THEN NoRestart
                ELSE [restart EXCEPT !.at = "backoff", !.process = None, !.left = @ - 1]
  /\ UNCHANGED <<ctxDone, brain, supervisor, processes>>

RestartStep ==
  \/ RestartEnds \/ RestartLaunches \/ RestartProbeFails \/ RestartInstalls
  \/ Reaped

(* Everything of the supervisor but the steps of serve. *)
StartStep ==
  \/ FindEndpoint \/ Discover \/ StartFails \/ StartProcess \/ StartProbed
  \/ StartGivesUp \/ Warmed \/ Commit \/ StopAtEnd
-----------------------------------------------------------------------------
(* What supervision means for the processes: whatever dies and restarts    *)
(* between the locks, Ready is never claimed without an installed process, *)
(* never do two runtimes run that nobody has killed (they share a port),   *)
(* and once a stopped supervisor has no restart under way nothing it       *)
(* launched keeps running.                                                 *)
BrainSupervised ==
  /\ ready => process # None
  /\ Cardinality(alive \ killed) <= 1
  /\ stopped /\ restart.at = "off" => alive \subseteq killed

(* runtime_test.go:199 expects "failed readiness to terminate the process".*)
(* It does not hold when the process dies between Alive and the last lock  *)
(* of Start: the restart loop then runs for a brain that Start has given   *)
(* up, and no provider is attached to it.                                  *)
FailedStartStops ==
  brain = "failed" /\ restart.at = "off" => alive \subseteq killed
=============================================================================
