------------------------------ MODULE ServiceProofs ------------------------------
(***************************************************************************)
(* Proofs about Service for any number of requests, any capacity of the    *)
(* queue of events, and any numbers of restarts and processes: what serve  *)
(* does with its port, its requests and its shutdown never breaks the      *)
(* supervision of the brain nor loses an event that was accepted.          *)
(***************************************************************************)
EXTENDS Service, FiniteSetTheorems, TLAPS

(* The processes nobody has killed. *)
Running == alive \ killed

(* The process that may be among them: the restart loop has its own until  *)
(* it installs it, and the supervisor has none meanwhile.                  *)
Owner == IF restart.at = "off" THEN process
         ELSE IF restart.at = "probe" THEN restart.process ELSE None

BrainInv ==
  /\ BrainTypeOK
  /\ brain \in {"discover", "launch"} =>
       launched = 0 /\ ~ stopped /\ process = None /\ restart.at = "off"
  /\ ready => process # None
  /\ restart.at # "off" => process = None
  /\ restart.at \in {"probe", "reap"} => restart.left > 0
  /\ restart.at = "probe" => restart.process # None
  /\ Running \subseteq {Owner}
  /\ Owner = None => Running = {}
  /\ stopped /\ restart.at = "off" => Running = {}

Queued(q) == {q[i] : i \in 1..Len(q)}
InHand    == {writer} \cap Events
NoRepeat(q) == \A i, j \in 1..Len(q) : q[i] = q[j] => i = j

(* An event is in one place only: in the queue, in the writer's hands, or  *)
(* settled.                                                                *)
PlacesInv ==
  /\ NoRepeat(queue)
  /\ Queued(queue) \cap (InHand \cup written \cup failed) = {}
  /\ InHand \cap (written \cup failed) = {}

CountInv ==
  /\ IsFiniteSet(written) /\ IsFiniteSet(failed) /\ IsFiniteSet(accepted)
  /\ accepted = Queued(queue) \cup InHand \cup written \cup failed
  /\ Len(queue) + Cardinality(InHand) + Cardinality(written) + Cardinality(failed)
       = Cardinality(accepted)

StoreInv ==
  /\ StoreTypeOK
  /\ PlacesInv
  /\ CountInv
  /\ writer = "exited" => closed /\ queue = <<>>
  /\ ~ open => writer = "exited"

(* A request leaves its event when it ends. *)
IInv ==
  /\ ServiceTypeOK
  /\ BrainInv
  /\ StoreInv
  /\ \A r \in accepted : pc[r] = "ended"
-----------------------------------------------------------------------------
(* The supervision of the brain.                                           *)

LEMMA BrainStart ==
  ASSUME BrainInv, StartStep
  PROVE  BrainInv'
<1>1. /\ brain \in Places /\ launched \in 0..MaxProcesses /\ process \in 0..launched
      /\ stopped \in BOOLEAN /\ ready \in BOOLEAN /\ ctxDone \in BOOLEAN
      /\ alive \subseteq 1..launched /\ killed \subseteq alive /\ monitored \subseteq 1..launched
      /\ restart \in [at : Loops, process : 0..launched, left : 0..MaxRestarts]
      /\ MaxProcesses \in Nat /\ launched \in Nat
  BY BrainConstants DEF BrainInv, BrainTypeOK
<1>2. CASE FindEndpoint \/ Discover \/ StartFails \/ StartProbed \/ Warmed
  <2>1. brain' \in Places \ {"discover"} /\ (brain' = "launch" => brain = "discover")
        /\ UNCHANGED <<ctxDone, supervisor, processes, restart>>
    BY <1>2 DEF FindEndpoint, Discover, StartFails, StartProbed, Warmed, Places
  <2> QED BY <2>1 DEF BrainInv, BrainTypeOK, Running, Owner, supervisor, processes
<1>3. CASE Commit
  <2>1. brain' \in {"failed", "attach"} /\ ready' \in BOOLEAN /\ (ready' => ready \/ process # None)
        /\ UNCHANGED <<ctxDone, process, stopped, processes, restart>>
    BY <1>1, <1>3 DEF Commit
  <2> QED BY <2>1 DEF BrainInv, BrainTypeOK, Running, Owner, processes, Places
<1>4. CASE StartProcess
  <2>1. /\ launched = 0 /\ ~ stopped /\ process = None /\ restart.at = "off"
        /\ launched' = 1 /\ process' = 1 /\ alive' = alive \cup {1} /\ killed' = killed
        /\ monitored' = monitored \cup {1} /\ brain' = "probe" /\ 1 \in 0..MaxProcesses
        /\ UNCHANGED <<ctxDone, stopped, ready, restart>>
    BY <1>1, <1>4 DEF StartProcess, Launch, BrainInv
  <2>2. alive = {} /\ killed = {} /\ monitored = {}
    BY <1>1, <2>1
  <2>3. alive' = {1} /\ killed' = {} /\ monitored' = {1} /\ 1 \in 0..1 /\ 1..1 = {1}
    BY <2>1, <2>2
  <2>4. restart' \in [at : Loops, process : 0..1, left : 0..MaxRestarts]
    BY <1>1, <2>1
  <2>5. BrainTypeOK'
    BY <1>1, <2>1, <2>3, <2>4 DEF BrainTypeOK, Places
  <2> QED BY <2>1, <2>3, <2>5 DEF BrainInv, Running, Owner, None
<1>5. CASE StartGivesUp \/ StopAtEnd
  <2>1. /\ brain' \in {"failed", "ended"} /\ process' = None /\ stopped' = TRUE /\ ready' = FALSE
        /\ killed' = killed \cup ({process} \cap alive)
        /\ UNCHANGED <<ctxDone, launched, alive, monitored, restart>>
    BY <1>5 DEF StartGivesUp, StopAtEnd, Stop
  <2>2. BrainTypeOK'
    <3>1. process' \in 0..launched' /\ killed' \subseteq alive' /\ brain' \in Places
      BY <1>1, <2>1 DEF Places, None
    <3>2. restart' \in [at : Loops, process : 0..launched', left : 0..MaxRestarts]
      BY <1>1, <2>1
    <3> QED BY <1>1, <2>1, <3>1, <3>2 DEF BrainTypeOK
  <2>3. Running' = Running \ {process}
    BY <2>1 DEF Running
  <2>4. restart.at = "off" => Running' = {}
    BY <2>3 DEF BrainInv, Owner
  <2>5. restart.at # "off" => Owner' = Owner
    BY <2>1 DEF Owner
  <2> QED BY <2>1, <2>2, <2>3, <2>4, <2>5 DEF BrainInv
<1> QED BY <1>2, <1>3, <1>4, <1>5 DEF StartStep

LEMMA BrainProcess ==
  ASSUME BrainInv, NEW p \in 1..launched, KillAtEnd(p) \/ Monitor(p) \/ Die(p)
  PROVE  BrainInv'
<1>1. /\ launched \in 0..MaxProcesses /\ process \in 0..launched
      /\ alive \subseteq 1..launched /\ killed \subseteq alive /\ monitored \subseteq 1..launched
      /\ MaxProcesses \in Nat /\ launched \in Nat /\ MaxRestarts \in Nat /\ BrainTypeOK
      /\ p # None
  BY BrainConstants DEF BrainInv, BrainTypeOK, None
<1>2. CASE KillAtEnd(p) \/ Die(p)
  <2>1. /\ UNCHANGED <<ctxDone, brain, supervisor, launched, monitored, restart>>
        /\ alive' \subseteq alive /\ killed' \subseteq alive' /\ Running' \subseteq Running
    BY <1>1, <1>2 DEF KillAtEnd, Die, Running
  <2> QED BY <1>1, <2>1 DEF BrainInv, BrainTypeOK, Owner, supervisor
<1>3. CASE Monitor(p) /\ p # process
  <2>1. /\ UNCHANGED <<ctxDone, brain, supervisor, launched, alive, killed, restart>>
        /\ monitored' \subseteq monitored
    BY <1>3 DEF Monitor, supervisor
  <2> QED BY <1>1, <2>1 DEF BrainInv, BrainTypeOK, Owner, Running, supervisor
<1>4. CASE Monitor(p) /\ p = process
  <2>1. /\ process' = None /\ ready' = FALSE /\ p \notin alive /\ monitored' = monitored \ {p}
        /\ UNCHANGED <<ctxDone, brain, stopped, launched, alive, killed>>
        /\ \/ restart' = [at |-> "backoff", process |-> None, left |-> MaxRestarts] /\ MaxRestarts > 0
           \/ restart' = restart
    BY <1>4 DEF Monitor, NoRestart
  <2>2. restart.at = "off" /\ Running = {} /\ Running' = {}
    BY <1>1, <1>4, <2>1 DEF BrainInv, Running, Owner
  <2>3. restart' \in [at : Loops, process : 0..launched', left : 0..MaxRestarts]
    BY <1>1, <2>1 DEF BrainTypeOK, Loops, None
  <2>4. BrainTypeOK'
    <3>1. process' \in 0..launched' /\ monitored' \subseteq 1..launched'
      BY <1>1, <2>1 DEF None
    <3> QED BY <1>1, <2>1, <2>3, <3>1 DEF BrainTypeOK
  <2>5. brain \notin {"discover", "launch"}
    BY <1>1, <1>4 DEF BrainInv
  <2>6. restart'.at \in {"backoff", "off"}
    BY <2>1, <2>2
  <2> QED BY <2>1, <2>2, <2>4, <2>5, <2>6 DEF BrainInv, Owner
<1> QED BY <1>2, <1>3, <1>4

LEMMA BrainRestart ==
  ASSUME BrainInv, RestartStep
  PROVE  BrainInv'
<1>1. /\ launched \in 0..MaxProcesses /\ process \in 0..launched
      /\ alive \subseteq 1..launched /\ killed \subseteq alive /\ monitored \subseteq 1..launched
      /\ restart.at \in Loops /\ restart.process \in 0..launched /\ restart.left \in 0..MaxRestarts
      /\ restart \in [at : Loops, process : 0..launched, left : 0..MaxRestarts]
      /\ MaxProcesses \in Nat /\ launched \in Nat /\ MaxRestarts \in Nat
      /\ stopped \in BOOLEAN /\ ready \in BOOLEAN /\ ctxDone \in BOOLEAN /\ brain \in Places
  BY BrainConstants DEF BrainInv, BrainTypeOK
<1>2. restart.at # "off"
  BY DEF RestartStep, RestartEnds, RestartLaunches, RestartProbeFails, RestartInstalls, Reaped
<1>3. process = None /\ brain \notin {"discover", "launch"} /\ ~ ready
  BY <1>2 DEF BrainInv
<1>4. CASE RestartEnds
  <2>1. /\ restart' = [at |-> "off", process |-> None, left |-> 0] /\ restart.at = "backoff"
        /\ UNCHANGED <<ctxDone, brain, process, stopped, ready, launched, alive, killed, monitored>>
    BY <1>4 DEF RestartEnds, NoRestart, supervisor, processes
  <2>2. BrainTypeOK'
    BY <1>1, <2>1 DEF BrainTypeOK, Loops, None
  <2>3. Running = {} /\ Running' = {}
    BY <2>1 DEF BrainInv, Owner, Running
  <2> QED BY <1>3, <2>1, <2>2, <2>3 DEF BrainInv, Owner
<1>5. CASE RestartLaunches
  <2>1. /\ restart.at = "backoff" /\ restart.left > 0
        /\ UNCHANGED <<ctxDone, brain, process, stopped, ready, monitored>>
        /\ \/ /\ launched' = launched + 1 /\ launched < MaxProcesses
              /\ alive' = alive \cup {launched + 1} /\ killed' = killed
              /\ restart' = [at |-> "probe", process |-> launched + 1, left |-> restart.left]
           \/ /\ restart' = [at |-> restart.at, process |-> restart.process, left |-> restart.left - 1]
              /\ UNCHANGED <<launched, alive, killed>>
    BY <1>1, <1>5 DEF RestartLaunches, Launch, supervisor
  <2>2. Running = {}
    BY <2>1 DEF BrainInv, Owner
  <2>3. CASE restart'.at = "probe"
    <3>1. /\ launched' = launched + 1 /\ alive' = alive \cup {launched + 1} /\ killed' = killed
          /\ restart' = [at |-> "probe", process |-> launched + 1, left |-> restart.left]
          /\ launched + 1 \in 0..MaxProcesses
      BY <1>1, <2>1, <2>3
    <3>2. BrainTypeOK'
      BY <1>1, <2>1, <3>1 DEF BrainTypeOK, Loops
    <3>3. Running' \subseteq {launched + 1}
      BY <2>2, <3>1 DEF Running
    <3> QED BY <1>1, <1>3, <2>1, <3>1, <3>2, <3>3 DEF BrainInv, Owner, None
  <2>4. CASE restart'.at # "probe"
    <3>1. /\ restart' = [at |-> restart.at, process |-> restart.process, left |-> restart.left - 1]
          /\ UNCHANGED <<launched, alive, killed>> /\ restart.left - 1 \in 0..MaxRestarts
      BY <1>1, <2>1, <2>4
    <3>2. BrainTypeOK'
      BY <1>1, <2>1, <3>1 DEF BrainTypeOK
    <3>3. Running' = {}
      BY <2>2, <3>1 DEF Running
    <3> QED BY <1>1, <1>3, <2>1, <3>1, <3>2, <3>3 DEF BrainInv, Owner, None
  <2> QED BY <2>3, <2>4
<1>6. CASE RestartProbeFails
  <2>1. /\ restart' = [at |-> "reap", process |-> restart.process, left |-> restart.left]
        /\ restart.at = "probe" /\ killed' = killed \cup ({restart.process} \cap alive)
        /\ UNCHANGED <<ctxDone, brain, process, stopped, ready, launched, alive, monitored>>
    BY <1>1, <1>6 DEF RestartProbeFails, supervisor
  <2>2. BrainTypeOK'
    BY <1>1, <2>1 DEF BrainTypeOK, Loops
  <2>3. Running' = {} /\ restart.left > 0
    BY <2>1 DEF BrainInv, Owner, Running
  <2> QED BY <1>3, <2>1, <2>2, <2>3 DEF BrainInv, Owner
<1>7. CASE RestartInstalls /\ restart'.at = "reapLast"
  <2>1. /\ restart' = [at |-> "reapLast", process |-> restart.process, left |-> restart.left]
        /\ restart.at = "probe" /\ killed' = killed \cup ({restart.process} \cap alive)
        /\ UNCHANGED <<ctxDone, brain, process, stopped, ready, launched, alive, monitored>>
    BY <1>1, <1>7 DEF RestartInstalls, NoRestart
  <2>2. BrainTypeOK'
    BY <1>1, <2>1 DEF BrainTypeOK, Loops
  <2>3. Running' = {}
    BY <2>1 DEF BrainInv, Owner, Running
  <2> QED BY <1>3, <2>1, <2>2, <2>3 DEF BrainInv, Owner
<1>8. CASE RestartInstalls /\ restart'.at # "reapLast"
  <2>1. /\ restart' = [at |-> "off", process |-> None, left |-> 0] /\ restart.at = "probe"
        /\ ~ stopped /\ process' = restart.process /\ ready' = TRUE
        /\ monitored' = monitored \cup {restart.process}
        /\ UNCHANGED <<ctxDone, brain, stopped, launched, alive, killed>>
    BY <1>1, <1>8 DEF RestartInstalls, NoRestart
  <2>2. restart.process # None /\ Running \subseteq {restart.process} /\ Running' = Running
    BY <2>1 DEF BrainInv, Owner, Running
  <2>3. restart.process \in 1..launched
    BY <1>1, <2>2 DEF None
  <2>4. BrainTypeOK'
    <3>1. process' \in 0..launched' /\ monitored' \subseteq 1..launched'
      BY <1>1, <2>1, <2>3
    <3>2. restart' \in [at : Loops, process : 0..launched', left : 0..MaxRestarts]
      BY <1>1, <2>1 DEF Loops, None
    <3> QED BY <1>1, <2>1, <3>1, <3>2 DEF BrainTypeOK
  <2> QED BY <1>3, <2>1, <2>2, <2>4 DEF BrainInv, Owner
<1>9. CASE Reaped
  <2>1. /\ UNCHANGED <<ctxDone, brain, process, stopped, ready, launched, alive, killed, monitored>>
        /\ \/ restart' = [at |-> "off", process |-> None, left |-> 0]
           \/ /\ restart' = [at |-> "backoff", process |-> None, left |-> restart.left - 1]
              /\ restart.left > 0
    BY <1>1, <1>9 DEF Reaped, NoRestart, supervisor, processes, BrainInv
  <2>2. BrainTypeOK'
    BY <1>1, <2>1 DEF BrainTypeOK, Loops, None
  <2>3. Running = {} /\ Running' = {}
    BY <1>9, <2>1 DEF BrainInv, Owner, Running, Reaped
  <2>4. restart'.at \in {"off", "backoff"}
    BY <2>1
  <2> QED BY <1>3, <2>1, <2>2, <2>3, <2>4 DEF BrainInv, Owner
<1> QED BY <1>4, <1>5, <1>6, <1>7, <1>8, <1>9 DEF RestartStep
-----------------------------------------------------------------------------
(* The queue of events.                                                    *)

LEMMA EmptyQueue == NoRepeat(<<>>) /\ Queued(<<>>) = {}
BY DEF NoRepeat, Queued

LEMMA AppendEvent ==
  ASSUME NEW S, NEW q \in Seq(S), NEW e \in S
  PROVE  LET r == Append(q, e)
         IN  /\ r \in Seq(S) /\ Len(r) = Len(q) + 1
             /\ Queued(r) = Queued(q) \cup {e}
             /\ NoRepeat(q) /\ e \notin Queued(q) => NoRepeat(r)
<1> DEFINE r == Append(q, e)
           n == Len(q)
<1>1. r \in Seq(S) /\ Len(r) = n + 1 /\ n \in Nat
  OBVIOUS
<1>2. r[n + 1] = e /\ \A i \in 1..n : r[i] = q[i]
  OBVIOUS
<1>3. 1..Len(r) = (1..n) \cup {n + 1} /\ n + 1 \notin 1..n
  BY <1>1
<1> HIDE DEF r, n
<1>4. Queued(r) = Queued(q) \cup {e}
  BY <1>2, <1>3 DEF Queued, n
<1>5. ASSUME NoRepeat(q), e \notin Queued(q)
      PROVE  NoRepeat(r)
  BY <1>2, <1>3, <1>5 DEF NoRepeat, Queued, n
<1> QED BY <1>1, <1>4, <1>5 DEF r, n

LEMMA TakeEvent ==
  ASSUME NEW S, NEW q \in Seq(S), q # <<>>, NoRepeat(q)
  PROVE  /\ Tail(q) \in Seq(S) /\ Len(Tail(q)) = Len(q) - 1 /\ Len(q) \in Nat \ {0}
         /\ Head(q) \in S
         /\ Queued(q) = Queued(Tail(q)) \cup {Head(q)} /\ Head(q) \notin Queued(Tail(q))
         /\ NoRepeat(Tail(q))
<1> DEFINE t == Tail(q)
           n == Len(q)
<1>1. t \in Seq(S) /\ Len(t) = n - 1 /\ n \in Nat \ {0} /\ Head(q) = q[1] /\ q[1] \in S
  OBVIOUS
<1>2. \A i \in 1..(n - 1) : t[i] = q[i + 1]
  OBVIOUS
<1> HIDE DEF t
<1>3. ASSUME NEW i \in 1..n, i # 1
      PROVE  i - 1 \in 1..(n - 1) /\ t[i - 1] = q[i]
  <2>1. i - 1 \in 1..(n - 1) /\ (i - 1) + 1 = i
    BY <1>1, <1>3
  <2> QED BY <1>2, <2>1
<1>4. \A i \in 1..(n - 1) : i + 1 \in 1..n /\ i + 1 # 1
  BY <1>1
<1>5. 1 \in 1..n
  BY <1>1
<1> HIDE DEF n
<1>6. Queued(q) = {q[i] : i \in 1..n} /\ Queued(t) = {t[i] : i \in 1..(n - 1)}
  BY <1>1 DEF Queued, n
<1>7. Queued(q) = Queued(t) \cup {q[1]}
  BY <1>2, <1>3, <1>4, <1>5, <1>6
<1>8. \A i, j \in 1..n : q[i] = q[j] => i = j
  BY DEF NoRepeat, n
<1>9. q[1] \notin Queued(t)
  BY <1>2, <1>4, <1>5, <1>6, <1>8
<1>10. NoRepeat(t)
  <2>1. ASSUME NEW i \in 1..(n - 1), NEW j \in 1..(n - 1), t[i] = t[j]
        PROVE  i = j
    <3>1. i + 1 = j + 1
      BY <1>2, <1>4, <1>8, <2>1
    <3> QED BY <3>1
  <2> QED BY <1>1, <2>1 DEF NoRepeat
<1> QED BY <1>1, <1>7, <1>9, <1>10 DEF t, n

LEMMA HandOf ==
  /\ writer \notin Events => InHand = {} /\ Cardinality(InHand) = 0
  /\ writer \in Events => InHand = {writer} /\ Cardinality(InHand) = 1
BY FS_EmptySet, FS_Singleton DEF InHand

LEMMA Enqueued ==
  ASSUME StoreInv, NEW e \in Events, e \notin accepted, EnqueueRequest(e)
  PROVE  StoreInv' /\ accepted' \subseteq accepted \cup {e}
<1>1. /\ queue \in Seq(Events) /\ Len(queue) <= QueueSize /\ QueueSize \in Nat
      /\ accepted \in SUBSET Events /\ PlacesInv /\ CountInv
  BY StoreConstants DEF StoreInv, StoreTypeOK
<1>2. CASE UNCHANGED <<queue, accepted>>
  <2>1. UNCHANGED storeVars
    BY <1>2 DEF EnqueueRequest, storeVars
  <2> QED BY <2>1 DEF storeVars, StoreInv, StoreTypeOK, PlacesInv, CountInv, InHand
<1>3. CASE ~ UNCHANGED <<queue, accepted>>
  <2> DEFINE r == Append(queue, e)
  <2>1. /\ ~ closed /\ Len(queue) < QueueSize /\ queue' = r
        /\ accepted' = accepted \cup {e} /\ UNCHANGED <<closed, writer, open, written, failed>>
    BY <1>3 DEF EnqueueRequest
  <2>2. e \notin Queued(queue) \cup InHand \cup written \cup failed
    BY DEF StoreInv, CountInv
  <2>3. /\ r \in Seq(Events) /\ Len(r) = Len(queue) + 1 /\ Queued(r) = Queued(queue) \cup {e}
        /\ NoRepeat(r)
    BY <1>1, <2>2, AppendEvent DEF PlacesInv
  <2> HIDE DEF r
  <2>4. InHand' = InHand
    BY <2>1 DEF InHand
  <2>5. PlacesInv'
    BY <1>1, <2>1, <2>2, <2>3, <2>4 DEF PlacesInv
  <2>6. IsFiniteSet(accepted') /\ Cardinality(accepted') = Cardinality(accepted) + 1
        /\ Cardinality(accepted) \in Nat
    BY <1>1, <2>1, FS_AddElement, FS_CardinalityType DEF CountInv
  <2>7. Len(queue) \in Nat /\ Cardinality(InHand) \in Nat /\ Cardinality(written) \in Nat
        /\ Cardinality(failed) \in Nat
    BY <1>1, HandOf, FS_CardinalityType DEF CountInv
  <2>8. /\ Len(queue)' + Cardinality(InHand)' + Cardinality(written)' + Cardinality(failed)'
             = Cardinality(accepted)'
    <3>1. Len(queue) + Cardinality(InHand) + Cardinality(written) + Cardinality(failed)
            = Cardinality(accepted)
      BY <1>1 DEF CountInv
    <3>2. /\ Len(queue)' = Len(queue) + 1 /\ Cardinality(InHand)' = Cardinality(InHand)
          /\ Cardinality(written)' = Cardinality(written) /\ Cardinality(failed)' = Cardinality(failed)
          /\ Cardinality(accepted)' = Cardinality(accepted) + 1
      BY <2>1, <2>3, <2>4, <2>6
    <3> QED BY <2>6, <2>7, <3>1, <3>2
  <2>9. accepted' = Queued(queue') \cup InHand' \cup written' \cup failed'
    BY <1>1, <2>1, <2>3, <2>4 DEF CountInv
  <2>10. CountInv'
    BY <1>1, <2>1, <2>6, <2>8, <2>9 DEF CountInv
  <2>11. StoreTypeOK'
    BY <1>1, <2>1, <2>3 DEF StoreInv, StoreTypeOK
  <2>12. writer # "exited"
    BY <2>1 DEF StoreInv
  <2> QED BY <2>1, <2>5, <2>10, <2>11, <2>12 DEF StoreInv
<1> QED BY <1>2, <1>3

LEMMA Received ==
  ASSUME StoreInv, Receive
  PROVE  StoreInv'
<1> DEFINE t == Tail(queue)
           h == Head(queue)
<1>1. /\ queue \in Seq(Events) /\ queue # <<>> /\ writer = NoEvent /\ PlacesInv /\ CountInv
      /\ writer \notin Events /\ Len(queue) <= QueueSize /\ QueueSize \in Nat
      /\ queue' = t /\ writer' = h /\ UNCHANGED <<closed, open, written, failed, accepted>>
  BY StoreConstants DEF StoreInv, StoreTypeOK, Receive
<1>2. /\ t \in Seq(Events) /\ Len(t) = Len(queue) - 1 /\ Len(queue) \in Nat \ {0}
      /\ h \in Events /\ Queued(queue) = Queued(t) \cup {h} /\ h \notin Queued(t) /\ NoRepeat(t)
  BY <1>1, TakeEvent DEF PlacesInv
<1> HIDE DEF t, h
<1>3. InHand = {} /\ Cardinality(InHand) = 0 /\ InHand' = {h} /\ Cardinality(InHand') = 1
  <2>1. InHand = {} /\ InHand' = {h}
    BY <1>1, <1>2 DEF InHand
  <2> QED BY <2>1, FS_EmptySet, FS_Singleton
<1>4. PlacesInv'
  BY <1>1, <1>2, <1>3 DEF PlacesInv
<1>5. CountInv'
  <2>1. accepted' = Queued(queue') \cup InHand' \cup written' \cup failed'
    BY <1>1, <1>2, <1>3 DEF CountInv
  <2>2. Cardinality(written) \in Nat /\ Cardinality(failed) \in Nat
    BY <1>1, FS_CardinalityType DEF CountInv
  <2>3. Len(queue) + 0 + Cardinality(written) + Cardinality(failed) = Cardinality(accepted)
    BY <1>1, <1>3 DEF CountInv
  <2>4. (Len(queue) - 1) + 1 + Cardinality(written) + Cardinality(failed) = Cardinality(accepted)
    BY <1>2, <2>2, <2>3
  <2> QED BY <1>1, <1>2, <1>3, <2>1, <2>4 DEF CountInv
<1>6. Len(t) <= QueueSize
  BY <1>1, <1>2
<1>7. StoreTypeOK'
  BY <1>1, <1>2, <1>6 DEF StoreInv, StoreTypeOK
<1>8. writer' # "exited" /\ open
  <2>1. h # "exited" /\ writer # "exited"
    BY <1>1, <1>2, StoreConstants
  <2> QED BY <1>1, <2>1 DEF StoreInv
<1> QED BY <1>1, <1>4, <1>5, <1>7, <1>8 DEF StoreInv

LEMMA Persisted ==
  ASSUME StoreInv, Persist
  PROVE  StoreInv'
<1>1. /\ writer \in Events /\ writer' = NoEvent /\ UNCHANGED <<queue, closed, open, accepted>>
      /\ PlacesInv /\ CountInv /\ NoEvent \notin Events /\ written \in SUBSET Events
      /\ failed \in SUBSET Events /\ StoreTypeOK
  BY StoreConstants DEF StoreInv, StoreTypeOK, Persist
<1>2. InHand = {writer} /\ Cardinality(InHand) = 1 /\ InHand' = {} /\ Cardinality(InHand') = 0
  BY <1>1, FS_EmptySet, HandOf DEF InHand
<1>3. /\ Cardinality(written) \in Nat /\ Cardinality(failed) \in Nat
      /\ Len(queue) \in Nat /\ writer \notin written \cup failed /\ writer \notin Queued(queue)
  BY <1>1, <1>2, FS_CardinalityType DEF CountInv, PlacesInv, StoreTypeOK
<1>4. /\ IsFiniteSet(written') /\ IsFiniteSet(failed')
      /\ written' \cup failed' = written \cup failed \cup {writer}
      /\ Cardinality(written') + Cardinality(failed') = Cardinality(written) + Cardinality(failed) + 1
      /\ Cardinality(written') \in Nat /\ Cardinality(failed') \in Nat
      /\ written' \in SUBSET Events /\ failed' \in SUBSET Events
  <2>1. IsFiniteSet(written) /\ IsFiniteSet(failed)
    BY <1>1 DEF CountInv
  <2>2. CASE written' = written \cup {writer} /\ failed' = failed
    <3>1. IsFiniteSet(written') /\ Cardinality(written') = Cardinality(written) + 1
      BY <1>3, <2>1, <2>2, FS_AddElement
    <3> QED BY <1>1, <1>3, <2>1, <2>2, <3>1
  <2>3. CASE failed' = failed \cup {writer} /\ written' = written
    <3>1. IsFiniteSet(failed') /\ Cardinality(failed') = Cardinality(failed) + 1
      BY <1>3, <2>1, <2>3, FS_AddElement
    <3> QED BY <1>1, <1>3, <2>1, <2>3, <3>1
  <2> QED BY <2>2, <2>3 DEF Persist
<1>5. PlacesInv'
  BY <1>1, <1>2, <1>3, <1>4 DEF PlacesInv
<1>6. CountInv'
  <2>1. accepted' = Queued(queue') \cup InHand' \cup written' \cup failed'
    BY <1>1, <1>2, <1>4 DEF CountInv
  <2>2. Len(queue) + 1 + Cardinality(written) + Cardinality(failed) = Cardinality(accepted)
    BY <1>1, <1>2 DEF CountInv
  <2>3. Len(queue) + 0 + Cardinality(written') + Cardinality(failed') = Cardinality(accepted)
    BY <1>3, <1>4, <2>2
  <2> QED BY <1>1, <1>2, <1>4, <2>1, <2>3 DEF CountInv
<1>7. StoreTypeOK'
  BY <1>1, <1>4 DEF StoreTypeOK
<1>8. writer # "exited" /\ writer' # "exited"
  BY <1>1, StoreConstants
<1> QED BY <1>1, <1>5, <1>6, <1>7, <1>8 DEF StoreInv

LEMMA StoreEnds ==
  ASSUME StoreInv, WriterExits \/ BeginClose \/ FinishClose
  PROVE  StoreInv'
<1>1. /\ UNCHANGED <<queue, written, failed, accepted>> /\ StoreTypeOK
      /\ PlacesInv /\ CountInv
  BY DEF StoreInv, WriterExits, BeginClose, FinishClose
<1>2. InHand' = InHand
  BY StoreConstants DEF WriterExits, BeginClose, FinishClose, InHand
<1>3. PlacesInv' /\ CountInv'
  BY <1>1, <1>2 DEF PlacesInv, CountInv
<1>4. StoreTypeOK'
  BY <1>1 DEF StoreTypeOK, WriterExits, BeginClose, FinishClose
<1>5. /\ writer' = "exited" => closed' /\ queue' = <<>>
      /\ ~ open' => writer' = "exited"
  BY DEF StoreInv, StoreTypeOK, WriterExits, BeginClose, FinishClose
<1> QED BY <1>3, <1>4, <1>5 DEF StoreInv
-----------------------------------------------------------------------------
(* What the steps of serve do to the brain and to the store.               *)

LEMMA SameBrain ==
  ASSUME BrainInv, UNCHANGED <<brain, supervisor, processes, restart>>, ctxDone' \in BOOLEAN
  PROVE  BrainInv'
BY DEF BrainInv, BrainTypeOK, Running, Owner, supervisor, processes

LEMMA SameStore ==
  ASSUME StoreInv, UNCHANGED storeVars
  PROVE  StoreInv'
BY DEF storeVars, StoreInv, StoreTypeOK, PlacesInv, CountInv, InHand

LEMMA AttachStep ==
  ASSUME BrainInv, AttachProvider
  PROVE  BrainInv'
<1>1. /\ brain \in {"attach", "attachExternal"} /\ brain' \in {"serving", "ended"}
      /\ UNCHANGED <<ctxDone, supervisor, processes, restart>>
  BY DEF AttachProvider
<1> QED BY <1>1 DEF BrainInv, BrainTypeOK, Running, Owner, supervisor, processes, Places

LEMMA BrainStep ==
  ASSUME IInv, [Next]_vars
  PROVE  BrainInv'
<1>1. BrainInv /\ ctxDone \in BOOLEAN
  BY DEF IInv, BrainInv, BrainTypeOK
<1>2. CASE StartStep
  BY <1>1, <1>2, BrainStart
<1>3. CASE RestartStep
  BY <1>1, <1>3, BrainRestart
<1>4. CASE \E p \in 1..launched : KillAtEnd(p) \/ Monitor(p) \/ Die(p)
  BY <1>1, <1>4, BrainProcess
<1>5. CASE AttachProvider
  BY <1>1, <1>5, AttachStep
<1>6. ASSUME NEW r \in Requests, RequestStep(r)
      PROVE  UNCHANGED brainVars
  BY <1>6 DEF RequestStep, Arrive, Admitted, Deferred, Acquire, Answered, NotAnswered, Selected,
    UseBrain, Finish
<1>7. CASE CooldownEnds \/ Shutdown \/ Drained \/ Return \/ RivalKills \/ RivalListens \/ RivalLeaves
  <2>1. UNCHANGED brainVars
    BY <1>7 DEF CooldownEnds, Shutdown, Drained, Return, RivalKills, RivalListens, RivalLeaves
  <2> QED BY <1>1, <2>1, SameBrain DEF brainVars
<1>8. CASE Interrupt \/ RivalInterrupts
  BY <1>1, <1>8, SameBrain DEF Interrupt, RivalInterrupts
<1>9. CASE UNCHANGED brainVars
  BY <1>1, <1>9, SameBrain DEF brainVars
<1> QED BY <1>2, <1>3, <1>4, <1>5, <1>6, <1>7, <1>8, <1>9 DEF Next, Goroutine, vars

(* A request leaves one event, at its end. *)
EventInv == \A r \in accepted : pc[r] = "ended"

LEMMA FinishStep ==
  ASSUME IInv, NEW r \in Requests, Finish(r)
  PROVE  StoreInv' /\ EventInv'
<1>1. /\ pc[r] = "running" /\ pc' = [pc EXCEPT ![r] = "ended"] /\ EnqueueRequest(r)
      /\ StoreInv /\ EventInv /\ accepted \subseteq Requests /\ r \in Events
      /\ pc \in [Requests -> Selecting \cup {"idle", "running", "ended"}]
  BY DEF Finish, Goto, IInv, EventInv, ServiceTypeOK, StoreTypeOK, Requests
<1>2. r \notin accepted
  BY <1>1 DEF EventInv
<1>3. StoreInv' /\ accepted' \subseteq accepted \cup {r}
  BY <1>1, <1>2, Enqueued
<1>4. EventInv'
  BY <1>1, <1>3 DEF EventInv
<1> QED BY <1>3, <1>4

LEMMA StoreStep ==
  ASSUME IInv, [Next]_vars
  PROVE  StoreInv' /\ EventInv'
<1>1. /\ StoreInv /\ EventInv /\ accepted \subseteq Requests
      /\ pc \in [Requests -> Selecting \cup {"idle", "running", "ended"}]
  BY DEF IInv, EventInv, ServiceTypeOK, StoreTypeOK, Requests
<1>2. ASSUME NEW r \in Requests, RequestStep(r), ~ Finish(r)
      PROVE  /\ UNCHANGED storeVars
             /\ \A q \in Requests : pc[q] = "ended" => pc'[q] = "ended"
  <2>1. UNCHANGED storeVars /\ (pc' = pc \/ (pc[r] # "ended" /\ \E pl : pc' = [pc EXCEPT ![r] = pl]))
    BY <1>2 DEF RequestStep, Arrive, Admitted, Deferred, Acquire, Answered, NotAnswered, Selected,
      UseBrain, Goto, HasSlot
  <2> QED BY <1>1, <2>1
<1>3. CASE WriterStep /\ UNCHANGED <<brainVars, serverVars>>
  <2>1. accepted' = accepted /\ pc' = pc
    BY <1>3 DEF WriterStep, Receive, Persist, WriterExits, serverVars
  <2> QED BY <1>1, <1>3, <2>1, Received, Persisted, StoreEnds DEF WriterStep, EventInv
<1>4. CASE Drained \/ Return
  <2>1. (BeginClose \/ FinishClose) /\ pc' = pc
    BY <1>4 DEF Drained, Return
  <2>2. accepted' = accepted
    BY <2>1 DEF BeginClose, FinishClose
  <2> QED BY <1>1, <2>1, <2>2, StoreEnds DEF EventInv
<1>5. CASE UNCHANGED <<storeVars, pc>>
  BY <1>1, <1>5, SameStore DEF storeVars, EventInv
<1>6. CASE CooldownEnds \/ AttachProvider \/ Shutdown \/ Interrupt
  BY <1>5, <1>6 DEF CooldownEnds, AttachProvider, Shutdown, Interrupt, serverVars
<1>7. CASE RivalInterrupts \/ RivalKills \/ RivalListens \/ RivalLeaves
  BY <1>5, <1>7 DEF RivalInterrupts, RivalKills, RivalListens, RivalLeaves
<1>8. CASE UNCHANGED vars
  BY <1>5, <1>8 DEF vars, serverVars
<1>9. CASE \E r \in Requests : RequestStep(r)
  <2>1. PICK r \in Requests : RequestStep(r)
    BY <1>9
  <2>2. CASE Finish(r)
    BY <2>2, FinishStep
  <2>3. CASE ~ Finish(r)
    <3>1. StoreInv'
      BY <1>1, <1>2, <2>1, <2>3, SameStore
    <3>2. accepted' = accepted
      BY <1>2, <2>1, <2>3 DEF storeVars
    <3> QED BY <1>1, <1>2, <2>1, <2>3, <3>1, <3>2 DEF EventInv
  <2> QED BY <2>2, <2>3
<1> QED BY <1>3, <1>4, <1>5, <1>6, <1>7, <1>8, <1>9 DEF Next, Goroutine, serverVars

LEMMA ServerTypeStep ==
  ASSUME IInv, [Next]_vars, BrainInv', StoreInv'
  PROVE  ServiceTypeOK'
<1>1. /\ main \in {"serving", "draining", "closing", "returned", "killed"}
      /\ brainReady \in BOOLEAN /\ cooling \in BOOLEAN
      /\ pc \in [Requests -> Selecting \cup {"idle", "running", "ended"}]
      /\ gate \in Requests \cup {Nobody} /\ fallback \in BOOLEAN
      /\ rival \in {"absent", "stopping", "listening", "gone"}
      /\ session \in {"us", "rival", Nobody}
  BY DEF IInv, ServiceTypeOK
<1>2. BrainTypeOK' /\ StoreTypeOK'
  BY DEF BrainInv, StoreInv
<1>3. CASE UNCHANGED serverVars
  BY <1>1, <1>2, <1>3 DEF ServiceTypeOK, serverVars, portVars
<1>4. ASSUME NEW r \in Requests, RequestStep(r)
      PROVE  ServiceTypeOK'
  <2>1. UNCHANGED <<main, brainReady, fallback, rival, session>>
    BY <1>4 DEF RequestStep, Arrive, Admitted, Deferred, Acquire, Answered, NotAnswered, Selected,
      UseBrain, Finish, portVars
  <2>2. cooling' \in BOOLEAN /\ gate' \in Requests \cup {Nobody}
    BY <1>1, <1>4 DEF RequestStep, Arrive, Admitted, Deferred, Acquire, Answered, NotAnswered,
      Selected, UseBrain, Finish
  <2>3. pc' \in [Requests -> Selecting \cup {"idle", "running", "ended"}]
    <3>1. pc' = pc \/ \E pl \in Selecting \cup {"idle", "running", "ended"} :
                        pc' = [pc EXCEPT ![r] = pl]
      BY <1>4 DEF RequestStep, Arrive, Admitted, Deferred, Acquire, Answered, NotAnswered, Selected,
        UseBrain, Finish, Goto, Selecting
    <3> QED BY <1>1, <3>1
  <2> QED BY <1>1, <1>2, <2>1, <2>2, <2>3 DEF ServiceTypeOK
<1>5. CASE CooldownEnds \/ AttachProvider \/ Shutdown \/ Drained \/ Return
  BY <1>1, <1>2, <1>5 DEF CooldownEnds, AttachProvider, Shutdown, Drained, Return, ServiceTypeOK, portVars
<1>6. CASE Interrupt \/ RivalInterrupts \/ RivalKills \/ RivalListens \/ RivalLeaves
  BY <1>1, <1>2, <1>3, <1>6 DEF Interrupt, RivalInterrupts, RivalKills, RivalListens, RivalLeaves,
    ServiceTypeOK, portVars
<1> QED BY <1>3, <1>4, <1>5, <1>6 DEF Next, Goroutine, vars
-----------------------------------------------------------------------------
LEMMA InitInv ==
  ASSUME Init
  PROVE  IInv
<1>1. /\ launched = 0 /\ process = 0 /\ alive = {} /\ killed = {} /\ monitored = {}
      /\ brain = "discover" /\ stopped = FALSE /\ ready = FALSE /\ ctxDone = FALSE
      /\ restart = [at |-> "off", process |-> 0, left |-> 0]
  BY DEF Init, BrainInit, NoRestart, None
<1>2. BrainTypeOK
  <2>1. restart \in [at : Loops, process : 0..launched, left : 0..MaxRestarts]
    BY <1>1, BrainConstants DEF Loops
  <2>2. launched \in 0..MaxProcesses /\ process \in 0..launched
    BY <1>1, BrainConstants
  <2> QED BY <1>1, <2>1, <2>2 DEF BrainTypeOK, Places
<1>3. BrainInv
  BY <1>1, <1>2 DEF BrainInv, Running, Owner, None
<1>4. /\ queue = <<>> /\ written = {} /\ failed = {} /\ accepted = {} /\ writer = NoEvent
      /\ open = TRUE /\ closed = FALSE
  BY DEF Init, StoreInit
<1>5. StoreTypeOK
  <2>1. queue \in Seq(Events) /\ Len(queue) = 0
    BY <1>4
  <2>2. Len(queue) <= QueueSize
    BY <2>1, StoreConstants
  <2>3. writer \in Events \cup {NoEvent, "exited"} /\ {} \in SUBSET Events
    BY <1>4
  <2> QED BY <1>4, <2>1, <2>2, <2>3 DEF StoreTypeOK
<1>6. InHand = {} /\ Cardinality(InHand) = 0
  BY <1>4, HandOf, StoreConstants
<1>7. PlacesInv
  BY <1>4, <1>6, EmptyQueue DEF PlacesInv
<1>8. CountInv
  <2>1. Len(queue) = 0 /\ Queued(queue) = {}
    BY <1>4, EmptyQueue
  <2>2. IsFiniteSet({}) /\ Cardinality({}) = 0
    BY FS_EmptySet
  <2> QED BY <1>4, <1>6, <2>1, <2>2 DEF CountInv
<1>9. StoreInv
  BY <1>4, <1>5, <1>7, <1>8, StoreConstants DEF StoreInv
<1>10. ServiceTypeOK
  BY <1>2, <1>5 DEF Init, ServiceTypeOK
<1> QED BY <1>3, <1>4, <1>9, <1>10 DEF IInv

LEMMA Inductive ==
  ASSUME IInv, [Next]_vars
  PROVE  IInv'
BY BrainStep, StoreStep, ServerTypeStep DEF IInv, EventInv

(* Every reachable state is of its type.                                   *)
THEOREM TypeCorrect == Spec => []ServiceTypeOK
<1>1. Init => IInv
  BY InitInv
<1>2. IInv /\ [Next]_vars => IInv'
  BY Inductive
<1>3. IInv => ServiceTypeOK
  BY DEF IInv
<1> QED BY <1>1, <1>2, <1>3, PTL DEF Spec

(* Whatever dies, restarts, is stopped or interrupted between the locks of *)
(* the supervisor: Ready is not claimed without a process, no two runtimes *)
(* run that nobody has killed, and a stopped supervisor leaves none.       *)
THEOREM SupervisionHolds == Spec => []BrainSupervised
<1>1. Init => IInv
  BY InitInv
<1>2. IInv /\ [Next]_vars => IInv'
  BY Inductive
<1>3. IInv => BrainSupervised
  <2> SUFFICES ASSUME BrainInv PROVE BrainSupervised
    BY DEF IInv
  <2>1. Running \subseteq {Owner}
    BY DEF BrainInv
  <2>2. IsFiniteSet({Owner}) /\ Cardinality({Owner}) = 1
    BY FS_Singleton
  <2>3. IsFiniteSet(Running) /\ Cardinality(Running) <= 1
    BY <2>1, <2>2, FS_Subset
  <2> QED BY <2>3 DEF BrainInv, BrainSupervised, Running
<1> QED BY <1>1, <1>2, <1>3, PTL DEF Spec

(* No event that the queue accepted is lost or kept twice, whenever the    *)
(* service is interrupted and whatever its requests do until it ends, and  *)
(* a closed database leaves none of them unsettled.                        *)
THEOREM EventsAccounted == Spec => []EventsSettled
<1>1. Init => IInv
  BY InitInv
<1>2. IInv /\ [Next]_vars => IInv'
  BY Inductive
<1>3. IInv => EventsSettled
  <2> SUFFICES ASSUME StoreInv PROVE EventsSettled
    BY DEF IInv
  <2>1. ASSUME ~ open
        PROVE  accepted = written \cup failed
    <3>1. queue = <<>> /\ InHand = {}
      BY <2>1, StoreConstants DEF StoreInv, InHand
    <3> QED BY <3>1, EmptyQueue DEF StoreInv, CountInv
  <2> QED BY <2>1 DEF StoreInv, CountInv, EventsSettled, Queued, InHand
<1> QED BY <1>1, <1>2, <1>3, PTL DEF Spec
=============================================================================
