----------------------------- MODULE WarmPoolProofs -----------------------------
(***************************************************************************)
(* Proofs about WarmPool for any requests and any number of starts and of  *)
(* lines: no process is left behind, and no client gets the output of      *)
(* another client's prompt.                                                *)
(* The second one is not about matching, as an update carries no call ID:  *)
(* a process that the pool still has works on no prompt but the one whose  *)
(* answer the holder of the mutex waits for, and has left no output of an  *)
(* earlier one unread.                                                     *)
(***************************************************************************)
EXTENDS WarmPool, TLAPS

(* The clients with agents of their own leave the pool alone. *)
ModeInv ==
  /\ client = "pool" => \A r \in Requests : own[r] = Nobody /\ pc[r] \notin Calling
  /\ client # "pool" =>
       /\ mutex = Nobody /\ process = Nobody
       /\ lines = <<>> /\ tasks = {}
       /\ \A r \in Requests : pc[r] \notin Holding \cup {Waiting}

(* The mutex is held by the request that is inside do, and no other one.   *)
HolderInv ==
  /\ \A r \in Requests : pc[r] \in Holding <=> mutex = r
  /\ mutex # Nobody \/ process # Nobody => starts >= 1

Starting == mutex # Nobody /\ pc[mutex] \in {"write", "await"} \X {"initialize"}

(* There is a process that the requests go on using. *)
InUse == process # Nobody \/ Starting

Prompt(r)     == <<r, "session/prompt">>
Prompting(r)  == pc[r] = <<"await", "session/prompt">>
OfPrompt(l)   == l.kind \in Answers \cup {"update"} /\ l.call[2] = "session/prompt"
EndsPrompt(l) == l.kind \in Answers /\ l.call[2] = "session/prompt"

UpdatesInv ==
  \A i \in DOMAIN lines : lines[i].kind = "update" => lines[i].call[2] = "session/prompt"

(* A process in use has nothing to say about a prompt that is over, and    *)
(* nothing more about one that it has answered.                            *)
NothingStale ==
  /\ \A i \in DOMAIN lines : OfPrompt(lines[i]) => Prompting(lines[i].call[1])
  /\ \A r \in Requests : Prompt(r) \in tasks => Prompting(r)
  /\ \A i \in DOMAIN lines : EndsPrompt(lines[i]) =>
       /\ lines[i].call \notin tasks
       /\ \A j \in DOMAIN lines : i < j => ~ OfPrompt(lines[j])

DialogueInv == (mutex # Nobody => InUse) /\ (InUse => NothingStale)

IInv ==
  /\ TypeOK
  /\ ModeInv
  /\ HolderInv
  /\ UpdatesInv
  /\ DialogueInv
  /\ NoStrayProcess
  /\ NoForeignOutput
-----------------------------------------------------------------------------
(* Lemmas about places and sequences.                                      *)

LEMMA Places ==
  /\ Holding \cap Calling = {}
  /\ \A p \in {<<"idle">>, Waiting, <<"ended">>} : p \notin Holding \cup Calling
  /\ <<"idle">> # Waiting /\ <<"ended">> # Waiting /\ <<"idle">> # <<"ended">>
  /\ \A m \in Methods : <<"write", m>> \in Holding /\ <<"await", m>> \in Holding
  /\ \A m, n \in Methods :
       /\ <<"write", m>> # <<"await", n>>
       /\ m # n => <<"write", m>> # <<"write", n>> /\ <<"await", m>> # <<"await", n>>
  /\ \A k \in 1..5 : <<"call", k>> \in Calling
BY DEF Holding, Writing, Awaiting, Calling, Waiting

LEMMA CallPlaces ==
  \A p \in Holding \cup {<<"idle">>, Waiting, <<"ended">>} : p[1] # "call"
BY DEF Holding, Writing, Awaiting, Calling, Waiting

(* The places of the handshake are those with the method initialize.       *)
LEMMA StartingPlaces ==
  LET Handshake == {"write", "await"} \X {"initialize"}
  IN  /\ <<"write", "initialize">> \in Handshake /\ <<"await", "initialize">> \in Handshake
      /\ \A m \in Methods : m # "initialize" =>
           <<"write", m>> \notin Handshake /\ <<"await", m>> \notin Handshake
OBVIOUS

LEMMA TailFacts ==
  ASSUME NEW S, NEW s \in Seq(S), s # <<>>
  PROVE  /\ Tail(s) \in Seq(S) /\ Len(Tail(s)) = Len(s) - 1 /\ Len(s) \in Nat
         /\ Head(s) \in S /\ Head(s) = s[1] /\ 1 \in DOMAIN s
         /\ \A i \in DOMAIN Tail(s) :
              i \in Nat /\ i >= 1 /\ i + 1 \in DOMAIN s /\ Tail(s)[i] = s[i + 1]
OBVIOUS

LEMMA AppendFacts ==
  ASSUME NEW S, NEW s \in Seq(S), NEW e \in S
  PROVE  /\ Append(s, e) \in Seq(S) /\ Len(Append(s, e)) = Len(s) + 1 /\ Len(s) \in Nat
         /\ \A i \in DOMAIN Append(s, e) :
              \/ i \in DOMAIN s /\ Append(s, e)[i] = s[i]
              \/ i = Len(s) + 1 /\ Append(s, e)[i] = e
         /\ \A i \in DOMAIN s : i \in Nat /\ i < Len(s) + 1
OBVIOUS

(* What the actions read of the lines that are unread.                     *)
LEMMA FirstLine ==
  ASSUME TypeOK, lines # <<>>
  PROVE  /\ Tail(lines) \in Seq(Lines) /\ Len(Tail(lines)) <= MaxLines
         /\ Head(lines) \in Lines /\ Head(lines) = lines[1] /\ 1 \in DOMAIN lines
         /\ \A i \in DOMAIN Tail(lines) :
              1 < i + 1 /\ i + 1 \in DOMAIN lines /\ Tail(lines)[i] = lines[i + 1]
         /\ \A i, j \in DOMAIN Tail(lines) : i < j => i + 1 < j + 1
<1>1. lines \in Seq(Lines) /\ Len(lines) <= MaxLines /\ MaxLines \in Nat
  BY ConstantsAssumption DEF TypeOK
<1> QED BY <1>1, TailFacts

(* A request that is inside do is the holder, with a process of the pool.  *)
LEMMA Inside ==
  ASSUME TypeOK, ModeInv, HolderInv, NEW r \in Requests, pc[r] \in Holding
  PROVE  /\ client = "pool" /\ mutex = r /\ r # Nobody
         /\ starts \in 1..MaxStarts /\ starts # Nobody
         /\ \A q \in Requests : q # r => pc[q] \notin Holding
BY ConstantsAssumption DEF TypeOK, ModeInv, HolderInv
-----------------------------------------------------------------------------
LEMMA InitInv == Init => IInv
BY Places, ConstantsAssumption
   DEF Init, IInv, TypeOK, ModeInv, HolderInv, UpdatesInv, DialogueInv, NoStrayProcess,
       NoForeignOutput, InUse, Starting

(* Types.                                                                  *)
LEMMA TypeStep == IInv /\ Next => TypeOK'
<1> SUFFICES ASSUME IInv, Next PROVE TypeOK'
  OBVIOUS
<1> DEFINE PcType == Holding \cup Calling \cup {<<"idle">>, Waiting, <<"ended">>}
<1> USE ConstantsAssumption DEF IInv, Goto, Return, alone, pool, agent
<1>1. ASSUME NEW r \in Requests, NEW p \in PcType, Goto(r, p)
      PROVE  pc' \in [Requests -> PcType]
  BY <1>1 DEF TypeOK
<1>2. \A m \in Methods : <<"write", m>> \in PcType /\ <<"await", m>> \in PcType
  BY Places
<1>3. \A k \in 1..5 : <<"call", k>> \in PcType
  BY Places
<1> HIDE DEF PcType
<1>4. <<"ended">> \in PcType /\ Waiting \in PcType
  BY DEF PcType
<1>5. /\ "initialize" \in Methods /\ "session/new" \in Methods /\ "session/prompt" \in Methods
      /\ <<"write", "initialize">> \in PcType /\ <<"write", "session/new">> \in PcType
      /\ <<"write", "session/prompt">> \in PcType /\ <<"call", 1>> \in PcType
  BY Places DEF Methods, PcType
<1>6. ASSUME NEW r \in Requests,
             Arrive(r) \/ StartFails(r) \/ SpawnFails(r) \/ Reuse(r) \/ Expire(r)
      PROVE  TypeOK'
  <2>1. pc' \in [Requests -> PcType]
    BY <1>1, <1>2, <1>4, <1>5, <1>6
    DEF Arrive, StartFails, SpawnFails, Reuse, Expire, TypeOK, PcType
  <2> QED BY <1>6, <2>1 DEF Arrive, StartFails, SpawnFails, Reuse, Expire, TypeOK, PcType
<1>7. ASSUME NEW r \in Requests, Start(r) \/ Spawn(r) PROVE TypeOK'
  <2>1. pc' \in [Requests -> PcType]
    <3>1. \/ Goto(r, <<"write", "initialize">>)
          \/ Goto(r, <<"call", 1>>)
      BY <1>7 DEF Start, Spawn
    <3>2. <<"write", "initialize">> \in PcType /\ <<"call", 1>> \in PcType
      BY <1>5
    <3> QED BY <1>1, <3>1, <3>2
  <2>2. starts' \in 1..MaxStarts /\ process' \in {starts', Nobody}
    BY <1>7 DEF Start, Spawn, TypeOK, ModeInv
  <2>3. lines' \in Seq(Lines) /\ Len(lines') <= MaxLines /\ tasks' \in SUBSET Calls
    <3>1. lines' \in {lines, <<>>} /\ tasks' \in {tasks, {}}
      BY <1>7 DEF Start, Spawn
    <3>2. <<>> \in Seq(Lines) /\ Len(<<>>) <= MaxLines
      OBVIOUS
    <3> QED BY <3>1, <3>2 DEF TypeOK
  <2>4. running' \subseteq running \cup {starts'} /\ mutex' \in {mutex, r}
    BY <1>7 DEF Start, Spawn
  <2>5. own' \in [Requests -> (1..MaxStarts) \cup {Nobody}]
    BY <1>7, <2>2 DEF Start, Spawn, TypeOK
  <2>6. UNCHANGED <<client, done, output, foundDead>>
    BY <1>7 DEF Start, Spawn
  <2> QED BY <2>1, <2>2, <2>3, <2>4, <2>5, <2>6 DEF TypeOK, PcType
<1>8. ASSUME NEW r \in Requests, NEW m \in Methods, Write(r, m) PROVE TypeOK'
  <2>1. pc' \in [Requests -> PcType]
    BY <1>1, <1>2, <1>8 DEF Write
  <2>2. <<r, m>> \in Calls
    BY DEF Calls
  <2> QED BY <1>8, <2>1, <2>2 DEF Write, TypeOK, PcType
<1>9. ASSUME NEW r \in Requests, NEW m \in Methods,
             WriteFails(r, m) \/ Deadline(r, m) \/ Eof(r, m)
      PROVE  TypeOK'
  <2>1. pc' \in [Requests -> PcType]
    BY <1>1, <1>4, <1>9 DEF WriteFails, Deadline, Eof, Abandon
  <2>2. starts \in 1..MaxStarts
    BY <1>9, Places, Inside DEF WriteFails, Deadline, Eof, Abandon
  <2>3. running' \subseteq running
    BY <1>9 DEF WriteFails, Deadline, Eof, Abandon, Kill
  <2>4. mutex' = Nobody /\ process' \in {starts', Nobody} /\ starts' = starts
    BY <1>9 DEF WriteFails, Deadline, Eof, Abandon, TypeOK
  <2>5. foundDead' \subseteq foundDead \cup {starts}
    BY <1>9 DEF WriteFails, Deadline, Eof, Abandon
  <2> QED BY <1>9, <2>1, <2>2, <2>3, <2>4, <2>5
          DEF WriteFails, Deadline, Eof, Abandon, TypeOK, PcType
<1>10. ASSUME NEW r \in Requests, NEW m \in Methods,
              ReadUpdate(r, m) \/ Skip(r, m) \/ Refused(r, m) \/ Accepted(r, m)
       PROVE  TypeOK'
  <2>1. lines' \in Seq(Lines) /\ Len(lines') <= MaxLines
    BY <1>10, FirstLine DEF ReadUpdate, Skip, Refused, Accepted
  <2>2. pc' \in [Requests -> PcType]
    BY <1>1, <1>2, <1>4, <1>5, <1>10 DEF ReadUpdate, Skip, Refused, Accepted, TypeOK, PcType
  <2>3. output' \in [Requests -> SUBSET Requests]
    <3>1. Head(lines) \in Lines
      BY <1>10, FirstLine DEF ReadUpdate, Skip, Refused, Accepted
    <3>2. Head(lines).call[1] \in Requests
      BY <3>1 DEF Lines, Calls
    <3>3. output \in [Requests -> SUBSET Requests]
      BY DEF TypeOK
    <3>4. \/ output' = output
          \/ output' = [output EXCEPT ![r] = @ \cup {Head(lines).call[1]}]
      BY <1>10 DEF ReadUpdate, Skip, Refused, Accepted
    <3> QED BY <3>2, <3>3, <3>4
  <2>4. mutex' \in {mutex, Nobody} /\ process' \in {process, starts}
    BY <1>10 DEF ReadUpdate, Skip, Refused, Accepted
  <2>5. running' \subseteq running
    BY <1>10 DEF ReadUpdate, Skip, Refused, Accepted, Kill
  <2>6. UNCHANGED <<alone, starts, tasks, done, foundDead>>
    BY <1>10 DEF ReadUpdate, Skip, Refused, Accepted
  <2> QED BY <2>1, <2>2, <2>3, <2>4, <2>5, <2>6 DEF TypeOK, PcType
<1>11. ASSUME NEW r \in Requests, Leave(r) \/ KilledByContext(r) \/ OwnUpdate(r)
       PROVE  TypeOK'
  <2>1. pc' \in [Requests -> PcType]
    BY <1>1, <1>4, <1>11 DEF Leave, KilledByContext, OwnUpdate, TypeOK, PcType
  <2>2. output' \in [Requests -> SUBSET Requests]
    BY <1>11 DEF Leave, KilledByContext, OwnUpdate, TypeOK
  <2> QED BY <1>11, <2>1, <2>2 DEF Leave, KillOwn, KilledByContext, OwnUpdate, TypeOK, PcType
<1>12. ASSUME NEW r \in Requests, OwnAccepted(r) PROVE TypeOK'
  <2>1. DOMAIN Dialogue \subseteq 1..5
    BY DEF Dialogue
  <2>2. pc' \in [Requests -> PcType]
    BY <1>1, <1>3, <1>12, <2>1 DEF OwnAccepted
  <2> QED BY <1>12, <2>2 DEF OwnAccepted, TypeOK, PcType
<1>13. CASE Update \/ Answer \/ Chatter
  <2>1. lines' \in Seq(Lines) /\ Len(lines') <= MaxLines
    <3>1. PICK kind \in Answers \cup {"update", "other"}, call \in tasks : PrintLine(kind, call)
      BY <1>13 DEF Update, Answer, Chatter
    <3>2. [kind |-> kind, call |-> call] \in Lines
      BY <3>1 DEF Lines, TypeOK
    <3> QED BY <3>1, <3>2, AppendFacts DEF PrintLine, TypeOK
  <2>2. tasks' \subseteq tasks
    BY <1>13 DEF Update, Answer, Chatter
  <2>3. UNCHANGED <<alone, pc, pool, starts, running, done, output, foundDead>>
    BY <1>13 DEF Update, Answer, Chatter
  <2> QED BY <2>1, <2>2, <2>3 DEF TypeOK
<1>14. CASE Close \/ Die
  BY <1>14 DEF Close, Die, Kill, TypeOK
<1> QED
  BY <1>6, <1>7, <1>8, <1>9, <1>10, <1>11, <1>12, <1>13, <1>14
  DEF Next, Enter, Step, GivesUp, OwnFails, OwnDeadline, OwnEnds

(* Who holds the mutex, and who has nothing to do with the pool.           *)
LEMMA PoolMove ==
  ASSUME TypeOK, ModeInv, HolderInv, client = "pool", UNCHANGED alone,
         NEW r \in Requests, NEW p, Goto(r, p), p \notin Calling,
         \/ p \in Holding /\ mutex' = r /\ mutex \in {Nobody, r}
         \/ p \notin Holding /\ mutex' = Nobody /\ mutex \in {Nobody, r}
         \/ p \notin Holding /\ mutex' = mutex /\ mutex # r,
         mutex' # Nobody \/ process' # Nobody => starts' >= 1
  PROVE  ModeInv' /\ HolderInv'
<1>1. pc'[r] = p /\ \A q \in Requests : q # r => pc'[q] = pc[q]
  BY DEF Goto, TypeOK
<1>2. r # Nobody
  BY ConstantsAssumption
<1>3. \A q \in Requests : pc'[q] \in Holding <=> mutex' = q
  BY <1>1, <1>2, ConstantsAssumption DEF HolderInv
<1>4. client' = "pool" /\ \A q \in Requests : own'[q] = Nobody /\ pc'[q] \notin Calling
  BY <1>1 DEF ModeInv, alone
<1> QED BY <1>3, <1>4 DEF ModeInv, HolderInv

LEMMA OwnMove ==
  ASSUME TypeOK, ModeInv, HolderInv, client # "pool", client' = client,
         UNCHANGED <<pool, lines, tasks>>,
         NEW r \in Requests, NEW p, pc' = pc \/ Goto(r, p), p \notin Holding \cup {Waiting}
  PROVE  ModeInv' /\ HolderInv'
<1>1. \A q \in Requests : pc'[q] \in {pc[q], p}
  BY DEF Goto, TypeOK
<1>2. mutex' = Nobody /\ process' = Nobody
  BY DEF ModeInv, pool
<1>3. \A q \in Requests : pc'[q] \notin Holding \cup {Waiting} /\ q # Nobody
  BY <1>1, ConstantsAssumption DEF ModeInv
<1> QED BY <1>2, <1>3 DEF ModeInv, HolderInv

LEMMA HolderStep == IInv /\ Next => ModeInv' /\ HolderInv'
<1> SUFFICES ASSUME IInv, Next PROVE ModeInv' /\ HolderInv'
  OBVIOUS
<1> USE DEF IInv, pool, agent
<1>0. ASSUME NEW r \in Requests
      PROVE  /\ pc[r] \in Holding <=> mutex = r
             /\ pc[r] \in Holding \cup {Waiting} => client = "pool"
             /\ pc[r] \in Calling => client # "pool"
             /\ mutex = Nobody => mutex # r
  BY ConstantsAssumption DEF HolderInv, ModeInv
<1>1. /\ \A m \in Methods : /\ <<"write", m>> \in Holding /\ <<"write", m>> \notin Calling
                            /\ <<"await", m>> \in Holding /\ <<"await", m>> \notin Calling
      /\ \A p \in {<<"idle">>, Waiting, <<"ended">>} : p \notin Holding \cup Calling
      /\ <<"ended">> # Waiting
  BY Places
<1>2. "initialize" \in Methods /\ "session/new" \in Methods /\ "session/prompt" \in Methods
  BY DEF Methods
<1>3. mutex # Nobody \/ process # Nobody => starts >= 1
  BY DEF HolderInv
<1>4. starts \in Nat
  BY DEF TypeOK
<1>5. ASSUME NEW r \in Requests, Arrive(r) PROVE ModeInv' /\ HolderInv'
  <2>1. client = "pool" /\ mutex # r /\ Goto(r, Waiting) /\ UNCHANGED <<alone, pool, starts>>
    BY <1>0, <1>1, <1>5 DEF Arrive
  <2> QED BY <1>1, <1>3, <2>1, PoolMove
<1>6. ASSUME NEW r \in Requests, Reuse(r) PROVE ModeInv' /\ HolderInv'
  <2>1. client = "pool" /\ mutex = Nobody /\ mutex' = r /\ starts' >= 1
        /\ Goto(r, <<"write", "session/new">>) /\ UNCHANGED alone
    BY <1>0, <1>3, <1>6 DEF Reuse
  <2>2. <<"write", "session/new">> \in Holding /\ <<"write", "session/new">> \notin Calling
    BY <1>1, <1>2
  <2> QED BY <2>1, <2>2, PoolMove
<1>7. ASSUME NEW r \in Requests, Start(r) PROVE ModeInv' /\ HolderInv'
  <2>1. client = "pool" /\ mutex = Nobody /\ mutex' = r /\ starts' >= 1
        /\ Goto(r, <<"write", "initialize">>) /\ UNCHANGED alone
    BY <1>0, <1>4, <1>7 DEF Start
  <2>2. <<"write", "initialize">> \in Holding /\ <<"write", "initialize">> \notin Calling
    BY <1>1, <1>2
  <2> QED BY <2>1, <2>2, PoolMove
<1>8. ASSUME NEW r \in Requests, StartFails(r) PROVE ModeInv' /\ HolderInv'
  <2>1. client = "pool" /\ mutex # r /\ Goto(r, <<"ended">>) /\ UNCHANGED <<alone, pool, starts>>
    BY <1>0, <1>1, <1>8 DEF StartFails
  <2> QED BY <1>1, <1>3, <2>1, PoolMove
<1>9. ASSUME NEW r \in Requests, NEW m \in Methods, Write(r, m) PROVE ModeInv' /\ HolderInv'
  <2>1. client = "pool" /\ mutex = r /\ Goto(r, <<"await", m>>) /\ UNCHANGED <<alone, pool, starts>>
    BY <1>0, <1>1, <1>9 DEF Write
  <2> QED BY <1>1, <1>3, <2>1, PoolMove
<1>10. ASSUME NEW r \in Requests, NEW m \in Methods,
              WriteFails(r, m) \/ Deadline(r, m) \/ Eof(r, m) \/ Refused(r, m)
       PROVE  ModeInv' /\ HolderInv'
  <2>1. pc[r] \in Holding
    BY <1>1, <1>10 DEF WriteFails, Deadline, Eof, Abandon, Refused
  <2>2. client = "pool" /\ mutex = r /\ starts >= 1
    BY <1>0, <1>3, <2>1, ConstantsAssumption
  <2>3. Goto(r, <<"ended">>) /\ mutex' = Nobody /\ UNCHANGED <<alone, starts>>
    BY <1>10 DEF WriteFails, Deadline, Eof, Abandon, Refused, Return
  <2> QED BY <1>1, <2>2, <2>3, PoolMove
<1>11. ASSUME NEW r \in Requests, NEW m \in Methods, Accepted(r, m) PROVE ModeInv' /\ HolderInv'
  <2>1. client = "pool" /\ mutex = r /\ starts >= 1
    BY <1>0, <1>1, <1>3, <1>11, ConstantsAssumption DEF Accepted
  <2>2. UNCHANGED <<alone, starts>>
    BY <1>11 DEF Accepted
  <2>3. CASE Goto(r, <<"ended">>) /\ mutex' = Nobody
    BY <1>1, <2>1, <2>2, <2>3, PoolMove
  <2>4. ASSUME NEW n \in Methods, Goto(r, <<"write", n>>), mutex' = mutex
        PROVE  ModeInv' /\ HolderInv'
    BY <1>1, <2>1, <2>2, <2>4, PoolMove
  <2>5. \/ Goto(r, <<"write", "session/new">>) /\ mutex' = mutex
        \/ Goto(r, <<"write", "session/prompt">>) /\ mutex' = mutex
        \/ Goto(r, <<"ended">>) /\ mutex' = Nobody
    BY <1>11 DEF Accepted, Return
  <2> QED BY <1>2, <2>3, <2>4, <2>5
<1>12. ASSUME NEW r \in Requests,
              Spawn(r) \/ SpawnFails(r) \/ Leave(r) \/ OwnUpdate(r) \/ KilledByContext(r)
       PROVE  ModeInv' /\ HolderInv'
  <2>1. client # "pool" /\ client' = client /\ UNCHANGED <<pool, lines, tasks>>
    BY <1>0, <1>12 DEF Spawn, SpawnFails, Leave, OwnUpdate, KilledByContext, alone
  <2>2. <<"call", 1>> \notin Holding \cup {Waiting}
    BY Places, CallPlaces
  <2>3. pc' = pc \/ Goto(r, <<"call", 1>>) \/ Goto(r, <<"ended">>)
    BY <1>12 DEF Spawn, SpawnFails, Leave, OwnUpdate, KilledByContext
  <2> QED BY <1>1, <2>1, <2>2, <2>3, OwnMove
<1>13. ASSUME NEW r \in Requests, OwnAccepted(r) PROVE ModeInv' /\ HolderInv'
  <2>1. pc[r] \in Calling
    <3>1. pc[r] \in Holding \cup Calling \cup {<<"idle">>, Waiting, <<"ended">>}
      BY DEF TypeOK
    <3> QED BY <1>13, <3>1, CallPlaces DEF OwnAccepted
  <2>2. client # "pool" /\ client' = client /\ UNCHANGED <<pool, lines, tasks>>
    BY <1>0, <1>13, <2>1 DEF OwnAccepted, alone
  <2>3. PICK k \in 1..5 : Goto(r, <<"call", k>>)
    <3>1. DOMAIN Dialogue \subseteq 1..5
      BY DEF Dialogue
    <3> QED BY <1>13, <3>1 DEF OwnAccepted
  <2>4. <<"call", k>> \notin Holding \cup {Waiting}
    BY Places, CallPlaces
  <2> QED BY <2>2, <2>3, <2>4, OwnMove
<1>14. ASSUME UNCHANGED <<alone, pc, mutex, starts>>, process' \in {process, Nobody},
              client = "pool" \/ UNCHANGED <<lines, tasks>>
       PROVE  ModeInv' /\ HolderInv'
  <2>1. HolderInv'
    BY <1>14 DEF HolderInv
  <2> QED BY <1>14, <2>1 DEF ModeInv, alone
<1>15. ASSUME NEW r \in Requests, NEW m \in Methods, ReadUpdate(r, m) \/ Skip(r, m)
       PROVE  ModeInv' /\ HolderInv'
  <2>1. client = "pool" /\ UNCHANGED <<alone, pc, pool, starts>>
    BY <1>0, <1>1, <1>15 DEF ReadUpdate, Skip
  <2> QED BY <1>14, <2>1
<1>16. CASE Update \/ Answer \/ Chatter
  <2>1. client = "pool" /\ UNCHANGED <<alone, pc, pool, starts>>
    BY <1>16 DEF Update, Answer, Chatter, ModeInv
  <2> QED BY <1>14, <2>1
<1>17. CASE Close
  <2>1. client = "pool"
    BY <1>17 DEF Close, ModeInv
  <2> QED BY <1>14, <1>17, <2>1 DEF Close
<1>18. CASE Die \/ \E r \in Requests : Expire(r)
  BY <1>14, <1>18 DEF Die, Expire
<1> QED
  BY <1>5, <1>6, <1>7, <1>8, <1>9, <1>10, <1>11, <1>12, <1>13, <1>15, <1>16, <1>17, <1>18
  DEF Next, Enter, Step, GivesUp, OwnFails, OwnDeadline, OwnEnds
-----------------------------------------------------------------------------
(* Processes.  A process that runs for the pool is the one it has, or the  *)
(* one its holder is starting; any other has its request.                  *)
PoolProcess == \A i \in running : i = starts /\ (i = process \/ Starting)
OwnProcess  == \A i \in running : \E r \in Requests : own[r] = i /\ pc[r] \in Calling

StrayByMode ==
  /\ client = "pool" => (NoStrayProcess <=> PoolProcess)
  /\ client # "pool" => (NoStrayProcess <=> OwnProcess)

LEMMA ByMode == TypeOK /\ ModeInv => StrayByMode
<1> SUFFICES ASSUME TypeOK, ModeInv PROVE StrayByMode
  OBVIOUS
<1>1. \A i \in running : i \in 1..MaxStarts /\ i # Nobody
  BY ConstantsAssumption DEF TypeOK
<1> QED
  BY <1>1 DEF TypeOK, ModeInv, StrayByMode, NoStrayProcess, PoolProcess, OwnProcess, Starting

LEMMA StrayStep == IInv /\ Next => NoStrayProcess'
<1> SUFFICES ASSUME IInv, Next PROVE NoStrayProcess'
  OBVIOUS
<1>1. StrayByMode /\ StrayByMode'
  BY TypeStep, HolderStep, ByMode, PTL DEF IInv
<1>2. client' = client
  <2>1. \A r \in Requests, m \in Methods :
          Write(r, m) \/ WriteFails(r, m) \/ Deadline(r, m) \/ Eof(r, m) \/ ReadUpdate(r, m)
          \/ Skip(r, m) \/ Refused(r, m) \/ Accepted(r, m) => UNCHANGED alone
    BY DEF Write, WriteFails, Deadline, Eof, Abandon, ReadUpdate, Skip, Refused, Accepted
  <2>2. \A r \in Requests :
          Arrive(r) \/ SpawnFails(r) \/ Expire(r) \/ Enter(r) \/ Leave(r) \/ OwnUpdate(r)
          \/ OwnAccepted(r) \/ KilledByContext(r) => UNCHANGED alone
    BY DEF Arrive, SpawnFails, Expire, Enter, Reuse, Start, StartFails, Leave, OwnUpdate,
       OwnAccepted, KilledByContext
  <2>3. \A r \in Requests : Spawn(r) => client' = client
    BY DEF Spawn
  <2>4. Close \/ Update \/ Answer \/ Chatter \/ Die => UNCHANGED alone
    BY DEF Close, Update, Answer, Chatter, Die
  <2> QED
    BY <2>1, <2>2, <2>3, <2>4 DEF Next, Step, GivesUp, OwnFails, OwnDeadline, OwnEnds, alone
<1>3. CASE client = "pool"
  <2>1. SUFFICES PoolProcess'
    BY <1>1, <1>2, <1>3 DEF StrayByMode
  <2>2. PoolProcess
    BY <1>1, <1>3 DEF StrayByMode, IInv
  <2> USE <1>3, Places, StartingPlaces, ConstantsAssumption
      DEF IInv, ModeInv, HolderInv, Goto, Return, alone, pool, agent
  <2>3. ASSUME NEW r \in Requests, Arrive(r) \/ Reuse(r) \/ StartFails(r) \/ Expire(r)
        PROVE  PoolProcess'
    <3>1. UNCHANGED <<process, starts, running>>
      BY <2>3 DEF Arrive, Reuse, StartFails, Expire
    <3>2. Starting => UNCHANGED mutex /\ pc'[mutex] = pc[mutex]
      BY <2>3 DEF Arrive, Reuse, StartFails, Expire, Starting, TypeOK
    <3> QED BY <2>2, <3>1, <3>2 DEF PoolProcess, Starting
  <2>4. ASSUME NEW r \in Requests, Start(r) PROVE PoolProcess'
    <3>1. running = {}
      BY <2>2, <2>4 DEF Start, PoolProcess, Starting, TypeOK
    <3> QED BY <2>4, <3>1 DEF Start, PoolProcess, Starting, TypeOK
  <2>5. ASSUME NEW r \in Requests, NEW m \in Methods,
               pc[r] = <<"write", m>> \/ pc[r] = <<"await", m>>
        PROVE  /\ mutex = r /\ (Starting <=> m = "initialize")
               /\ m = "initialize" => <<"await", m>> \in {"write", "await"} \X {"initialize"}
    BY <2>5, Inside DEF Starting
  <2>6. ASSUME NEW r \in Requests, NEW m \in Methods, Write(r, m) PROVE PoolProcess'
    <3>1. mutex' = r /\ pc'[r] = <<"await", m>> /\ (m = "initialize" => Starting')
      BY <2>5, <2>6 DEF Write, Starting, TypeOK
    <3> QED BY <2>2, <2>5, <2>6, <3>1 DEF Write, PoolProcess
  <2>7. ASSUME NEW r \in Requests, NEW m \in Methods,
               WriteFails(r, m) \/ Deadline(r, m) \/ Eof(r, m)
        PROVE  PoolProcess'
    <3>1. running' = {}
      BY <2>2, <2>7 DEF WriteFails, Deadline, Eof, Abandon, Kill, PoolProcess
    <3> QED BY <3>1 DEF PoolProcess
  <2>8. ASSUME NEW r \in Requests, NEW m \in Methods, ReadUpdate(r, m) \/ Skip(r, m)
        PROVE  PoolProcess'
    BY <2>2, <2>8 DEF ReadUpdate, Skip, PoolProcess, Starting
  <2>9. ASSUME NEW r \in Requests, NEW m \in Methods, Refused(r, m)
        PROVE  PoolProcess'
    <3>1. CASE m = "initialize"
      BY <2>2, <2>9, <3>1 DEF Refused, Kill, PoolProcess
    <3>2. CASE m # "initialize"
      BY <2>2, <2>5, <2>9, <3>2 DEF Refused, PoolProcess
    <3> QED BY <3>1, <3>2
  <2>10. ASSUME NEW r \in Requests, NEW m \in Methods, Accepted(r, m)
         PROVE  PoolProcess'
    <3>1. CASE m = "initialize"
      BY <2>2, <2>10, <3>1 DEF Accepted, PoolProcess
    <3>2. CASE m # "initialize"
      BY <2>2, <2>5, <2>10, <3>2 DEF Accepted, PoolProcess
    <3> QED BY <3>1, <3>2
  <2>11. ASSUME NEW r \in Requests,
                Spawn(r) \/ SpawnFails(r) \/ Leave(r) \/ OwnUpdate(r) \/ OwnAccepted(r)
                \/ KilledByContext(r)
         PROVE  FALSE
    <3>1. pc[r] \in Holding \cup Calling \cup {<<"idle">>, Waiting, <<"ended">>}
      BY DEF TypeOK
    <3> QED BY <2>11, <3>1, CallPlaces
            DEF Spawn, SpawnFails, Leave, OwnUpdate, OwnAccepted, KilledByContext
  <2>12. CASE Close \/ Update \/ Answer \/ Chatter \/ Die
    BY <2>2, <2>12 DEF Close, Kill, Update, Answer, Chatter, Die, PoolProcess, Starting
  <2> QED
    BY <2>3, <2>4, <2>6, <2>7, <2>8, <2>9, <2>10, <2>11, <2>12
    DEF Next, Enter, Step, GivesUp, OwnFails, OwnDeadline, OwnEnds
<1>4. CASE client # "pool"
  <2>1. SUFFICES OwnProcess'
    BY <1>1, <1>2, <1>4 DEF StrayByMode
  <2>2. OwnProcess
    BY <1>1, <1>4 DEF StrayByMode, IInv
  <2> USE <1>4, Places, ConstantsAssumption DEF IInv, TypeOK, ModeInv, Goto, Return, alone, pool, agent
  <2>3. ASSUME NEW r \in Requests, Spawn(r) PROVE OwnProcess'
    <3>1. own'[r] = starts' /\ pc'[r] \in Calling
      BY <2>3 DEF Spawn
    <3>2. \A q \in Requests : pc[q] \in Calling => own'[q] = own[q] /\ pc'[q] = pc[q]
      BY <2>3 DEF Spawn
    <3> QED BY <2>2, <2>3, <3>1, <3>2 DEF Spawn, OwnProcess
  <2>4. ASSUME NEW r \in Requests, SpawnFails(r) \/ Expire(r) \/ OwnUpdate(r) PROVE OwnProcess'
    <3>1. \A q \in Requests : pc[q] \in Calling => pc'[q] = pc[q]
      BY <2>4 DEF SpawnFails, Expire, OwnUpdate
    <3>2. UNCHANGED <<own, running>>
      BY <2>4 DEF SpawnFails, Expire, OwnUpdate
    <3> QED BY <2>2, <3>1, <3>2 DEF OwnProcess
  <2>5. ASSUME NEW r \in Requests, Leave(r) PROVE OwnProcess'
    <3>1. \A q \in Requests : q # r => own'[q] = own[q] /\ pc'[q] = pc[q]
      BY <2>5 DEF Leave
    <3> QED BY <2>2, <2>5, <3>1 DEF Leave, KillOwn, OwnProcess
  <2>6. ASSUME NEW r \in Requests, OwnAccepted(r) PROVE OwnProcess'
    <3>1. DOMAIN Dialogue \subseteq 1..5
      BY DEF Dialogue
    <3>2. PICK k \in 1..5 : Goto(r, <<"call", k>>)
      BY <2>6, <3>1 DEF OwnAccepted
    <3>3. \A q \in Requests : pc[q] \in Calling => pc'[q] \in Calling
      BY <3>2
    <3>4. own' = own /\ running' = running
      BY <2>6 DEF OwnAccepted
    <3> QED BY <2>2, <3>3, <3>4 DEF OwnProcess
  <2>7. ASSUME NEW r \in Requests, KilledByContext(r) PROVE OwnProcess'
    BY <2>2, <2>7 DEF KilledByContext, OwnProcess
  <2>8. ASSUME NEW r \in Requests, NEW m \in Methods,
               Write(r, m) \/ WriteFails(r, m) \/ Deadline(r, m) \/ Eof(r, m) \/ ReadUpdate(r, m)
               \/ Skip(r, m) \/ Refused(r, m) \/ Accepted(r, m)
        PROVE  FALSE
    <3>1. pc[r] = <<"write", m>> \/ pc[r] = <<"await", m>>
      BY <2>8 DEF Write, WriteFails, Deadline, Eof, Abandon, ReadUpdate, Skip, Refused, Accepted
    <3>2. pc[r] \in Holding
      BY <3>1
    <3> QED BY <3>2
  <2>9. ASSUME NEW r \in Requests, Arrive(r) \/ Reuse(r) \/ Start(r) \/ StartFails(r) PROVE FALSE
    BY <2>9 DEF Arrive, Reuse, Start, StartFails
  <2>10. CASE Close \/ Update \/ Answer \/ Chatter
    BY <2>10 DEF Close, Update, Answer, Chatter
  <2>11. CASE Die
    BY <2>2, <2>11 DEF Die, OwnProcess
  <2> QED
    BY <2>3, <2>4, <2>5, <2>6, <2>7, <2>8, <2>9, <2>10, <2>11
    DEF Next, Enter, Step, GivesUp, OwnFails, OwnDeadline, OwnEnds
<1> QED BY <1>3, <1>4
-----------------------------------------------------------------------------
(* The dialogue.                                                           *)

(* What an action does to the lines.                                       *)
LEMMA LinesStep ==
  ASSUME IInv, Next
  PROVE  \/ lines' = lines \/ lines' = <<>>
         \/ lines # <<>> /\ lines' = Tail(lines)
         \/ \E kind \in Answers \cup {"update", "other"}, call \in tasks :
              /\ kind = "update" => call[2] = "session/prompt"
              /\ lines' = Append(lines, [kind |-> kind, call |-> call])
<1>1. Update => \E call \in tasks :
        call[2] = "session/prompt" /\ lines' = Append(lines, [kind |-> "update", call |-> call])
  <2>1. \A r \in Requests : <<r, "session/prompt">>[2] = "session/prompt"
    OBVIOUS
  <2> QED BY <2>1 DEF Update, PrintLine
<1>2. Answer => \E kind \in Answers, call \in tasks : lines' = Append(lines, [kind |-> kind, call |-> call])
  BY DEF Answer, PrintLine
<1>3. Chatter => \E call \in tasks : lines' = Append(lines, [kind |-> "other", call |-> call])
  BY DEF Chatter, PrintLine
<1>4. "update" \notin Answers /\ "other" # "update"
  BY DEF Answers
<1>5. \A r \in Requests, m \in Methods :
        ReadUpdate(r, m) \/ Skip(r, m) \/ Refused(r, m) \/ Accepted(r, m)
          => lines # <<>> /\ lines' = Tail(lines)
  BY DEF ReadUpdate, Skip, Refused, Accepted
<1>6. \A r \in Requests, m \in Methods :
        Write(r, m) \/ WriteFails(r, m) \/ Deadline(r, m) \/ Eof(r, m) => lines' = lines
  BY DEF Write, WriteFails, Deadline, Eof, Abandon, agent
<1>7. \A r \in Requests :
        /\ Arrive(r) \/ Spawn(r) \/ SpawnFails(r) \/ Expire(r) \/ Reuse(r) \/ StartFails(r)
           \/ Leave(r) \/ OwnUpdate(r) \/ OwnAccepted(r) \/ KilledByContext(r) => lines' = lines
        /\ Start(r) => lines' = <<>>
  BY DEF Arrive, Spawn, SpawnFails, Expire, Reuse, Start, StartFails, Leave, OwnUpdate,
     OwnAccepted, KilledByContext, agent
<1>8. Close \/ Die => lines' = lines
  BY DEF Close, Die
<1> QED
  BY <1>1, <1>2, <1>3, <1>4, <1>5, <1>6, <1>7, <1>8
  DEF Next, Enter, Step, GivesUp, OwnFails, OwnDeadline, OwnEnds

LEMMA UpdatesStep == IInv /\ Next => UpdatesInv'
<1> SUFFICES ASSUME IInv, Next PROVE UpdatesInv'
  OBVIOUS
<1>1. CASE lines' = lines
  BY <1>1 DEF IInv, UpdatesInv
<1>2. CASE lines' = <<>>
  BY <1>2 DEF UpdatesInv
<1>3. CASE lines # <<>> /\ lines' = Tail(lines)
  BY <1>3, FirstLine DEF IInv, UpdatesInv
<1>4. ASSUME NEW kind \in Answers \cup {"update", "other"}, NEW call \in tasks,
             kind = "update" => call[2] = "session/prompt",
             lines' = Append(lines, [kind |-> kind, call |-> call])
      PROVE  UpdatesInv'
  <2>1. [kind |-> kind, call |-> call] \in Lines /\ lines \in Seq(Lines)
    BY DEF IInv, TypeOK, Lines
  <2> DEFINE line == [kind |-> kind, call |-> call]
  <2>2. \A i \in DOMAIN lines' : (i \in DOMAIN lines /\ lines'[i] = lines[i]) \/ lines'[i] = line
    BY <1>4, <2>1, AppendFacts
  <2>3. line.kind = "update" => line.call[2] = "session/prompt"
    BY <1>4
  <2> HIDE DEF line
  <2> QED BY <2>2, <2>3 DEF IInv, UpdatesInv
<1> QED BY <1>1, <1>2, <1>3, <1>4, LinesStep

(* The lines and tasks stay, and whoever is at its prompt stays there.     *)
LEMMA DialogueKept ==
  ASSUME TypeOK, DialogueInv, lines' = lines, tasks' = tasks,
         InUse' => InUse, mutex' # Nobody => InUse',
         \A q \in Requests : Prompting(q) => Prompting(q)'
  PROVE  DialogueInv'
<1>1. ASSUME NEW i \in DOMAIN lines PROVE lines[i].call[1] \in Requests
  <2>1. lines[i] \in Lines
    BY DEF TypeOK
  <2> QED BY <2>1 DEF Lines, Calls
<1> QED BY <1>1 DEF DialogueInv, NothingStale

(* A line is read; whoever was at its prompt still is, unless that line    *)
(* was the answer.                                                         *)
LEMMA DialogueRead ==
  ASSUME TypeOK, DialogueInv, lines # <<>>, lines' = Tail(lines), tasks' = tasks,
         InUse' => InUse, mutex' # Nobody => InUse',
         \A q \in Requests : Prompting(q) =>
           Prompting(q)' \/ (EndsPrompt(lines[1]) /\ lines[1].call = Prompt(q))
  PROVE  DialogueInv'
<1> SUFFICES ASSUME InUse' PROVE NothingStale'
  BY DEF DialogueInv
<1>1. NothingStale
  BY DEF DialogueInv
<1>2. \A i \in DOMAIN lines' : i \in Nat /\ 1 < i + 1 /\ i + 1 \in DOMAIN lines /\ lines'[i] = lines[i + 1]
  <2>1. lines \in Seq(Lines)
    BY DEF TypeOK
  <2> QED BY <2>1, TailFacts
<1>3. ASSUME NEW i \in DOMAIN lines PROVE lines[i].call[1] \in Requests
  <2>1. lines[i] \in Lines
    BY DEF TypeOK
  <2> QED BY <2>1 DEF Lines, Calls
<1>4. 1 \in DOMAIN lines
  BY FirstLine
<1>5. ASSUME NEW i \in DOMAIN lines', OfPrompt(lines'[i]) 
      PROVE  pc'[lines'[i].call[1]] = <<"await", "session/prompt">>
  <2>1. Prompting(lines[i + 1].call[1]) /\ OfPrompt(lines[i + 1])
    BY <1>1, <1>2, <1>5 DEF NothingStale
  <2>2. ~ EndsPrompt(lines[1])
    BY <1>1, <1>2, <1>4, <2>1 DEF NothingStale
  <2>3. lines[i + 1].call[1] \in Requests /\ lines'[i] = lines[i + 1]
    BY <1>2, <1>3
  <2>4. \A q \in Requests : Prompting(q) =>
          \/ pc'[q] = <<"await", "session/prompt">>
          \/ EndsPrompt(lines[1])
    BY DEF Prompting
  <2> QED BY <2>1, <2>2, <2>3, <2>4
<1>6. ASSUME NEW r \in Requests, Prompt(r) \in tasks' PROVE Prompting(r)'
  <2>1. Prompting(r) /\ ~ (EndsPrompt(lines[1]) /\ lines[1].call = Prompt(r))
    BY <1>1, <1>4, <1>6 DEF NothingStale
  <2> QED BY <2>1
<1>7. ASSUME NEW i \in DOMAIN lines', EndsPrompt(lines'[i])
      PROVE  /\ lines'[i].call \notin tasks'
             /\ \A j \in DOMAIN lines' : i < j => ~ OfPrompt(lines'[j])
  <2>1. EndsPrompt(lines[i + 1]) /\ i + 1 \in DOMAIN lines /\ lines'[i] = lines[i + 1] /\ i \in Nat
    BY <1>2, <1>7
  <2>2. lines[i + 1].call \notin tasks /\ \A j \in DOMAIN lines : i + 1 < j => ~ OfPrompt(lines[j])
    BY <1>1, <2>1 DEF NothingStale
  <2>3. \A j \in DOMAIN lines' : j \in Nat /\ j + 1 \in DOMAIN lines /\ lines'[j] = lines[j + 1]
    BY <1>2
  <2>4. ASSUME NEW j \in DOMAIN lines', i < j PROVE ~ OfPrompt(lines'[j])
    <3>1. i + 1 < j + 1
      BY <2>1, <2>3, <2>4
    <3> QED BY <2>2, <2>3, <3>1
  <2> QED BY <2>1, <2>2, <2>4
<1> QED BY <1>5, <1>6, <1>7 DEF NothingStale, OfPrompt, EndsPrompt, Prompting

(* The process prints a line about a call it still works on, and works on  *)
(* it no more if that is the answer.                                       *)
LEMMA DialoguePrinted ==
  ASSUME TypeOK, HolderInv, DialogueInv, NEW kind \in Answers \cup {"update", "other"},
         NEW call \in tasks, lines' = Append(lines, [kind |-> kind, call |-> call]),
         tasks' \subseteq tasks, kind \in Answers => call \notin tasks',
         UNCHANGED <<pc, mutex, process>>
  PROVE  DialogueInv'
<1> DEFINE line == [kind |-> kind, call |-> call]
<1>1. InUse' = InUse /\ mutex' = mutex
  BY DEF InUse, Starting
<1> SUFFICES ASSUME InUse' PROVE NothingStale'
  BY <1>1 DEF DialogueInv
<1>2. NothingStale
  BY <1>1 DEF DialogueInv
<1>3. /\ \A i \in DOMAIN lines' : \/ i \in DOMAIN lines /\ lines'[i] = lines[i]
                                  \/ i = Len(lines) + 1 /\ lines'[i] = line
      /\ \A i \in DOMAIN lines : i \in Nat /\ i < Len(lines) + 1
      /\ Len(lines) \in Nat
  <2>1. line \in Lines /\ lines \in Seq(Lines)
    BY DEF TypeOK, Lines
  <2> HIDE DEF line
  <2>2. lines' = Append(lines, line)
    BY DEF line
  <2> QED BY <2>1, <2>2, AppendFacts
<1>4. PICK r \in Requests, m \in Methods : call = <<r, m>>
  BY DEF TypeOK, Calls
<1>5. OfPrompt(line) => line.call = Prompt(r) /\ Prompting(r) /\ line.call[1] = r
  BY <1>2, <1>4 DEF NothingStale, OfPrompt, Prompt
<1>6. line.call = call /\ (EndsPrompt(line) => call \notin tasks')
  BY DEF EndsPrompt
<1>7. ASSUME NEW i \in DOMAIN lines, EndsPrompt(lines[i]) PROVE ~ OfPrompt(line)
  <2>1. SUFFICES ASSUME OfPrompt(line) PROVE FALSE
    OBVIOUS
  <2>2. lines[i] \in Lines
    BY DEF TypeOK
  <2>3. PICK q \in Requests, n \in Methods : lines[i].call = <<q, n>>
    BY <2>2 DEF Lines, Calls
  <2>4. n = "session/prompt" /\ OfPrompt(lines[i])
    BY <1>7, <2>3 DEF EndsPrompt, OfPrompt
  <2>5. Prompting(q) /\ Prompting(r)
    BY <1>2, <1>5, <2>1, <2>3, <2>4 DEF NothingStale
  <2>6. <<"await", "session/prompt">> \in Holding
    BY Places DEF Methods
  <2>7. q = r
    BY <2>5, <2>6 DEF Prompting, HolderInv
  <2>8. lines[i].call \notin tasks
    BY <1>2, <1>7 DEF NothingStale
  <2> QED BY <1>5, <1>6, <2>1, <2>3, <2>4, <2>7, <2>8 DEF Prompt
<1> HIDE DEF line
<1>8. ASSUME NEW i \in DOMAIN lines', OfPrompt(lines'[i]) PROVE Prompting(lines'[i].call[1])
  BY <1>2, <1>3, <1>5, <1>8 DEF NothingStale
<1>9. ASSUME NEW i \in DOMAIN lines', EndsPrompt(lines'[i])
      PROVE  /\ lines'[i].call \notin tasks'
             /\ \A j \in DOMAIN lines' : i < j => ~ OfPrompt(lines'[j])
  <2>1. CASE i \in DOMAIN lines /\ lines'[i] = lines[i]
    <3>1. lines[i].call \notin tasks /\ \A j \in DOMAIN lines : i < j => ~ OfPrompt(lines[j])
      BY <1>2, <1>9, <2>1 DEF NothingStale
    <3>2. ~ OfPrompt(line)
      BY <1>7, <1>9, <2>1
    <3> QED BY <1>3, <2>1, <3>1, <3>2
  <2>2. CASE i = Len(lines) + 1 /\ lines'[i] = line
    <3>1. \A j \in DOMAIN lines' : ~ (i < j)
      BY <1>3, <2>2
    <3> QED BY <1>6, <1>9, <2>2, <3>1
  <2> QED BY <1>3, <2>1, <2>2
<1>10. \A q \in Requests : Prompt(q) \in tasks' => Prompting(q)
  BY <1>2 DEF NothingStale
<1> QED BY <1>8, <1>9, <1>10 DEF NothingStale, OfPrompt, EndsPrompt, Prompting

LEMMA DialogueStep == IInv /\ Next => DialogueInv'
<1> SUFFICES ASSUME IInv, Next PROVE DialogueInv'
  OBVIOUS
<1> DEFINE Kept == \A q \in Requests : Prompting(q) => Prompting(q)'
<1> USE Places, StartingPlaces, ConstantsAssumption
    DEF IInv, HolderInv, Goto, Return, alone, pool, agent
<1>0. mutex # Nobody => InUse
  BY DEF DialogueInv
<1>1. ASSUME NEW r \in Requests, Arrive(r) \/ Reuse(r) \/ StartFails(r) \/ Expire(r)
      PROVE  DialogueInv'
  <2>1. UNCHANGED <<lines, tasks, process>>
    BY <1>1 DEF Arrive, Reuse, StartFails, Expire
  <2>2. Starting' => Starting
    <3>1. <<"write", "session/new">> \notin {"write", "await"} \X {"initialize"}
      OBVIOUS
    <3>2. CASE Reuse(r)
      BY <3>1, <3>2 DEF Reuse, Starting, TypeOK
    <3>3. CASE Arrive(r) \/ StartFails(r) \/ Expire(r)
      <4>1. mutex' = mutex /\ (mutex # Nobody => pc'[mutex] = pc[mutex])
        BY <3>3 DEF Arrive, StartFails, Expire, TypeOK
      <4> QED BY <4>1 DEF Starting
    <3> QED BY <1>1, <3>2, <3>3
  <2>3. mutex' # Nobody => InUse'
    BY <1>0, <1>1 DEF Arrive, Reuse, StartFails, Expire, Starting, TypeOK, InUse
  <2>4. Kept
    <3>1. <<"await", "session/prompt">> \in Holding
      BY DEF Methods
    <3>2. pc[r] \notin Holding \/ pc' = pc
      BY <1>1 DEF Arrive, Reuse, StartFails, Expire
    <3>3. \A q \in Requests : q # r => pc'[q] = pc[q]
      BY <1>1 DEF Arrive, Reuse, StartFails, Expire, TypeOK
    <3>4. \A q \in Requests : pc[q] \in Holding => pc'[q] = pc[q]
      BY <3>2, <3>3
    <3> QED BY <3>1, <3>4 DEF Prompting
  <2> QED BY <2>1, <2>2, <2>3, <2>4, DialogueKept DEF InUse
<1>2. ASSUME NEW r \in Requests, Start(r) PROVE DialogueInv'
  <2>1. lines' = <<>> /\ tasks' = {} /\ mutex' = r /\ pc'[r] = <<"write", "initialize">>
    BY <1>2 DEF Start, TypeOK
  <2> QED BY <2>1 DEF DialogueInv, NothingStale, InUse, Starting
<1>3. ASSUME NEW r \in Requests, NEW m \in Methods,
             pc[r] = <<"write", m>> \/ pc[r] = <<"await", m>>
      PROVE  /\ mutex = r /\ (Starting <=> m = "initialize") /\ InUse
             /\ \A q \in Requests : Prompting(q) => q = r /\ pc[r] = <<"await", m>> /\ m = "session/prompt"
  <2>1. mutex = r /\ pc[r] \in Holding /\ mutex # Nobody
    BY <1>3, Inside
  <2>2. <<"await", "session/prompt">> \in Holding
    BY DEF Methods
  <2>3. \A q \in Requests : Prompting(q) => q = r
    BY <2>1, <2>2 DEF Prompting
  <2>4. Prompting(r) => pc[r] = <<"await", m>> /\ m = "session/prompt"
    BY <1>3 DEF Prompting, Methods
  <2>5. Starting <=> m = "initialize"
    BY <1>3, <2>1 DEF Starting
  <2> QED BY <1>0, <2>1, <2>3, <2>4, <2>5
<1>4. ASSUME NEW r \in Requests, NEW m \in Methods, Write(r, m) PROVE DialogueInv'
  <2>1. /\ mutex' = r /\ lines' = lines /\ tasks' = tasks \cup {<<r, m>>} /\ process' = process
        /\ pc'[r] = <<"await", m>> /\ \A q \in Requests : q # r => pc'[q] = pc[q]
    BY <1>3, <1>4 DEF Write, TypeOK
  <2>2. InUse /\ NothingStale
    BY <1>3, <1>4 DEF Write, DialogueInv
  <2>3. InUse'
    BY <1>3, <1>4, <2>1, <2>2 DEF Write, InUse, Starting
  <2>4. \A q \in Requests : ~ Prompting(q)
    BY <1>3, <1>4 DEF Write
  <2>5. ASSUME NEW i \in DOMAIN lines PROVE ~ OfPrompt(lines[i]) /\ ~ EndsPrompt(lines[i])
    <3>1. lines[i] \in Lines
      BY DEF TypeOK
    <3>2. lines[i].call[1] \in Requests
      BY <3>1 DEF Lines, Calls
    <3>3. ~ OfPrompt(lines[i])
      BY <2>2, <2>4, <3>2 DEF NothingStale
    <3> QED BY <3>3 DEF OfPrompt, EndsPrompt
  <2>6. ASSUME NEW q \in Requests, Prompt(q) \in tasks' PROVE Prompting(q)'
    <3>1. Prompt(q) \notin tasks
      BY <2>2, <2>4 DEF NothingStale
    <3>2. q = r /\ m = "session/prompt"
      BY <2>1, <2>6, <3>1 DEF Prompt
    <3> QED BY <2>1, <3>2 DEF Prompting
  <2> QED BY <2>1, <2>3, <2>5, <2>6 DEF DialogueInv, NothingStale, OfPrompt, EndsPrompt, Prompt
<1>5. ASSUME NEW r \in Requests, NEW m \in Methods, WriteFails(r, m) PROVE DialogueInv'
  <2>1. UNCHANGED <<lines, tasks, process>> /\ mutex' = Nobody
    BY <1>5 DEF WriteFails
  <2>2. Kept
    BY <1>3, <1>5 DEF WriteFails
  <2> QED BY <2>1, <2>2, DialogueKept DEF InUse, Starting
<1>6. ASSUME NEW r \in Requests, NEW m \in Methods, Deadline(r, m) \/ Eof(r, m) PROVE DialogueInv'
  BY <1>6 DEF Deadline, Eof, Abandon, DialogueInv, InUse, Starting
<1>7. ASSUME NEW r \in Requests, NEW m \in Methods, ReadUpdate(r, m) \/ Skip(r, m)
      PROVE  DialogueInv'
  <2>1. lines # <<>> /\ lines' = Tail(lines) /\ UNCHANGED <<tasks, pc, mutex, process>>
    BY <1>7 DEF ReadUpdate, Skip
  <2>2. \A q \in Requests : Prompting(q) =>
          Prompting(q)' \/ (EndsPrompt(lines[1]) /\ lines[1].call = Prompt(q))
    BY <2>1 DEF Prompting
  <2>3. (InUse' => InUse) /\ (mutex' # Nobody => InUse')
    BY <1>0, <2>1 DEF InUse, Starting
  <2> QED BY <2>1, <2>2, <2>3, DialogueRead
<1>8. ASSUME NEW r \in Requests, NEW m \in Methods, Refused(r, m) \/ Accepted(r, m)
      PROVE  DialogueInv'
  <2>1. /\ lines # <<>> /\ lines' = Tail(lines) /\ tasks' = tasks
        /\ pc[r] = <<"await", m>>
        /\ Head(lines).kind \in Answers /\ Head(lines).call = <<r, m>>
    BY <1>8 DEF Refused, Accepted, Answers
  <2>2. lines[1].kind \in Answers /\ lines[1].call = <<r, m>>
    BY <2>1, FirstLine
  <2>3. \A q \in Requests : Prompting(q) => EndsPrompt(lines[1]) /\ lines[1].call = Prompt(q)
    BY <1>3, <2>1, <2>2 DEF EndsPrompt, Prompt
  <2>4. InUse /\ (Starting <=> m = "initialize") /\ mutex = r
    BY <1>3, <2>1
  <2>5. mutex' # Nobody => InUse'
    <3>1. CASE Refused(r, m) \/ m = "session/prompt"
      BY <1>8, <3>1 DEF Refused, Accepted
    <3>2. CASE Accepted(r, m) /\ m = "initialize"
      <4>1. process' = starts /\ starts # Nobody
        BY <2>4, <3>2, Inside, <2>1 DEF Accepted
      <4> QED BY <4>1 DEF InUse
    <3>3. CASE Accepted(r, m) /\ m = "session/new"
      BY <2>4, <3>3 DEF Accepted, InUse
    <3> QED BY <1>8, <3>1, <3>2, <3>3 DEF Methods
  <2> QED BY <2>1, <2>3, <2>4, <2>5, DialogueRead
<1>9. ASSUME NEW r \in Requests, Leave(r) \/ OwnUpdate(r) \/ OwnAccepted(r) \/ KilledByContext(r)
                                 \/ Spawn(r) \/ SpawnFails(r)
      PROVE  DialogueInv'
  <2>1. UNCHANGED <<mutex, process>>
    BY <1>9 DEF Leave, OwnUpdate, OwnAccepted, KilledByContext, Spawn, SpawnFails
  <2>2. client # "pool"
    <3>1. pc[r] \in Holding \cup Calling \cup {<<"idle">>, Waiting, <<"ended">>}
      BY DEF TypeOK
    <3>2. pc[r] \in Calling \/ client # "pool"
      BY <1>9, <3>1, CallPlaces DEF Leave, OwnUpdate, OwnAccepted, KilledByContext, Spawn, SpawnFails
    <3> QED BY <3>2 DEF ModeInv
  <2> QED BY <2>1, <2>2 DEF DialogueInv, InUse, Starting, ModeInv
<1>10. CASE Close
  BY <1>10 DEF Close, DialogueInv, InUse, Starting
<1>11. CASE Update
  <2>1. PICK call \in tasks :
          /\ lines' = Append(lines, [kind |-> "update", call |-> call])
          /\ UNCHANGED <<pc, mutex, process, tasks>>
    BY <1>11 DEF Update, PrintLine
  <2> QED BY <2>1, DialoguePrinted DEF Answers
<1>12. CASE Answer
  <2>1. PICK call \in tasks, kind \in Answers :
          /\ lines' = Append(lines, [kind |-> kind, call |-> call])
          /\ tasks' = tasks \ {call} /\ UNCHANGED <<pc, mutex, process>>
    BY <1>12 DEF Answer, PrintLine
  <2> QED BY <2>1, DialoguePrinted
<1>13. CASE Chatter
  <2>1. PICK call \in tasks :
          /\ lines' = Append(lines, [kind |-> "other", call |-> call])
          /\ UNCHANGED <<pc, mutex, process, tasks>>
    BY <1>13 DEF Chatter, PrintLine
  <2> QED BY <2>1, DialoguePrinted DEF Answers
<1>14. CASE Die
  BY <1>14 DEF Die, DialogueInv, NothingStale, InUse, Starting, Prompting, OfPrompt, EndsPrompt, Prompt
<1> QED
  BY <1>1, <1>2, <1>4, <1>5, <1>6, <1>7, <1>8, <1>9, <1>10, <1>11, <1>12, <1>13, <1>14
  DEF Next, Enter, Step, GivesUp, OwnFails, OwnDeadline, OwnEnds
-----------------------------------------------------------------------------
(* Output.                                                                 *)
LEMMA OutputStep == IInv /\ Next => NoForeignOutput'
<1> SUFFICES ASSUME IInv, Next PROVE NoForeignOutput'
  OBVIOUS
<1> USE DEF IInv
<1>1. ASSUME NEW r \in Requests, NEW m \in Methods, ReadUpdate(r, m) PROVE NoForeignOutput'
  <2>1. pc[r] = <<"await", m>> /\ lines # <<>> /\ Head(lines).kind = "update"
    BY <1>1 DEF ReadUpdate
  <2>2. mutex = r /\ mutex # Nobody /\ pc[r] \in Holding
    BY <2>1, Inside, Places
  <2>3. OfPrompt(lines[1]) /\ 1 \in DOMAIN lines /\ Head(lines) = lines[1] /\ lines[1] \in Lines
    BY <2>1, FirstLine DEF UpdatesInv, OfPrompt
  <2>4. Prompting(lines[1].call[1]) /\ lines[1].call[1] \in Requests
    BY <2>2, <2>3 DEF DialogueInv, NothingStale, Lines, Calls
  <2>5. lines[1].call[1] = r
    <3>1. <<"await", "session/prompt">> \in Holding
      BY Places DEF Methods
    <3> QED BY <2>2, <2>4, <3>1 DEF Prompting, HolderInv
  <2>6. output' = output \/ output' = [output EXCEPT ![r] = @ \cup {r}]
    BY <1>1, <2>3, <2>5 DEF ReadUpdate
  <2> QED BY <2>6 DEF NoForeignOutput, TypeOK
<1>2. ASSUME NEW r \in Requests, OwnUpdate(r) PROVE NoForeignOutput'
  BY <1>2 DEF OwnUpdate, NoForeignOutput, TypeOK
<1>3. \/ output' = output
      \/ \E r \in Requests : OwnUpdate(r) \/ \E m \in Methods : ReadUpdate(r, m)
  <2>1. \A r \in Requests, m \in Methods :
          Write(r, m) \/ WriteFails(r, m) \/ Deadline(r, m) \/ Eof(r, m) \/ Skip(r, m)
          \/ Refused(r, m) \/ Accepted(r, m) => output' = output
    BY DEF Write, WriteFails, Deadline, Eof, Abandon, Skip, Refused, Accepted
  <2>2. \A r \in Requests :
          Arrive(r) \/ Spawn(r) \/ SpawnFails(r) \/ Expire(r) \/ Enter(r) \/ Leave(r)
          \/ OwnAccepted(r) \/ KilledByContext(r) => output' = output
    BY DEF Arrive, Spawn, SpawnFails, Expire, Enter, Reuse, Start, StartFails, Leave, OwnAccepted,
       KilledByContext
  <2>3. Close \/ Update \/ Answer \/ Chatter \/ Die => output' = output
    BY DEF Close, Update, Answer, Chatter, Die
  <2> QED
    BY <2>1, <2>2, <2>3 DEF Next, Step, GivesUp, OwnFails, OwnDeadline, OwnEnds
<1>4. CASE output' = output
  BY <1>4 DEF NoForeignOutput
<1> QED BY <1>1, <1>2, <1>3, <1>4
-----------------------------------------------------------------------------
LEMMA Stutter == IInv /\ UNCHANGED vars => IInv'
<1> SUFFICES ASSUME IInv, UNCHANGED vars PROVE IInv'
  OBVIOUS
<1>1. TypeOK' /\ ModeInv' /\ HolderInv' /\ UpdatesInv' /\ NoForeignOutput'
  BY DEF vars, alone, pool, agent, IInv, TypeOK, ModeInv, HolderInv, UpdatesInv, NoForeignOutput
<1>2. DialogueInv'
  BY DEF vars, alone, pool, agent, IInv, DialogueInv, NothingStale, InUse, Starting, Prompting,
     Prompt, OfPrompt, EndsPrompt
<1>3. NoStrayProcess'
  BY DEF vars, alone, pool, agent, IInv, NoStrayProcess
<1> QED BY <1>1, <1>2, <1>3 DEF IInv

(* The invariant holds in every reachable state: the agent and the requests *)
(* agree on who holds the mutex, on the process and on the calls and lines  *)
(* that are still between them.                                             *)
THEOREM Inductive == Spec => []IInv
<1>1. IInv /\ Next => IInv'
  BY TypeStep, HolderStep, UpdatesStep, DialogueStep, StrayStep, OutputStep DEF IInv
<1>2. IInv /\ [Next]_vars => IInv'
  BY <1>1, Stutter
<1> QED BY InitInv, <1>2, PTL DEF Spec

(* The pool, the agent and the requests keep their types.                   *)
THEOREM TypeCorrect == Spec => []TypeOK
BY Inductive, PTL DEF IInv

(* A running process belongs to the pool, or to the request that holds its  *)
(* mutex or runs an agent of its own (ensure, do, close): none is left      *)
(* behind, whatever ends at a deadline and whenever the agent dies.         *)
THEOREM NoProcessLeft == Spec => []NoStrayProcess
BY Inductive, PTL DEF IInv

(* A request never gets output of another one, though they share one agent  *)
(* and one stream of lines and any of them may give up before its answer    *)
(* (request, call, do).                                                     *)
THEOREM OutputOwned == Spec => []NoForeignOutput
BY Inductive, PTL DEF IInv
=============================================================================
