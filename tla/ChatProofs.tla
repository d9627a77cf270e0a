---------------------------------- MODULE ChatProofs ----------------------------------
(***************************************************************************)
(* Proofs about Chat for any models, providers, candidate lists and        *)
(* capacity of the channels: the client hears one candidate, and a         *)
(* complete response accounts for all that its provider has printed.       *)
(* What counts of an attempt is what the handler has read and what it will *)
(* still read in the channel, up to the done event at which it stops; and  *)
(* an attempt that has begun is one of the candidates up to the current    *)
(* one, so that no channel is ever used twice.                             *)
(***************************************************************************)
EXTENDS Chat, FiniteSetTheorems, FunctionTheorems, TLAPS

Events == {"delta", "done"}

(* At which done event the handler stops: at none, at any, or at any but   *)
(* the one it reads first.                                                 *)
Hows == {"never", "any", "second"}

How == IF mode = "plain" THEN "never"
       ELSE IF api = "responses" /\ phase = "first" THEN "second" ELSE "any"

StopAt(q, how, k) == q[k] = "done" /\ how # "never" /\ (how = "second" => k # 1)

Stops(q, how) == \E k \in 1..Len(q) : StopAt(q, how, k)

(* The output in a channel that it will still read.                        *)
Owed(q, how) ==
  {k \in 1..Len(q) : q[k] = "delta" /\ \A j \in 1..(k - 1) : ~StopAt(q, how, j)}

Listening == phase \in {"first", "body", "collect"}

(* What counts of the current attempt. *)
Sent == IF mode = "stream" /\ early THEN before ELSE produced - dropped

(* The goroutine of an attempt. *)
AttemptInv(m) ==
  /\ run[m] = "none" => events[m] = <<>> /\ m \notin emitted
  /\ failure[m] # "none" => run[m] = "ended"
  /\ run[m] = "finishing" \/ (run[m] = "ended" /\ failure[m] = "none") => m \in emitted

(* The attempt the handler listens to: what it has sent, and why there is  *)
(* a done event in the channel.                                            *)
HistoryInv ==
  /\ dropped <= produced
  /\ phase \in {"attempt", "failed"} =>
       produced = 0 /\ dropped = 0 /\ before = 0 /\ received = 0 /\ ~early
  /\ Listening =>
       /\ Sent = received + Cardinality(Owed(events[current], How))
       /\ mode = "stream" /\ early => Stops(events[current], How)
       /\ Stops(events[current], How) /\ ~early => run[current] = "ended" /\ failure[current] = "none"
       /\ current \in emitted => dropped < produced

(* Whoever has been asked is a candidate up to the current one. *)
StartedInv ==
  /\ Unique(candidates)
  /\ \A m \in Models : run[m] # "none" =>
       \E k \in DOMAIN candidates :
         k <= at /\ candidates[k] = m /\ (phase = "attempt" => k # at)

(* What has been written is of the current candidate, and in a stream all  *)
(* that was read.                                                          *)
DeliveredInv ==
  /\ phase \in {"first", "body", "closing"} => mode = "stream"
  /\ phase = "collect" => mode = "plain"
  /\ \A m \in Models : delivered[m] > 0 => m = current /\ phase \in {"body", "closing", "ended"}
  /\ phase \in {"first", "body"} => delivered[current] = received

(* All that counts of the current candidate has been written. *)
AllDelivered ==
  /\ delivered[current] = Sent
  /\ (mode = "stream" /\ early) \/ dropped < produced

CompleteInv ==
  /\ answer # "none" <=> phase = "ended"
  /\ phase = "closing" \/ answer = "complete" => AllDelivered

IInv ==
  /\ TypeOK
  /\ \A m \in Models : AttemptInv(m)
  /\ HistoryInv
  /\ StartedInv
  /\ DeliveredInv
  /\ CompleteInv
-----------------------------------------------------------------------------
(* Channels.                                                               *)

LEMMA EmptyChannel ==
  ASSUME NEW how
  PROVE  Owed(<<>>, how) = {} /\ Cardinality(Owed(<<>>, how)) = 0 /\ ~Stops(<<>>, how)
<1>1. Len(<<>>) = 0 /\ 1..0 = {}
  OBVIOUS
<1>2. Owed(<<>>, how) = {} /\ ~Stops(<<>>, how)
  BY <1>1 DEF Owed, Stops
<1> QED BY <1>2, FS_EmptySet

(* A done event behind the others, and one more piece of text.             *)
LEMMA Appended ==
  ASSUME NEW q \in Seq(Events), NEW how \in Hows, NEW ev \in Events
  PROVE  LET r == Append(q, ev)
         IN  /\ r \in Seq(Events) /\ Len(r) = Len(q) + 1
             /\ Stops(r, how) <=> Stops(q, how) \/ (ev = "done" /\ (how = "any" \/ (how = "second" /\ q # <<>>)))
             /\ Cardinality(Owed(r, how)) = Cardinality(Owed(q, how)) + (IF ev = "delta" /\ ~Stops(q, how) THEN 1 ELSE 0)
             /\ Cardinality(Owed(q, how)) \in Nat
<1> DEFINE r == Append(q, ev)
           n == Len(q)
<1>1. /\ r \in Seq(Events) /\ Len(r) = n + 1 /\ n \in Nat /\ r[n + 1] = ev
      /\ \A k \in 1..n : r[k] = q[k]
  OBVIOUS
<1>2. q # <<>> <=> n + 1 # 1
  OBVIOUS
<1> HIDE DEF r, n
<1>3. \A k \in 1..n : StopAt(r, how, k) <=> StopAt(q, how, k)
  BY <1>1 DEF StopAt
<1>4. 1..(n + 1) = (1..n) \cup {n + 1} /\ n + 1 \notin 1..n
  BY <1>1
<1>5. Stops(r, how) <=> Stops(q, how) \/ StopAt(r, how, n + 1)
  BY <1>1, <1>3, <1>4 DEF Stops, n
<1>6. StopAt(r, how, n + 1) <=> (ev = "done" /\ (how = "any" \/ (how = "second" /\ q # <<>>)))
  BY <1>1, <1>2 DEF StopAt, Hows
<1>7. Owed(q, how) \subseteq 1..n
  BY DEF Owed, n
<1>8. /\ IsFiniteSet(Owed(q, how)) /\ Cardinality(Owed(q, how)) \in Nat /\ n + 1 \notin Owed(q, how)
      /\ Cardinality(Owed(q, how) \cup {n + 1}) = Cardinality(Owed(q, how)) + 1
  <2>1. IsFiniteSet(1..n)
    BY <1>1, FS_Interval, 1 \in Int, n \in Int
  <2>2. IsFiniteSet(Owed(q, how)) /\ n + 1 \notin Owed(q, how)
    BY <1>4, <1>7, <2>1, FS_Subset
  <2> QED BY <2>2, FS_AddElement, FS_CardinalityType
<1>9. ASSUME NEW k \in 1..n PROVE k \in Owed(r, how) <=> k \in Owed(q, how)
  <2>1. k \in 1..(n + 1) /\ \A j \in 1..(k - 1) : j \in 1..n
    BY <1>1, <1>9
  <2> QED BY <1>1, <1>3, <2>1 DEF Owed, n
<1>10. n + 1 \in Owed(r, how) <=> ev = "delta" /\ ~Stops(q, how)
  <2>1. (n + 1) - 1 = n /\ n + 1 \in 1..(n + 1)
    BY <1>1
  <2> QED BY <1>1, <1>3, <2>1 DEF Owed, Stops, n
<1>11. Owed(r, how) = IF ev = "delta" /\ ~Stops(q, how) THEN Owed(q, how) \cup {n + 1} ELSE Owed(q, how)
  <2>1. Owed(r, how) \subseteq 1..(n + 1)
    BY <1>1 DEF Owed
  <2>2. CASE ev = "delta" /\ ~Stops(q, how)
    <3>1. n + 1 \in Owed(r, how)
      BY <1>10, <2>2
    <3>2. Owed(r, how) = Owed(q, how) \cup {n + 1}
      BY <1>4, <1>7, <1>9, <2>1, <3>1
    <3> QED BY <2>2, <3>2
  <2>3. CASE ~(ev = "delta" /\ ~Stops(q, how))
    <3>1. n + 1 \notin Owed(r, how)
      BY <1>10, <2>3
    <3>2. Owed(r, how) = Owed(q, how)
      BY <1>4, <1>7, <1>9, <2>1, <3>1
    <3> QED BY <2>3, <3>2
  <2> QED BY <2>2, <2>3
<1>12. Cardinality(Owed(r, how)) = Cardinality(Owed(q, how)) + (IF ev = "delta" /\ ~Stops(q, how) THEN 1 ELSE 0)
  <2>1. CASE ev = "delta" /\ ~Stops(q, how)
    BY <1>8, <1>11, <2>1
  <2>2. CASE ~(ev = "delta" /\ ~Stops(q, how))
    BY <1>8, <1>11, <2>2
  <2> QED BY <2>1, <2>2
<1>13. Stops(r, how) <=> Stops(q, how) \/ (ev = "done" /\ (how = "any" \/ (how = "second" /\ q # <<>>)))
  BY <1>5, <1>6
<1>14. r \in Seq(Events) /\ Len(r) = Len(q) + 1
  BY <1>1 DEF n
<1> QED BY <1>8, <1>12, <1>13, <1>14 DEF r

(* How many are left when the head of a channel is taken. *)
LEMMA Shifted ==
  ASSUME NEW n \in Nat \ {0}, NEW S \in SUBSET (1..n), NEW T \in SUBSET (1..(n - 1)),
         \A k \in 1..(n - 1) : k \in T <=> k + 1 \in S
  PROVE  Cardinality(S) = Cardinality(T) + (IF 1 \in S THEN 1 ELSE 0) /\ Cardinality(T) \in Nat
<1> DEFINE Rest == S \ {1}
           f == [k \in T |-> k + 1]
<1>1. IsFiniteSet(S) /\ IsFiniteSet(T)
  BY FS_Interval, FS_Subset, 1 \in Int, n \in Int, n - 1 \in Int
<1>2. Cardinality(T) = Cardinality(Rest)
  <2>1. f \in Bijection(T, Rest)
    <3>1. f \in [T -> Rest] /\ \A a, b \in T : f[a] = f[b] => a = b
      OBVIOUS
    <3>2. ASSUME NEW r \in Rest PROVE \E k \in T : f[k] = r
      <4>1. r - 1 \in T /\ f[r - 1] = r
        BY n \in Nat, r \in Int
      <4> QED BY <4>1
    <3> HIDE DEF f, Rest
    <3> QED BY <3>1, <3>2, Fun_IsBij
  <2> HIDE DEF f, Rest
  <2> QED BY <1>1, <2>1, FS_Bijection DEF ExistsBijection
<1>3. Cardinality(S) \in Nat /\ Cardinality(T) \in Nat
  BY <1>1, FS_CardinalityType
<1>4. Cardinality(Rest) = IF 1 \in S THEN Cardinality(S) - 1 ELSE Cardinality(S)
  BY <1>1, FS_RemoveElement
<1> HIDE DEF Rest
<1> QED BY <1>2, <1>3, <1>4

(* What is left when the handler takes the first event and does not stop.  *)
LEMMA TailOfChannel ==
  ASSUME NEW q \in Seq(Events), q # <<>>, NEW how \in Hows
  PROVE  LET t    == Tail(q)
             next == IF how = "never" THEN "never" ELSE "any"
         IN  /\ t \in Seq(Events) /\ Len(t) = Len(q) - 1 /\ Head(q) \in Events
             /\ Cardinality(Owed(t, next)) \in Nat
             /\ ~StopAt(q, how, 1) =>
                  /\ Stops(t, next) <=> Stops(q, how)
                  /\ Cardinality(Owed(q, how)) = Cardinality(Owed(t, next)) + (IF Head(q) = "delta" THEN 1 ELSE 0)
             /\ StopAt(q, how, 1) => Stops(q, how) /\ Cardinality(Owed(q, how)) = 0
             /\ StopAt(q, how, 1) <=> Head(q) = "done" /\ how = "any"
<1> DEFINE t == Tail(q)
           n == Len(q)
           next == IF how = "never" THEN "never" ELSE "any"
<1>1. /\ t \in Seq(Events) /\ Len(t) = n - 1 /\ n \in Nat /\ n >= 1
      /\ Head(q) = q[1] /\ q[1] \in Events
      /\ \A k \in 1..(n - 1) : t[k] = q[k + 1]
  OBVIOUS
<1> HIDE DEF t, n
<1>2. StopAt(q, how, 1) <=> Head(q) = "done" /\ how = "any"
  BY <1>1 DEF StopAt, Hows
<1>3. \A k \in 1..(n - 1) : StopAt(t, next, k) <=> StopAt(q, how, k + 1)
  BY <1>1 DEF StopAt, Hows
<1>4. Owed(q, how) \subseteq 1..n /\ Owed(t, next) \subseteq 1..(n - 1)
  BY <1>1 DEF Owed, n
<1>5. CASE StopAt(q, how, 1)
  <2>1. Stops(q, how)
    BY <1>1, <1>5 DEF Stops, n
  <2>2. Owed(q, how) = {}
    <3> SUFFICES ASSUME NEW k \in Owed(q, how) PROVE FALSE
      OBVIOUS
    <3>1. k \in 1..n /\ q[k] = "delta" /\ \A j \in 1..(k - 1) : ~StopAt(q, how, j)
      BY DEF Owed, n
    <3>2. k # 1 => 1 \in 1..(k - 1)
      BY <1>1, <3>1
    <3> QED BY <1>1, <1>2, <1>5, <3>1, <3>2
  <2>3. IsFiniteSet(Owed(t, next)) /\ Cardinality(Owed(t, next)) \in Nat
    BY <1>1, <1>4, FS_Interval, FS_Subset, FS_CardinalityType, 1 \in Int, n - 1 \in Int
  <2> QED BY <1>1, <1>2, <1>5, <2>1, <2>2, <2>3, FS_EmptySet DEF t, n
<1>6. CASE ~StopAt(q, how, 1)
  <2>1. Stops(t, next) <=> Stops(q, how)
    <3>1. ASSUME NEW k \in 1..n, StopAt(q, how, k) PROVE k - 1 \in 1..(n - 1) /\ StopAt(t, next, k - 1)
      <4>1. k # 1
        BY <1>6, <3>1
      <4>2. k - 1 \in 1..(n - 1) /\ (k - 1) + 1 = k
        BY <1>1, <4>1
      <4> QED BY <1>3, <3>1, <4>2
    <3>2. ASSUME NEW k \in 1..(n - 1), StopAt(t, next, k) PROVE k + 1 \in 1..n /\ StopAt(q, how, k + 1)
      BY <1>1, <1>3, <3>2
    <3> QED BY <1>1, <3>1, <3>2 DEF Stops, n
  <2>2. Owed(t, next) = {k \in 1..(n - 1) : k + 1 \in Owed(q, how)}
    <3> SUFFICES ASSUME NEW k \in 1..(n - 1) PROVE k \in Owed(t, next) <=> k + 1 \in Owed(q, how)
      BY <1>4
    <3>1. k + 1 \in 1..n /\ (k + 1) - 1 = k /\ t[k] = q[k + 1]
      BY <1>1
    <3>2. (\A j \in 1..(k - 1) : ~StopAt(t, next, j)) <=> (\A j \in 1..k : ~StopAt(q, how, j))
      <4>1. ASSUME NEW j \in 1..(k - 1) PROVE j \in 1..(n - 1) /\ j + 1 \in 1..k
        BY <1>1, <4>1
      <4>2. ASSUME NEW j \in 1..k, j # 1 PROVE j - 1 \in 1..(k - 1) /\ j - 1 \in 1..(n - 1) /\ (j - 1) + 1 = j
        BY <1>1, <4>2
      <4> QED BY <1>3, <1>6, <4>1, <4>2
    <3> QED BY <1>1, <3>1, <3>2 DEF Owed, n
  <2>3. 1 \in Owed(q, how) <=> Head(q) = "delta"
    <3>1. 1 \in 1..n /\ 1..(1 - 1) = {}
      BY <1>1
    <3> QED BY <1>1, <3>1 DEF Owed, n
  <2>4. /\ Cardinality(Owed(q, how)) = Cardinality(Owed(t, next)) + (IF 1 \in Owed(q, how) THEN 1 ELSE 0)
        /\ Cardinality(Owed(t, next)) \in Nat
    <3>1. n \in Nat \ {0}
      BY <1>1
    <3>2. Owed(q, how) \subseteq 1..n
      BY <1>4
    <3> HIDE DEF next
    <3> DEFINE S == Owed(q, how)
               T == Owed(t, next)
    <3>3. /\ S \in SUBSET (1..n) /\ T \in SUBSET (1..(n - 1))
          /\ \A k \in 1..(n - 1) : k \in T <=> k + 1 \in S
      BY <2>2, <3>2
    <3> HIDE DEF S, T
    <3>4. Cardinality(S) = Cardinality(T) + (IF 1 \in S THEN 1 ELSE 0) /\ Cardinality(T) \in Nat
      BY <3>1, <3>3, Shifted
    <3> QED BY <3>4 DEF S, T
  <2> QED BY <1>1, <1>2, <1>6, <2>1, <2>3, <2>4 DEF t, n
<1> QED BY <1>5, <1>6
-----------------------------------------------------------------------------
(* Candidates.                                                             *)

(* The list that grows keeps its beginning, and no model is in it twice.   *)
LEMMA Extended ==
  ASSUME TypeOK, NEW list, Extend(list)
  PROVE  /\ list \in Seq(Models) /\ Unique(list)
         /\ \A k \in DOMAIN candidates : k \in DOMAIN list /\ list[k] = candidates[k]
<1>1. candidates \in Seq(Models) /\ Unique(candidates)
  BY DEF TypeOK
<1>2. CASE list = candidates \o <<>>
  <2>1. list = candidates
    BY <1>1, <1>2
  <2> QED BY <1>1, <2>1
<1>3. ASSUME NEW m \in Models, \A k \in DOMAIN candidates : candidates[k] # m, list = candidates \o <<m>>
      PROVE  /\ list \in Seq(Models) /\ Unique(list)
             /\ \A k \in DOMAIN candidates : k \in DOMAIN list /\ list[k] = candidates[k]
  <2>1. list \in Seq(Models) /\ Len(candidates) \in Nat
    BY <1>1, <1>3
  <2>2. \A k \in DOMAIN candidates : k \in DOMAIN list /\ list[k] = candidates[k]
    BY <1>1, <1>3
  <2>3. \A k \in DOMAIN list : \/ k \in DOMAIN candidates /\ list[k] = candidates[k]
                               \/ k = Len(candidates) + 1 /\ list[k] = m
    BY <1>1, <1>3
  <2>4. Unique(list)
    BY <1>1, <1>3, <2>3 DEF Unique
  <2> QED BY <2>1, <2>2, <2>4
<1> QED BY <1>2, <1>3 DEF Extend, Offered

(* The handler goes on with the next candidate, or answers with an error.  *)
LEMMA Advanced ==
  ASSUME TypeOK, Advance \/ AdvanceResponses \/ AdvanceMessages
  PROVE  /\ phase = "failed"
         /\ candidates' \in Seq(Models) /\ Unique(candidates')
         /\ \A k \in DOMAIN candidates : k \in DOMAIN candidates' /\ candidates'[k] = candidates[k]
         /\ at' \in DOMAIN candidates' /\ at' \in Nat
         /\ \/ at' = at + 1 /\ phase' = "attempt" /\ UNCHANGED <<answer, done>>
            \/ at' = at /\ phase' = "ended" /\ answer' = "error" /\ done' = TRUE
         /\ UNCHANGED <<request, run, events, failure, emitted, output, received, delivered, cooling, asked>>
<1>1. candidates \in Seq(Models) /\ Unique(candidates) /\ at \in DOMAIN candidates /\ at \in Nat
  BY DEF TypeOK
<1>2. /\ candidates' \in Seq(Models) /\ Unique(candidates')
      /\ \A k \in DOMAIN candidates : k \in DOMAIN candidates' /\ candidates'[k] = candidates[k]
  <2>1. candidates' = candidates \/ Extend(candidates')
    BY DEF Advance, AdvanceResponses, AdvanceMessages
  <2> QED BY <1>1, <2>1, Extended
<1>3. MoveOn \/ (End("error") /\ at' = at)
  BY DEF Advance, AdvanceResponses, AdvanceMessages
<1>4. at < Len(candidates') => at + 1 \in DOMAIN candidates'
  BY <1>1, <1>2
<1>5. /\ at' \in DOMAIN candidates' /\ at' \in Nat
      /\ \/ at' = at + 1 /\ phase' = "attempt" /\ UNCHANGED <<answer, done>>
         \/ at' = at /\ phase' = "ended" /\ answer' = "error" /\ done' = TRUE
  BY <1>1, <1>2, <1>3, <1>4 DEF MoveOn, End
<1>6. /\ phase = "failed"
      /\ UNCHANGED <<request, run, events, failure, emitted, output, received, delivered, cooling, asked>>
  BY DEF Advance, AdvanceResponses, AdvanceMessages, attempts
<1> QED BY <1>2, <1>5, <1>6
-----------------------------------------------------------------------------
(* The steps.                                                              *)

Advances == Advance \/ AdvanceResponses \/ AdvanceMessages

LEMMA CurrentType ==
  ASSUME TypeOK
  PROVE  current \in Models /\ at \in Nat /\ candidates[at] = current
BY DEF TypeOK, current

(* Only the actions that go on to the next candidate change the list, the  *)
(* place in it or, but for the end of the request, what they are of.       *)
LEMMA SameCandidate ==
  ASSUME [Next]_vars, ~ Advances
  PROVE  UNCHANGED <<candidates, at, current, mode>>
<1>1. UNCHANGED <<candidates, at, mode>>
  <2>1. CASE Attempt \/ AttemptFails
    BY <2>1 DEF Attempt, AttemptFails, request
  <2>2. CASE StreamFirst \/ StreamDelta
    BY <2>2 DEF StreamFirst, StreamDelta, request
  <2>3. CASE ChatDone \/ StreamDone
    BY <2>3 DEF ChatDone, StreamDone, TakeDone, request
  <2>4. CASE Finish \/ StreamBreaks \/ MessagesBreaks
    BY <2>4 DEF Finish, StreamBreaks, MessagesBreaks, request
  <2>5. CASE Collect \/ Respond
    BY <2>5 DEF Collect, Respond, request
  <2>6. ASSUME NEW m \in Models, Produce(m)
        PROVE  UNCHANGED <<candidates, at, mode>>
    BY <2>6 DEF Produce, Emit, SayDone, Succeed, Fail, EmitDone, request
  <2>7. CASE Leave \/ GetHealth \/ \E p \in Providers : Ask(p)
    BY <2>7 DEF Leave, GetHealth, Ask, request
  <2>8. CASE UNCHANGED vars
    BY <2>8 DEF vars, request
  <2> QED BY <2>1, <2>2, <2>3, <2>4, <2>5, <2>6, <2>7, <2>8 DEF Next, Handle, Advances
<1> QED BY <1>1 DEF current

(* What a step does to one attempt.                                        *)
Reads(m) ==
  /\ m = current /\ Listening /\ events[m] # <<>> /\ events'[m] = Tail(events[m])
  /\ run'[m] = run[m] /\ failure'[m] = failure[m] /\ (m \in emitted' <=> m \in emitted)

Begins(m) ==
  /\ m = current /\ phase = "attempt" /\ run'[m] = "running"
  /\ events'[m] = events[m] /\ failure'[m] = failure[m] /\ (m \in emitted' <=> m \in emitted)

Same(m) ==
  /\ run'[m] = run[m] /\ events'[m] = events[m] /\ failure'[m] = failure[m]
  /\ m \in emitted' <=> m \in emitted

LEMMA AttemptSteps ==
  ASSUME TypeOK, [Next]_vars, NEW m \in Models
  PROVE  Same(m) \/ Begins(m) \/ Reads(m) \/ Produce(m)
<1>1. current \in Models /\ run \in [Models -> {"none", "running", "finishing", "ended"}]
  BY CurrentType DEF TypeOK
<1>2. /\ events \in [Models -> Seq(Events)]
      /\ failure \in [Models -> Failures \cup {"none"}]
  BY DEF TypeOK, Events
<1>3. CASE Attempt
  BY <1>1, <1>3 DEF Attempt, Begins, Same
<1>4. CASE StreamFirst \/ StreamDelta
  BY <1>1, <1>2, <1>4 DEF StreamFirst, StreamDelta, Same, Reads, Take, HasEvent, Listening
<1>5. CASE ChatDone \/ StreamDone
  BY <1>1, <1>2, <1>5 DEF ChatDone, StreamDone, TakeDone, Same, Reads, Take, HasEvent, Listening
<1>6. CASE Collect
  BY <1>1, <1>2, <1>6 DEF Collect, Same, Reads, Take, HasEvent, Listening
<1>7. CASE Advances
  BY <1>7 DEF Advances, Advance, AdvanceResponses, AdvanceMessages, attempts, Same
<1>8. CASE AttemptFails \/ Finish \/ StreamBreaks \/ MessagesBreaks \/ Respond
  BY <1>8 DEF AttemptFails, Finish, StreamBreaks, MessagesBreaks, Respond, attempts, Same
<1>9. ASSUME NEW n \in Models, Produce(n), n # m
      PROVE  Same(m)
  BY <1>1, <1>2, <1>9 DEF Produce, Emit, SayDone, Succeed, Fail, EmitDone, Same
<1>10. CASE Leave \/ GetHealth \/ \E p \in Providers : Ask(p)
  BY <1>10 DEF Leave, GetHealth, Ask, attempts, Same
<1>11. CASE UNCHANGED vars
  BY <1>11 DEF vars, attempts, Same
<1> QED BY <1>3, <1>4, <1>5, <1>6, <1>7, <1>8, <1>9, <1>10, <1>11 DEF Next, Handle, Advances

(* A candidate is asked once, since the list has no model twice.           *)
LEMMA NotAskedBefore ==
  ASSUME TypeOK, StartedInv, phase = "attempt"
  PROVE  run[current] = "none"
<1>1. current \in Models /\ at \in DOMAIN candidates /\ candidates[at] = current
  BY DEF TypeOK, current
<1> QED BY <1>1 DEF StartedInv, Unique

LEMMA AttemptStep ==
  ASSUME TypeOK, StartedInv, NEW m \in Models, AttemptInv(m), [Next]_vars
  PROVE  AttemptInv(m)'
<1>1. /\ run \in [Models -> {"none", "running", "finishing", "ended"}]
      /\ failure \in [Models -> Failures \cup {"none"}] /\ "none" \notin Failures
  BY DEF TypeOK, Failures
<1>2. CASE Same(m)
  BY <1>2 DEF AttemptInv, Same
<1>3. CASE Begins(m)
  BY <1>1, <1>3, NotAskedBefore DEF AttemptInv, Begins
<1>4. CASE Reads(m)
  BY <1>1, <1>4 DEF AttemptInv, Reads
<1>5. CASE Emit(m) \/ SayDone(m)
  BY <1>1, <1>5 DEF AttemptInv, Emit, SayDone
<1>6. CASE Succeed(m)
  BY <1>1, <1>6 DEF AttemptInv, Succeed
<1>7. CASE Fail(m)
  BY <1>1, <1>7 DEF AttemptInv, Fail
<1>8. CASE EmitDone(m)
  BY <1>1, <1>8 DEF AttemptInv, EmitDone
<1> QED BY <1>2, <1>3, <1>4, <1>5, <1>6, <1>7, <1>8, AttemptSteps DEF Produce

LEMMA StartedStep ==
  ASSUME TypeOK, StartedInv, [Next]_vars
  PROVE  StartedInv'
<1>1. current \in Models /\ candidates \in Seq(Models) /\ at \in DOMAIN candidates
      /\ candidates[at] = current /\ at \in Nat
  BY DEF TypeOK, current
<1>2. CASE Advances
  <2>1. ASSUME NEW m \in Models, run'[m] # "none"
        PROVE  \E k \in DOMAIN candidates' :
                 k <= at' /\ candidates'[k] = m /\ (phase' = "attempt" => k # at')
    <3>1. PICK k \in DOMAIN candidates : k <= at /\ candidates[k] = m
      BY <1>2, <2>1, Advanced DEF StartedInv, Advances
    <3>2. k \in Nat
      BY <1>1
    <3>3. k \in DOMAIN candidates' /\ candidates'[k] = m
      BY <1>2, <3>1, Advanced DEF Advances
    <3>4. \/ at' = at + 1
          \/ at' = at /\ phase' = "ended"
      BY <1>2, Advanced DEF Advances
    <3>5. k <= at' /\ (phase' = "attempt" => k # at')
      BY <1>1, <3>1, <3>2, <3>4
    <3> QED BY <3>3, <3>5
  <2> QED BY <1>2, <2>1, Advanced DEF StartedInv, Advances
<1>3. CASE ~ Advances
  <2>1. UNCHANGED <<candidates, at, current>>
    BY <1>3, SameCandidate
  <2>2. CASE Attempt
    <3>1. /\ run' = [run EXCEPT ![current] = "running"] /\ phase' # "attempt"
      BY <2>2 DEF Attempt
    <3>2. \A m \in Models : run'[m] = run[m] \/ m = current
      BY <1>1, <3>1 DEF TypeOK
    <3> QED BY <1>1, <2>1, <3>1, <3>2 DEF StartedInv
  <2>3. CASE ~ Attempt
    <3>1. phase' = "attempt" => phase = "attempt"
      BY <1>3, <2>3 DEF Next, Handle, Advances, AttemptFails, StreamFirst, StreamDelta, ChatDone,
        StreamDone, TakeDone, Finish, StreamBreaks, MessagesBreaks, Collect, Respond, End, Produce,
        Emit, SayDone, Succeed, Fail, EmitDone, Leave, Ask, GetHealth, vars
    <3>2. ASSUME NEW m \in Models, run'[m] # "none"
          PROVE  run[m] # "none"
      <4>1. ~ Begins(m) \/ run[m] # "none"
        <5>1. CASE \E n \in Models : Produce(n)
          BY <5>1 DEF Begins, Produce, Emit, SayDone, Succeed, Fail, EmitDone, TypeOK
        <5> QED BY <1>3, <2>3, <3>2, <5>1
          DEF Next, Handle, Advances, AttemptFails, StreamFirst, StreamDelta, ChatDone,
            StreamDone, TakeDone, Finish, StreamBreaks, MessagesBreaks, Collect, Respond, attempts,
            Leave, Ask, GetHealth, vars, Begins
      <4>2. Produce(m) => run[m] # "none"
        BY DEF Produce, Emit, SayDone, Succeed, Fail, EmitDone
      <4> QED BY <3>2, <4>1, <4>2, AttemptSteps DEF Same, Reads
    <3> QED BY <2>1, <3>1, <3>2 DEF StartedInv
  <2> QED BY <2>2, <2>3
<1> QED BY <1>2, <1>3

LEMMA DeliveredStep ==
  ASSUME TypeOK, HistoryInv, DeliveredInv, [Next]_vars
  PROVE  DeliveredInv'
<1>1. current \in Models /\ at \in Nat
  BY CurrentType
<1>2. /\ \A m \in Models : delivered[m] \in Nat
      /\ delivered \in [Models -> 0..MaxDeltas] /\ received \in Nat
      /\ mode \in {"stream", "plain"}
  BY ConstantsAssumption DEF TypeOK
<1>3. CASE Advances
  <2>1. phase = "failed" /\ phase' \in {"attempt", "ended"}
        /\ UNCHANGED <<request, received, delivered>>
    BY <1>3, Advanced DEF Advances
  <2> QED BY <1>2, <2>1 DEF DeliveredInv, request
<1>4. CASE ~ Advances
  <2>1. UNCHANGED <<candidates, at, current, mode>>
    BY <1>4, SameCandidate
  <2>2. CASE Attempt
    <3>1. phase = "attempt" /\ phase' = (IF mode = "stream" THEN "first" ELSE "collect")
          /\ UNCHANGED <<delivered, received>> /\ received = 0
      BY <2>2 DEF Attempt, response, HistoryInv
    <3>2. \A m \in Models : ~ (delivered[m] > 0)
      BY <3>1 DEF DeliveredInv
    <3> QED BY <1>1, <1>2, <2>1, <3>1, <3>2 DEF DeliveredInv
  <2>3. CASE AttemptFails
    <3>1. phase \in {"first", "collect"} /\ phase' = "failed" /\ UNCHANGED delivered
      BY <2>3 DEF AttemptFails
    <3> QED BY <1>2, <2>1, <3>1 DEF DeliveredInv
  <2>4. CASE StreamFirst \/ StreamDelta
    <3>1. /\ phase \in {"first", "body"} /\ phase' = "body" /\ mode = "stream"
          /\ \/ delivered' = [delivered EXCEPT ![current] = @ + 1] /\ received' = received + 1
             \/ UNCHANGED <<delivered, received>>
      BY <2>4 DEF StreamFirst, StreamDelta, Read, Write, DeliveredInv
    <3>2. delivered[current] = received
      BY <3>1 DEF DeliveredInv
    <3>3. delivered'[current] = received'
      BY <1>1, <1>2, <3>1, <3>2
    <3>4. ASSUME NEW m \in Models, delivered'[m] > 0
          PROVE  m = current
      BY <1>2, <3>1, <3>4 DEF DeliveredInv
    <3> QED BY <2>1, <3>1, <3>3, <3>4 DEF DeliveredInv
  <2>5. CASE ChatDone \/ StreamDone
    <3>1. /\ phase \in {"first", "body"} /\ phase' \in {"closing", "ended"} /\ mode = "stream"
          /\ delivered' = delivered /\ received' = received
      BY <2>5 DEF ChatDone, StreamDone, TakeDone, End, DeliveredInv
    <3> QED BY <1>2, <2>1, <3>1 DEF DeliveredInv
  <2>6. CASE Finish \/ StreamBreaks \/ MessagesBreaks
    <3>1. /\ phase \in {"body", "closing"} /\ phase' = "ended" /\ mode = "stream"
          /\ delivered' = delivered /\ received' = received
      BY <2>6 DEF Finish, StreamBreaks, MessagesBreaks, End, attempts, output, DeliveredInv
    <3> QED BY <1>2, <2>1, <3>1 DEF DeliveredInv
  <2>7. CASE Collect
    <3>1. phase = "collect" /\ phase' = "collect" /\ mode # "stream" /\ delivered' = delivered
      BY <2>7 DEF Collect, DeliveredInv
    <3> QED BY <2>1, <3>1 DEF DeliveredInv
  <2>8. CASE Respond
    <3>1. /\ phase = "collect" /\ phase' = "ended" /\ mode # "stream"
          /\ delivered' = [delivered EXCEPT ![current] = received]
      BY <2>8 DEF Respond, End, DeliveredInv
    <3>2. \A m \in Models : m # current => ~ (delivered'[m] > 0)
      BY <1>2, <3>1 DEF DeliveredInv
    <3> QED BY <2>1, <3>1, <3>2 DEF DeliveredInv
  <2>9. CASE \E m \in Models : Produce(m)
    BY <2>1, <2>9 DEF Produce, Emit, SayDone, Succeed, Fail, EmitDone, DeliveredInv, response
  <2>10. CASE Leave \/ GetHealth \/ (\E p \in Providers : Ask(p)) \/ UNCHANGED vars
    BY <2>1, <2>10 DEF Leave, GetHealth, Ask, vars, DeliveredInv, response
  <2> QED BY <1>4, <2>2, <2>3, <2>4, <2>5, <2>6, <2>7, <2>8, <2>9, <2>10 DEF Next, Handle, Advances
<1> QED BY <1>3, <1>4

(* The numbers of the history, and what a step of the handler finds.       *)
LEMMA HistoryType ==
  ASSUME TypeOK
  PROVE  /\ produced \in Nat /\ dropped \in Nat /\ before \in Nat /\ received \in Nat /\ early \in BOOLEAN
         /\ How \in Hows /\ events[current] \in Seq(Events) /\ current \in Models
         /\ mode \in {"stream", "plain"} /\ api \in APIs
         /\ \A n \in 0..MaxDeltas : n \in Nat
<1>1. current \in Models /\ MaxDeltas \in Nat
  BY CurrentType, ConstantsAssumption
<1>2. /\ produced \in 0..MaxDeltas /\ dropped \in 0..MaxDeltas /\ before \in 0..MaxDeltas
      /\ received \in 0..MaxDeltas /\ early \in BOOLEAN
      /\ events \in [Models -> Seq(Events)] /\ mode \in {"stream", "plain"} /\ api \in APIs
  BY DEF TypeOK, Events
<1> QED BY <1>1, <1>2 DEF How, Hows

(* The handler takes an event and goes on.                                 *)
LEMMA ReadOn ==
  ASSUME IInv, StreamFirst \/ StreamDelta \/ Collect
  PROVE  /\ Listening /\ phase' \in {"body", "collect"} /\ UNCHANGED <<run, failure, emitted, output, request>>
         /\ How' = (IF How = "never" THEN "never" ELSE "any")
         /\ events[current] # <<>> /\ events' = [events EXCEPT ![current] = Tail(@)]
         /\ events'[current] = Tail(events[current])
         /\ received' = received + (IF Head(events[current]) = "delta" THEN 1 ELSE 0)
         /\ ~(Head(events[current]) = "done" /\ How = "any")
<1>1. TypeOK /\ DeliveredInv /\ events \in [Models -> Seq(Events)] /\ current \in Models
  BY HistoryType DEF IInv, TypeOK, Events
<1>2. /\ Listening /\ phase' \in {"body", "collect"} /\ UNCHANGED <<run, failure, emitted, output, request>>
      /\ events[current] # <<>> /\ events' = [events EXCEPT ![current] = Tail(@)]
      /\ phase = "collect" <=> phase' = "collect"
  BY DEF StreamFirst, StreamDelta, Collect, Take, HasEvent, Listening
<1>3. mode = "plain" <=> phase = "collect"
  BY <1>1, <1>2, HistoryType DEF Listening, DeliveredInv
<1>4. How' = (IF How = "never" THEN "never" ELSE "any")
  BY <1>2, <1>3 DEF How, request
<1>5. events'[current] = Tail(events[current])
  BY <1>1, <1>2
<1>6. Head(events[current]) \in Events /\ received \in Nat
  BY <1>1, <1>2, HistoryType
<1>7. /\ received' = received + (IF Head(events[current]) = "delta" THEN 1 ELSE 0)
      /\ ~(Head(events[current]) = "done" /\ How = "any")
  <2>1. CASE StreamFirst
    BY <1>6, <2>1 DEF StreamFirst, NextEvent, Read, How
  <2>2. CASE StreamDelta
    BY <1>6, <2>2 DEF StreamDelta, NextEvent, Read
  <2>3. CASE Collect
    <3>1. How = "never"
      BY <1>3, <2>3 DEF Collect, How
    <3> QED BY <1>6, <2>3, <3>1 DEF Collect, NextEvent, Read, Events
  <2> QED BY <2>1, <2>2, <2>3
<1> QED BY <1>2, <1>4, <1>5, <1>7

LEMMA HistoryStep ==
  ASSUME IInv, [Next]_vars
  PROVE  HistoryInv'
<1>1. TypeOK /\ HistoryInv /\ DeliveredInv /\ AttemptInv(current) /\ current \in Models
  BY HistoryType DEF IInv
<1>2. /\ produced \in Nat /\ dropped \in Nat /\ before \in Nat /\ received \in Nat /\ early \in BOOLEAN
      /\ How \in Hows /\ events[current] \in Seq(Events) /\ mode \in {"stream", "plain"}
      /\ run \in [Models -> {"none", "running", "finishing", "ended"}]
      /\ failure \in [Models -> Failures \cup {"none"}] /\ events \in [Models -> Seq(Events)]
      /\ dropped <= produced
  BY <1>1, HistoryType DEF TypeOK, HistoryInv, Events
<1>3. CASE Advances
  <2>1. phase = "failed" /\ phase' \in {"attempt", "ended"} /\ UNCHANGED <<output, received>>
    BY <1>1, <1>3, Advanced DEF Advances
  <2> QED BY <1>1, <2>1 DEF HistoryInv, Listening, output
<1>4. CASE ~ Advances
  <2>1. UNCHANGED <<candidates, at, current, mode>>
    BY <1>4, SameCandidate
  <2>2. CASE Attempt
    <3>1. /\ phase = "attempt" /\ phase' \in {"first", "collect"} /\ UNCHANGED <<events, emitted, output, received>>
      BY <2>2 DEF Attempt, response
    <3>2. produced = 0 /\ dropped = 0 /\ before = 0 /\ received = 0 /\ ~early
      BY <1>1, <3>1 DEF HistoryInv
    <3>3. run[current] = "none"
      BY <3>1, NotAskedBefore DEF IInv
    <3>4. events'[current] = <<>> /\ current \notin emitted'
      BY <1>1, <2>1, <3>1, <3>3 DEF AttemptInv
    <3>5. Cardinality(Owed(events'[current], How')) = 0 /\ ~Stops(events'[current], How')
      BY <3>4, EmptyChannel
    <3>6. Sent' = 0
      BY <3>1, <3>2 DEF Sent, output
    <3> QED BY <2>1, <3>1, <3>2, <3>4, <3>5, <3>6 DEF HistoryInv, output
  <2>3. CASE AttemptFails
    BY <2>3 DEF AttemptFails, Forget, HistoryInv, Listening
  <2>4. CASE StreamFirst \/ StreamDelta \/ Collect
    <3> DEFINE q == events[current]
               t == events'[current]
    <3>1. /\ Listening /\ phase' \in {"body", "collect"} /\ UNCHANGED <<run, failure, emitted, output, request>>
          /\ How' = (IF How = "never" THEN "never" ELSE "any")
          /\ q # <<>> /\ t = Tail(q)
          /\ received' = received + (IF Head(q) = "delta" THEN 1 ELSE 0)
          /\ ~(Head(q) = "done" /\ How = "any")
      BY <2>4, ReadOn
    <3>2. /\ Stops(t, How') <=> Stops(q, How)
          /\ Cardinality(Owed(q, How)) = Cardinality(Owed(t, How')) + (IF Head(q) = "delta" THEN 1 ELSE 0)
          /\ Cardinality(Owed(t, How')) \in Nat
      BY <1>2, <3>1, TailOfChannel
    <3> HIDE DEF q, t
    <3>3. /\ Sent = received + Cardinality(Owed(q, How))
          /\ mode = "stream" /\ early => Stops(q, How)
          /\ Stops(q, How) /\ ~early => run[current] = "ended" /\ failure[current] = "none"
          /\ current \in emitted => dropped < produced
      BY <1>1, <3>1 DEF HistoryInv, q
    <3>4. Sent' = Sent /\ UNCHANGED <<produced, dropped, early, before>>
      BY <2>1, <3>1 DEF Sent, output
    <3>5. Sent' = received' + Cardinality(Owed(t, How'))
      BY <1>2, <3>1, <3>2, <3>3, <3>4
    <3>6. events[current]' = t
      BY <2>1 DEF t
    <3> QED BY <1>2, <2>1, <3>1, <3>2, <3>3, <3>4, <3>5, <3>6 DEF HistoryInv, Listening
  <2>5. CASE ChatDone \/ StreamDone \/ Finish \/ StreamBreaks \/ MessagesBreaks \/ Respond
    <3>1. phase' \in {"closing", "ended"} /\ UNCHANGED output
      BY <2>5 DEF ChatDone, StreamDone, TakeDone, Finish, StreamBreaks, MessagesBreaks, Respond, End, attempts
    <3> QED BY <1>2, <3>1 DEF HistoryInv, Listening, output
  <2>6. ASSUME NEW m \in Models, Produce(m)
        PROVE  HistoryInv'
    <3>1. UNCHANGED <<api, mode, phase, received>>
      BY <2>6 DEF Produce, Emit, SayDone, Succeed, Fail, EmitDone, request, response
    <3>2. How' = How /\ Listening' = Listening
      BY <3>1 DEF How, Listening
    <3>3. CASE ~Listens(m)
      <4>1. UNCHANGED <<produced, dropped, early, before>>
        BY <2>6, <3>3 DEF Produce, Emit, SayDone, Succeed, Fail, EmitDone, output
      <4>2. CASE m # current
        <5>1. /\ events'[current] = events[current] /\ run'[current] = run[current]
              /\ failure'[current] = failure[current] /\ (current \in emitted' => current \in emitted)
          BY <1>1, <1>2, <2>6, <4>2 DEF Produce, Emit, SayDone, Succeed, Fail, EmitDone
        <5> QED BY <1>1, <2>1, <3>1, <3>2, <4>1, <5>1 DEF HistoryInv, Sent
      <4>3. CASE m = current
        <5>1. ~Listening
          BY <3>3, <4>3 DEF Listens, Listening
        <5> QED BY <1>1, <3>1, <3>2, <4>1, <5>1 DEF HistoryInv
      <4> QED BY <4>2, <4>3
    <3>4. CASE Listens(m)
      <4> DEFINE q == events[current]
                 r == events'[current]
      <4>1. /\ m = current /\ Listening /\ phase \notin {"attempt", "failed"}
            /\ Sent = received + Cardinality(Owed(q, How))
            /\ mode = "stream" /\ early => Stops(q, How)
            /\ Stops(q, How) /\ ~early => run[current] = "ended" /\ failure[current] = "none"
            /\ current \in emitted => dropped < produced
        BY <1>1, <3>4 DEF Listens, Listening, HistoryInv
      <4>2. Cardinality(Owed(q, How)) \in Nat /\ Cardinality(Owed(Append(q, "done"), How)) = Cardinality(Owed(q, How))
        BY <1>2, Appended DEF Events
      <4>3. (mode = "plain" => ~Stops(q, How)) /\ (Stops(q, How) => mode = "stream")
        BY <1>2 DEF How, Stops, StopAt
      <4> SUFFICES /\ dropped' <= produced'
                   /\ Sent' = received + Cardinality(Owed(r, How))
                   /\ mode = "stream" /\ early' => Stops(r, How)
                   /\ Stops(r, How) /\ ~early' => run'[current] = "ended" /\ failure'[current] = "none"
                   /\ current \in emitted' => dropped' < produced'
        BY <2>1, <3>1, <3>2, <4>1 DEF HistoryInv
      <4>4. CASE Emit(m)
        <5>1. run[current] = "running" /\ produced' = produced + 1 /\ UNCHANGED <<run, failure, early, before>>
          BY <3>4, <4>1, <4>4 DEF Emit
        <5>2. CASE events' = [events EXCEPT ![m] = Append(@, "delta")] /\ UNCHANGED dropped
          <6>1. r = Append(q, "delta")
            BY <1>1, <1>2, <4>1, <5>2
          <6>2. /\ Stops(r, How) <=> Stops(q, How)
                /\ Cardinality(Owed(r, How)) = Cardinality(Owed(q, How)) + (IF Stops(q, How) THEN 0 ELSE 1)
            BY <1>2, <6>1, Appended DEF Events
          <6> HIDE DEF q, r
          <6>3. Sent' = IF Stops(q, How) THEN Sent ELSE Sent + 1
            BY <1>2, <2>1, <4>1, <4>3, <5>1, <5>2 DEF Sent
          <6> QED BY <1>2, <4>1, <4>2, <5>1, <5>2, <6>2, <6>3
        <5>3. CASE UNCHANGED <<events, emitted>> /\ dropped' = dropped + 1
          <6>1. Sent' = Sent
            BY <1>2, <2>1, <5>1, <5>3 DEF Sent
          <6> QED BY <1>2, <2>1, <4>1, <5>1, <5>3, <6>1
        <5> QED BY <3>4, <4>4, <5>2, <5>3 DEF Emit
      <4>5. CASE SayDone(m)
        <5>1. /\ run[current] = "running" /\ ~early /\ UNCHANGED <<run, failure, emitted, produced, dropped>>
              /\ \/ Ignored /\ UNCHANGED <<early, before>>
                 \/ ~Ignored /\ early' = TRUE /\ before' = produced - dropped
          BY <4>1, <4>5 DEF SayDone
        <5>2. r = Append(q, "done")
          BY <1>1, <1>2, <4>1, <4>5 DEF SayDone
        <5>3. /\ Stops(r, How) <=> Stops(q, How) \/ How = "any" \/ (How = "second" /\ q # <<>>)
              /\ ~Stops(q, How)
          BY <1>2, <4>1, <5>1, <5>2, Appended DEF Events
        <5>4. Sent' = Sent
          BY <2>1, <5>1 DEF Sent
        <5>5. ~Ignored /\ mode = "stream" => Stops(r, How)
          BY <1>2, <5>3 DEF Ignored, How
        <5>6. Ignored => ~Stops(r, How)
          BY <5>3 DEF Ignored, How, q
        <5> HIDE DEF q, r
        <5> QED BY <1>2, <4>1, <4>2, <5>1, <5>2, <5>4, <5>5, <5>6
      <4>6. CASE Succeed(m) \/ Fail(m)
        <5>1. run[current] = "running" /\ UNCHANGED <<events, emitted, produced, dropped, early, before>>
          BY <4>1, <4>6 DEF Succeed, Fail, output
        <5>2. Sent' = Sent /\ r = q
          BY <2>1, <5>1 DEF Sent
        <5> QED BY <1>2, <4>1, <5>1, <5>2
      <4>7. CASE EmitDone(m)
        <5>1. run[current] = "finishing" /\ UNCHANGED <<failure, emitted, produced, dropped, early, before>>
              /\ run'[current] = "ended"
          BY <1>1, <1>2, <4>1, <4>7 DEF EmitDone, output
        <5>2. failure[current] = "none"
          BY <1>1, <5>1 DEF AttemptInv
        <5>3. r = Append(q, "done") \/ r = q
          BY <1>1, <1>2, <4>1, <4>7 DEF EmitDone
        <5>4. (Stops(q, How) => Stops(r, How)) /\ Cardinality(Owed(r, How)) = Cardinality(Owed(q, How))
          BY <1>2, <4>2, <5>3, Appended DEF Events
        <5>5. Sent' = Sent
          BY <2>1, <5>1 DEF Sent
        <5> HIDE DEF q, r
        <5> QED BY <1>2, <4>1, <5>1, <5>2, <5>4, <5>5
      <4> QED BY <2>6, <4>4, <4>5, <4>6, <4>7 DEF Produce
    <3> QED BY <3>3, <3>4
  <2>7. CASE Leave \/ GetHealth \/ (\E p \in Providers : Ask(p)) \/ UNCHANGED vars
    <3>1. UNCHANGED <<api, mode, phase, events, run, failure, emitted, produced, dropped, early, before, received>>
      BY <2>7 DEF Leave, GetHealth, Ask, vars, attempts, response, output, request
    <3>2. How' = How /\ Listening' = Listening /\ Sent' = Sent
      BY <3>1 DEF How, Listening, Sent
    <3> QED BY <1>1, <2>1, <3>1, <3>2 DEF HistoryInv
  <2> QED BY <1>4, <2>2, <2>3, <2>4, <2>5, <2>6, <2>7 DEF Next, Handle, Advances
<1> QED BY <1>3, <1>4

(* The end of a stream and of a plain response: the handler has read the   *)
(* done event at which it stops, or both channels are closed and no error  *)
(* was in theirs.                                                          *)
LEMMA AllRead ==
  ASSUME IInv, ChatDone \/ StreamDone \/ Respond
  PROVE  /\ received = Sent
         /\ (mode = "stream" /\ early) \/ dropped < produced
<1>1. /\ current \in Models /\ AttemptInv(current) /\ TypeOK /\ DeliveredInv /\ HistoryInv
      /\ events[current] \in Seq(Events) /\ received \in Nat /\ How \in Hows /\ early \in BOOLEAN
      /\ mode \in {"stream", "plain"} /\ api \in APIs
  BY HistoryType DEF IInv
<1>2. Listening
  BY DEF ChatDone, StreamDone, TakeDone, Respond, Listening
<1>3. CASE ChatDone \/ StreamDone
  <2>1. events[current] # <<>> /\ Head(events[current]) = "done" /\ (phase = "first" => api # "responses")
        /\ phase \in {"first", "body"}
    BY <1>3 DEF ChatDone, StreamDone, TakeDone, HasEvent, NextEvent
  <2>2. How = "any" /\ mode = "stream"
    BY <1>1, <2>1 DEF How, DeliveredInv
  <2>3. Stops(events[current], How) /\ Cardinality(Owed(events[current], How)) = 0
    BY <1>1, <2>1, <2>2, TailOfChannel
  <2>4. early \/ current \in emitted
    BY <1>1, <1>2, <2>3 DEF HistoryInv, AttemptInv
  <2> QED BY <1>1, <1>2, <2>2, <2>3, <2>4 DEF HistoryInv
<1>4. CASE Respond
  <2>1. events[current] = <<>> /\ run[current] = "ended" /\ failure[current] = "none"
    BY <1>4 DEF Respond, Closed, HasEvent
  <2>2. Cardinality(Owed(events[current], How)) = 0
    BY <2>1, EmptyChannel
  <2> QED BY <1>1, <1>2, <2>1, <2>2 DEF HistoryInv, AttemptInv
<1> QED BY <1>3, <1>4

LEMMA CompleteStep ==
  ASSUME IInv, [Next]_vars
  PROVE  CompleteInv'
<1>1. current \in Models /\ TypeOK /\ CompleteInv /\ DeliveredInv
  BY CurrentType DEF IInv
<1>2. delivered \in [Models -> 0..MaxDeltas] /\ answer \in {"none", "complete", "error"}
  BY <1>1 DEF TypeOK
<1>3. CASE Advances
  <2>1. /\ phase = "failed"
        /\ \/ phase' = "attempt" /\ answer' = answer
           \/ phase' = "ended" /\ answer' = "error"
    BY <1>1, <1>3, Advanced DEF Advances
  <2> QED BY <1>1, <2>1 DEF CompleteInv
<1>4. CASE ~ Advances
  <2>1. UNCHANGED <<candidates, at, current, mode>>
    BY <1>4, SameCandidate
  <2>2. CASE Attempt \/ AttemptFails \/ StreamFirst \/ StreamDelta
    <3>1. /\ phase \in {"attempt", "first", "collect", "body"}
          /\ phase' \in {"first", "collect", "body", "failed"}
          /\ answer' = answer
      BY <2>2 DEF Attempt, AttemptFails, StreamFirst, StreamDelta, response
    <3> QED BY <1>1, <3>1 DEF CompleteInv
  <2>3. CASE ChatDone \/ StreamDone
    <3>1. /\ phase \in {"first", "body"}
          /\ \/ phase' = "ended" /\ answer' = "complete"
             \/ phase' = "closing" /\ answer' = answer
          /\ UNCHANGED <<output, delivered>>
      BY <2>3 DEF ChatDone, StreamDone, TakeDone, End
    <3>2. AllDelivered
      BY <1>1, <2>3, <3>1, AllRead DEF AllDelivered, DeliveredInv
    <3>3. AllDelivered'
      BY <2>1, <3>1, <3>2 DEF AllDelivered, Sent, output
    <3> QED BY <1>1, <3>1, <3>3 DEF CompleteInv
  <2>4. CASE Finish
    <3>1. phase = "closing" /\ phase' = "ended" /\ answer' = "complete" /\ UNCHANGED <<output, delivered>>
      BY <2>4 DEF Finish, End, attempts
    <3> QED BY <1>1, <2>1, <3>1 DEF CompleteInv, AllDelivered, Sent, output
  <2>5. CASE StreamBreaks \/ MessagesBreaks
    <3>1. phase' = "ended" /\ answer' = "error"
      BY <2>5 DEF StreamBreaks, MessagesBreaks, End
    <3> QED BY <3>1 DEF CompleteInv
  <2>6. CASE Collect
    <3>1. phase = "collect" /\ phase' = "collect" /\ answer' = answer
      BY <2>6 DEF Collect
    <3> QED BY <1>1, <3>1 DEF CompleteInv
  <2>7. CASE Respond
    <3>1. /\ phase' = "ended" /\ answer' = "complete" /\ UNCHANGED output
          /\ delivered'[current] = received
      BY <1>1, <1>2, <2>7 DEF Respond, End, attempts
    <3>2. received = Sent /\ ((mode = "stream" /\ early) \/ dropped < produced)
      BY <2>7, AllRead
    <3> QED BY <2>1, <3>1, <3>2 DEF CompleteInv, AllDelivered, Sent, output
  <2>8. ASSUME NEW m \in Models, Produce(m)
        PROVE  CompleteInv'
    <3>1. UNCHANGED <<phase, answer, delivered>>
      BY <2>8 DEF Produce, Emit, SayDone, Succeed, Fail, EmitDone, response
    <3>2. CASE phase \in {"closing", "ended"}
      <4>1. UNCHANGED <<produced, dropped, early, before>>
        BY <2>8, <3>2 DEF Produce, Emit, SayDone, Succeed, Fail, EmitDone, Listens, output
      <4> QED BY <1>1, <2>1, <3>1, <4>1 DEF CompleteInv, AllDelivered, Sent
    <3>3. CASE phase \notin {"closing", "ended"}
      BY <1>1, <3>1, <3>3 DEF CompleteInv
    <3> QED BY <3>2, <3>3
  <2>9. CASE Leave \/ GetHealth \/ (\E p \in Providers : Ask(p)) \/ UNCHANGED vars
    BY <1>1, <2>1, <2>9 DEF Leave, GetHealth, Ask, vars, CompleteInv, AllDelivered, Sent, output, attempts, response
  <2> QED BY <1>4, <2>2, <2>3, <2>4, <2>5, <2>6, <2>7, <2>8, <2>9 DEF Next, Handle, Advances
<1> QED BY <1>3, <1>4

LEMMA RequestType ==
  ASSUME TypeOK, [Next]_vars
  PROVE  /\ api' \in APIs /\ mode' \in {"stream", "plain"} /\ virtual' \in BOOLEAN
         /\ candidates' \in Seq(Models) /\ Unique(candidates') /\ at' \in DOMAIN candidates'
         /\ phase' \in {"attempt", "first", "body", "closing", "collect", "failed", "ended"}
         /\ answer' \in {"none", "complete", "error"} /\ done' \in BOOLEAN
<1>1. /\ api \in APIs /\ mode \in {"stream", "plain"} /\ virtual \in BOOLEAN
      /\ candidates \in Seq(Models) /\ Unique(candidates) /\ at \in DOMAIN candidates
      /\ phase \in {"attempt", "first", "body", "closing", "collect", "failed", "ended"}
      /\ answer \in {"none", "complete", "error"} /\ done \in BOOLEAN
  BY DEF TypeOK
<1>2. CASE Advances
  BY <1>1, <1>2, Advanced DEF Advances, request
<1>3. CASE ~ Advances
  <2>1. UNCHANGED <<candidates, at>>
    BY <1>3, SameCandidate
  <2>2. CASE Handle
    BY <1>1, <1>3, <2>1, <2>2 DEF Handle, Advances, Attempt, AttemptFails, StreamFirst, StreamDelta,
      ChatDone, StreamDone, TakeDone, Finish, StreamBreaks, MessagesBreaks, Collect, Respond, End,
      request, response
  <2>3. CASE \E m \in Models : Produce(m)
    BY <1>1, <2>1, <2>3 DEF Produce, Emit, SayDone, Succeed, Fail, EmitDone, request, response
  <2>4. CASE Leave \/ GetHealth \/ (\E p \in Providers : Ask(p)) \/ UNCHANGED vars
    BY <1>1, <2>1, <2>4 DEF Leave, GetHealth, Ask, vars, request, response
  <2> QED BY <2>2, <2>3, <2>4 DEF Next
<1> QED BY <1>2, <1>3

LEMMA SharedType ==
  ASSUME TypeOK, [Next]_vars
  PROVE  cooling' \in SUBSET Models /\ asked' \in Providers \cup {Nobody}
<1>1. cooling \in SUBSET Models /\ asked \in Providers \cup {Nobody} /\ current \in Models
  BY CurrentType DEF TypeOK
<1>2. CASE Advances
  BY <1>1, <1>2, Advanced DEF Advances
<1>3. CASE Attempt \/ AttemptFails \/ StreamFirst \/ StreamDelta \/ ChatDone \/ StreamDone \/ Finish
  BY <1>1, <1>3 DEF Attempt, AttemptFails, StreamFirst, StreamDelta, ChatDone, StreamDone, TakeDone,
    Finish, Cool
<1>4. CASE StreamBreaks \/ MessagesBreaks \/ Collect \/ Respond
  BY <1>1, <1>4 DEF StreamBreaks, MessagesBreaks, Collect, Respond, Cool
<1>5. CASE \E m \in Models : Produce(m)
  BY <1>1, <1>5 DEF Produce, Emit, SayDone, Succeed, Fail, EmitDone
<1>6. CASE Leave \/ GetHealth \/ (\E p \in Providers : Ask(p)) \/ UNCHANGED vars
  BY <1>1, <1>6 DEF Leave, GetHealth, Ask, vars
<1> QED BY <1>2, <1>3, <1>4, <1>5, <1>6 DEF Next, Handle, Advances

LEMMA GoroutineType ==
  ASSUME TypeOK, [Next]_vars
  PROVE  /\ run' \in [Models -> {"none", "running", "finishing", "ended"}]
         /\ failure' \in [Models -> Failures \cup {"none"}] /\ emitted' \in SUBSET Models
<1>1. /\ run \in [Models -> {"none", "running", "finishing", "ended"}]
      /\ failure \in [Models -> Failures \cup {"none"}] /\ emitted \in SUBSET Models
  BY DEF TypeOK
<1>2. CASE Attempt
  BY <1>1, <1>2 DEF Attempt
<1>3. CASE Handle /\ ~ Attempt
  <2>1. CASE Advances
    BY <1>1, <2>1, Advanced DEF Advances
  <2>2. CASE ~ Advances
    BY <1>1, <1>3, <2>2 DEF Handle, Advances, AttemptFails, StreamFirst, StreamDelta, ChatDone,
      StreamDone, TakeDone, Finish, StreamBreaks, MessagesBreaks, Collect, Respond, attempts
  <2> QED BY <2>1, <2>2
<1>4. CASE \E m \in Models : Produce(m)
  BY <1>1, <1>4 DEF Produce, Emit, SayDone, Succeed, Fail, EmitDone
<1>5. CASE Leave \/ GetHealth \/ (\E p \in Providers : Ask(p)) \/ UNCHANGED vars
  BY <1>1, <1>5 DEF Leave, GetHealth, Ask, vars, attempts
<1> QED BY <1>2, <1>3, <1>4, <1>5 DEF Next

LEMMA Difference ==
  ASSUME NEW a \in 0..MaxDeltas, NEW b \in 0..MaxDeltas, b <= a
  PROVE  a - b \in 0..MaxDeltas
<1>1. MaxDeltas \in Nat
  BY ConstantsAssumption
<1> QED BY <1>1

(* The numbers of the history keep to the bound.                           *)
LEMMA OutputType ==
  ASSUME TypeOK, HistoryInv, [Next]_vars
  PROVE  /\ produced' \in 0..MaxDeltas /\ dropped' \in 0..MaxDeltas /\ before' \in 0..MaxDeltas
         /\ early' \in BOOLEAN
<1>1. /\ produced \in 0..MaxDeltas /\ dropped \in 0..MaxDeltas /\ before \in 0..MaxDeltas
      /\ early \in BOOLEAN /\ dropped <= produced /\ MaxDeltas \in Nat
  BY ConstantsAssumption DEF TypeOK, HistoryInv
<1>2. CASE AttemptFails
  <2>1. produced' = 0 /\ dropped' = 0 /\ before' = 0 /\ early' = FALSE
    BY <1>2 DEF AttemptFails, Forget
  <2>2. 0 \in 0..MaxDeltas
    BY <1>1
  <2> QED BY <2>1, <2>2
<1>3. CASE Handle /\ ~ AttemptFails
  <2>1. CASE Advances
    BY <1>1, <2>1, Advanced DEF Advances, output
  <2>2. CASE ~ Advances
    BY <1>1, <1>3, <2>2 DEF Handle, Advances, Attempt, StreamFirst, StreamDelta, ChatDone,
      StreamDone, TakeDone, Finish, StreamBreaks, MessagesBreaks, Collect, Respond, attempts, output
  <2> QED BY <2>1, <2>2
<1>4. ASSUME NEW m \in Models, Emit(m)
      PROVE  /\ produced' \in 0..MaxDeltas /\ dropped' \in 0..MaxDeltas /\ before' \in 0..MaxDeltas
             /\ early' \in BOOLEAN
  BY <1>1, <1>4 DEF Emit
<1>5. ASSUME NEW m \in Models, SayDone(m) \/ Succeed(m) \/ Fail(m) \/ EmitDone(m)
      PROVE  /\ produced' \in 0..MaxDeltas /\ dropped' \in 0..MaxDeltas /\ before' \in 0..MaxDeltas
             /\ early' \in BOOLEAN
  <2>1. CASE SayDone(m)
    <3>1. UNCHANGED <<produced, dropped>>
      BY <2>1 DEF SayDone
    <3>2. CASE Ignored
      BY <1>1, <2>1, <3>1, <3>2 DEF SayDone
    <3>3. CASE ~Ignored
      <4>1. early' = TRUE /\ before' = produced - dropped
        BY <2>1, <3>3 DEF SayDone
      <4>2. produced - dropped \in 0..MaxDeltas
        BY <1>1
      <4> QED BY <1>1, <3>1, <4>1, <4>2
    <3> QED BY <3>2, <3>3
  <2>2. CASE Succeed(m) \/ Fail(m) \/ EmitDone(m)
    <3>1. UNCHANGED output
      BY <2>2 DEF Succeed, Fail, EmitDone
    <3> QED BY <1>1, <3>1 DEF output
  <2> QED BY <1>5, <2>1, <2>2
<1>6. CASE Leave \/ GetHealth \/ (\E p \in Providers : Ask(p)) \/ UNCHANGED vars
  BY <1>1, <1>6 DEF Leave, GetHealth, Ask, vars, attempts, output
<1> QED BY <1>2, <1>3, <1>4, <1>5, <1>6 DEF Next, Produce

LEMMA ChannelType ==
  ASSUME TypeOK, [Next]_vars
  PROVE  events' \in [Models -> Seq(Events)] /\ \A m \in Models : Len(events'[m]) <= Buffer
<1>1. /\ events \in [Models -> Seq(Events)] /\ \A m \in Models : Len(events[m]) <= Buffer
      /\ current \in Models /\ Buffer \in Nat
  BY CurrentType, ConstantsAssumption DEF TypeOK, Events
<1>2. ASSUME events[current] # <<>>, events' = [events EXCEPT ![current] = Tail(@)]
      PROVE  events' \in [Models -> Seq(Events)] /\ \A m \in Models : Len(events'[m]) <= Buffer
  <2> DEFINE t == Tail(events[current])
  <2>1. t \in Seq(Events) /\ Len(t) < Len(events[current])
    BY <1>1, <1>2
  <2>2. events' = [events EXCEPT ![current] = t] /\ Len(events[current]) \in Nat /\ Len(t) \in Nat
    BY <1>1, <1>2, <2>1
  <2> HIDE DEF t
  <2> QED BY <1>1, <2>1, <2>2
<1>3. ASSUME NEW m \in Models, NEW ev \in Events, Len(events[m]) < Buffer,
             events' = [events EXCEPT ![m] = Append(@, ev)]
      PROVE  events' \in [Models -> Seq(Events)] /\ \A n \in Models : Len(events'[n]) <= Buffer
  <2> DEFINE r == Append(events[m], ev)
  <2>1. r \in Seq(Events) /\ Len(r) <= Buffer
    <3>1. Len(r) = Len(events[m]) + 1 /\ Len(events[m]) \in Nat /\ r \in Seq(Events)
      BY <1>1, <1>3
    <3> HIDE DEF r
    <3> QED BY <1>1, <1>3, <3>1
  <2>2. events' = [events EXCEPT ![m] = r]
    BY <1>1, <1>3
  <2> HIDE DEF r
  <2> QED BY <1>1, <2>1, <2>2
<1>4. CASE StreamFirst \/ StreamDelta \/ ChatDone \/ StreamDone \/ Collect
  BY <1>2, <1>4 DEF StreamFirst, StreamDelta, ChatDone, StreamDone, TakeDone, Collect, Take, HasEvent
<1>5. CASE Advances
  BY <1>1, <1>5, Advanced DEF Advances
<1>6. CASE Attempt \/ AttemptFails \/ Finish \/ StreamBreaks \/ MessagesBreaks \/ Respond
  BY <1>1, <1>6 DEF Attempt, AttemptFails, Finish, StreamBreaks, MessagesBreaks, Respond, attempts
<1>7. ASSUME NEW m \in Models, Emit(m)
      PROVE  events' \in [Models -> Seq(Events)] /\ \A n \in Models : Len(events'[n]) <= Buffer
  BY <1>1, <1>3, <1>7 DEF Emit, Events
<1>8. ASSUME NEW m \in Models, SayDone(m) \/ EmitDone(m)
      PROVE  events' \in [Models -> Seq(Events)] /\ \A n \in Models : Len(events'[n]) <= Buffer
  BY <1>1, <1>3, <1>8 DEF SayDone, EmitDone, Events
<1>9. ASSUME NEW m \in Models, Succeed(m) \/ Fail(m)
      PROVE  events' = events
  BY <1>9 DEF Succeed, Fail
<1>10. CASE Leave \/ GetHealth \/ (\E p \in Providers : Ask(p)) \/ UNCHANGED vars
  BY <1>1, <1>10 DEF Leave, GetHealth, Ask, vars, attempts
<1> QED BY <1>1, <1>4, <1>5, <1>6, <1>7, <1>8, <1>9, <1>10 DEF Next, Handle, Advances, Produce

(* The handler reads no more than was sent, and writes no more than it     *)
(* reads.                                                                  *)
LEMMA ResponseType ==
  ASSUME IInv, [Next]_vars, HistoryInv', events' \in [Models -> Seq(Events)],
         produced' \in 0..MaxDeltas, dropped' \in 0..MaxDeltas, before' \in 0..MaxDeltas
  PROVE  received' \in 0..MaxDeltas /\ delivered' \in [Models -> 0..MaxDeltas]
<1>1. /\ received \in 0..MaxDeltas /\ delivered \in [Models -> 0..MaxDeltas]
      /\ current \in Models /\ MaxDeltas \in Nat /\ DeliveredInv
  BY CurrentType, ConstantsAssumption DEF IInv, TypeOK
<1>2. CASE StreamFirst \/ StreamDelta \/ Collect
  <2>1. Listening' /\ received' = received + (IF Head(events[current]) = "delta" THEN 1 ELSE 0)
    BY <1>2, ReadOn DEF Listening
  <2>2. UNCHANGED current
    <3>1. UNCHANGED <<candidates, at>>
      BY <1>2 DEF StreamFirst, StreamDelta, Collect
    <3> QED BY <3>1 DEF current
  <2>3. Sent' = received' + Cardinality(Owed(events[current]', How')) /\ dropped' <= produced'
    BY <2>1 DEF HistoryInv
  <2>4. Cardinality(Owed(events[current]', How')) \in Nat
    <3>1. events[current]' \in Seq(Events) /\ Len(events[current]') \in Nat
      BY <1>1, <2>2
    <3>2. Owed(events[current]', How') \subseteq 1..Len(events[current]')
      BY DEF Owed
    <3> HIDE DEF current
    <3> QED BY <3>1, <3>2, FS_Interval, FS_Subset, FS_CardinalityType, 1 \in Int, Len(events[current]') \in Int
  <2>5. Sent' \in 0..MaxDeltas
    <3>1. CASE mode = "stream" /\ early'
      <4>1. UNCHANGED mode
        BY <1>2 DEF StreamFirst, StreamDelta, Collect, request
      <4>2. Sent' = before'
        BY <3>1, <4>1 DEF Sent
      <4> QED BY <4>2
    <3>2. CASE ~(mode = "stream" /\ early')
      <4>1. UNCHANGED mode
        BY <1>2 DEF StreamFirst, StreamDelta, Collect, request
      <4>2. Sent' = produced' - dropped'
        BY <3>2, <4>1 DEF Sent
      <4>3. produced' - dropped' \in 0..MaxDeltas
        BY <2>3, Difference
      <4> QED BY <4>2, <4>3
    <3> QED BY <3>1, <3>2
  <2>6. received' \in 0..MaxDeltas
    BY <1>1, <2>1, <2>3, <2>4, <2>5
  <2>7. delivered' \in [Models -> 0..MaxDeltas]
    <3>1. CASE Collect \/ UNCHANGED delivered
      BY <1>1, <3>1 DEF Collect
    <3>2. CASE ~Collect /\ ~UNCHANGED delivered
      <4>1. delivered' = [delivered EXCEPT ![current] = @ + 1] /\ received' = received + 1
        BY <1>2, <3>2 DEF StreamFirst, StreamDelta, Read, Write
      <4>2. delivered[current] = received
        BY <1>1, <1>2, <3>2 DEF StreamFirst, StreamDelta, DeliveredInv
      <4> QED BY <1>1, <2>6, <4>1, <4>2
    <3> QED BY <3>1, <3>2
  <2> QED BY <2>6, <2>7
<1>3. CASE Respond
  BY <1>1, <1>3 DEF Respond
<1>4. CASE Advances
  BY <1>1, <1>4, Advanced DEF Advances, IInv
<1>5. CASE Attempt \/ ChatDone \/ StreamDone \/ Finish \/ StreamBreaks \/ MessagesBreaks
  BY <1>1, <1>5 DEF Attempt, ChatDone, StreamDone, TakeDone, Finish, StreamBreaks,
    MessagesBreaks, response
<1>6. CASE AttemptFails
  BY <1>1, <1>6 DEF AttemptFails, Forget
<1>7. CASE \E m \in Models : Produce(m)
  BY <1>1, <1>7 DEF Produce, Emit, SayDone, Succeed, Fail, EmitDone, response
<1>8. CASE Leave \/ GetHealth \/ (\E p \in Providers : Ask(p)) \/ UNCHANGED vars
  BY <1>1, <1>8 DEF Leave, GetHealth, Ask, vars, response
<1> QED BY <1>2, <1>3, <1>4, <1>5, <1>6, <1>7, <1>8 DEF Next, Handle, Advances
-----------------------------------------------------------------------------
LEMMA InitInv ==
  ASSUME Init
  PROVE  IInv
<1>1. candidates \in Seq(Models) /\ candidates # <<>> /\ Unique(candidates) /\ at = 1
  BY ConstantsAssumption DEF Init
<1>2. at \in DOMAIN candidates
  BY <1>1
<1>3. \A m \in Models : events[m] = <<>> /\ run[m] = "none" /\ failure[m] = "none" /\ delivered[m] = 0
  BY DEF Init
<1>4. TypeOK
  <2>1. <<>> \in Seq({"delta", "done"}) /\ Len(<<>>) = 0 /\ 0 \in 0..MaxDeltas
    BY ConstantsAssumption
  <2>2. events \in [Models -> Seq({"delta", "done"})]
    BY <2>1 DEF Init
  <2>3. \A m \in Models : Len(events[m]) <= Buffer
    BY <1>3, <2>1, ConstantsAssumption
  <2> QED BY <1>1, <1>2, <2>1, <2>2, <2>3, ConstantsAssumption DEF Init, TypeOK, Failures
<1>5. \A m \in Models : AttemptInv(m)
  BY <1>3 DEF AttemptInv, Init
<1>6. StartedInv /\ DeliveredInv /\ CompleteInv /\ HistoryInv
  BY <1>1, <1>3 DEF Init, StartedInv, DeliveredInv, CompleteInv, HistoryInv, Listening
<1> QED BY <1>4, <1>5, <1>6 DEF IInv

LEMMA Inductive ==
  ASSUME IInv, [Next]_vars
  PROVE  IInv'
<1>1. TypeOK /\ StartedInv /\ HistoryInv /\ DeliveredInv /\ \A m \in Models : AttemptInv(m)
  BY DEF IInv
<1>2. \A m \in Models : AttemptInv(m)'
  BY <1>1, AttemptStep
<1>3. StartedInv' /\ HistoryInv' /\ DeliveredInv' /\ CompleteInv'
  BY <1>1, StartedStep, HistoryStep, DeliveredStep, CompleteStep
<1>4. events' \in [Models -> Seq(Events)] /\ \A m \in Models : Len(events'[m]) <= Buffer
  BY <1>1, ChannelType
<1>5. /\ run' \in [Models -> {"none", "running", "finishing", "ended"}]
      /\ failure' \in [Models -> Failures \cup {"none"}] /\ emitted' \in SUBSET Models
      /\ produced' \in 0..MaxDeltas /\ dropped' \in 0..MaxDeltas /\ before' \in 0..MaxDeltas
      /\ early' \in BOOLEAN
  BY <1>1, GoroutineType, OutputType
<1>6. received' \in 0..MaxDeltas /\ delivered' \in [Models -> 0..MaxDeltas]
  BY <1>3, <1>4, <1>5, ResponseType
<1>7. TypeOK'
  BY <1>1, <1>4, <1>5, <1>6, RequestType, SharedType DEF TypeOK, Events
<1> QED BY <1>2, <1>3, <1>7 DEF IInv

(* Every reachable state is of its type.                                   *)
THEOREM TypeCorrect == Spec => []TypeOK
<1>1. Init => IInv
  BY InitInv
<1>2. IInv /\ [Next]_vars => IInv'
  BY Inductive
<1>3. IInv => TypeOK
  BY DEF IInv
<1> QED BY <1>1, <1>2, <1>3, PTL DEF Spec

(* Whatever fails and whenever, the client gets output of one candidate at *)
(* most, and no candidate is asked twice, for any list of candidates and   *)
(* any number of them that is added to it while it is used.                *)
THEOREM OneCandidateHeard == Spec => []OneVoice
<1>1. Init => IInv
  BY InitInv
<1>2. IInv /\ [Next]_vars => IInv'
  BY Inductive
<1>3. IInv => OneVoice
  BY DEF IInv, DeliveredInv, StartedInv, OneVoice
<1> QED BY <1>1, <1>2, <1>3, PTL DEF Spec

(* A response that ends as a complete one accounts for all that its        *)
(* provider has printed, but for what a deadline dropped or what came      *)
(* behind the provider's own end, whatever the capacity of the channel and *)
(* the order in which the handler takes the events, the error and the end  *)
(* of the two channels.                                                    *)
THEOREM CompleteIsWhole == Spec => []WholeAnswer
<1>1. Init => IInv
  BY InitInv
<1>2. IInv /\ [Next]_vars => IInv'
  BY Inductive
<1>3. IInv => WholeAnswer
  <2> SUFFICES ASSUME IInv, answer = "complete"
               PROVE  IF mode = "stream" /\ early THEN delivered[current] = before
                      ELSE delivered[current] = produced - dropped /\ delivered[current] > 0
    BY DEF WholeAnswer
  <2>1. AllDelivered /\ produced \in Nat /\ dropped \in Nat
    BY HistoryType DEF IInv, CompleteInv
  <2> QED BY <2>1 DEF AllDelivered, Sent
<1> QED BY <1>1, <1>2, <1>3, PTL DEF Spec
=============================================================================
