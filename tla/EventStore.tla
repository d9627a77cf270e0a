------------------------------- MODULE EventStore -------------------------------
(***************************************************************************)
(* The asynchronous writer of request events (internal/storage/sqlite.go): *)
(* a bounded queue that refuses instead of waiting, one writer, and a      *)
(* Close that lets the writer empty the queue before the database is       *)
(* closed.  An event is written in one transaction, or none of it is.      *)
(***************************************************************************)
EXTENDS Naturals, Sequences, FiniteSets

CONSTANTS
  Events,     \* the events of requests
  QueueSize,  \* capacity of the channel Store.events
  NoEvent

ASSUME StoreConstants ==
  /\ QueueSize \in Nat \ {0}
  /\ NoEvent \notin Events
  /\ "exited" \notin Events \cup {NoEvent}

VARIABLES
  queue,     \* Store.events
  closed,    \* Store.closed and the closed channel done, set under one lock
  writer,    \* the event writeLoop persists, NoEvent, or "exited"
  open,      \* the database is open
  written,   \* the events in request_history, each with its share of the totals
  failed,    \* the events counted in writeErrs
  accepted   \* history: the events EnqueueRequest took

storeVars == <<queue, closed, writer, open, written, failed, accepted>>

StoreTypeOK ==
  /\ queue \in Seq(Events) /\ Len(queue) <= QueueSize
  /\ closed \in BOOLEAN
  /\ writer \in Events \cup {NoEvent, "exited"}
  /\ open \in BOOLEAN
  /\ written \in SUBSET Events
  /\ failed \in SUBSET Events
  /\ accepted \in SUBSET Events

StoreInit ==
  /\ queue = <<>>
  /\ closed = FALSE
  /\ writer = NoEvent
  /\ open = TRUE
  /\ written = {}
  /\ failed = {}
  /\ accepted = {}
-----------------------------------------------------------------------------
\* Mutant: the store is asked for its lifecycle before the lock is taken.
EnqueueRequest_Unchecked(e) ==
  /\ IF Len(queue) < QueueSize
       THEN queue' = Append(queue, e) /\ accepted' = accepted \cup {e}
       ELSE UNCHANGED <<queue, accepted>>
  /\ UNCHANGED <<closed, writer, open, written, failed>>

(* ErrStoreClosed, ErrQueueFull, or nil: the caller only logs an error. *)
EnqueueRequest(e) ==
  /\ IF ~closed /\ Len(queue) < QueueSize
       THEN queue' = Append(queue, e) /\ accepted' = accepted \cup {e}
       ELSE UNCHANGED <<queue, accepted>>
  /\ UNCHANGED <<closed, writer, open, written, failed>>

(* writeLoop receives an event, before done is closed or after. *)
Receive ==
  /\ writer = NoEvent
  /\ queue # <<>>
  /\ writer' = Head(queue)
  /\ queue' = Tail(queue)
  /\ UNCHANGED <<closed, open, written, failed, accepted>>

(* persist, insertRequest: the transaction commits or is rolled back. *)
Persist ==
  /\ writer \in Events
  /\ \/ written' = written \cup {writer} /\ UNCHANGED failed
     \/ failed' = failed \cup {writer} /\ UNCHANGED written
  /\ writer' = NoEvent
  /\ UNCHANGED <<queue, closed, open, accepted>>

\* Mutant: the writer returns as soon as done is closed.
WriterExits_WithoutDrain ==
  /\ writer = NoEvent
  /\ closed
  /\ writer' = "exited"
  /\ UNCHANGED <<queue, closed, open, written, failed, accepted>>

(* The inner loop of writeLoop finds the queue empty. *)
WriterExits ==
  /\ writer = NoEvent
  /\ closed /\ queue = <<>>
  /\ writer' = "exited"
  /\ UNCHANGED <<queue, closed, open, written, failed, accepted>>

WriterStep == Receive \/ Persist \/ WriterExits

(* Close: under the lock, then wg.Wait and db.Close. *)
BeginClose ==
  /\ closed' = TRUE
  /\ UNCHANGED <<queue, writer, open, written, failed, accepted>>

FinishClose ==
  /\ closed /\ writer = "exited"
  /\ open' = FALSE
  /\ UNCHANGED <<queue, closed, writer, written, failed, accepted>>
-----------------------------------------------------------------------------
(* No accepted event is lost or kept twice: until the database is closed   *)
(* each is queued, in the writer's hands, written or counted as an error,  *)
(* and a closed database leaves none of them unsettled.                    *)
EventsSettled ==
  LET queued == {queue[i] : i \in 1..Len(queue)}
      inHand == {writer} \cap Events
  IN  /\ accepted = queued \cup inHand \cup written \cup failed
      /\ Len(queue) + Cardinality(inHand) + Cardinality(written)
           + Cardinality(failed) = Cardinality(accepted)
      /\ ~open => accepted = written \cup failed
=============================================================================
