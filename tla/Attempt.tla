------------------------------ MODULE Attempt ------------------------------
(***************************************************************************)
(* One provider's answer on its way from the provider's output to the      *)
(* client's bytes: the runner (executeCLI in internal/providers/runner.go, *)
(* with the HTTP and ACP transports) reads messages, turns them into       *)
(* events in a bounded channel and retries while it has emitted nothing;   *)
(* the handler (streamChat, streamResponses, streamAnthropic and           *)
(* collectProviderResponse in internal/server) turns events into the       *)
(* protocol of the client's API.  Module Chat has what surrounds this: the *)
(* candidates and the health record.                                       *)
(***************************************************************************)
EXTENDS Naturals, Sequences, SequencesExt

CONSTANTS
  Messages,     \* what a provider may print: sets of Contents
  Tries,        \* the number of tries the configuration allows
  Buffer,       \* capacity of the channel of events
  MaxMessages   \* bound of the output of a try

Contents == {"text", "tools", "empty", "error", "done"}
APIs     == {"chat", "responses", "messages", "plain"}

ASSUME AttemptAssumption ==
  /\ Messages \subseteq SUBSET Contents
  /\ Tries \in Nat \ {0} /\ Buffer \in Nat \ {0} /\ MaxMessages \in Nat

VARIABLES
  api,        \* the stream's protocol, or "plain" for a response in one piece
  transport,  \* "cli", "http", "acp" or "cursor", an ACP client of its own
  try,        \* the number of the current try
  late,       \* the last try whose context was done while it ran, or 0
  read,       \* the messages read in it
  emitted,    \* the runner's emitted flag
  bad,        \* the try's error: parseErr, providerErr
  run,        \* the goroutine: "reading", "finishing", "ended" or "failed"
  channel,    \* the channel of events: sets of "text", "tools", "empty", "done"
  spoken,     \* the texts the try printed, for a stream those before a "done"
  early,      \* the provider itself said that it is done
  phase,      \* the handler: "first", "body", "closing" or "ended"
  tools,      \* a responses stream holds tool calls back
  heard,      \* the texts that were written
  wire,       \* the kinds of what was written, in order
  outcome,    \* of the attempt: "none", "ok" or "error"
  gone        \* the request's context is done

provider == <<try, late, read, emitted, bad, run, spoken, early>>
handler  == <<phase, tools, heard, wire, outcome>>
attemptVars == <<api, transport, provider, channel, handler, gone>>

AttemptInit ==
  /\ api \in APIs /\ transport \in {"cli", "http", "acp", "cursor"}
  /\ try = 1 /\ late = 0 /\ read = 0 /\ emitted = FALSE /\ bad = FALSE
  /\ run = "reading" /\ channel = <<>> /\ spoken = 0 /\ early = FALSE
  /\ phase = IF api \in {"chat", "responses"} THEN "first" ELSE "body"
  /\ tools = FALSE /\ heard = 0 /\ wire = <<>> /\ outcome = "none"
  /\ gone = FALSE
-----------------------------------------------------------------------------
(* What a message turns into: an event, whether it sets the emitted flag,  *)
(* and whether it is an error.                                             *)

Sends(event, counts) == [sends |-> TRUE, event |-> event, counts |-> counts, error |-> FALSE]
Failing == [sends |-> FALSE, event |-> {}, counts |-> FALSE, error |-> TRUE]
Silent  == [sends |-> FALSE, event |-> {}, counts |-> FALSE, error |-> FALSE]

(* structuredErrorDepth and providerOutputError: an error object, a rate   *)
(* limit, or text that reads like a quota or login message.                *)
StructuredError(m) == "error" \in m

(* responseText looks for text in half a dozen places of the message. *)
ResponseText(m) == "text" \in m

ParseToolCalls(m) == m \cap {"tools"}

(* parseLineAndMaybeEmitContext: a line of a CLI.  Text hides tool calls   *)
(* of the same message; an empty content sends them, but does not count.   *)
ParseLine(m) ==
  CASE StructuredError(m)     -> Failing
    [] ResponseText(m)        -> Sends({"text"}, TRUE)
    [] "empty" \in m          -> Sends(ParseToolCalls(m) \cup {"empty"}, FALSE)
    [] ParseToolCalls(m) # {} -> Sends(ParseToolCalls(m), TRUE)
    [] "done" \in m           -> Sends({"done"}, FALSE)
    [] OTHER                  -> Silent

(* readHTTPStream, or the one message of a plain HTTP response. *)
ParseChunk(m) ==
  LET event == m \cap {"text", "tools"}
  IN  IF "error" \in m THEN Failing ELSE IF event = {} THEN Silent ELSE Sends(event, TRUE)

(* The update callbacks of the ACP clients take text only. *)
ParseUpdate(m) ==
  CASE "error" \in m -> Failing
    [] "text" \in m  -> Sends({"text"}, TRUE)
    [] OTHER         -> Silent

Parse(m) ==
  CASE transport = "cli" -> ParseLine(m)
    [] transport = "http" -> ParseChunk(m)
    [] OTHER -> ParseUpdate(m)
-----------------------------------------------------------------------------
(* The runner.                                                             *)

(* A responses stream looks for the end from its second event on. *)
Ignored(event) == "done" \in event /\ api = "responses" /\ phase = "first"

(* The context of a try has the provider's timeout. *)
Expired == gone \/ late = try

Speak(event) ==
  spoken' = IF "text" \in event /\ (api = "plain" \/ ~early) THEN spoken + 1 ELSE spoken

(* An event is sent, or dropped once its context is over, even if there is *)
(* room.                                                                   *)
Send(event, over) ==
  \/ Len(channel) < Buffer /\ channel' = Append(channel, event)
  \/ over /\ UNCHANGED channel

Sent == channel' # channel

(* The provider itself says that it is done, and a handler will believe it.*)
Announces(event) == "done" \in event /\ ~(Ignored(event) /\ channel = <<>>)

\* Mutant: every client forgets what it sent when the context is done.
Read_ForgetsWhenLate(m) ==
  /\ run = "reading" /\ read < MaxMessages
  /\ transport = "http" => ~bad
  /\ read' = read + 1
  /\ LET parsed == Parse(m) IN
       /\ IF parsed.sends THEN Send(parsed.event, Expired) /\ Speak(parsed.event)
                          ELSE UNCHANGED <<channel, spoken>>
       /\ early' = (early \/ (parsed.sends /\ Sent /\ Announces(parsed.event)))
       /\ emitted' = (emitted \/ (parsed.counts /\ Sent /\ ~Expired))
       /\ bad' = (bad \/ parsed.error \/ (transport = "http" /\ parsed.sends /\ ~Sent))
  /\ UNCHANGED <<api, transport, try, late, run, handler, gone>>

(* The cursor client forgets what it sent when the context is done by      *)
(* then.  An HTTP reader stops at an error and at a dropped event, the     *)
(* others read on.                                                         *)
Read(m) ==
  /\ run = "reading" /\ read < MaxMessages
  /\ transport = "http" => ~bad
  /\ read' = read + 1
  /\ LET parsed == Parse(m) IN
       /\ IF parsed.sends THEN Send(parsed.event, Expired) /\ Speak(parsed.event)
                          ELSE UNCHANGED <<channel, spoken>>
       /\ early' = (early \/ (parsed.sends /\ Sent /\ Announces(parsed.event)))
       /\ emitted' = (emitted \/ (parsed.counts /\ Sent /\ (transport = "cursor" => ~Expired)))
       /\ bad' = (bad \/ parsed.error \/ (transport = "http" /\ parsed.sends /\ ~Sent))
  /\ UNCHANGED <<api, transport, try, late, run, handler, gone>>

(* The timeout of the provider. *)
Timeout ==
  /\ run = "reading" /\ ~Expired
  /\ late' = try
  /\ UNCHANGED <<api, transport, try, read, emitted, bad, run, spoken, early, channel, handler, gone>>

(* The try ends: an exit status, a result, a broken connection.  An error  *)
(* is that of the process, of its output, or that it was empty.            *)
Complete == emitted /\ ~bad

(* Only a CLI is asked for the context at the end. *)
Succeeds == Complete /\ (transport = "cli" => ~Expired)

Succeed ==
  /\ run = "reading" /\ Succeeds
  /\ run' = "finishing"
  /\ UNCHANGED <<api, transport, try, late, read, emitted, bad, spoken, early, channel, handler, gone>>

\* Mutant: a try that was heard is retried.
MayRetry_Always == try < Tries /\ ~gone

(* executeCLI: another try unless this one has emitted. *)
MayRetry == ~emitted /\ try < Tries /\ ~gone

Retry ==
  /\ run = "reading" /\ MayRetry
  /\ try' = try + 1
  /\ read' = 0 /\ bad' = FALSE /\ emitted' = FALSE /\ spoken' = 0
  /\ UNCHANGED <<api, transport, late, run, early, channel, handler, gone>>

Fail ==
  /\ run = "reading" /\ ~MayRetry
  /\ run' = "failed"
  /\ UNCHANGED <<api, transport, try, late, read, emitted, bad, spoken, early, channel, handler, gone>>

(* The last event of a success, for as long as the request lasts; the      *)
(* channels are closed.                                                    *)
Done ==
  /\ run = "finishing"
  /\ Send({"done"}, gone)
  /\ run' = "ended"
  /\ UNCHANGED <<api, transport, try, late, read, emitted, bad, spoken, early, handler, gone>>
-----------------------------------------------------------------------------
(* What the handlers write.                                                *)

(* responsesStreamState: the message item is opened with the first text,   *)
(* or at the end if there are no tool calls either.                        *)
ItemOpen == \E k \in DOMAIN wire : wire[k] = "part"
OpenItem == IF ItemOpen THEN <<>> ELSE <<"item", "part">>

\* Mutant: every delta opens the message item.
ResponsesDelta_Reopens(event) ==
  IF "text" \in event THEN <<"item", "part", "delta">> ELSE <<>>

ResponsesDelta(event) == IF "text" \in event THEN OpenItem \o <<"delta">> ELSE <<>>

ResponsesFinish ==
  LET close == <<"text_done", "part_done", "item_done">>
  IN  (CASE ItemOpen          -> close
         [] ~ItemOpen /\ tools -> <<>>
         [] OTHER             -> OpenItem \o close)
      \o (IF tools THEN <<"call">> ELSE <<>>) \o <<"completed", "eof">>

(* startStream of the messages API, before its first text or its end. *)
StartMessage ==
  IF wire = <<>> THEN <<"message_start", "block_start", "ping">> ELSE <<>>

MessagesDelta(event) ==
  IF "text" \in event THEN StartMessage \o <<"block_delta">> ELSE <<>>

MessagesStop == StartMessage \o <<"block_stop", "message_delta", "message_stop">>

ChatDelta(event) == IF event \cap {"text", "tools"} # {} THEN <<"chunk">> ELSE <<>>

Opening == CASE api = "chat"      -> <<"role">>
             [] api = "responses" -> <<"created", "in_progress">>
             [] OTHER             -> <<>>

Delta(event) == CASE api = "chat"      -> ChatDelta(event)
                  [] api = "responses" -> ResponsesDelta(event)
                  [] OTHER             -> MessagesDelta(event)

(* What tells the client of an error once output has begun. *)
Failure == CASE api = "chat"      -> <<"error", "eof">>
             [] api = "responses" -> <<"error", "failed", "eof">>
             [] OTHER             -> IF wire = <<>> THEN <<>> ELSE <<"error">>
-----------------------------------------------------------------------------
(* The handlers.                                                           *)

Take == channel' = Tail(channel)
End(how) == phase' = "ended" /\ outcome' = how /\ gone' = TRUE

Hears(event) ==
  /\ heard' = IF "text" \in event THEN heard + 1 ELSE heard
  /\ tools' = (tools \/ (api = "responses" /\ "tools" \in event))

(* An event; the first one of a chat or responses stream commits the       *)
(* headers, whatever it is.                                                *)
TakeEvent ==
  /\ phase \in {"first", "body"} /\ api # "plain"
  /\ channel # <<>>
  /\ "done" \notin Head(channel) \/ Ignored(Head(channel))
  /\ Take
  /\ Hears(Head(channel))
  /\ wire' = wire \o (IF phase = "first" THEN Opening ELSE <<>>) \o Delta(Head(channel))
  /\ phase' = "body"
  /\ UNCHANGED <<api, transport, provider, outcome, gone>>

HasDone ==
  /\ phase \in {"first", "body"}
  /\ channel # <<>> /\ "done" \in Head(channel) /\ ~Ignored(Head(channel))
  /\ Take
  /\ UNCHANGED <<api, transport, provider, tools, heard>>

ChatEnds ==
  /\ api = "chat" /\ HasDone
  /\ wire' = wire \o (IF phase = "first" THEN Opening ELSE <<>>) \o <<"finish", "eof">>
  /\ End("ok")

(* The responses stream waits for the channel of errors to close ... *)
ResponsesDone ==
  /\ api = "responses" /\ HasDone
  /\ phase' = "closing"
  /\ UNCHANGED <<outcome, gone, wire>>

ResponsesEnds ==
  /\ api = "responses" /\ phase = "closing" /\ run = "ended"
  /\ wire' = wire \o ResponsesFinish
  /\ End("ok")
  /\ UNCHANGED <<api, transport, provider, channel, tools, heard>>

(* ... and so does the messages stream, after it has said that it is over. *)
MessagesDone ==
  /\ api = "messages" /\ HasDone
  /\ wire' = wire \o MessagesStop
  /\ phase' = "closing"
  /\ UNCHANGED <<outcome, gone>>

MessagesEnds ==
  /\ api = "messages" /\ phase = "closing" /\ run = "ended"
  /\ End("ok")
  /\ UNCHANGED <<api, transport, provider, channel, tools, heard, wire>>

(* collectProviderResponse takes all events until both channels close. *)
Collect ==
  /\ api = "plain" /\ phase = "body" /\ channel # <<>>
  /\ Take
  /\ Hears(Head(channel))
  /\ UNCHANGED <<api, transport, provider, phase, wire, outcome, gone>>

Respond ==
  /\ api = "plain" /\ phase = "body" /\ channel = <<>> /\ run = "ended"
  /\ wire' = <<"body">>
  /\ End("ok")
  /\ UNCHANGED <<api, transport, provider, channel, tools, heard>>

(* The attempt fails: an error of the runner, in any order with the events *)
(* before it, the channel that closes without a last event, or the timer,  *)
(* which a responses stream has for its first event only.                  *)
Breaks ==
  /\ phase \in {"first", "body", "closing"}
  /\ \/ run = "failed"
     \/ run = "ended" /\ channel = <<>> /\ phase # "closing" /\ api # "plain"
     \/ api # "responses" \/ phase = "first"
  /\ wire' = IF gone \/ api = "plain" \/ phase = "first" THEN wire ELSE wire \o Failure
  /\ End("error")
  /\ UNCHANGED <<api, transport, provider, channel, tools, heard>>

(* The context, or a write to a client that is gone. *)
Leave ==
  /\ ~gone /\ gone' = TRUE
  /\ late' = IF run = "reading" THEN try ELSE late
  /\ UNCHANGED <<api, transport, try, read, emitted, bad, run, spoken, early, channel, handler>>

HandlerGivesUp ==
  /\ gone /\ phase # "ended"
  /\ End("error")
  /\ UNCHANGED <<api, transport, provider, channel, tools, heard, wire>>
-----------------------------------------------------------------------------
Runner  == (\E m \in Messages : Read(m)) \/ Timeout \/ Succeed \/ Retry \/ Fail \/ Done
Handler ==
  \/ TakeEvent \/ ChatEnds \/ ResponsesDone \/ ResponsesEnds \/ MessagesDone \/ MessagesEnds
  \/ Collect \/ Respond \/ Breaks \/ HandlerGivesUp

AttemptNext == Runner \/ Handler \/ Leave

AttemptSpec == AttemptInit /\ [][AttemptNext]_attemptVars

AttemptTypeOK ==
  /\ try \in 1..Tries /\ read \in 0..MaxMessages
  /\ run \in {"reading", "finishing", "ended", "failed"}
  /\ channel \in Seq(SUBSET Contents) /\ Len(channel) <= Buffer
  /\ phase \in {"first", "body", "closing", "ended"}
  /\ outcome \in {"none", "ok", "error"}
-----------------------------------------------------------------------------
(* Properties.                                                             *)

(* The order in which each protocol allows its events. *)
Follows ==
  CASE api = "chat" ->
         [role |-> {"chunk", "finish", "error"}, chunk |-> {"chunk", "finish", "error"},
          finish |-> {"eof"}, error |-> {"eof"}, eof |-> {}]
    [] api = "responses" ->
         [created |-> {"in_progress"},
          in_progress |-> {"item", "call", "error"}, item |-> {"part"},
          part |-> {"delta", "text_done"}, delta |-> {"delta", "text_done", "error"},
          text_done |-> {"part_done"}, part_done |-> {"item_done"},
          item_done |-> {"call", "completed"}, call |-> {"completed"},
          completed |-> {"eof"}, error |-> {"failed"}, failed |-> {"eof"}, eof |-> {}]
    [] OTHER ->
         [message_start |-> {"block_start"}, block_start |-> {"ping"},
          ping |-> {"block_delta", "block_stop"},
          block_delta |-> {"block_delta", "block_stop", "error"},
          block_stop |-> {"message_delta"}, message_delta |-> {"message_stop"},
          message_stop |-> {"error"}, error |-> {}]

Ordered ==
  \A k \in 1..(Len(wire) - 1) : wire[k + 1] \in Follows[wire[k]]

(* A stream is a sentence of its protocol whatever the provider prints and *)
(* wherever the attempt breaks: items are opened before and closed after   *)
(* their text, and the one last event comes once and last, so that no      *)
(* client waits for an end that was written or reads past it.  The         *)
(* comment of writeAnthropicStreamEvent (anthropic.go:451) asks for        *)
(* "spec-shaped" events.  A messages stream has said its last word before  *)
(* it knows that the provider ended well: an error may still follow.       *)
WellFormed ==
  api # "plain" =>
    /\ Ordered
    /\ outcome = "ok" => Last(wire) \in {"eof", "message_stop"}

(* A success has all the text that the successful try printed before its   *)
(* end, and no text of an earlier try: the channels may be read and closed *)
(* in any order, and a try is repeated only if nothing of it was heard.    *)
(* A try whose context ends while it runs is the exception, if an ACP      *)
(* client, or for a stream the provider's own end, makes a success of it.  *)
TextKept ==
  outcome = "ok" /\ (late = 0 \/ (transport \in {"cli", "http"} /\ (api = "plain" \/ ~early)))
    => heard = spoken

(* Nothing the client has been or will be sent is said again by a later    *)
(* try: the emitted flag is set for every text that enters the channel, at *)
(* whatever moment the try's own deadline, an error or the handler comes   *)
(* between.  What a CLI sends without counting it, a tool call with an     *)
(* empty content or its own end, is not text; and the cursor client, once  *)
(* a deadline has passed, may have sent what it does not count             *)
(* (cursor_acp.go:117-124).                                                *)
RetriesUnheard ==
  [][Retry => \/ transport = "cursor" /\ late # 0
              \/ /\ heard = 0
                 /\ \A k \in DOMAIN channel : "text" \notin channel[k]
                 /\ transport # "cli" => wire = <<>> /\ channel = <<>>]_attemptVars

(* The same without the exception.  It is broken in two ways: a client     *)
(* drops an update when the context is done and then takes the result, and *)
(* the cursor client sends one without counting it as emitted, so that the *)
(* next try says it again.                                                 *)
TextExact == outcome = "ok" => heard = spoken

(* docs/implementation-status.md:19: "retries before a stream commits      *)
(* headers".  No try begins once there was something for the client.       *)
RetriesBeforeHeaders == [][Retry => wire = <<>> /\ channel = <<>>]_attemptVars
=============================================================================
