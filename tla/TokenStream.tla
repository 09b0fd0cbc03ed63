---------------------------- MODULE TokenStream ----------------------------
(***************************************************************************)
(* One streamed completion of an LLM adapter: the background task StreamBg *)
(* calls the vendor, translates its server-sent events to chunks and sends *)
(* them through a bounded channel to the consumer; a watchdog keeps a      *)
(* second sender of the channel until the deadline.  The two adapters      *)
(* (Responses and Chat Completions) share the task and differ in the       *)
(* translation.                                                            *)
(***************************************************************************)
EXTENDS Integers, SequencesExt

CONSTANTS
  Capacity,   \* of the channel (64 in the code)
  ChatSends,  \* the events a Chat Completions vendor may send
  MaxEvents   \* bound: events the vendor sends

\* An event of Chat Completions: its finish_reason ("odd" is one nobody knows), the text
\* of its delta and how many tool calls it has (0 too if the first of them is blank).
Finishes   == {"none", "stop", "length", "content_filter", "tool_calls", "odd"}
ChatEvents == [finish : Finishes, text : {"absent", "empty", "some"}, calls : Nat]

ASSUME StreamAssumption ==
  /\ Capacity \in Nat \ {0}
  /\ ChatSends \subseteq ChatEvents
  /\ MaxEvents \in Nat

VARIABLES
  api,      \* which adapter: "responses" or "chat"
  task,     \* where StreamBg is
  watch,    \* the watchdog: "none", "on" until the deadline, then "off"
  rx,       \* the receiver: "none", "open", "dropped", "closed" (it returned None)
  sent,     \* the chunks put in the channel so far
  read,     \* how many of them the consumer has taken
  hand,     \* the chunk the task is sending
  calls,    \* has_function_call
  heard,    \* the events of the vendor so far
  events    \* the audit events

channel == <<rx, sent, read>>
streamVars == <<api, task, watch, channel, hand, calls, heard, events>>

Reasons == {"Stop", "ToolCalls", "MaxTokens", "ContentFilter"}
Terminal == Reasons \cup {"Error"}

\* Events of the vendor.  Of the Responses API: a piece of text, a function call that is
\* added, a piece of its arguments, and what the adapter skips, other items included.
Events ==
  [chat |-> ChatSends,
   responses |-> {"text", "call", "args", "quiet", "completed", "incomplete", "error"}]

\* A chunk is of an event of the vendor, by its number, or of the task itself: 0.
Chunk(kind, of) == [kind |-> kind, of |-> of]
NoChunk == Chunk("none", 0)

StreamInit ==
  /\ api \in {"chat", "responses"}
  /\ task = "idle"
  /\ watch = "none"
  /\ rx = "none" /\ sent = <<>> /\ read = 0
  /\ hand = NoChunk
  /\ calls = FALSE
  /\ heard = <<>>
  /\ events = <<>>

\* stream_complete: with the first key the task and, given a deadline, the watchdog
\* are spawned.
Open(deadline) ==
  /\ task = "idle"
  /\ events' = Append(events, "Requested")
  /\ task' = "call"
  /\ rx' = "open"
  /\ watch' = IF deadline THEN "on" ELSE "none"
  /\ UNCHANGED <<api, sent, read, hand, calls, heard>>

\* Without a key there is no stream.
Refuse ==
  /\ task = "idle"
  /\ events' = Append(events, "Requested")
  /\ task' = "over"
  /\ UNCHANGED <<api, watch, channel, hand, calls, heard>>

Become(next) ==
  /\ task' = next
  /\ UNCHANGED <<api, watch, channel, hand, calls, heard, events>>

Fail ==
  /\ task' = "failing"
  /\ hand' = Chunk("Error", 0)
  /\ UNCHANGED <<api, watch, channel, calls, heard, events>>

Accepted == task \in {"call", "again"} /\ Become("listen")
Rejected == task = "call" /\ Become("reseal")
CallFails == task \in {"call", "again"} /\ Fail
Resealed == task = "reseal" /\ Become("again")
ResealFails == task = "reseal" /\ Fail

\* has_function_call, which only the Responses adapter keeps: the item, not the pieces
\* of its arguments.
SawCall(event) == calls \/ (api = "responses" /\ event = "call")

FinishKind ==
  [stop |-> "Stop", length |-> "MaxTokens", content_filter |-> "ContentFilter",
   tool_calls |-> "ToolCalls", odd |-> "Error"]

\* map_chat_completions_sse_event: the finish_reason, else the text, else the first of
\* the tool calls.  What stands beside it is overlooked, and a text there is but empty
\* hides the tool calls.
ChatKind(event) ==
  CASE event.finish # "none" -> FinishKind[event.finish]
    [] event.finish = "none" /\ event.text = "some" -> "text"
    [] event.finish = "none" /\ event.text = "absent" /\ event.calls > 0 -> "call"
    [] OTHER -> "none"

\* map_responses_sse_event.
ResponsesKind(event) ==
  CASE event \in {"text", "call", "args"} -> event
    [] event = "quiet" -> "none"
    [] event = "error" -> "Error"
    [] event = "completed" -> IF calls THEN "ToolCalls" ELSE "Stop"
    [] event = "incomplete" -> IF calls THEN "ToolCalls" ELSE "MaxTokens"

\* The kind of chunk an event becomes.
KindOf(event) == IF api = "chat" THEN ChatKind(event) ELSE ResponsesKind(event)

Hear(event) ==
  /\ task = "listen"
  /\ Len(heard) < MaxEvents
  /\ heard' = Append(heard, event)
  /\ calls' = SawCall(event)
  /\ IF KindOf(event) = "none"
     THEN UNCHANGED <<task, hand>>
     ELSE task' = "send" /\ hand' = Chunk(KindOf(event), Len(heard) + 1)
  /\ UNCHANGED <<api, watch, channel, events>>

\* The sentinel [DONE] ends the task without a word.
Done == task = "listen" /\ Become("over")

\* The vendor closes the connection, or it breaks.
Closes == task = "listen" /\ Fail

HasRoom == Len(sent) - read < Capacity

\* Mutant: a chunk that finds the channel full is thrown away (try_send).
PutOrDrop ==
  /\ sent' = IF HasRoom THEN Append(sent, hand) ELSE sent
  /\ UNCHANGED <<rx, read>>

Put ==
  /\ HasRoom
  /\ sent' = Append(sent, hand)
  /\ UNCHANGED <<rx, read>>

AfterSend == IF hand.kind \in Reasons THEN "completed" ELSE "listen"

\* tx.send: it waits for room, and fails once the receiver is dropped.
Send ==
  /\ task = "send"
  /\ rx = "open"
  /\ Put
  /\ task' = AfterSend
  /\ UNCHANGED <<api, watch, hand, calls, heard, events>>

SendFails == task = "send" /\ rx = "dropped" /\ Become("cancelled")

\* Mutant: the audit event of a failure goes out, the chunk does not.
OnlyTicket ==
  /\ task = "failing"
  /\ task' = "failed"
  /\ UNCHANGED <<api, watch, channel, hand, calls, heard, events>>

\* fail_terminal: the chunk first; a dropped receiver is ignored.
SendError ==
  /\ task = "failing"
  /\ task' = "failed"
  /\ \/ rx = "open" /\ Put
     \/ rx = "dropped" /\ UNCHANGED channel
  /\ UNCHANGED <<api, watch, hand, calls, heard, events>>

\* fail_terminal, cancelled_terminal and completed_terminal: the audit event, then
\* the task ends and drops its sender.
Stamp(stage, ticket) ==
  /\ task = stage
  /\ events' = Append(events, ticket)
  /\ task' = "over"
  /\ UNCHANGED <<api, watch, channel, hand, calls, heard>>

Finish == Stamp("failed", "Failed") \/ Stamp("cancelled", "Cancelled")
            \/ Stamp("completed", hand.kind)

\* The deadline: the watchdog drops its sender.
Expire ==
  /\ watch = "on"
  /\ watch' = "off"
  /\ UNCHANGED <<api, task, channel, hand, calls, heard, events>>

\* Who still has a sender of the channel.
Senders ==
  (IF task \in {"idle", "over"} THEN {} ELSE {"StreamBg"})
    \cup (IF watch = "on" THEN {"watchdog"} ELSE {})

\* The consumer takes the next chunk, or None from an empty channel with no sender.
Recv ==
  /\ rx = "open"
  /\ \/ read < Len(sent) /\ read' = read + 1 /\ UNCHANGED rx
     \/ read = Len(sent) /\ Senders = {} /\ rx' = "closed" /\ UNCHANGED read
  /\ UNCHANGED <<api, task, watch, sent, hand, calls, heard, events>>

DropReceiver ==
  /\ rx = "open"
  /\ rx' = "dropped"
  /\ UNCHANGED <<api, task, watch, sent, read, hand, calls, heard, events>>

Vendor ==
  \/ Accepted \/ Rejected \/ CallFails \/ Done \/ Closes
  \/ \E event \in Events[api] : Hear(event)

Working == Resealed \/ ResealFails \/ Send \/ SendFails \/ SendError \/ Finish

StreamNext ==
  \/ \E deadline \in BOOLEAN : Open(deadline)
  \/ Refuse \/ Vendor \/ Working \/ Expire \/ Recv \/ DropReceiver

StreamSpec == StreamInit /\ [][StreamNext]_streamVars

\* The task is polled, the deadline passes and the consumer reads in a loop; there is
\* no limit to how long the vendor may take (the client has no timeout).
PolledSpec == StreamSpec /\ WF_streamVars(Working) /\ WF_streamVars(Expire) /\ WF_streamVars(Recv)

-----------------------------------------------------------------------------
Chunks == [kind : {"text", "call", "args"} \cup Terminal, of : 0..MaxEvents]

\* Types; the channel never holds more than its capacity.
StreamTypeOK ==
  /\ api \in {"chat", "responses"}
  /\ task \in {"idle", "call", "reseal", "again", "listen", "send", "failing", "failed",
               "cancelled", "completed", "over"}
  /\ watch \in {"none", "on", "off"}
  /\ rx \in {"none", "open", "dropped", "closed"}
  /\ sent \in Seq(Chunks) /\ read \in 0..Len(sent) /\ Len(sent) - read <= Capacity
  /\ hand \in Chunks \cup {NoChunk}
  /\ calls \in BOOLEAN
  /\ heard \in Seq(Events[api])
  /\ events \in Seq({"Requested", "Failed", "Cancelled"} \cup Reasons)

\* What an event carries is owed to the consumer, but for tool calls beside an empty text,
\* which the chat mapper overlooks.
Carries(event) ==
  IF api = "chat"
  THEN \/ event.finish # "none" \/ event.text = "some"
       \/ event.calls > 0 /\ event.text # "empty"
  ELSE event # "quiet"

Due(i)  == i \in 1..Len(heard) /\ Carries(heard[i])
Told(i) == \E k \in 1..Len(sent) : sent[k].of = i

\* Of every event that carries something a consumer that stays gets one chunk, in order,
\* however slowly it reads (streaming.rs run: the runner waits at the desk until the
\* consumer catches up).
NothingLost ==
  /\ \A k \in 1..Len(sent) : sent[k].of # 0 =>
       Due(sent[k].of) /\ \A j \in 1..k - 1 : sent[j].of < sent[k].of
  /\ \A i \in 1..Len(heard) : Due(i) =>
       \/ Told(i)
       \/ /\ rx = "dropped" \/ (task = "send" /\ i = Len(heard))
          /\ \A k \in 1..Len(sent) : sent[k].of < i

Ending == IF sent = <<>> THEN NoChunk ELSE Last(sent)

\* The audit trail tells what the consumer was told: one closing event, the reason of
\* the Finished chunk that was the last, or a failure after an Error chunk, or a
\* cancellation of a consumer that left (streaming.rs fail_terminal,
\* cancelled_terminal, completed_terminal).
AuditTrue ==
  Len(events) > 1 =>
    /\ Len(events) = 2
    /\ \/ events[2] \in Reasons /\ Ending.kind = events[2]
       \/ events[2] = "Failed" /\ (rx = "dropped" \/ Ending = Chunk("Error", 0))
       \/ events[2] = "Cancelled" /\ rx = "dropped"

\* Nothing follows a Finished chunk (stream.rs CompletionChunk::Finished).
FinishedIsLast == \A i \in 1..Len(sent) - 1 : sent[i].kind \notin Reasons

\* A stream of the Responses adapter ends with ToolCalls just when the beginning of a
\* function call was among what it gave to the consumer, which waits for one then
\* (streaming.rs map_responses_sse_event).
ToolsNamed ==
  \A i \in 1..Len(sent) :
    api = "responses" /\ sent[i].kind \in Reasons =>
      (sent[i].kind = "ToolCalls" <=> \E j \in 1..i : sent[j].kind = "call")

\* The task ends, and the consumer that stays gets its None
\* (streaming.rs run; responses_adapter.rs stream_complete).
Released == task = "call" ~> task = "over" /\ rx \in {"dropped", "closed"}

-----------------------------------------------------------------------------
\* The claim of StreamBg and of the watchdog: at the deadline the in-box is closed.
DeadlineCloses == watch = "off" ~> rx # "open"
=============================================================================
