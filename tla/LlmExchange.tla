---------------------------- MODULE LlmExchange ----------------------------
(***************************************************************************)
(* complete of the two LLM adapters without the key (that is KeyHolder):   *)
(* the request is translated for the vendor, the vendor's answer or error  *)
(* back, and the audit events carry an estimate of the prompt's tokens     *)
(* that one call leaves for the next behind a mutex of its own.            *)
(*                                                                         *)
(* The Responses and the Chat Completions adapter are two programs with    *)
(* one shape: what differs is defined for each.                            *)
(***************************************************************************)
EXTENDS Integers, SequencesExt

CONSTANTS
  CompleteCalls,  \* calls of complete, of one adapter
  Requests,   \* what callers ask
  Answers,    \* what a vendor of each adapter may answer with 200
  Statuses,   \* HTTP statuses of its errors, with the code in the body
  Absent      \* no estimate, no system prompt

ASSUME AnswerAssumption ==
  /\ DOMAIN Answers = {"responses", "chat"}
  /\ \A vendor \in DOMAIN Answers : \A answer \in Answers[vendor] :
       /\ answer.usage \in Nat
       /\ answer.items \in Seq([type : STRING, calls : Nat, stop : STRING]
                               \cup [text : BOOLEAN, calls : Nat, stop : STRING])
ASSUME StatusAssumption ==
  \A s \in Statuses : s # Absent /\ s.status \in Nat

VARIABLES
  adapter,    \* which adapter
  exchangePc,  \* where each call is
  request,    \* CompletionRequest
  body,       \* what went to the vendor
  estimate,   \* last_prompt_estimate
  guess,      \* the estimate each call read
  given,      \* the vendor's answer, or its status and code
  failure,    \* LlmErrorV1 of the call
  response,   \* CompletionResponse of the call
  trail       \* the audit events, in the order of the bus

wire         == <<request, body, given>>
exchangeVars == <<adapter, exchangePc, wire, estimate, guess, failure, response, trail>>

EInit ==
  /\ adapter \in DOMAIN Answers
  /\ exchangePc = [c \in CompleteCalls |-> "idle"]
  /\ request = [c \in CompleteCalls |-> Absent]
  /\ body = [c \in CompleteCalls |-> Absent]
  /\ estimate = Absent
  /\ guess = [c \in CompleteCalls |-> Absent]
  /\ given = [c \in CompleteCalls |-> Absent]
  /\ failure = [c \in CompleteCalls |-> "none"]
  /\ response = [c \in CompleteCalls |-> Absent]
  /\ trail = <<>>

ExchangeGoto(c, next) == exchangePc' = [exchangePc EXCEPT ![c] = next]

-----------------------------------------------------------------------------
(* The request                                                              *)

ImageData    == {"url", "base64"}
ContentBlock == {"text"} \cup ImageData

ConversationItem == [from : {"user", "assistant", "tool"}, content : Seq(ContentBlock)]

CompletionRequest ==
  [system : {Absent, "", "system"}, messages : Seq(ConversationItem),
   tools : SUBSET STRING]

ASSUME RequestAssumption == Requests \subseteq CompletionRequest

\* map_block of each adapter, by the type the vendor is told.
ResponsesBlock == [text |-> "text", url |-> "image_url", base64 |-> "input_image"]
ChatBlock      == [text |-> "text", url |-> "image_url", base64 |-> "image_url"]

\* map_message
Message(item, block) ==
  [role |-> item.from, content |-> [i \in DOMAIN item.content |-> block[item.content[i]]]]

Messages(items, block) == [i \in DOMAIN items |-> Message(items[i], block)]

\* map_request_to_responses: the system prompt is not in it.
ResponsesBody(q) == [input |-> Messages(q.messages, ResponsesBlock), tools |-> q.tools]

SystemMessage == [role |-> "system", content |-> <<"text">>]

\* map_request: an empty system prompt is left out.
ChatBody(q) ==
  LET system == IF q.system \in {Absent, ""} THEN <<>> ELSE <<SystemMessage>>
  IN  [input |-> system \o Messages(q.messages, ChatBlock), tools |-> q.tools]

Body(q) == IF adapter = "chat" THEN ChatBody(q) ELSE ResponsesBody(q)

-----------------------------------------------------------------------------
(* The answer                                                               *)

\* parse_usage: what the vendor does not say is 0.
PromptTokens(answer) == answer.usage

Stops == [stop |-> "Stop", tool_calls |-> "ToolCalls", content_filter |-> "ContentFilter"]

\* parse_finish_reason: of the first item; what is unknown or missing is a stop.
ReasonOf(items, known) ==
  IF items # <<>> /\ items[1].stop \in DOMAIN known THEN known[items[1].stop] ELSE "Stop"

ResponsesReason(items) == ReasonOf(items, Stops @@ ("max_tokens" :> "MaxTokens"))

ChatReason(items) == ReasonOf(items, Stops @@ ("length" :> "MaxTokens"))

Reason(answer) ==
  IF adapter = "chat" THEN ChatReason(answer.items) ELSE ResponsesReason(answer.items)

FirstWhere(items, P(_)) ==
  LET hits == {i \in DOMAIN items : P(items[i])}
  IN  IF hits = {} THEN 0 ELSE Min(hits)

\* A reply is named by the item of the answer it is from, 0 the empty string;
\* a call by its item and its place there.
Reply(i)   == [kind |-> "TextReply", text |-> i, calls |-> <<>>]
Called(cs) == [kind |-> "ToolCalls", text |-> 0, calls |-> cs]

CallsOf(items, i) == [k \in 1..items[i].calls |-> <<i, k>>]

AllCalls(items) == FlattenSeq([i \in DOMAIN items |-> CallsOf(items, i)])

ToolCalls(items) == AllCalls(items)

\* map_response: any tool call makes the answer one of tool calls; else it is the
\* first message, or the vendor's output_text.
ResponsesReply(answer) ==
  IF ToolCalls(answer.items) # <<>> THEN Called(ToolCalls(answer.items))
  ELSE LET first == FirstWhere(answer.items, LAMBDA item : item.type = "message")
       IN  IF first = 0 /\ answer.output_text THEN Reply(-1) ELSE Reply(first)

\* map_response: the first text that is not empty.
ChatReply(answer) ==
  IF ToolCalls(answer.items) # <<>> THEN Called(ToolCalls(answer.items))
  ELSE Reply(FirstWhere(answer.items, LAMBDA item : item.text))

CompletionResponse(answer) ==
  IF adapter = "chat" THEN ChatReply(answer) ELSE ResponsesReply(answer)

\* map_http_error
BadRequest ==
  [context_length_exceeded  |-> "ContextLengthExceeded",
   tool_not_found           |-> "ToolNotFound",
   content_policy_violation |-> "ContentPolicyViolation"]

\* The Responses adapter has no case of its own for 408.
ResponsesError(status, code) ==
  CASE status = 401 -> "AuthenticationFailed"
    [] status = 404 -> IF code = "model_not_found" THEN "ModelNotFound"
                       ELSE "InvalidRequest"
    [] status = 429 -> IF code = "quota_exceeded" THEN "QuotaExhausted" ELSE "RateLimited"
    [] status = 400 -> IF code \in DOMAIN BadRequest THEN BadRequest[code]
                       ELSE "InvalidRequest"
    [] status \in 500..599 -> "UpstreamUnavailable"
    [] OTHER -> "Internal"

ChatError(status, code) ==
  IF status = 408 THEN "Timeout" ELSE ResponsesError(status, code)

HttpError(s) ==
  IF adapter = "chat" THEN ChatError(s.status, s.code)
  ELSE ResponsesError(s.status, s.code)

\* LlmErrorV1::kind, what a workflow decides by.
ErrorKind ==
  [AuthenticationFailed |-> "Unauthorized", RateLimited |-> "Unavailable",
   QuotaExhausted |-> "Unavailable", UpstreamUnavailable |-> "Unavailable",
   StreamInterrupted |-> "Unavailable", Timeout |-> "Timeout",
   ContextLengthExceeded |-> "CapabilityUnsupported",
   ContentPolicyViolation |-> "CapabilityUnsupported",
   ModelNotFound |-> "NotFound", ToolNotFound |-> "NotFound",
   InvalidRequest |-> "Internal", MalformedResponse |-> "Internal", Internal |-> "Internal"]

-----------------------------------------------------------------------------
(* complete                                                                 *)

HasImages(q) ==
  \E i \in DOMAIN q.messages : Range(q.messages[i].content) \cap ImageData # {}

CompletionRequested(c) ==
  [event |-> "Requested", of |-> c, prompt |-> guess[c],
   has_tools |-> request[c].tools # {}, has_images |-> HasImages(request[c])]

CompletionCompleted(c, answer) ==
  [event |-> "Completed", of |-> c, prompt |-> PromptTokens(answer), reason |-> Reason(answer)]

CompletionFailed(c) == [event |-> "Failed", of |-> c, error |-> failure[c]]

PublishEvent(event) == trail' = Append(trail, event)

\* publish_requested reads the estimate and lets go of the mutex ...
Ask(c, q) ==
  /\ exchangePc[c] = "idle"
  /\ request' = [request EXCEPT ![c] = q]
  /\ guess' = [guess EXCEPT ![c] = estimate]
  /\ ExchangeGoto(c, "request")
  /\ UNCHANGED <<adapter, body, given, estimate, failure, response, trail>>

\* ... before it publishes.
PublishRequested(c) ==
  /\ exchangePc[c] = "request"
  /\ PublishEvent(CompletionRequested(c))
  /\ body' = [body EXCEPT ![c] = Body(request[c])]
  /\ ExchangeGoto(c, "wire")
  /\ UNCHANGED <<adapter, request, given, estimate, guess, failure, response>>

\* Mutant: the estimate is left before the event is out.
LeaveFirst(stage, answer) ==
  estimate' = IF stage = "wire" THEN PromptTokens(answer) ELSE estimate

LeaveEstimate(stage, answer) ==
  estimate' = IF stage = "published" THEN PromptTokens(answer) ELSE estimate

\* call_vendor: an answer with 200 that is JSON.
Receive(c) ==
  /\ exchangePc[c] = "wire"
  /\ \E answer \in Answers[adapter] :
       /\ given' = [given EXCEPT ![c] = answer]
       /\ LeaveEstimate("wire", answer)
  /\ ExchangeGoto(c, "answered")
  /\ UNCHANGED <<adapter, request, body, guess, failure, response, trail>>

Fails(c, kind) ==
  /\ failure' = [failure EXCEPT ![c] = kind]
  /\ ExchangeGoto(c, "failed")
  /\ UNCHANGED <<adapter, request, body, estimate, guess, response, trail>>

\* call_vendor: another status.
Refused(c) ==
  /\ exchangePc[c] = "wire"
  /\ \E s \in Statuses :
       /\ given' = [given EXCEPT ![c] = s]
       /\ Fails(c, HttpError(s))

\* call_vendor: no connection, a body that breaks off, a body that is not JSON.
Broken(c) ==
  /\ exchangePc[c] = "wire"
  /\ \E kind \in {"UpstreamUnavailable", "Internal", "MalformedResponse"} : Fails(c, kind)
  /\ UNCHANGED given

\* publish_completed is an await ...
PublishCompleted(c) ==
  /\ exchangePc[c] = "answered"
  /\ PublishEvent(CompletionCompleted(c, given[c]))
  /\ ExchangeGoto(c, "published")
  /\ UNCHANGED <<adapter, wire, estimate, guess, failure, response>>

\* ... and leaves the estimate after it; then map_response.
Complete(c) ==
  /\ exchangePc[c] = "published"
  /\ LeaveEstimate("published", given[c])
  /\ response' = [response EXCEPT ![c] = CompletionResponse(given[c])]
  /\ ExchangeGoto(c, "ok")
  /\ UNCHANGED <<adapter, wire, guess, failure, trail>>

\* publish_failed
PublishFailed(c) ==
  /\ exchangePc[c] = "failed"
  /\ PublishEvent(CompletionFailed(c))
  /\ ExchangeGoto(c, "err")
  /\ UNCHANGED <<adapter, wire, estimate, guess, failure, response>>

\* The caller drops the future.
DropComplete(c) ==
  /\ exchangePc[c] \in {"request", "wire", "answered", "published", "failed"}
  /\ ExchangeGoto(c, "gone")
  /\ UNCHANGED <<adapter, wire, estimate, guess, failure, response, trail>>

ENext ==
  \E c \in CompleteCalls :
    \/ \E q \in Requests : Ask(c, q)
    \/ PublishRequested(c) \/ Receive(c) \/ Refused(c) \/ Broken(c)
    \/ PublishCompleted(c) \/ Complete(c) \/ PublishFailed(c) \/ DropComplete(c)

ExchangeSpec == EInit /\ [][ENext]_exchangeVars

-----------------------------------------------------------------------------
\* An estimate in the audit trail is the prompt of a completion that stands before it
\* in the trail, whichever calls overlap or are dropped, so that a reader of the trail
\* can always find where a number comes from (publish_requested, publish_completed).
EstimateIsPast ==
  \A i \in DOMAIN trail :
    trail[i].event = "Requested" /\ trail[i].prompt # Absent =>
      \E j \in 1..(i - 1) :
        trail[j].event = "Completed" /\ trail[j].prompt = trail[i].prompt

\* No tool call of an answer is lost, whatever else is in it, and each is in the
\* response once and in its order; an answer without one is a reply with a text the
\* vendor sent, if it sent one (map_response of both adapters).
ItemsOf(c) == given[c].items

CallsKept ==
  \A c \in CompleteCalls : exchangePc[c] = "ok" =>
    LET calls == response[c].calls
        all == UNION {{<<i, k>> : k \in 1..ItemsOf(c)[i].calls} : i \in DOMAIN ItemsOf(c)}
    IN  /\ Range(calls) = all /\ Len(calls) = Cardinality(all)
        /\ \A m, n \in DOMAIN calls :
             m < n => \/ calls[m][1] < calls[n][1]
                      \/ calls[m][1] = calls[n][1] /\ calls[m][2] < calls[n][2]
        /\ response[c].kind = "ToolCalls" <=> all # {}

\* An error a workflow may try again is one that may pass: nothing the vendor refused
\* for what it asks comes as Unavailable or Timeout (map_http_error, LlmErrorV1::kind).
RetryIsWorthIt ==
  \A c \in CompleteCalls :
    /\ exchangePc[c] \in {"failed", "err"}
    /\ ErrorKind[failure[c]] \in {"Unavailable", "Timeout"}
    => given[c] = Absent \/ given[c].status \in {408, 429} \cup 500..599

ExchangeTrue == EstimateIsPast /\ CallsKept /\ RetryIsWorthIt

=============================================================================
