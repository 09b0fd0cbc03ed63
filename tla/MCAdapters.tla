----------------------------- MODULE MCAdapters -----------------------------
(***************************************************************************)
(* The LLM and embedding adapters for TLC.  A kernel calls each of them    *)
(* through its trait and they share no state, so that a behaviour of one   *)
(* is a behaviour of the whole: one machine runs, chosen at the start, and *)
(* the others stay as they were initialised.                               *)
(***************************************************************************)
EXTENDS KeyHolder, MCTokenStream, LocalModel, OllamaClient, LlmExchange, TLC

CONSTANTS c1, c2, c3  \* model values

VARIABLE which

all == <<which, vars, streamVars, modelVars, clientVars, exchangeVars>>

-----------------------------------------------------------------------------
\* KeyHolder: three requests of one LLM adapter, one of them a stream.
\* TokenStream: three events through a channel of two places (OneOfEach).

\* LocalModel: two calls, two files of two pieces, with a manifest.

Placed == <<"config", "weights">>

\* OllamaClient: one call with up to three texts, one of which may be blank.

Passed == {<<>>, <<"blank">>, <<"x", "blank">>, <<"x">>, <<"x", "y">>, <<"x", "y", "z">>}

\* LlmExchange: two calls of complete, of either LLM adapter.

User(blocks) == [from |-> "user", content |-> blocks]
Tool(blocks) == [from |-> "tool", content |-> blocks]

Asked ==
  {[system |-> Absent, messages |-> <<User(<<"text">>)>>, tools |-> {}],
   [system |-> "system", messages |-> <<User(<<"text", "url">>), Tool(<<"base64">>)>>,
    tools |-> {"search"}]}

Item(type, n, stop)   == [type |-> type, calls |-> n, stop |-> stop]
Choice(text, n, stop) == [text |-> text, calls |-> n, stop |-> stop]
Given(items, usage, text) == [items |-> items, usage |-> usage, output_text |-> text]

VendorAnswers ==
  [responses |->
     {Given(<<Item("message", 0, "stop"), Item("tool_call", 1, "none")>>, 2, FALSE),
      Given(<<Item("reasoning", 0, "none"), Item("message", 0, "max_tokens")>>, 1, TRUE),
      Given(<<>>, 0, TRUE)},
   chat |->
     {Given(<<Choice(FALSE, 0, "length"), Choice(TRUE, 2, "tool_calls")>>, 2, FALSE),
      Given(<<Choice(TRUE, 0, "stop")>>, 1, FALSE),
      Given(<<>>, 0, FALSE)}]

Errors ==
  [status : {400}, code : {"context_length_exceeded", "other"}]
    \cup [status : {401, 404, 408, 503}, code : {"model_not_found"}]
    \cup [status : {429}, code : {"quota_exceeded"}]

-----------------------------------------------------------------------------
\* The mode is only read where the config file is missing: where it is not, one will do.
AllInit ==
  /\ which \in {"key", "stream", "model", "client", "exchange"}
  /\ Init /\ StreamInit /\ ModelInit /\ ClientInit /\ EInit
  /\ which # "stream"   => api = "chat"
  /\ which # "exchange" => adapter = "chat"
  /\ which # "model"    => strategy = "Lazy" /\ mode = "Strict" /\ place["config"] = None
  /\ mode = "Degraded" => place["config"] = None

RunKey ==
  /\ which = "key" /\ Next
  /\ UNCHANGED <<which, streamVars, modelVars, clientVars, exchangeVars>>

RunStream ==
  /\ which = "stream" /\ StreamNext
  /\ UNCHANGED <<which, vars, modelVars, clientVars, exchangeVars>>

RunModel ==
  /\ which = "model" /\ ModelNext
  /\ UNCHANGED <<which, vars, streamVars, clientVars, exchangeVars>>

RunClient ==
  /\ which = "client" /\ ClientNext
  /\ UNCHANGED <<which, vars, streamVars, modelVars, exchangeVars>>

RunExchange ==
  /\ which = "exchange" /\ ENext
  /\ UNCHANGED <<which, vars, streamVars, modelVars, clientVars>>

AllNext == RunKey \/ RunStream \/ RunModel \/ RunClient \/ RunExchange

\* The fairness that KeyHolder, TokenStream and OllamaClient state.
Fairness ==
  /\ \A c \in Calls :
       /\ WF_vars(which = "key" /\ Progress(c))
       /\ SF_vars(which = "key" /\ (FastPath(c) \/ SlowPath(c) \/ Clear(c)))
  /\ WF_streamVars(which = "stream" /\ Working)
  /\ WF_streamVars(which = "stream" /\ Expire)
  /\ WF_streamVars(which = "stream" /\ Recv)
  /\ WF_streamVars(which = "stream" /\ Vendor)
  /\ \A c \in EmbedCalls : WF_clientVars(which = "client" /\ ClientProgress(c))

AllSpec == AllInit /\ [][AllNext]_all /\ Fairness

-----------------------------------------------------------------------------
\* KeyHolder, TokenStream, OllamaClient: every call comes to an end.  (RequestsEnd,
\* Released and EmbedsEnd, of whichever machine runs.)
Waits(c) == \/ pc[c] = "key"
            \/ c = c1 /\ (task = "call" \/ clientPc[c1] = "post")

Settled(c) == \/ pc[c] \in Over
              \/ c = c1 /\ task = "over" /\ rx \in {"dropped", "closed"}
              \/ c = c1 /\ clientPc[c1] \in Finished

CallsEnd == \A c \in Calls : Waits(c) ~> Settled(c)
=============================================================================
