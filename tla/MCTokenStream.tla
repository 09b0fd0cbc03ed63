--------------------------- MODULE MCTokenStream ---------------------------
(* Instances of TokenStream for TLC.                                       *)
EXTENDS TokenStream

Delta(text, n)      == [finish |-> "none", text |-> text, calls |-> n]
Close(reason, text) == [finish |-> reason, text |-> text, calls |-> 0]

\* One event for each way through the mapper.
OneOfEach ==
  {Delta("absent", 0), Delta("some", 0), Delta("some", 1), Delta("empty", 1), Delta("absent", 2),
   Close("stop", "some"), Close("tool_calls", "absent"), Close("content_filter", "absent"),
   Close("odd", "absent")}
=============================================================================
