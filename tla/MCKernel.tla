------------------------------ MODULE MCKernel ------------------------------
(* Instances of Kernel for TLC.                                            *)
EXTENDS Kernel, TLC

CONSTANTS r1, r2, r3, main, other

NoRequests == {}
OneInvalid == {r3}
Valid      == {r1, r2}

\* This release and the next.
TwoReleases == main :> 2 @@ other :> 3

\* No file, the first release's without and with a notebook, this one's.
LeftBehind ==
  {[meta |-> 0, notebook |-> {}, schema |-> {}],
   [meta |-> 1, notebook |-> {}, schema |-> {1}],
   [meta |-> 1, notebook |-> {1}, schema |-> {1}],
   [meta |-> 2, notebook |-> 1..2, schema |-> 1..2]}

SomeLegacy == {TRUE, FALSE}
=============================================================================
