----------------------------- MODULE MCDispatch -----------------------------
(* Instances of Dispatch for TLC.                                          *)
EXTENDS Dispatch, TLC

CONSTANTS i1, i2, s1, s2, s3

\* Two steps take the event of i1, one that of i2.
TwoEvents == (i1 :> "A") @@ (s1 :> "A") @@ (s2 :> "A") @@ (i2 :> "B") @@ (s3 :> "B")
=============================================================================
