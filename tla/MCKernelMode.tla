---------------------------- MODULE MCKernelMode ----------------------------
(* Instances of KernelMode for TLC.                                        *)
EXTENDS KernelMode, TLC

CONSTANTS r1, r2, r3, r4

NoRequests == {}
OneInvalid == {r4}
Valid      == {r1, r2, r3}

NoLegacy == {FALSE}

Symmetry == Permutations(Valid)
=============================================================================
