--------------------------- MODULE MCSecretVault ----------------------------
(* Instances of SecretVault for TLC.                                       *)
EXTENDS SecretVault, TLC

CONSTANTS n1, x1, x2, x3

LegacyOne == {<<n1, x1>>}
FirstRef  == {<<n1, 1>>}
TooBig    == {<<n1, x3>>}

\* Tasks differ only by name.
Symmetry == Permutations(Clients)
=============================================================================
