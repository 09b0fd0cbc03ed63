----------------------------- MODULE MCEventBus -----------------------------
(* Instances of EventBus for TLC.                                          *)
EXTENDS EventBus, TLC

CONSTANTS p1, p2

\* One publisher calls twice, so that its messages have an order, the other once.
TwoAndOne == p1 :> 2 @@ p2 :> 1
Once      == [p \in Pubs |-> 1]

\* Subscriptions are told apart only by the order in which they subscribe,
\* publishers that call equally often only by their identity.
Symmetry == Permutations(Subs) \cup Permutations(Pubs)
=============================================================================
