---------------------------- MODULE BusContract -----------------------------
(***************************************************************************)
(* What the event bus promises each subscription, without registry, locks, *)
(* channels or tasks: a message is accepted for an open subscription at    *)
(* most once, stays owed until it is received, and is discarded only when  *)
(* the subscription is dropped.                                            *)
(***************************************************************************)
CONSTANTS Subs, Messages

VARIABLES
  state,   \* per subscription: "unborn", "open" or "dropped"
  owed,    \* per subscription: accepted, not yet received
  got      \* per subscription: received

contractVars == <<state, owed, got>>

Init ==
  /\ state = [s \in Subs |-> "unborn"]
  /\ owed  = [s \in Subs |-> {}]
  /\ got   = [s \in Subs |-> {}]

Join(s) ==
  /\ state[s] = "unborn"
  /\ state' = [state EXCEPT ![s] = "open"]
  /\ UNCHANGED <<owed, got>>

Accept(s, m) ==
  /\ state[s] = "open"
  /\ m \notin owed[s] \cup got[s]
  /\ owed' = [owed EXCEPT ![s] = @ \cup {m}]
  /\ UNCHANGED <<state, got>>

Deliver(s, m) ==
  /\ state[s] = "open"
  /\ m \in owed[s]
  /\ owed' = [owed EXCEPT ![s] = @ \ {m}]
  /\ got'  = [got EXCEPT ![s] = @ \cup {m}]
  /\ UNCHANGED state

\* Dropping a subscription discards what it is owed, some of it at once and
\* what a task still carries when the task notices.
Leave(s) ==
  /\ state[s] = "open"
  /\ state' = [state EXCEPT ![s] = "dropped"]
  /\ \E left \in SUBSET owed[s] : owed' = [owed EXCEPT ![s] = left]
  /\ UNCHANGED got

Discard(s, m) ==
  /\ state[s] = "dropped"
  /\ m \in owed[s]
  /\ owed' = [owed EXCEPT ![s] = @ \ {m}]
  /\ UNCHANGED <<state, got>>

Next ==
  \E s \in Subs :
    \/ Join(s) \/ Leave(s)
    \/ \E m \in Messages : Accept(s, m) \/ Deliver(s, m) \/ Discard(s, m)

Spec == Init /\ [][Next]_contractVars
=============================================================================
