----------------------------- MODULE KeyHolder -----------------------------
(***************************************************************************)
(* The API key of an LLM adapter: UnsealedHolder keeps the unsealed key    *)
(* behind one async mutex, complete uses it and asks for it again after a  *)
(* 401, stream_complete takes it once.  The holder asks the security       *)
(* engine for one fixed version of the secret.  The two adapters           *)
(* (Responses and Chat Completions) share this code, copied.               *)
(***************************************************************************)
EXTENDS Integers, Sequences

CONSTANTS
  Calls,            \* requests made of one adapter
  Streams,          \* those of stream_complete
  Nobody,           \* nobody holds the mutex
  MaxUnsealErrors   \* bound: how often the engine fails

ASSUME KeyAssumption ==
  /\ Streams \subseteq Calls
  /\ Nobody \notin Calls
  /\ MaxUnsealErrors \in Nat

VARIABLES
  pc,       \* where each request is
  attempt,  \* 1, and 2 once the vendor has answered 401
  guard,    \* who holds the mutex
  cached,   \* the key in the holder, by the number of its unsealing; 0: none
  fills,    \* how often the holder unsealed a key
  clears,   \* how often a key was taken out of it
  key,      \* the key each request sends
  seen,     \* fills when the 401 came
  sealed,   \* status of the version the config names
  errors,   \* failures of the engine so far
  tickets   \* the audit events of each request

holder == <<guard, cached, fills, clears>>
vars   == <<pc, attempt, holder, key, seen, sealed, errors, tickets>>

Over == {"ok", "err", "handed", "gone"}

Init ==
  /\ pc = [c \in Calls |-> "idle"]
  /\ attempt = [c \in Calls |-> 1]
  /\ guard = Nobody /\ cached = 0 /\ fills = 0 /\ clears = 0
  /\ key = [c \in Calls |-> 0]
  /\ seen = [c \in Calls |-> 0]
  /\ sealed = "active"
  /\ errors = 0
  /\ tickets = [c \in Calls |-> <<>>]

Goto(c, next) == pc' = [pc EXCEPT ![c] = next]
Publish(c, ticket) == tickets' = [tickets EXCEPT ![c] = Append(@, ticket)]

Request(c) ==
  /\ pc[c] = "idle"
  /\ Publish(c, "Requested")
  /\ Goto(c, "key")
  /\ UNCHANGED <<attempt, holder, key, seen, sealed, errors>>

\* A stream goes on in a task of its own, with the key it was given.
WithKey(c, k) ==
  /\ key' = [key EXCEPT ![c] = k]
  /\ Goto(c, IF c \in Streams THEN "handed" ELSE "call")

\* get_or_unseal, first look: the guard is dropped again.
FastPath(c) ==
  /\ pc[c] = "key"
  /\ guard = Nobody
  /\ \/ cached # 0 /\ WithKey(c, cached)
     \/ cached = 0 /\ Goto(c, "cold") /\ UNCHANGED key
  /\ UNCHANGED <<attempt, holder, seen, sealed, errors, tickets>>

\* Mutant: the second look is left out.
OneLook(c) ==
  /\ pc[c] = "cold"
  /\ guard = Nobody
  /\ guard' = c
  /\ Goto(c, "unseal")
  /\ UNCHANGED <<attempt, cached, fills, clears, key, seen, sealed, errors, tickets>>

\* get_or_unseal, second look: the guard is kept for the unsealing.
SlowPath(c) ==
  /\ pc[c] = "cold"
  /\ guard = Nobody
  /\ \/ cached # 0 /\ WithKey(c, cached) /\ UNCHANGED guard
     \/ cached = 0 /\ guard' = c /\ Goto(c, "unseal") /\ UNCHANGED key
  /\ UNCHANGED <<attempt, cached, fills, clears, seen, sealed, errors, tickets>>

Unseal(c) ==
  /\ pc[c] = "unseal"
  /\ sealed = "active"
  /\ fills' = fills + 1
  /\ cached' = fills + 1
  /\ guard' = Nobody
  /\ WithKey(c, fills + 1)
  /\ UNCHANGED <<attempt, clears, seen, sealed, errors, tickets>>

\* Mutant: the guard outlives a failed unsealing.
KeepsGuard == UNCHANGED guard

DropGuard == guard' = Nobody

\* SecretRotated, or an error of the engine.  The first time it is returned at
\* once; in the retry it is the outcome of the vendor call.
UnsealFails(c) ==
  /\ pc[c] = "unseal"
  /\ \/ sealed = "rotated" /\ UNCHANGED errors
     \/ sealed = "active" /\ errors < MaxUnsealErrors /\ errors' = errors + 1
  /\ DropGuard
  /\ Goto(c, IF attempt[c] = 1 THEN "err" ELSE "failing")
  /\ UNCHANGED <<attempt, cached, fills, clears, key, seen, sealed, tickets>>

\* call_vendor_with_retry: the answer of the vendor, 401 the first time only.
Answer(c) ==
  /\ pc[c] = "call"
  /\ Goto(c, "answered")
  /\ UNCHANGED <<attempt, holder, key, seen, sealed, errors, tickets>>

Reject(c) ==
  /\ pc[c] = "call" /\ attempt[c] = 1
  /\ attempt' = [attempt EXCEPT ![c] = 2]
  /\ seen' = [seen EXCEPT ![c] = fills]
  /\ Goto(c, "rejected")
  /\ UNCHANGED <<holder, key, sealed, errors, tickets>>

VendorFails(c) ==
  /\ pc[c] = "call"
  /\ Goto(c, "failing")
  /\ UNCHANGED <<attempt, holder, key, seen, sealed, errors, tickets>>

\* Mutant: the retry asks the holder without emptying it.
NotCleared == UNCHANGED <<cached, clears>>

TakeKey ==
  /\ cached' = 0
  /\ clears' = IF cached = 0 THEN clears ELSE clears + 1

\* re_unseal_after_401 empties the holder, whoever filled it, and asks again.
Clear(c) ==
  /\ pc[c] = "rejected"
  /\ guard = Nobody
  /\ TakeKey
  /\ Goto(c, "key")
  /\ UNCHANGED <<attempt, guard, fills, key, seen, sealed, errors, tickets>>

Return(c) ==
  /\ \/ pc[c] = "answered" /\ Publish(c, "Completed") /\ Goto(c, "ok")
     \/ pc[c] = "failing" /\ Publish(c, "Failed") /\ Goto(c, "err")
  /\ UNCHANGED <<attempt, holder, key, seen, sealed, errors>>

\* The caller drops the future; a guard it held goes with it.
Abandon(c) ==
  /\ pc[c] \in {"key", "cold", "unseal", "call", "rejected", "answered", "failing"}
  /\ guard' = IF guard = c THEN Nobody ELSE guard
  /\ Goto(c, "gone")
  /\ UNCHANGED <<attempt, cached, fills, clears, key, seen, sealed, errors, tickets>>

\* The operator rotates the secret in the security engine.
Rotate ==
  /\ sealed = "active"
  /\ sealed' = "rotated"
  /\ UNCHANGED <<pc, attempt, holder, key, seen, errors, tickets>>

Progress(c) ==
  \/ FastPath(c) \/ SlowPath(c) \/ Unseal(c) \/ UnsealFails(c) \/ Clear(c) \/ Return(c)
  \/ Answer(c) \/ Reject(c) \/ VendorFails(c)

Next == (\E c \in Calls : Request(c) \/ Progress(c) \/ Abandon(c)) \/ Rotate

Spec == Init /\ [][Next]_vars

\* Futures are polled, the engine and the vendor answer at last, and the mutex of
\* tokio lets its waiters in one after the other.
FairSpec ==
  Spec /\ \A c \in Calls :
            WF_vars(Progress(c)) /\ SF_vars(FastPath(c) \/ SlowPath(c) \/ Clear(c))

-----------------------------------------------------------------------------
Stages == {"idle", "key", "cold", "unseal", "call", "rejected", "answered", "failing"} \cup Over

\* Types of the holder and the requests.
TypeOK ==
  /\ pc \in [Calls -> Stages]
  /\ attempt \in [Calls -> 1..2]
  /\ guard \in Calls \cup {Nobody}
  /\ fills \in Nat /\ clears \in Nat /\ cached \in 0..fills
  /\ key \in [Calls -> 0..fills]
  /\ seen \in [Calls -> 0..fills]
  /\ sealed \in {"active", "rotated"}
  /\ errors \in 0..MaxUnsealErrors
  /\ tickets \in [Calls -> Seq({"Requested", "Completed", "Failed"})]

\* Requests that find the holder cold together unseal once between them: every
\* unsealing fills an empty holder, so there are as many as keys taken out, and one
\* more while it is full (key_wiring.rs get_or_unseal: another caller may have raced
\* us to unseal).
UnsealedOnce == fills = clears + (IF cached = 0 THEN 0 ELSE 1)

\* A retry after a 401 sends a key that was unsealed after the 401 came, whatever
\* other requests fill and empty meanwhile (key_wiring.rs re_unseal_after_401).
RetryIsFresh ==
  \A c \in Calls :
    attempt[c] = 2 /\ pc[c] \in {"call", "answered", "ok"} => key[c] > seen[c]

\* A request that has had a key, and is not dropped, leaves its beginning and its
\* end in the audit trail, once each, whichever of the two unsealings or vendor
\* calls failed (adapter.rs complete).
Audited ==
  \A c \in Calls : key[c] # 0 =>
    /\ pc[c] = "ok"  => tickets[c] = <<"Requested", "Completed">>
    /\ pc[c] = "err" => tickets[c] = <<"Requested", "Failed">>

\* Every request comes to an end though others fail to unseal or are dropped while
\* they hold the mutex (key_wiring.rs get_or_unseal).
RequestsEnd == \A c \in Calls : pc[c] = "key" ~> pc[c] \in Over

-----------------------------------------------------------------------------
\* The inductive invariant of KeyHolderProofs: the mutex is held just while its
\* holder unseals, which it does only for an empty holder; once a retry has emptied
\* it, whatever key comes in is newer than the 401.
GuardHeld ==
  /\ \A c \in Calls : pc[c] = "unseal" <=> guard = c
  /\ \A c \in Calls : pc[c] = "unseal" => cached = 0

RetryWaits ==
  \A c \in Calls :
    /\ pc[c] = "idle" => attempt[c] = 1
    /\ attempt[c] = 2 /\ pc[c] \in {"key", "cold", "unseal"}
         => cached = 0 \/ cached > seen[c]

KeyInv == TypeOK /\ GuardHeld /\ UnsealedOnce /\ RetryWaits /\ RetryIsFresh
=============================================================================
