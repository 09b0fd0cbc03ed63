------------------------------ MODULE EventBus ------------------------------
(***************************************************************************)
(* The in-process publish/subscribe bus of afa-bus, for one event type T.  *)
(*                                                                         *)
(* The registry is an RwLock around one list of senders per event type.  A *)
(* publish is not atomic: it copies the list under the read lock, tries    *)
(* the senders one by one with no lock held, and only then takes the write *)
(* lock to remove the entries that it found closed, by their positions in  *)
(* the copy.  Subscribers, other publishers and the fallback tasks run     *)
(* between any two of these steps, so each is an action of its own.        *)
(***************************************************************************)
EXTENDS Integers, Sequences, FiniteSets, SequencesExt

CONSTANTS
  Subs,        \* subscriptions: each is created and dropped at most once
  Pubs,        \* tasks that call publish, each one call at a time
  Capacity,    \* bound of a subscription's mpsc channel
  MaxPublish   \* bound of the model: calls of publish per task

ASSUME CapacityAssumption == Capacity \in Nat \ {0}
ASSUME MaxPublishAssumption == MaxPublish \in [Pubs -> Nat]

VARIABLES
  registry,    \* the list of senders registered for T
  poisoned,    \* the RwLock was poisoned by a panic of a writer
  receiver,    \* per subscription: "unborn", "open" or "dropped"
  channel,     \* per subscription: the bounded mpsc queue
  fallback,    \* spawned sends not yet completed, as <<subscription, message>>
  received,    \* per subscription: the messages recv returned, in order
  spilled,     \* history: the sends that were left to a fallback task
  pc,          \* per publisher: "idle", "fanout", "sweep" or "panicked"
  count,       \* per publisher: the calls it has made; numbers its messages
  senders,     \* per publisher: its copy of the registry
  idx,         \* per publisher: position of the next sender to try
  closed       \* per publisher: closed_indices

subVars == <<receiver, received, spilled>>
pubVars == <<pc, count, senders, idx, closed>>
vars == <<registry, poisoned, receiver, channel, fallback, received, spilled,
          pc, count, senders, idx, closed>>

Messages == UNION {{p} \X (1..MaxPublish[p]) : p \in Pubs}

\* The message publisher p is fanning out.
Current(p) == <<p, count[p]>>

Init ==
  /\ registry = <<>>
  /\ poisoned = FALSE
  /\ receiver = [s \in Subs |-> "unborn"]
  /\ channel  = [s \in Subs |-> <<>>]
  /\ fallback = {}
  /\ received = [s \in Subs |-> <<>>]
  /\ spilled  = {}
  /\ pc       = [p \in Pubs |-> "idle"]
  /\ count    = [p \in Pubs |-> 0]
  /\ senders  = [p \in Pubs |-> <<>>]
  /\ idx      = [p \in Pubs |-> 1]
  /\ closed   = [p \in Pubs |-> {}]

-----------------------------------------------------------------------------
(* subscribe: a new channel is appended under the write lock.  With the    *)
(* lock poisoned the call panics and changes nothing.                      *)

Subscribe(s) ==
  /\ receiver[s] = "unborn"
  /\ ~poisoned
  /\ receiver' = [receiver EXCEPT ![s] = "open"]
  /\ registry' = Append(registry, s)
  /\ UNCHANGED <<poisoned, channel, fallback, received, spilled, pubVars>>

(* The Subscription is dropped: the channel closes and what it holds is    *)
(* discarded; the entry stays in the registry.                             *)
DropSubscription(s) ==
  /\ receiver[s] = "open"
  /\ receiver' = [receiver EXCEPT ![s] = "dropped"]
  /\ channel'  = [channel EXCEPT ![s] = <<>>]
  /\ UNCHANGED <<registry, poisoned, fallback, received, spilled, pubVars>>

Recv(s) ==
  /\ receiver[s] = "open"
  /\ channel[s] # <<>>
  /\ received' = [received EXCEPT ![s] = Append(@, Head(channel[s]))]
  /\ channel'  = [channel EXCEPT ![s] = Tail(@)]
  /\ UNCHANGED <<registry, poisoned, receiver, fallback, spilled, pubVars>>

-----------------------------------------------------------------------------
(* publish, first step: copy the list under the read lock.                 *)

PublishSnapshot(p) ==
  /\ pc[p] = "idle"
  /\ count[p] < MaxPublish[p]
  /\ ~poisoned
  /\ count'   = [count EXCEPT ![p] = @ + 1]
  /\ senders' = [senders EXCEPT ![p] = registry]
  /\ idx'     = [idx EXCEPT ![p] = 1]
  /\ closed'  = [closed EXCEPT ![p] = {}]
  /\ pc'      = [pc EXCEPT ![p] = IF registry = <<>> THEN "idle" ELSE "fanout"]
  /\ UNCHANGED <<registry, poisoned, subVars, channel, fallback>>

(* With the lock poisoned, `expect` panics in the calling task.            *)
PublishPanics(p) ==
  /\ pc[p] = "idle"
  /\ count[p] < MaxPublish[p]
  /\ poisoned
  /\ pc' = [pc EXCEPT ![p] = "panicked"]
  /\ UNCHANGED <<registry, poisoned, subVars, channel, fallback,
                 count, senders, idx, closed>>

\* The sender that publisher p tries next.
Target(p) == senders[p][idx[p]]

HasRoom(s) == Len(channel[s]) < Capacity

\* Mutant: every send is spawned.
NeverFits(s) == FALSE

\* try_send succeeds.
Fits(s) == receiver[s] = "open" /\ HasRoom(s)

\* try_send fails with Full.
Full(s) == receiver[s] = "open" /\ ~HasRoom(s)

\* Mutant: on Full the message is dropped.
SpawnNothing(s, m) == fallback

SpawnFullSend(s, m) == fallback \cup {<<s, m>>}

Turn(p) == pc[p] = "fanout"

\* What follows the last sender.
AfterLast(shut) == IF shut = {} THEN "idle" ELSE "sweep"

(* One round of the fan-out loop: try_send_erased and its three outcomes.  *)
(* After the last sender the call returns, or goes on to remove entries.   *)
TrySend(p) ==
  LET s    == Target(p)
      shut == IF receiver[s] = "open" THEN closed[p] ELSE closed[p] \cup {idx[p]}
  IN
  /\ Turn(p)
  /\ channel'  = IF Fits(s) THEN [channel EXCEPT ![s] = Append(@, Current(p))]
                            ELSE channel
  /\ fallback' = IF receiver[s] = "open" /\ ~Fits(s) THEN SpawnFullSend(s, Current(p))
                                                    ELSE fallback
  /\ closed'   = [closed EXCEPT ![p] = shut]
  /\ idx'      = [idx EXCEPT ![p] = @ + 1]
  /\ pc'       = [pc EXCEPT ![p] = IF idx[p] < Len(senders[p]) THEN "fanout"
                                   ELSE AfterLast(shut)]
  /\ spilled'  = IF Full(s) THEN spilled \cup {<<s, Current(p)>>} ELSE spilled
  /\ UNCHANGED <<registry, poisoned, receiver, received, count, senders>>

\* Mutant: the positions are removed in ascending order, so that each
\* removal shifts the entries the next positions stand for.
WithoutPositionsAscending(list, gone) ==
  FoldLeft(LAMBDA l, i : IF i \in DOMAIN l THEN RemoveAt(l, i) ELSE l,
           list, SetToSortSeq(gone, LAMBDA i, j : i < j))

\* The members of a finite set of positions, smallest first.
Ascending(S) ==
  CHOOSE f \in [1..Cardinality(S) -> S] : \A i, j \in DOMAIN f : i < j => f[i] < f[j]

\* list without the positions of the set gone; removing in descending order,
\* as the loop does, is removing all of them at once.
WithoutPositions(list, gone) ==
  LET kept == Ascending(DOMAIN list \ gone)
  IN  [k \in DOMAIN kept |-> list[kept[k]]]

(* Last step: remove the closed entries under the write lock.  The         *)
(* positions come from the copy; Vec::remove panics on one that is out of  *)
(* bounds (the largest is removed first), with the write lock held.        *)
Sweep(p) ==
  /\ pc[p] = "sweep"
  /\ ~poisoned
  /\ closed[p] \subseteq DOMAIN registry
  /\ registry' = WithoutPositions(registry, closed[p])
  /\ pc' = [pc EXCEPT ![p] = "idle"]
  /\ UNCHANGED <<poisoned, subVars, channel, fallback, count, senders, idx, closed>>

SweepPanics(p) ==
  /\ pc[p] = "sweep"
  /\ poisoned \/ ~(closed[p] \subseteq DOMAIN registry)
  /\ poisoned' = TRUE
  /\ pc' = [pc EXCEPT ![p] = "panicked"]
  /\ UNCHANGED <<registry, subVars, channel, fallback, count, senders, idx, closed>>

-----------------------------------------------------------------------------
(* spawn_full_send: the spawned task waits for room, or finds the channel  *)
(* closed.  Pending tasks complete in any order, and a later try_send may  *)
(* take the room first, since a task is not queued before it is polled.    *)

\* Mutant: the task sends again what it has sent.
StillPending(s, m) == fallback

\* The tasks left when the one that carries m for s has ended.
TaskEnds(s, m) == fallback \ {<<s, m>>}

\* Mutant: the task ends without having sent.
FallbackForgets(s, m) ==
  /\ <<s, m>> \in fallback
  /\ fallback' = TaskEnds(s, m)
  /\ UNCHANGED <<registry, poisoned, subVars, channel, pubVars>>

FallbackDelivers(s, m) ==
  /\ <<s, m>> \in fallback
  /\ receiver[s] = "open"
  /\ HasRoom(s)
  /\ channel'  = [channel EXCEPT ![s] = Append(@, m)]
  /\ fallback' = TaskEnds(s, m)
  /\ UNCHANGED <<registry, poisoned, subVars, pubVars>>

FallbackFindsClosed(s, m) ==
  /\ <<s, m>> \in fallback
  /\ receiver[s] = "dropped"
  /\ fallback' = TaskEnds(s, m)
  /\ UNCHANGED <<registry, poisoned, subVars, channel, pubVars>>

FallbackTask(s) ==
  \E m \in Messages : FallbackDelivers(s, m) \/ FallbackFindsClosed(s, m)

Publish(p) ==
  PublishSnapshot(p) \/ PublishPanics(p) \/ TrySend(p) \/ Sweep(p) \/ SweepPanics(p)

Next ==
  \/ \E s \in Subs : Subscribe(s) \/ DropSubscription(s) \/ Recv(s) \/ FallbackTask(s)
  \/ \E p \in Pubs : Publish(p)

Spec == Init /\ [][Next]_vars

(* The runtime polls every task that is ready: a publish in progress never *)
(* awaits (all its sends are try_send).                                    *)
FairSpec ==
  Spec /\ \A p \in Pubs : WF_vars(TrySend(p) \/ Sweep(p) \/ SweepPanics(p))

(* That subscribers keep calling recv is their affair.  If they do, the    *)
(* channel's semaphore serves the spawned sends in turn.                   *)
Reading == \A s \in Subs : WF_vars(Recv(s)) /\ SF_vars(FallbackTask(s))

-----------------------------------------------------------------------------
TypeOK ==
  /\ registry \in Seq(Subs)
  /\ poisoned \in BOOLEAN
  /\ receiver \in [Subs -> {"unborn", "open", "dropped"}]
  /\ channel  \in [Subs -> Seq(Messages)]
  /\ fallback \subseteq Subs \X Messages
  /\ received \in [Subs -> Seq(Messages)]
  /\ spilled  \subseteq Subs \X Messages
  /\ pc       \in [Pubs -> {"idle", "fanout", "sweep", "panicked"}]
  /\ count    \in [Pubs -> Nat]
  /\ senders  \in [Pubs -> Seq(Subs)]
  /\ idx      \in [Pubs -> Nat \ {0}]
  /\ closed   \in [Pubs -> SUBSET (Nat \ {0})]
  /\ \A s \in Subs : Len(channel[s]) <= Capacity

\* What subscription s was handed and has not received, and what it received.
Owed(s) == Range(channel[s]) \cup {m \in Messages : <<s, m>> \in fallback}
Got(s)  == Range(received[s])

(* The copy that a publisher works from reaches every subscription in it:  *)
(* one the loop has passed and that is still open owns the message, in its *)
(* channel, with a fallback task, or received - whatever the others did.   *)
NoSubscriberSkipped ==
  \A p \in Pubs : pc[p] \in {"fanout", "sweep"} =>
    \A i \in 1..(idx[p] - 1) :
      LET s == senders[p][i]
      IN  receiver[s] = "open" => Current(p) \in Owed(s) \cup Got(s)

(* A removal from a list that only grew since the copy is exact, though    *)
(* its positions come from the copy: it does not panic, every entry found  *)
(* closed goes, and no open subscription does.                             *)
SweepIsExact ==
  [][\A p \in Pubs :
       pc[p] = "sweep" /\ pc'[p] # "sweep" /\ ~poisoned /\ IsPrefix(senders[p], registry) =>
         /\ pc'[p] = "idle"
         /\ \A i \in closed[p] : senders[p][i] \notin Range(registry')
         /\ \A s \in Range(registry) \ Range(registry') : receiver[s] = "dropped"]_vars

(* The doc of publish: it fans out to every currently registered           *)
(* subscriber, and only an entry whose receiver was dropped is removed.    *)
(* So an open subscription is always registered.                           *)
OpenIsRegistered ==
  \A s \in Subs : receiver[s] = "open" => s \in Range(registry)

(* Each subscriber receives one publisher's messages in the order of the   *)
(* calls, except that one which found the channel full may come later.     *)
PublisherOrder ==
  \A s \in Subs :
    LET r == received[s]
    IN  \A i, j \in DOMAIN r :
          i < j /\ r[i][1] = r[j][1] /\ r[i][2] > r[j][2] => <<s, r[j]>> \in spilled

(* A message handed to a subscription is received, unless the subscription *)
(* is dropped: the fallback task neither loses it nor waits for ever.      *)
OwedIsReceived ==
  Reading => \A s \in Subs, m \in Messages :
    m \in Owed(s) ~> (m \in Got(s) \/ receiver[s] = "dropped")

(* What the bus promises each subscription, see BusContract.               *)
Contract == INSTANCE BusContract WITH
  state <- receiver,
  owed  <- [s \in Subs |-> Owed(s)],
  got   <- [s \in Subs |-> Got(s)]

ContractSpec == Contract!Spec
=============================================================================
