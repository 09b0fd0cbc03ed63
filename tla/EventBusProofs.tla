--------------------------- MODULE EventBusProofs ---------------------------
(***************************************************************************)
(* Proofs about EventBus, for every number of subscriptions, publishers,   *)
(* messages and places in a channel.                                       *)
(***************************************************************************)
EXTENDS EventBus, FunctionTheorems, FiniteSetTheorems, SequenceTheorems, TLAPS

-----------------------------------------------------------------------------
(* The members of a finite set of numbers have an ascending enumeration: the
   number at a member's place is how many members are not above it. *)
LEMMA Enumeration ==
  ASSUME NEW S \in SUBSET Nat, IsFiniteSet(S)
  PROVE  \E f \in [1..Cardinality(S) -> S] : \A i, j \in DOMAIN f : i < j => f[i] < f[j]
<1> DEFINE n == Cardinality(S)
           UpTo(x) == {y \in S : y <= x}
           rank == [x \in S |-> Cardinality(UpTo(x))]
<1>1. n \in Nat  BY FS_CardinalityType
<1>2. \A x \in S : IsFiniteSet(UpTo(x)) /\ Cardinality(UpTo(x)) \in 1..n
  <2> SUFFICES ASSUME NEW x \in S
               PROVE  IsFiniteSet(UpTo(x)) /\ Cardinality(UpTo(x)) \in 1..n
    OBVIOUS
  <2>1. IsFiniteSet(UpTo(x)) /\ Cardinality(UpTo(x)) <= n  BY FS_Subset
  <2>2. x \in UpTo(x)  OBVIOUS
  <2>3. Cardinality(UpTo(x)) \in Nat /\ Cardinality(UpTo(x)) # 0
    BY <2>1, <2>2, FS_CardinalityType, FS_EmptySet
  <2> QED BY <2>1, <2>3, <1>1
<1>3. \A x, y \in S : x < y => Cardinality(UpTo(x)) < Cardinality(UpTo(y))
  <2> SUFFICES ASSUME NEW x \in S, NEW y \in S, x < y
               PROVE  Cardinality(UpTo(x)) < Cardinality(UpTo(y))
    OBVIOUS
  <2>1. UpTo(x) \subseteq UpTo(y) /\ UpTo(x) # UpTo(y)
    <3>1. x \in Nat /\ y \in Nat /\ \A z \in S : z \in Nat  OBVIOUS
    <3>2. y \in UpTo(y) /\ y \notin UpTo(x)  BY <3>1
    <3>3. \A z \in Nat : z <= x => z <= y  BY <3>1
    <3>4. UpTo(x) \subseteq UpTo(y)  BY <3>1, <3>3
    <3> QED BY <3>2, <3>4
  <2>2. Cardinality(UpTo(x)) <= Cardinality(UpTo(y)) /\ Cardinality(UpTo(x)) # Cardinality(UpTo(y))
    BY <2>1, <1>2, FS_Subset
  <2> QED BY <2>2, <1>1, <1>2
<1>4. rank \in [S -> 1..n]  BY <1>2
<1>5. \A x, y \in S : rank[x] = rank[y] => x = y  BY <1>1, <1>2, <1>3
<1> HIDE DEF rank, UpTo
<1>6. rank \in Injection(S, 1..n)  BY <1>4, <1>5, Fun_IsInj
<1>7. IsFiniteSet(1..n) /\ Cardinality(1..n) = n  BY <1>1, FS_Interval
<1>8. rank \in Surjection(S, 1..n)  BY <1>6, <1>7, FS_Injection
<1>9. \A i \in 1..n : \E x \in S : rank[x] = i  BY <1>8 DEF Surjection
<1> DEFINE f == [i \in 1..n |-> CHOOSE x \in S : rank[x] = i]
<1>10. f \in [1..n -> S] /\ \A i \in 1..n : rank[f[i]] = i  BY <1>9
<1>11. \A x, y \in S : rank[x] < rank[y] => x < y
  <2> SUFFICES ASSUME NEW x \in S, NEW y \in S, rank[x] < rank[y], ~(x < y)  PROVE FALSE
    OBVIOUS
  <2>1. x \in Nat /\ y \in Nat /\ rank[x] \in Nat /\ rank[y] \in Nat  BY <1>4
  <2>2. x = y \/ y < x  BY <2>1
  <2>3. y < x => rank[y] < rank[x]  BY <1>3 DEF rank
  <2> QED BY <2>1, <2>2, <2>3
<1> HIDE DEF f
<1>12. \A i, j \in 1..n : i < j => f[i] < f[j]
  <2> SUFFICES ASSUME NEW i \in 1..n, NEW j \in 1..n, i < j  PROVE f[i] < f[j]
    OBVIOUS
  <2>1. f[i] \in S /\ f[j] \in S /\ rank[f[i]] = i /\ rank[f[j]] = j  BY <1>10
  <2> QED BY <2>1, <1>11
<1> QED BY <1>10, <1>12

LEMMA AscendingIs ==
  ASSUME NEW S \in SUBSET Nat, IsFiniteSet(S)
  PROVE  /\ Cardinality(S) \in Nat
         /\ Ascending(S) \in [1..Cardinality(S) -> S]
         /\ \A i, j \in 1..Cardinality(S) : i < j => Ascending(S)[i] < Ascending(S)[j]
         /\ \A x \in S : \E i \in 1..Cardinality(S) : Ascending(S)[i] = x
<1> DEFINE n == Cardinality(S)
           f == Ascending(S)
<1>1. n \in Nat  BY FS_CardinalityType
<1>2. f \in [1..n -> S] /\ \A i, j \in DOMAIN f : i < j => f[i] < f[j]
  BY Enumeration DEF Ascending
<1> HIDE DEF n, f
<1>3. \A i, j \in 1..n : f[i] = f[j] => i = j
  <2> SUFFICES ASSUME NEW i \in 1..n, NEW j \in 1..n, f[i] = f[j], i # j  PROVE FALSE
    OBVIOUS
  <2>1. i < j \/ j < i  BY <1>1
  <2>2. f[i] \in Nat /\ f[j] \in Nat  BY <1>2
  <2> QED BY <2>1, <2>2, <1>2
<1>4. f \in Injection(1..n, S)  BY <1>2, <1>3, Fun_IsInj
<1>5. IsFiniteSet(1..n) /\ Cardinality(1..n) = Cardinality(S)  BY <1>1, FS_Interval DEF n
<1>6. f \in Surjection(1..n, S)  BY <1>4, <1>5, FS_Injection
<1>7. \A x \in S : \E i \in 1..n : f[i] = x  BY <1>6 DEF Surjection
<1> QED BY <1>1, <1>2, <1>7 DEF n, f

LEMMA WithoutPositionsIs ==
  ASSUME NEW T, NEW list \in Seq(T), NEW gone
  PROVE  LET l == WithoutPositions(list, gone)
         IN  /\ l \in Seq(T)
             /\ \A k \in DOMAIN l : \E i \in DOMAIN list \ gone : l[k] = list[i]
             /\ \A i \in DOMAIN list \ gone : \E k \in DOMAIN l : l[k] = list[i]
             /\ (\A i, j \in DOMAIN list : list[i] = list[j] => i = j)
                  => (\A i, j \in DOMAIN l : l[i] = l[j] => i = j)
<1> DEFINE S == DOMAIN list \ gone
           kept == Ascending(S)
           l == WithoutPositions(list, gone)
<1>1. S \in SUBSET Nat /\ IsFiniteSet(S)
  <2>1. DOMAIN list = 1..Len(list) /\ Len(list) \in Nat  OBVIOUS
  <2>2. IsFiniteSet(1..Len(list))
    <3> DEFINE m == Len(list)
    <3>1. 1 \in Int /\ m \in Int  BY <2>1
    <3> HIDE DEF m
    <3>2. IsFiniteSet(1..m)  BY <3>1, FS_Interval
    <3> QED BY <3>2 DEF m
  <2>3. IsFiniteSet(DOMAIN list)  BY <2>1, <2>2, Zenon
  <2>4. IsFiniteSet(DOMAIN list \ gone)  BY <2>3, FS_Difference
  <2> QED BY <2>1, <2>4
<1>2. /\ Cardinality(S) \in Nat
      /\ kept \in [1..Cardinality(S) -> S]
      /\ \A i, j \in 1..Cardinality(S) : i < j => kept[i] < kept[j]
      /\ \A x \in S : \E i \in 1..Cardinality(S) : kept[i] = x
  BY <1>1, AscendingIs
<1>3. l = [k \in 1..Cardinality(S) |-> list[kept[k]]]
  BY <1>2 DEF WithoutPositions
<1>4. \A i \in DOMAIN list : list[i] \in T  OBVIOUS
<1> HIDE DEF kept, l
<1>5. \A k \in 1..Cardinality(S) : kept[k] \in S /\ kept[k] \in DOMAIN list  BY <1>2
<1>6. l \in [1..Cardinality(S) -> T]
  <2>1. \A k \in 1..Cardinality(S) : list[kept[k]] \in T  BY <1>4, <1>5
  <2> QED BY <1>3, <2>1
<1>7. l \in Seq(T) /\ DOMAIN l = 1..Cardinality(S)
  <2> DEFINE m == Cardinality(S)
  <2>1. m \in Nat /\ l \in [1..m -> T]  BY <1>2, <1>6
  <2> HIDE DEF m
  <2>2. l \in Seq(T) /\ DOMAIN l = 1..m  BY <2>1
  <2> QED BY <2>2 DEF m
<1>8. \A k \in DOMAIN l : kept[k] \in S /\ l[k] = list[kept[k]]  BY <1>3, <1>5
<1>9. \A i \in S : \E k \in DOMAIN l : l[k] = list[i]  BY <1>2, <1>3, <1>7
<1>10. \A i, j \in 1..Cardinality(S) : kept[i] = kept[j] => i = j
  <2> SUFFICES ASSUME NEW i \in 1..Cardinality(S), NEW j \in 1..Cardinality(S),
                      kept[i] = kept[j], i # j  PROVE FALSE
    OBVIOUS
  <2>1. i < j \/ j < i  BY <1>2
  <2>2. kept[i] \in S /\ kept[j] \in S  BY <1>5
  <2>3. kept[i] \in Nat /\ kept[j] \in Nat  BY <1>1, <2>2
  <2>4. kept[i] < kept[j] \/ kept[j] < kept[i]  BY <2>1, <1>2
  <2> QED BY <2>3, <2>4
<1>11. ASSUME \A i, j \in DOMAIN list : list[i] = list[j] => i = j
       PROVE  \A i, j \in DOMAIN l : l[i] = l[j] => i = j
  <2> SUFFICES ASSUME NEW i \in DOMAIN l, NEW j \in DOMAIN l, l[i] = l[j]  PROVE i = j
    OBVIOUS
  <2>1. kept[i] \in DOMAIN list /\ kept[j] \in DOMAIN list  BY <1>5, <1>7
  <2>2. kept[i] = kept[j]  BY <1>8, <1>11, <2>1
  <2> QED BY <1>7, <1>10, <2>2
<1> HIDE DEF S
<1>12. \A k \in DOMAIN l : \E i \in S : l[k] = list[i]  BY <1>8
<1> USE DEF S
<1> QED BY <1>7, <1>9, <1>11, <1>12 DEF l

(* How far a publisher is through its copy of the list, and which positions of it  *)
(* it has found closed.                                                            *)
InProgress(p) == pc[p] \in {"fanout", "sweep"}
CallsInv ==
  \A p \in Pubs :
    /\ count[p] <= MaxPublish[p]
    /\ InProgress(p) => count[p] >= 1
    /\ closed[p] \subseteq 1..(idx[p] - 1)
    /\ idx[p] <= Len(senders[p]) + 1
    /\ pc[p] = "fanout" => idx[p] <= Len(senders[p])
    /\ pc[p] = "sweep" => idx[p] = Len(senders[p]) + 1
(* No list has a subscription twice; a noted position is of a dropped one.           *)
EachOnce(list) == \A i, j \in DOMAIN list : list[i] = list[j] => i = j
Known(list) == \A i \in DOMAIN list : receiver[list[i]] # "unborn"
ListsInv ==
  /\ EachOnce(registry) /\ Known(registry)
  /\ \A p \in Pubs : EachOnce(senders[p]) /\ Known(senders[p])
  /\ \A p \in Pubs : \A i \in closed[p] : receiver[senders[p][i]] = "dropped"
(* A message to a subscription is in one place: its channel, a fallback task, or     *)
(* with the receiver.                                                              *)
Carried(s) == {m \in Messages : <<s, m>> \in fallback}
OnceInv ==
  \A s \in Subs :
    /\ EachOnce(channel[s])
    /\ Range(channel[s]) \cap Range(received[s]) = {}
    /\ Carried(s) \cap (Range(channel[s]) \cup Range(received[s])) = {}
    /\ receiver[s] = "unborn" => Carried(s) = {}
    /\ receiver[s] # "open" => channel[s] = <<>>
(* A subscription has no message yet to be published, and none from a publisher      *)
(* that is still to reach it.                                                      *)
Has(s) == Owed(s) \cup Got(s)
SentInv ==
  /\ \A s \in Subs : \A m \in Has(s) : m[2] <= count[m[1]]
  /\ \A p \in Pubs : pc[p] = "fanout" =>
       \A i \in idx[p]..Len(senders[p]) : Current(p) \notin Has(senders[p][i])
(* Of two messages of a publisher the later comes first only if the other was left   *)
(* to a fallback task.                                                             *)
Late(a, b) == a[1] = b[1] /\ a[2] > b[2]
InTurn(r, c, late) ==
  /\ \A i, j \in DOMAIN r : i < j /\ Late(r[i], r[j]) => r[j] \in late
  /\ \A i \in DOMAIN r, j \in DOMAIN c : Late(r[i], c[j]) => c[j] \in late
  /\ \A i, j \in DOMAIN c : i < j /\ Late(c[i], c[j]) => c[j] \in late
Spilled(s) == {m \in Messages : <<s, m>> \in spilled}
OrderInv ==
  /\ fallback \subseteq spilled
  /\ \A s \in Subs : InTurn(received[s], channel[s], Spilled(s))
(* The inductive invariant.                                                        *)
BusInv == TypeOK /\ CallsInv /\ ListsInv /\ OnceInv /\ SentInv /\ OrderInv /\ NoSubscriberSkipped

LEMMA MessageIs ==
  \A p \in Pubs : \A n \in 1..MaxPublish[p] : <<p, n>> \in Messages
<1> SUFFICES ASSUME NEW p \in Pubs, NEW n \in 1..MaxPublish[p]
             PROVE  <<p, n>> \in Messages
  OBVIOUS
<1>1. <<p, n>> \in {p} \X (1..MaxPublish[p])  OBVIOUS
<1> QED BY <1>1, Zenon DEF Messages

LEMMA IsMessage ==
  \A m \in Messages : m[1] \in Pubs /\ m[2] \in Nat /\ m = <<m[1], m[2]>>
BY MaxPublishAssumption DEF Messages

LEMMA InitInv == Init => BusInv
<1> SUFFICES ASSUME Init PROVE BusInv
  OBVIOUS
<1>1. <<>> \in Seq(Subs) /\ <<>> \in Seq(Messages) /\ Len(<<>>) = 0 /\ DOMAIN <<>> = {}
  OBVIOUS
<1>2. \A p \in Pubs : MaxPublish[p] \in Nat  BY MaxPublishAssumption
<1>3. TypeOK
  <2>1. /\ registry \in Seq(Subs) /\ fallback \subseteq Subs \X Messages
        /\ spilled \subseteq Subs \X Messages /\ poisoned \in BOOLEAN
    BY <1>1 DEF Init
  <2>2. /\ receiver \in [Subs -> {"unborn", "open", "dropped"}]
        /\ channel \in [Subs -> Seq(Messages)] /\ received \in [Subs -> Seq(Messages)]
    BY <1>1 DEF Init
  <2>3. /\ pc \in [Pubs -> {"idle", "fanout", "sweep", "panicked"}]
        /\ count \in [Pubs -> Nat] /\ idx \in [Pubs -> Nat \ {0}]
    BY DEF Init
  <2>4. senders \in [Pubs -> Seq(Subs)] /\ closed \in [Pubs -> SUBSET (Nat \ {0})]
    BY <1>1 DEF Init
  <2>5. \A s \in Subs : Len(channel[s]) <= Capacity  BY <1>1, CapacityAssumption DEF Init
  <2> QED BY <2>1, <2>2, <2>3, <2>4, <2>5 DEF TypeOK
<1>4. CallsInv  BY <1>1, <1>2 DEF Init, CallsInv, InProgress
<1>5. ListsInv  BY <1>1 DEF Init, ListsInv, EachOnce, Known
<1>6. \A s \in Subs : Has(s) = {}  BY <1>1 DEF Init, Has, Owed, Got, Range
<1>7. OnceInv  BY <1>1 DEF Init, OnceInv, EachOnce, Range, Carried
<1>8. SentInv  BY <1>6 DEF Init, SentInv
<1>9. OrderInv  BY <1>1 DEF Init, OrderInv, InTurn
<1>10. NoSubscriberSkipped  BY DEF Init, NoSubscriberSkipped
<1> QED BY <1>3, <1>4, <1>5, <1>7, <1>8, <1>9, <1>10 DEF BusInv

-----------------------------------------------------------------------------
(* Types, and where a publisher is in its copy.                            *)

LEMMA ChannelSeq ==
  ASSUME TypeOK, NEW s \in Subs
  PROVE  /\ channel[s] \in Seq(Messages) /\ received[s] \in Seq(Messages)
         /\ Len(channel[s]) \in Nat /\ DOMAIN channel[s] = 1..Len(channel[s])
         /\ Len(received[s]) \in Nat /\ DOMAIN received[s] = 1..Len(received[s])
         /\ channel[s] # <<>> =>
              /\ Head(channel[s]) \in Messages /\ Tail(channel[s]) \in Seq(Messages)
              /\ Len(Tail(channel[s])) = Len(channel[s]) - 1
              /\ Head(channel[s]) = channel[s][1]
              /\ \A i \in 1..(Len(channel[s]) - 1) : Tail(channel[s])[i] = channel[s][i + 1]
<1>1. channel[s] \in Seq(Messages) /\ received[s] \in Seq(Messages)  BY DEF TypeOK
<1> DEFINE c == channel[s]
           r == received[s]
<1> HIDE DEF c, r
<1>2. c \in Seq(Messages) /\ r \in Seq(Messages)  BY <1>1 DEF c, r
<1>3. c # <<>> => /\ Head(c) \in Messages /\ Tail(c) \in Seq(Messages)
                  /\ Len(Tail(c)) = Len(c) - 1 /\ Head(c) = c[1]
                  /\ \A i \in 1..(Len(c) - 1) : Tail(c)[i] = c[i + 1]
  BY <1>2, HeadTailProperties
<1>4. Len(c) \in Nat /\ DOMAIN c = 1..Len(c) /\ Len(r) \in Nat /\ DOMAIN r = 1..Len(r)
  BY <1>2
<1> QED BY <1>2, <1>3, <1>4 DEF c, r

LEMMA CurrentType ==
  ASSUME TypeOK, CallsInv, NEW p \in Pubs, InProgress(p)
  PROVE  Current(p) \in Messages
<1>1. count[p] \in 1..MaxPublish[p]
  BY MaxPublishAssumption DEF TypeOK, CallsInv
<1> QED BY <1>1, MessageIs DEF Current

LEMMA TargetType ==
  ASSUME TypeOK, CallsInv, NEW p \in Pubs, Turn(p)
  PROVE  /\ idx[p] \in DOMAIN senders[p]
         /\ Target(p) \in Subs
<1>1. senders[p] \in Seq(Subs) /\ idx[p] \in Nat \ {0} /\ idx[p] <= Len(senders[p])
  BY DEF TypeOK, CallsInv, Turn
<1>2. idx[p] \in DOMAIN senders[p]  BY <1>1
<1> QED BY <1>1, <1>2, ElementOfSeq DEF Target

\* The steps of Next one by one; a lemma about every step names its cases.
LEMMA NextType == BusInv /\ [Next]_vars => TypeOK' /\ CallsInv'
<1> SUFFICES ASSUME BusInv, [Next]_vars PROVE TypeOK' /\ CallsInv'
  OBVIOUS
<1>0. TypeOK /\ CallsInv  BY DEF BusInv
<1> USE CapacityAssumption, MaxPublishAssumption
<1>1. ASSUME NEW s \in Subs, Subscribe(s)  PROVE TypeOK' /\ CallsInv'
  <2>1. registry' \in Seq(Subs)  BY <1>0, <1>1, AppendProperties DEF Subscribe, TypeOK
  <2>2. receiver' \in [Subs -> {"unborn", "open", "dropped"}]
    BY <1>0, <1>1 DEF Subscribe, TypeOK
  <2>3. TypeOK'  BY <1>0, <1>1, <2>1, <2>2 DEF Subscribe, TypeOK, pubVars
  <2> QED BY <1>0, <1>1, <2>3 DEF Subscribe, CallsInv, InProgress, pubVars
<1>2. ASSUME NEW s \in Subs, DropSubscription(s)  PROVE TypeOK' /\ CallsInv'
  <2>1. receiver' \in [Subs -> {"unborn", "open", "dropped"}]
    BY <1>0, <1>2 DEF DropSubscription, TypeOK
  <2>2. channel' \in [Subs -> Seq(Messages)] /\ \A t \in Subs : Len(channel'[t]) <= Capacity
    <3>1. <<>> \in Seq(Messages) /\ Len(<<>>) = 0  OBVIOUS
    <3> QED BY <1>0, <1>2, <3>1 DEF DropSubscription, TypeOK
  <2>3. TypeOK'  BY <1>0, <1>2, <2>1, <2>2 DEF DropSubscription, TypeOK, pubVars
  <2> QED BY <1>0, <1>2, <2>3 DEF DropSubscription, CallsInv, InProgress, pubVars
<1>3. ASSUME NEW s \in Subs, Recv(s)  PROVE TypeOK' /\ CallsInv'
  <2>1. /\ Head(channel[s]) \in Messages /\ Tail(channel[s]) \in Seq(Messages)
        /\ Len(Tail(channel[s])) <= Capacity
        /\ Append(received[s], Head(channel[s])) \in Seq(Messages)
    <3>1. channel[s] # <<>> /\ Len(channel[s]) <= Capacity  BY <1>0, <1>3 DEF Recv, TypeOK
    <3> QED BY <1>0, <3>1, ChannelSeq, AppendProperties
  <2>2. channel' \in [Subs -> Seq(Messages)] /\ \A t \in Subs : Len(channel'[t]) <= Capacity
    BY <1>0, <1>3, <2>1 DEF Recv, TypeOK
  <2>3. received' \in [Subs -> Seq(Messages)]  BY <1>0, <1>3, <2>1 DEF Recv, TypeOK
  <2>4. TypeOK'  BY <1>0, <1>3, <2>2, <2>3 DEF Recv, TypeOK, pubVars
  <2> QED BY <1>0, <1>3, <2>4 DEF Recv, CallsInv, InProgress, pubVars
<1>4. ASSUME NEW s \in Subs, FallbackTask(s)  PROVE TypeOK' /\ CallsInv'
  <2>1. PICK m \in Messages : FallbackDelivers(s, m) \/ FallbackFindsClosed(s, m)
    BY <1>4 DEF FallbackTask
  <2>2. fallback' \subseteq Subs \X Messages
    BY <1>0, <2>1 DEF FallbackDelivers, FallbackFindsClosed, TaskEnds, TypeOK
  <2>3. UNCHANGED <<registry, poisoned, subVars, pubVars>>
    BY <2>1 DEF FallbackDelivers, FallbackFindsClosed
  <2>4. CASE FallbackDelivers(s, m)
    <3>1. Append(channel[s], m) \in Seq(Messages) /\ Len(Append(channel[s], m)) <= Capacity
      <4>1. Len(channel[s]) < Capacity  BY <2>4 DEF FallbackDelivers, HasRoom
      <4> QED BY <1>0, <4>1, ChannelSeq, AppendProperties
    <3>2. channel' \in [Subs -> Seq(Messages)] /\ \A t \in Subs : Len(channel'[t]) <= Capacity
      BY <1>0, <2>4, <3>1 DEF FallbackDelivers, TypeOK
    <3>3. TypeOK'  BY <1>0, <2>2, <2>3, <3>2 DEF TypeOK, subVars, pubVars
    <3> QED BY <1>0, <2>3, <3>3 DEF CallsInv, InProgress, pubVars
  <2>5. CASE FallbackFindsClosed(s, m)
    <3>1. UNCHANGED channel  BY <2>5 DEF FallbackFindsClosed
    <3>2. TypeOK'  BY <1>0, <2>2, <2>3, <3>1 DEF TypeOK, subVars, pubVars
    <3> QED BY <1>0, <2>3, <3>2 DEF CallsInv, InProgress, pubVars
  <2> QED BY <2>1, <2>4, <2>5
<1>5. ASSUME NEW p \in Pubs, PublishSnapshot(p)  PROVE TypeOK' /\ CallsInv'
  <2>1. /\ count' \in [Pubs -> Nat] /\ senders' \in [Pubs -> Seq(Subs)]
        /\ idx' \in [Pubs -> Nat \ {0}] /\ closed' \in [Pubs -> SUBSET (Nat \ {0})]
        /\ pc' \in [Pubs -> {"idle", "fanout", "sweep", "panicked"}]
    BY <1>0, <1>5 DEF PublishSnapshot, TypeOK
  <2>2. UNCHANGED <<registry, poisoned, subVars, channel, fallback>>
    BY <1>5 DEF PublishSnapshot
  <2>3. TypeOK'  BY <1>0, <2>1, <2>2 DEF TypeOK, subVars
  <2>4. registry \in Seq(Subs) /\ (registry # <<>> => Len(registry) >= 1) /\ Len(registry) >= 0
    BY <1>0, EmptySeq DEF TypeOK
  <2>5. CallsInv'
    <3> SUFFICES ASSUME NEW q \in Pubs
                 PROVE  /\ count'[q] <= MaxPublish[q]
                        /\ InProgress(q)' => count'[q] >= 1
                        /\ closed'[q] \subseteq 1..(idx'[q] - 1)
                        /\ idx'[q] <= Len(senders'[q]) + 1
                        /\ pc'[q] = "fanout" => idx'[q] <= Len(senders'[q])
                        /\ pc'[q] = "sweep" => idx'[q] = Len(senders'[q]) + 1
      BY DEF CallsInv
    <3>1. CASE q # p
      BY <1>0, <1>5, <3>1 DEF PublishSnapshot, TypeOK, CallsInv, InProgress
    <3>2. CASE q = p
      <4>1. /\ count'[p] = count[p] + 1 /\ idx'[p] = 1 /\ closed'[p] = {}
            /\ senders'[p] = registry /\ pc'[p] = (IF registry = <<>> THEN "idle" ELSE "fanout")
            /\ count[p] < MaxPublish[p] /\ count[p] \in Nat /\ MaxPublish[p] \in Nat
        BY <1>0, <1>5 DEF PublishSnapshot, TypeOK
      <4> QED BY <2>4, <3>2, <4>1 DEF InProgress
    <3> QED BY <3>1, <3>2
  <2> QED BY <2>3, <2>5
<1>6. ASSUME NEW p \in Pubs, PublishPanics(p) \/ SweepPanics(p)  PROVE TypeOK' /\ CallsInv'
  <2>1. pc' = [pc EXCEPT ![p] = "panicked"] /\ poisoned' \in BOOLEAN
        /\ UNCHANGED <<registry, subVars, channel, fallback, count, senders, idx, closed>>
    BY <1>0, <1>6 DEF PublishPanics, SweepPanics, TypeOK
  <2>2. TypeOK'  BY <1>0, <2>1 DEF TypeOK, subVars
  <2> QED BY <1>0, <2>1, <2>2 DEF TypeOK, CallsInv, InProgress
<1>7. ASSUME NEW p \in Pubs, TrySend(p)  PROVE TypeOK' /\ CallsInv'
  <2> DEFINE s == Target(p)
             shut == IF receiver[s] = "open" THEN closed[p] ELSE closed[p] \cup {idx[p]}
  <2>1. Turn(p) /\ InProgress(p)  BY <1>7 DEF TrySend, Turn, InProgress
  <2>2. s \in Subs /\ idx[p] \in DOMAIN senders[p] /\ Current(p) \in Messages
    BY <1>0, <2>1, TargetType, CurrentType
  <2>3. idx[p] \in Nat \ {0} /\ idx[p] <= Len(senders[p]) /\ Len(senders[p]) \in Nat
    BY <1>0, <2>1 DEF TypeOK, CallsInv, Turn
  <2>4. shut \subseteq 1..idx[p]
    <3>1. closed[p] \subseteq 1..(idx[p] - 1)  BY <1>0 DEF CallsInv
    <3> QED BY <2>3, <3>1
  <2> HIDE DEF s, shut
  <2>5. channel' \in [Subs -> Seq(Messages)] /\ \A t \in Subs : Len(channel'[t]) <= Capacity
    <3>1. channel' = IF Fits(s) THEN [channel EXCEPT ![s] = Append(@, Current(p))] ELSE channel
      BY <1>7 DEF TrySend, s
    <3>2. Fits(s) => /\ Append(channel[s], Current(p)) \in Seq(Messages)
                     /\ Len(Append(channel[s], Current(p))) <= Capacity
      <4> SUFFICES ASSUME Fits(s) PROVE /\ Append(channel[s], Current(p)) \in Seq(Messages)
                                        /\ Len(Append(channel[s], Current(p))) <= Capacity
        OBVIOUS
      <4>2. Len(channel[s]) < Capacity  BY DEF Fits, HasRoom
      <4> QED BY <1>0, <2>2, <4>2, ChannelSeq, AppendProperties
    <3> QED BY <1>0, <2>2, <3>1, <3>2 DEF TypeOK
  <2>6. fallback' \subseteq Subs \X Messages /\ spilled' \subseteq Subs \X Messages
    <3>1. \/ fallback' = fallback \/ fallback' = fallback \cup {<<s, Current(p)>>}
      BY <1>7 DEF TrySend, s, SpawnFullSend
    <3>2. \/ spilled' = spilled \/ spilled' = spilled \cup {<<s, Current(p)>>}
      BY <1>7 DEF TrySend, s, SpawnFullSend
    <3>3. fallback \subseteq Subs \X Messages /\ spilled \subseteq Subs \X Messages
      BY <1>0 DEF TypeOK
    <3> QED BY <2>2, <3>1, <3>2, <3>3
  <2>7. /\ closed' = [closed EXCEPT ![p] = shut] /\ idx' = [idx EXCEPT ![p] = idx[p] + 1]
        /\ pc' = [pc EXCEPT ![p] = IF idx[p] < Len(senders[p]) THEN "fanout" ELSE AfterLast(shut)]
        /\ UNCHANGED <<registry, poisoned, receiver, received, count, senders>>
    BY <1>7 DEF TrySend, s, shut
  <2>8. /\ closed' \in [Pubs -> SUBSET (Nat \ {0})] /\ idx' \in [Pubs -> Nat \ {0}]
        /\ pc' \in [Pubs -> {"idle", "fanout", "sweep", "panicked"}]
    <3>1. shut \in SUBSET (Nat \ {0})  BY <2>3, <2>4
    <3>2. closed' \in [Pubs -> SUBSET (Nat \ {0})]  BY <1>0, <2>7, <3>1 DEF TypeOK
    <3>3. idx' \in [Pubs -> Nat \ {0}]  BY <1>0, <2>3, <2>7 DEF TypeOK
    <3>4. pc' \in [Pubs -> {"idle", "fanout", "sweep", "panicked"}]
      BY <1>0, <2>7 DEF TypeOK, AfterLast
    <3> QED BY <3>2, <3>3, <3>4
  <2>9. TypeOK'  BY <1>0, <2>5, <2>6, <2>7, <2>8 DEF TypeOK
  <2>10. CallsInv'
    <3> SUFFICES ASSUME NEW q \in Pubs
                 PROVE  /\ count'[q] <= MaxPublish[q]
                        /\ InProgress(q)' => count'[q] >= 1
                        /\ closed'[q] \subseteq 1..(idx'[q] - 1)
                        /\ idx'[q] <= Len(senders'[q]) + 1
                        /\ pc'[q] = "fanout" => idx'[q] <= Len(senders'[q])
                        /\ pc'[q] = "sweep" => idx'[q] = Len(senders'[q]) + 1
      BY DEF CallsInv
    <3>1. CASE q # p
      BY <1>0, <2>7, <3>1 DEF TypeOK, CallsInv, InProgress
    <3>2. CASE q = p
      <4>1. /\ count'[p] = count[p] /\ idx'[p] = idx[p] + 1 /\ closed'[p] = shut
            /\ senders'[p] = senders[p]
            /\ pc'[p] = (IF idx[p] < Len(senders[p]) THEN "fanout" ELSE AfterLast(shut))
            /\ count[p] <= MaxPublish[p] /\ count[p] >= 1
        BY <1>0, <2>1, <2>7 DEF TypeOK, CallsInv
      <4> QED BY <2>3, <2>4, <3>2, <4>1 DEF InProgress, AfterLast
    <3> QED BY <3>1, <3>2
  <2> QED BY <2>9, <2>10
<1>8. ASSUME NEW p \in Pubs, Sweep(p)  PROVE TypeOK' /\ CallsInv'
  <2>1. registry' \in Seq(Subs)
    BY <1>0, <1>8, WithoutPositionsIs DEF Sweep, TypeOK
  <2>2. pc' = [pc EXCEPT ![p] = "idle"]
        /\ UNCHANGED <<poisoned, subVars, channel, fallback, count, senders, idx, closed>>
    BY <1>8 DEF Sweep
  <2>3. TypeOK'  BY <1>0, <2>1, <2>2 DEF TypeOK, subVars
  <2> QED BY <1>0, <2>2, <2>3 DEF TypeOK, CallsInv, InProgress
<1>9. CASE UNCHANGED vars
  BY <1>0, <1>9 DEF vars, TypeOK, CallsInv, InProgress
<1> QED BY <1>1, <1>2, <1>3, <1>4, <1>5, <1>6, <1>7, <1>8, <1>9 DEF Next, Publish

-----------------------------------------------------------------------------
(* What is in a channel after an append or after the head was taken.       *)

LEMMA RangeAppend ==
  ASSUME NEW T, NEW list \in Seq(T), NEW x \in T
  PROVE  /\ Range(Append(list, x)) = Range(list) \cup {x}
         /\ EachOnce(list) /\ x \notin Range(list) => EachOnce(Append(list, x))
<1> DEFINE new == Append(list, x)
           n == Len(list)
<1>1. /\ n \in Nat /\ DOMAIN list = 1..n /\ DOMAIN new = 1..(n + 1)
      /\ new[n + 1] = x /\ \A i \in 1..n : new[i] = list[i]
  BY AppendProperties
<1> HIDE DEF new, n
<1>2. Range(new) = Range(list) \cup {x}
  <2>1. Range(new) \subseteq Range(list) \cup {x}
    <3> SUFFICES ASSUME NEW i \in 1..(n + 1) PROVE new[i] \in Range(list) \cup {x}
      BY <1>1 DEF Range
    <3>1. i = n + 1 \/ i \in 1..n  BY <1>1
    <3> QED BY <1>1, <3>1 DEF Range
  <2>2. Range(list) \subseteq Range(new)  BY <1>1 DEF Range
  <2>3. x \in Range(new)
    <3>1. n + 1 \in DOMAIN new  BY <1>1
    <3> QED BY <1>1, <3>1 DEF Range
  <2> QED BY <2>1, <2>2, <2>3
<1>3. ASSUME EachOnce(list), x \notin Range(list)  PROVE EachOnce(new)
  <2>1. \A i \in 1..n : list[i] # x  BY <1>1, <1>3 DEF Range
  <2>2. \A i, j \in 1..n : list[i] = list[j] => i = j  BY <1>1, <1>3 DEF EachOnce
  <2> SUFFICES ASSUME NEW i \in 1..(n + 1), NEW j \in 1..(n + 1), new[i] = new[j]
               PROVE  i = j
    BY <1>1 DEF EachOnce
  <2>3. (i = n + 1 \/ i \in 1..n) /\ (j = n + 1 \/ j \in 1..n)  BY <1>1
  <2> QED BY <1>1, <2>1, <2>2, <2>3
<1> QED BY <1>2, <1>3 DEF new

LEMMA RangeTail ==
  ASSUME NEW T, NEW list \in Seq(T), list # <<>>
  PROVE  /\ Range(list) = Range(Tail(list)) \cup {Head(list)}
         /\ EachOnce(list) => EachOnce(Tail(list)) /\ Head(list) \notin Range(Tail(list))
<1> DEFINE rest == Tail(list)
           n == Len(list)
<1>1. /\ n \in Nat \ {0} /\ DOMAIN list = 1..n /\ DOMAIN rest = 1..(n - 1)
      /\ Head(list) = list[1] /\ \A i \in 1..(n - 1) : rest[i] = list[i + 1]
  BY HeadTailProperties, EmptySeq
<1> HIDE DEF rest, n
<1>2. Range(list) = Range(rest) \cup {Head(list)}
  <2>1. ASSUME NEW i \in 1..n PROVE list[i] \in Range(rest) \cup {Head(list)}
    <3>1. i = 1 \/ (i - 1 \in 1..(n - 1) /\ i = (i - 1) + 1)  BY <1>1
    <3> QED BY <1>1, <3>1 DEF Range
  <2>2. ASSUME NEW i \in 1..(n - 1) PROVE rest[i] \in Range(list)
    <3>1. i + 1 \in 1..n  BY <1>1
    <3> QED BY <1>1, <3>1 DEF Range
  <2>3. Head(list) \in Range(list)
    <3>1. 1 \in 1..n  BY <1>1
    <3> QED BY <1>1, <3>1 DEF Range
  <2> QED BY <1>1, <2>1, <2>2, <2>3 DEF Range
<1>3. ASSUME EachOnce(list)  PROVE EachOnce(rest) /\ Head(list) \notin Range(rest)
  <2>1. \A i \in 1..(n - 1) : i + 1 \in 1..n /\ i + 1 # 1  BY <1>1
  <2>2. 1 \in 1..n  BY <1>1
  <2>3. EachOnce(rest)
    <3> SUFFICES ASSUME NEW i \in 1..(n - 1), NEW j \in 1..(n - 1), rest[i] = rest[j]
                 PROVE  i = j
      BY <1>1 DEF EachOnce
    <3>1. i + 1 = j + 1  BY <1>1, <1>3, <2>1 DEF EachOnce
    <3> QED BY <3>1
  <2>4. Head(list) \notin Range(rest)
    <3> SUFFICES ASSUME NEW i \in 1..(n - 1), rest[i] = Head(list)  PROVE FALSE
      BY <1>1 DEF Range
    <3>1. list[i + 1] = list[1]  BY <1>1
    <3>2. i + 1 = 1  BY <1>1, <1>3, <2>1, <2>2, <3>1 DEF EachOnce
    <3> QED BY <2>1, <3>2
  <2> QED BY <2>3, <2>4
<1> QED BY <1>2, <1>3 DEF rest

(* What each step does to what a subscription is owed and has got.         *)

LEMMA NothingMoves ==
  ASSUME UNCHANGED <<channel, fallback, received>>, NEW s \in Subs
  PROVE  Owed(s)' = Owed(s) /\ Got(s)' = Got(s)
BY DEF Owed, Got

LEMMA DropMoves ==
  ASSUME BusInv, NEW s \in Subs, DropSubscription(s)
  PROVE  /\ Owed(s)' = Carried(s)
         /\ \A t \in Subs : Got(t)' = Got(t)
         /\ \A t \in Subs \ {s} : Owed(t)' = Owed(t)
<1>1. /\ channel \in [Subs -> Seq(Messages)]
      /\ channel' = [channel EXCEPT ![s] = <<>>] /\ UNCHANGED <<fallback, received>>
  BY DEF BusInv, TypeOK, DropSubscription, subVars
<1>2. channel'[s] = <<>> /\ \A t \in Subs \ {s} : channel'[t] = channel[t]  BY <1>1
<1>3. Range(<<>>) = {}  BY DEF Range
<1> QED BY <1>1, <1>2, <1>3 DEF Owed, Got, Carried

LEMMA RecvMoves ==
  ASSUME BusInv, NEW s \in Subs, Recv(s)
  PROVE  /\ Head(channel[s]) \in Messages
         /\ Head(channel[s]) \in Owed(s)
         /\ Owed(s)' = Owed(s) \ {Head(channel[s])}
         /\ Got(s)' = Got(s) \cup {Head(channel[s])}
         /\ \A t \in Subs \ {s} : Owed(t)' = Owed(t) /\ Got(t)' = Got(t)
<1> DEFINE m == Head(channel[s])
<1>1. TypeOK /\ OnceInv  BY DEF BusInv
<1>2. /\ channel \in [Subs -> Seq(Messages)] /\ received \in [Subs -> Seq(Messages)]
      /\ channel[s] # <<>>
      /\ received' = [received EXCEPT ![s] = Append(received[s], m)]
      /\ channel' = [channel EXCEPT ![s] = Tail(channel[s])]
      /\ UNCHANGED fallback
  BY <1>1 DEF TypeOK, Recv
<1>3. channel[s] \in Seq(Messages) /\ received[s] \in Seq(Messages) /\ m \in Messages
  BY <1>1, <1>2, ChannelSeq
<1>4. /\ Range(channel[s]) = Range(Tail(channel[s])) \cup {m} /\ m \notin Range(Tail(channel[s]))
      /\ m \notin Carried(s)
  BY <1>1, <1>2, <1>3, RangeTail DEF OnceInv
<1>5. Range(Append(received[s], m)) = Range(received[s]) \cup {m}
  BY <1>3, RangeAppend
<1> HIDE DEF m
<1>6. /\ received'[s] = Append(received[s], m) /\ channel'[s] = Tail(channel[s])
      /\ \A t \in Subs \ {s} : received'[t] = received[t] /\ channel'[t] = channel[t]
  BY <1>2
<1>7. Owed(s) = Range(channel[s]) \cup Carried(s)  BY DEF Owed, Carried
<1>8. Owed(s)' = Range(Tail(channel[s])) \cup Carried(s)  BY <1>2, <1>6 DEF Owed, Carried
<1>9. Owed(s)' = Owed(s) \ {m} /\ m \in Owed(s)  BY <1>4, <1>7, <1>8
<1>10. Got(s)' = Got(s) \cup {m}  BY <1>5, <1>6 DEF Got
<1>11. \A t \in Subs \ {s} : Owed(t)' = Owed(t) /\ Got(t)' = Got(t)
  BY <1>2, <1>6 DEF Owed, Got
<1> QED BY <1>3, <1>9, <1>10, <1>11 DEF m

LEMMA DeliverMoves ==
  ASSUME BusInv, NEW s \in Subs, NEW m \in Messages, FallbackDelivers(s, m)
  PROVE  \A t \in Subs : Owed(t)' = Owed(t) /\ Got(t)' = Got(t)
<1>1. /\ channel \in [Subs -> Seq(Messages)] /\ <<s, m>> \in fallback
      /\ channel' = [channel EXCEPT ![s] = Append(channel[s], m)]
      /\ fallback' = fallback \ {<<s, m>>}
      /\ UNCHANGED received
  BY DEF BusInv, TypeOK, FallbackDelivers, TaskEnds, subVars
<1>2. channel'[s] = Append(channel[s], m) /\ \A t \in Subs \ {s} : channel'[t] = channel[t]
  BY <1>1
<1>3. Range(Append(channel[s], m)) = Range(channel[s]) \cup {m}
  <2>1. channel[s] \in Seq(Messages)  BY <1>1
  <2> QED BY <2>1, RangeAppend
<1>4. Carried(s) = Carried(s)' \cup {m} /\ \A t \in Subs \ {s} : Carried(t)' = Carried(t)
  BY <1>1 DEF Carried
<1>5. \A t \in Subs : Owed(t) = Range(channel[t]) \cup Carried(t)  BY DEF Owed, Carried
<1>6. \A t \in Subs : Owed(t)' = Range(channel'[t]) \cup Carried(t)'  BY DEF Owed, Carried
<1>7. Owed(s)' = Owed(s)
  <2>1. Owed(s)' = (Range(channel[s]) \cup {m}) \cup Carried(s)'  BY <1>2, <1>3, <1>6
  <2>2. Owed(s) = Range(channel[s]) \cup (Carried(s)' \cup {m})  BY <1>4, <1>5
  <2> QED BY <2>1, <2>2
<1>8. \A t \in Subs \ {s} : Owed(t)' = Owed(t)  BY <1>2, <1>4, <1>5, <1>6
<1> QED BY <1>1, <1>7, <1>8 DEF Got

LEMMA ClosedMoves ==
  ASSUME BusInv, NEW s \in Subs, NEW m \in Messages, FallbackFindsClosed(s, m)
  PROVE  /\ m \in Owed(s) /\ Owed(s)' = Owed(s) \ {m}
         /\ \A t \in Subs : Got(t)' = Got(t)
         /\ \A t \in Subs \ {s} : Owed(t)' = Owed(t)
<1>1. /\ channel[s] = <<>> /\ <<s, m>> \in fallback
      /\ fallback' = fallback \ {<<s, m>>}
      /\ UNCHANGED <<channel, received>>
  BY DEF BusInv, OnceInv, FallbackFindsClosed, TaskEnds, subVars
<1>2. Range(<<>>) = {}  BY DEF Range
<1>3. Owed(s) = {n \in Messages : <<s, n>> \in fallback}  BY <1>1, <1>2 DEF Owed
<1>4. Owed(s)' = {n \in Messages : <<s, n>> \in fallback \ {<<s, m>>}}
  BY <1>1, <1>2 DEF Owed
<1>5. \A t \in Subs \ {s} : Owed(t)' = Owed(t)  BY <1>1 DEF Owed
<1> QED BY <1>1, <1>3, <1>4, <1>5 DEF Got

LEMMA SendMoves ==
  ASSUME BusInv, NEW p \in Pubs, TrySend(p), NEW s \in Subs, s = Target(p)
  PROVE  /\ \A t \in Subs : Got(t)' = Got(t)
         /\ \A t \in Subs \ {s} : Owed(t)' = Owed(t)
         /\ receiver[s] = "open" => Owed(s)' = Owed(s) \cup {Current(p)}
         /\ receiver[s] # "open" => Owed(s)' = Owed(s)
<1>1. PICK m \in Messages : m = Current(p)
  BY CurrentType DEF BusInv, TrySend, Turn, InProgress
<1>2. /\ channel \in [Subs -> Seq(Messages)]
      /\ channel' = IF Fits(s) THEN [channel EXCEPT ![s] = Append(channel[s], m)] ELSE channel
      /\ fallback' = IF receiver[s] = "open" /\ ~Fits(s) THEN fallback \cup {<<s, m>>}
                                                       ELSE fallback
      /\ UNCHANGED received
  BY <1>1 DEF BusInv, TypeOK, TrySend, SpawnFullSend
<1>3. Range(Append(channel[s], m)) = Range(channel[s]) \cup {m}
  <2>1. channel[s] \in Seq(Messages)  BY <1>2
  <2> QED BY <2>1, RangeAppend
<1>4. \A t \in Subs : Owed(t) = Range(channel[t]) \cup Carried(t)  BY DEF Owed, Carried
<1>5. \A t \in Subs : Owed(t)' = Range(channel'[t]) \cup Carried(t)'  BY DEF Owed, Carried
<1>6. CASE Fits(s)
  <2>1. /\ channel'[s] = Append(channel[s], m) /\ \A t \in Subs \ {s} : channel'[t] = channel[t]
        /\ fallback' = fallback
    BY <1>2, <1>6
  <2>2. \A t \in Subs : Carried(t)' = Carried(t)  BY <2>1 DEF Carried
  <2>3. receiver[s] = "open"  BY <1>6 DEF Fits
  <2>4. Owed(s)' = Owed(s) \cup {m}  BY <1>3, <1>4, <1>5, <2>1, <2>2
  <2>5. \A t \in Subs \ {s} : Owed(t)' = Owed(t)  BY <1>4, <1>5, <2>1, <2>2
  <2> QED BY <1>1, <1>2, <2>3, <2>4, <2>5 DEF Got
<1>7. CASE ~Fits(s) /\ receiver[s] = "open"
  <2>1. channel' = channel /\ fallback' = fallback \cup {<<s, m>>}  BY <1>2, <1>7
  <2>2. Carried(s)' = Carried(s) \cup {m} /\ \A t \in Subs \ {s} : Carried(t)' = Carried(t)
    BY <2>1 DEF Carried
  <2>4. Owed(s)' = Owed(s) \cup {m}  BY <1>4, <1>5, <2>1, <2>2
  <2>5. \A t \in Subs \ {s} : Owed(t)' = Owed(t)  BY <1>4, <1>5, <2>1, <2>2
  <2> QED BY <1>1, <1>2, <1>7, <2>4, <2>5 DEF Got
<1>8. CASE ~Fits(s) /\ receiver[s] # "open"
  <2>1. channel' = channel /\ fallback' = fallback  BY <1>2, <1>8
  <2>2. \A t \in Subs : Owed(t)' = Owed(t)  BY <2>1 DEF Owed
  <2> QED BY <1>1, <1>2, <1>8, <2>2 DEF Got
<1> QED BY <1>6, <1>7, <1>8

\* What a subscription has, it keeps while it is open; what is new was just sent to it.
LEMMA NextHas ==
  ASSUME BusInv, [Next]_vars, NEW s \in Subs
  PROVE  /\ receiver'[s] = "open" => Has(s) \subseteq Has(s)'
         /\ \A m \in Has(s)' \ Has(s) :
              \E p \in Pubs : /\ TrySend(p) /\ s = Target(p) /\ m = Current(p)
                            /\ receiver[s] = "open"
<1> USE DEF Has
<1>1. ASSUME UNCHANGED <<channel, fallback, received>>
      PROVE  Has(s)' = Has(s)
  BY <1>1, NothingMoves
<1>2. ASSUME NEW t \in Subs, Subscribe(t)  PROVE Has(s)' = Has(s)
  BY <1>1, <1>2 DEF Subscribe
<1>3. ASSUME NEW t \in Subs, DropSubscription(t)
      PROVE  Has(s)' \subseteq Has(s) /\ (receiver'[s] = "open" => Has(s) \subseteq Has(s)')
  <2>1. receiver' = [receiver EXCEPT ![t] = "dropped"] /\ t \in DOMAIN receiver
    BY <1>3 DEF DropSubscription, BusInv, TypeOK
  <2>2. CASE s = t
    <3>1. receiver'[s] # "open"  BY <2>1, <2>2
    <3>2. Owed(s)' = Carried(s) /\ Got(s)' = Got(s)  BY <1>3, <2>2, DropMoves
    <3> QED BY <3>1, <3>2 DEF Owed, Carried
  <2>3. CASE s # t
    BY <1>3, <2>3, DropMoves
  <2> QED BY <2>2, <2>3
<1>4. ASSUME NEW t \in Subs, Recv(t)  PROVE Has(s)' = Has(s)
  BY <1>4, RecvMoves
<1>5. ASSUME NEW t \in Subs, FallbackTask(t)
      PROVE  Has(s)' \subseteq Has(s) /\ (receiver'[s] = "open" => Has(s) \subseteq Has(s)')
  <2>1. PICK m \in Messages : FallbackDelivers(t, m) \/ FallbackFindsClosed(t, m)
    BY <1>5 DEF FallbackTask
  <2>2. CASE FallbackDelivers(t, m)  BY <2>2, DeliverMoves
  <2>3. CASE FallbackFindsClosed(t, m)
    <3>1. receiver'[t] = "dropped"  BY <2>3 DEF FallbackFindsClosed, subVars
    <3> QED BY <2>3, <3>1, ClosedMoves
  <2> QED BY <2>1, <2>2, <2>3
<1>6. ASSUME NEW p \in Pubs, PublishSnapshot(p) \/ PublishPanics(p) \/ Sweep(p) \/ SweepPanics(p)
      PROVE  Has(s)' = Has(s)
  BY <1>1, <1>6 DEF PublishSnapshot, PublishPanics, Sweep, SweepPanics, subVars
<1>7. ASSUME NEW p \in Pubs, TrySend(p)
      PROVE  /\ Has(s) \subseteq Has(s)'
             /\ \A m \in Has(s)' \ Has(s) : s = Target(p) /\ m = Current(p) /\ receiver[s] = "open"
  <2>1. PICK t \in Subs : t = Target(p)  BY <1>7, TargetType DEF BusInv, TrySend
  <2>2. CASE s # t
    BY <1>7, <2>1, <2>2, SendMoves
  <2>3. CASE s = t /\ receiver[t] = "open"
    BY <1>7, <2>1, <2>3, SendMoves
  <2>4. CASE s = t /\ receiver[t] # "open"
    BY <1>7, <2>1, <2>4, SendMoves
  <2> QED BY <2>2, <2>3, <2>4
<1>8. CASE UNCHANGED vars  BY <1>1, <1>8 DEF vars
<1> HIDE DEF Has
<1>9. CASE \E t \in Subs : Subscribe(t) \/ DropSubscription(t) \/ Recv(t) \/ FallbackTask(t)
  BY <1>9, <1>2, <1>3, <1>4, <1>5
<1>10. CASE \E p \in Pubs : Publish(p)
  BY <1>10, <1>6, <1>7 DEF Publish
<1> QED BY <1>8, <1>9, <1>10 DEF Next

\* A subscription is opened once and dropped once.
LEMMA NextReceiver ==
  ASSUME BusInv, [Next]_vars, NEW s \in Subs
  PROVE  /\ receiver[s] # "unborn" => receiver'[s] # "unborn"
         /\ receiver[s] = "dropped" => receiver'[s] = "dropped"
         /\ receiver'[s] = "open" /\ receiver[s] # "unborn" => receiver[s] = "open"
<1>1. receiver \in [Subs -> {"unborn", "open", "dropped"}]  BY DEF BusInv, TypeOK
<1>2. ASSUME NEW t \in Subs, Subscribe(t)
      PROVE  receiver[t] = "unborn" /\ receiver' = [receiver EXCEPT ![t] = "open"]
  BY <1>2 DEF Subscribe
<1>3. ASSUME NEW t \in Subs, DropSubscription(t)
      PROVE  receiver[t] = "open" /\ receiver' = [receiver EXCEPT ![t] = "dropped"]
  BY <1>3 DEF DropSubscription
<1>4. ASSUME NEW t \in Subs, Recv(t) \/ FallbackTask(t)  PROVE receiver' = receiver
  BY <1>4 DEF Recv, FallbackTask, FallbackDelivers, FallbackFindsClosed, subVars
<1>5. ASSUME NEW p \in Pubs, Publish(p)  PROVE receiver' = receiver
  BY <1>5 DEF Publish, PublishSnapshot, PublishPanics, TrySend, Sweep, SweepPanics, subVars
<1>6. CASE UNCHANGED vars  BY <1>6 DEF vars
<1>7. CASE \E t \in Subs : Subscribe(t)  BY <1>1, <1>2, <1>7
<1>8. CASE \E t \in Subs : DropSubscription(t)  BY <1>1, <1>3, <1>8
<1>9. CASE receiver' = receiver  BY <1>9
<1> QED BY <1>4, <1>5, <1>6, <1>7, <1>8, <1>9 DEF Next

Same(p) ==
  /\ pc'[p] = pc[p] /\ count'[p] = count[p] /\ senders'[p] = senders[p]
  /\ idx'[p] = idx[p] /\ closed'[p] = closed[p]

Starts(p) ==
  /\ pc[p] = "idle" /\ pc'[p] \in {"idle", "fanout"} /\ count'[p] = count[p] + 1
  /\ senders'[p] = registry /\ idx'[p] = 1 /\ closed'[p] = {}

Ends(p) ==
  /\ pc'[p] \in {"idle", "panicked"} /\ count'[p] = count[p] /\ senders'[p] = senders[p]
  /\ idx'[p] = idx[p] /\ closed'[p] = closed[p]

Sends(p) ==
  /\ TrySend(p) /\ pc[p] = "fanout" /\ count'[p] = count[p] /\ senders'[p] = senders[p]
  /\ idx'[p] = idx[p] + 1 /\ receiver' = receiver
  /\ closed'[p] = IF receiver[Target(p)] = "open" THEN closed[p] ELSE closed[p] \cup {idx[p]}

\* What a step does to one publisher.
LEMMA NextPublisher ==
  ASSUME BusInv, [Next]_vars, NEW p \in Pubs
  PROVE  Same(p) \/ Starts(p) \/ Ends(p) \/ Sends(p)
<1>1. /\ pc \in [Pubs -> {"idle", "fanout", "sweep", "panicked"}] /\ count \in [Pubs -> Nat]
      /\ senders \in [Pubs -> Seq(Subs)] /\ idx \in [Pubs -> Nat \ {0}]
      /\ closed \in [Pubs -> SUBSET (Nat \ {0})]
  BY DEF BusInv, TypeOK
<1>2. ASSUME NEW s \in Subs, Subscribe(s) \/ DropSubscription(s) \/ Recv(s) \/ FallbackTask(s)
      PROVE  Same(p)
  BY <1>2 DEF Subscribe, DropSubscription, Recv, FallbackTask, FallbackDelivers,
              FallbackFindsClosed, pubVars, Same
<1>3. ASSUME NEW q \in Pubs, q # p, Publish(q)  PROVE Same(p)
  <2>1. CASE PublishSnapshot(q)  BY <1>1, <1>3, <2>1 DEF PublishSnapshot, Same
  <2>2. CASE PublishPanics(q)  BY <1>1, <1>3, <2>2 DEF PublishPanics, Same
  <2>3. CASE TrySend(q)  BY <1>1, <1>3, <2>3 DEF TrySend, Same
  <2>4. CASE Sweep(q)  BY <1>1, <1>3, <2>4 DEF Sweep, Same
  <2>5. CASE SweepPanics(q)  BY <1>1, <1>3, <2>5 DEF SweepPanics, Same
  <2> QED BY <1>3, <2>1, <2>2, <2>3, <2>4, <2>5 DEF Publish
<1>4. CASE PublishSnapshot(p)
  <2>1. Starts(p)  BY <1>1, <1>4 DEF PublishSnapshot, Starts
  <2> QED BY <2>1
<1>5. CASE PublishPanics(p) \/ Sweep(p) \/ SweepPanics(p)
  <2>1. Ends(p)  BY <1>1, <1>5 DEF PublishPanics, Sweep, SweepPanics, Ends
  <2> QED BY <2>1
<1>6. CASE TrySend(p)
  <2>1. Sends(p)  BY <1>1, <1>6 DEF TrySend, Turn, Sends
  <2> QED BY <2>1
<1>7. CASE UNCHANGED vars  BY <1>7 DEF vars, Same
<1> QED BY <1>2, <1>3, <1>4, <1>5, <1>6, <1>7 DEF Next, Publish

-----------------------------------------------------------------------------
(* Every list of senders names a subscription at most once.                *)

LEMMA NextLists == BusInv /\ [Next]_vars => ListsInv'
<1> SUFFICES ASSUME BusInv, [Next]_vars PROVE ListsInv'
  OBVIOUS
<1>1. TypeOK /\ ListsInv  BY DEF BusInv
<1>2. registry \in Seq(Subs) /\ \A p \in Pubs : senders[p] \in Seq(Subs)  BY <1>1 DEF TypeOK
<1>3. \A l \in Seq(Subs) : Known(l) => Known(l)'
  <2> SUFFICES ASSUME NEW l \in Seq(Subs), Known(l), NEW i \in DOMAIN l
               PROVE  receiver'[l[i]] # "unborn"
    BY DEF Known
  <2>1. l[i] \in Subs  OBVIOUS
  <2> QED BY <2>1, NextReceiver DEF Known
<1>4. EachOnce(registry') /\ Known(registry)'
  <2>1. ASSUME NEW s \in Subs, Subscribe(s)  PROVE EachOnce(registry') /\ Known(registry)'
    <3>1. /\ registry' = Append(registry, s) /\ receiver[s] = "unborn"
          /\ receiver' = [receiver EXCEPT ![s] = "open"]
          /\ receiver \in [Subs -> {"unborn", "open", "dropped"}]
      BY <1>1, <2>1 DEF Subscribe, TypeOK
    <3>2. s \notin Range(registry)  BY <1>1, <3>1 DEF ListsInv, Known, Range
    <3>3. EachOnce(Append(registry, s))  BY <1>1, <1>2, <3>2, RangeAppend DEF ListsInv
    <3>4. Range(Append(registry, s)) = Range(registry) \cup {s}  BY <1>2, RangeAppend
    <3>5. \A t \in Range(registry) : receiver[t] # "unborn" /\ t \in Subs
      BY <1>1, <1>2 DEF ListsInv, Known, Range
    <3>6. \A t \in Range(registry') : receiver'[t] # "unborn"  BY <3>1, <3>4, <3>5
    <3> QED BY <3>1, <3>3, <3>6 DEF Known, Range
  <2>2. ASSUME NEW p \in Pubs, Sweep(p)  PROVE EachOnce(registry') /\ Known(registry)'
    <3>1. registry' = WithoutPositions(registry, closed[p]) /\ receiver' = receiver
      BY <2>2 DEF Sweep, subVars
    <3>2. \A k \in DOMAIN registry' : \E i \in DOMAIN registry : registry'[k] = registry[i]
      BY <1>2, <3>1, WithoutPositionsIs
    <3>3. EachOnce(registry')
      <4>1. \A i, j \in DOMAIN registry : registry[i] = registry[j] => i = j
        BY <1>1 DEF ListsInv, EachOnce
      <4>2. \A i, j \in DOMAIN WithoutPositions(registry, closed[p]) :
              WithoutPositions(registry, closed[p])[i] = WithoutPositions(registry, closed[p])[j]
                => i = j
        BY <1>2, <4>1, WithoutPositionsIs
      <4> QED BY <3>1, <4>2 DEF EachOnce
    <3> QED BY <1>1, <3>1, <3>2, <3>3 DEF ListsInv, Known
  <2>3. ASSUME registry' = registry  PROVE EachOnce(registry') /\ Known(registry)'
    <3>1. Known(registry)' = (\A i \in DOMAIN registry : receiver'[registry[i]] # "unborn")
      BY <2>3 DEF Known
    <3>2. \A i \in DOMAIN registry : receiver'[registry[i]] # "unborn"
      BY <1>1, <1>2, <1>3 DEF ListsInv, Known
    <3> QED BY <1>1, <2>3, <3>1, <3>2 DEF ListsInv
  <2>4. ASSUME NEW s \in Subs, DropSubscription(s) \/ Recv(s) \/ FallbackTask(s)
        PROVE  registry' = registry
    BY <2>4 DEF DropSubscription, Recv, FallbackTask, FallbackDelivers, FallbackFindsClosed
  <2>5. ASSUME NEW p \in Pubs,
               PublishSnapshot(p) \/ PublishPanics(p) \/ TrySend(p) \/ SweepPanics(p)
        PROVE  registry' = registry
    BY <2>5 DEF PublishSnapshot, PublishPanics, TrySend, SweepPanics
  <2>6. CASE UNCHANGED vars  BY <2>3, <2>6 DEF vars
  <2> QED BY <2>1, <2>2, <2>3, <2>4, <2>5, <2>6 DEF Next, Publish
<1>5. ASSUME NEW p \in Pubs
      PROVE  EachOnce(senders'[p]) /\ Known(senders[p])'
  <2>1. senders'[p] = senders[p] \/ senders'[p] = registry
    BY NextPublisher DEF Same, Starts, Ends, Sends
  <2>2. \E l \in Seq(Subs) : l = senders'[p] /\ EachOnce(l) /\ Known(l)
    BY <1>1, <1>2, <2>1 DEF ListsInv
  <2>3. PICK l \in Seq(Subs) : l = senders'[p] /\ EachOnce(l) /\ Known(l)  BY <2>2
  <2>4. Known(l)'  BY <1>3, <2>3
  <2> QED BY <2>3, <2>4 DEF Known
<1>6. ASSUME NEW p \in Pubs, NEW i \in closed'[p]
      PROVE  receiver'[senders'[p][i]] = "dropped"
  <2>1. \A j \in closed[p] : senders[p][j] \in Subs /\ receiver[senders[p][j]] = "dropped"
    <3>1. closed[p] \subseteq 1..(idx[p] - 1) /\ idx[p] <= Len(senders[p]) + 1 /\ idx[p] \in Nat
      BY <1>1 DEF BusInv, CallsInv, TypeOK
    <3>2. DOMAIN senders[p] = 1..Len(senders[p]) /\ Len(senders[p]) \in Nat  BY <1>2
    <3>3. \A j \in closed[p] : j \in DOMAIN senders[p]  BY <3>1, <3>2
    <3> QED BY <1>1, <1>2, <3>3 DEF ListsInv
  <2>2. \A j \in closed[p] : receiver'[senders[p][j]] = "dropped"  BY <2>1, NextReceiver
  <2>3. CASE Same(p) \/ Ends(p)  BY <1>6, <2>2, <2>3 DEF Same, Ends
  <2>4. CASE Starts(p)  BY <1>6, <2>4 DEF Starts
  <2>5. CASE Sends(p)
    <3>1. Target(p) \in Subs /\ idx[p] \in DOMAIN senders[p]
      BY <2>5, TargetType DEF BusInv, Sends, Turn
    <3>2. receiver[Target(p)] # "unborn"
      BY <1>1, <3>1 DEF ListsInv, Known, Target
    <3>3. receiver[Target(p)] # "open" => receiver'[Target(p)] = "dropped"
      BY <1>1, <2>5, <3>1, <3>2 DEF TypeOK, Sends
    <3>4. i \in closed[p] \/ (i = idx[p] /\ receiver[Target(p)] # "open")
      BY <1>6, <2>5 DEF Sends
    <3>5. senders'[p] = senders[p] /\ receiver' = receiver  BY <2>5 DEF Sends
    <3>6. CASE i \in closed[p]  BY <2>2, <3>5, <3>6
    <3>7. CASE i = idx[p] /\ receiver[Target(p)] # "open"
      <4>1. receiver[senders[p][i]] = "dropped"
        BY <1>1, <3>1, <3>2, <3>7 DEF TypeOK, Target
      <4> QED BY <3>5, <4>1
    <3> QED BY <3>4, <3>6, <3>7
  <2> QED BY NextPublisher, <2>3, <2>4, <2>5
<1> QED BY <1>4, <1>5, <1>6 DEF ListsInv

-----------------------------------------------------------------------------
(* A message is in one place at most.                                      *)

LEMMA HasIs ==
  ASSUME NEW s \in Subs
  PROVE  Has(s) = Range(channel[s]) \cup Carried(s) \cup Range(received[s])
BY DEF Has, Owed, Got, Carried

\* What the publisher is about to send to s, s does not have.
LEMMA Unsent ==
  ASSUME BusInv, NEW p \in Pubs, TrySend(p), NEW s \in Subs, s = Target(p)
  PROVE  Current(p) \notin Has(s) /\ Current(p) \in Messages
<1>1. idx[p] \in DOMAIN senders[p] /\ senders[p] \in Seq(Subs) /\ Turn(p)
  BY TargetType DEF BusInv, TrySend, TypeOK
<1>2. idx[p] \in idx[p]..Len(senders[p])  BY <1>1
<1> QED BY <1>1, <1>2, CurrentType DEF BusInv, SentInv, Turn, Target, InProgress

Placed(s) ==
  /\ EachOnce(channel[s])
  /\ Range(channel[s]) \cap Range(received[s]) = {}
  /\ Carried(s) \cap (Range(channel[s]) \cup Range(received[s])) = {}
  /\ receiver[s] = "unborn" => Carried(s) = {}
  /\ receiver[s] # "open" => channel[s] = <<>>

LEMMA NextOnce == BusInv /\ [Next]_vars => OnceInv'
<1> SUFFICES ASSUME BusInv, [Next]_vars, NEW s \in Subs PROVE Placed(s)'
  BY DEF OnceInv, Placed
<1>1. TypeOK /\ Placed(s)  BY DEF BusInv, OnceInv, Placed
<1>2. channel[s] \in Seq(Messages) /\ received[s] \in Seq(Messages)  BY <1>1 DEF TypeOK
<1>3. ASSUME channel'[s] = channel[s], received'[s] = received[s], fallback' = fallback,
             receiver'[s] = receiver[s] \/ (receiver[s] = "unborn" /\ receiver'[s] = "open")
      PROVE  Placed(s)'
  BY <1>1, <1>3 DEF Placed, Carried
<1>4. ASSUME NEW t \in Subs, Subscribe(t)  PROVE Placed(s)'
  <2>1. UNCHANGED <<channel, received, fallback>> /\ receiver' = [receiver EXCEPT ![t] = "open"]
        /\ receiver[t] = "unborn" /\ DOMAIN receiver = Subs
    BY <1>1, <1>4 DEF Subscribe, TypeOK
  <2> QED BY <1>3, <2>1
<1>5. ASSUME NEW t \in Subs, DropSubscription(t)  PROVE Placed(s)'
  <2>1. /\ UNCHANGED <<received, fallback>> /\ receiver' = [receiver EXCEPT ![t] = "dropped"]
        /\ channel' = [channel EXCEPT ![t] = <<>>] /\ DOMAIN receiver = Subs
        /\ DOMAIN channel = Subs
    BY <1>1, <1>5 DEF DropSubscription, TypeOK
  <2>2. CASE s # t  BY <1>3, <2>1, <2>2
  <2>3. CASE s = t
    <3>1. channel'[s] = <<>> /\ receiver'[s] = "dropped" /\ received'[s] = received[s]
      BY <2>1, <2>3
    <3>2. Range(<<>>) = {} /\ EachOnce(<<>>)  BY DEF Range, EachOnce
    <3>3. Carried(s)' = Carried(s)  BY <2>1 DEF Carried
    <3> QED BY <1>1, <3>1, <3>2, <3>3 DEF Placed
  <2> QED BY <2>2, <2>3
<1>6. ASSUME NEW t \in Subs, Recv(t)  PROVE Placed(s)'
  <2>1. /\ UNCHANGED <<receiver, fallback>> /\ channel[t] # <<>> /\ receiver[t] = "open"
        /\ received' = [received EXCEPT ![t] = Append(received[t], Head(channel[t]))]
        /\ channel' = [channel EXCEPT ![t] = Tail(channel[t])]
        /\ DOMAIN channel = Subs /\ DOMAIN received = Subs
    BY <1>1, <1>6 DEF Recv, TypeOK
  <2>2. CASE s # t  BY <1>3, <2>1, <2>2
  <2>3. CASE s = t
    <3>1. /\ channel'[s] = Tail(channel[s]) /\ receiver'[s] = "open"
          /\ received'[s] = Append(received[s], Head(channel[s]))
      BY <2>1, <2>3
    <3>2. /\ Range(channel[s]) = Range(Tail(channel[s])) \cup {Head(channel[s])}
          /\ EachOnce(Tail(channel[s])) /\ Head(channel[s]) \notin Range(Tail(channel[s]))
      BY <1>1, <1>2, <2>1, <2>3, RangeTail DEF Placed
    <3>3. Range(Append(received[s], Head(channel[s]))) = Range(received[s]) \cup {Head(channel[s])}
      <4>1. Head(channel[s]) \in Messages  BY <1>1, <2>1, <2>3, ChannelSeq
      <4> QED BY <1>2, <4>1, RangeAppend
    <3>4. Carried(s)' = Carried(s)  BY <2>1 DEF Carried
    <3> QED BY <1>1, <3>1, <3>2, <3>3, <3>4 DEF Placed
  <2> QED BY <2>2, <2>3
<1>7. ASSUME NEW t \in Subs, FallbackTask(t)  PROVE Placed(s)'
  <2>1. PICK m \in Messages : FallbackDelivers(t, m) \/ FallbackFindsClosed(t, m)
    BY <1>7 DEF FallbackTask
  <2>2. /\ <<t, m>> \in fallback /\ fallback' = fallback \ {<<t, m>>}
        /\ UNCHANGED <<receiver, received>>
    BY <2>1 DEF FallbackDelivers, FallbackFindsClosed, TaskEnds, subVars
  <2>3. Carried(s)' = IF s = t THEN Carried(s) \ {m} ELSE Carried(s)
    BY <2>2 DEF Carried
  <2>4. CASE FallbackFindsClosed(t, m)
    <3>1. channel' = channel  BY <2>4 DEF FallbackFindsClosed
    <3> QED BY <1>1, <2>2, <2>3, <3>1 DEF Placed
  <2>5. CASE FallbackDelivers(t, m)
    <3>1. channel' = [channel EXCEPT ![t] = Append(channel[t], m)] /\ receiver[t] = "open"
          /\ DOMAIN channel = Subs
      BY <1>1, <2>5 DEF FallbackDelivers, TypeOK
    <3>2. CASE s # t
      BY <1>1, <2>2, <2>3, <3>1, <3>2 DEF Placed
    <3>3. CASE s = t
      <4>1. m \in Carried(s)  BY <2>2, <3>3 DEF Carried
      <4>2. m \notin Range(channel[s]) /\ m \notin Range(received[s])  BY <1>1, <4>1 DEF Placed
      <4>3. /\ Range(Append(channel[s], m)) = Range(channel[s]) \cup {m}
            /\ EachOnce(Append(channel[s], m))
        BY <1>1, <1>2, <4>2, RangeAppend DEF Placed
      <4>4. channel'[s] = Append(channel[s], m) /\ receiver'[s] = "open" /\ received'[s] = received[s]
        BY <2>2, <3>1, <3>3
      <4> QED BY <1>1, <2>3, <3>3, <4>2, <4>3, <4>4 DEF Placed
    <3> QED BY <3>2, <3>3
  <2> QED BY <2>1, <2>4, <2>5
<1>8. ASSUME NEW p \in Pubs, TrySend(p)  PROVE Placed(s)'
  <2>1. PICK t \in Subs, m \in Messages : t = Target(p) /\ m = Current(p) /\ m \notin Has(t)
    <3>1. Target(p) \in Subs  BY <1>8, TargetType DEF BusInv, TrySend
    <3> QED BY <1>8, <3>1, Unsent
  <2>2. /\ channel' = IF Fits(t) THEN [channel EXCEPT ![t] = Append(channel[t], m)] ELSE channel
        /\ fallback' = IF receiver[t] = "open" /\ ~Fits(t) THEN fallback \cup {<<t, m>>}
                                                         ELSE fallback
        /\ UNCHANGED <<received, receiver>> /\ DOMAIN channel = Subs
    BY <1>1, <1>8, <2>1 DEF TypeOK, TrySend, SpawnFullSend
  <2>3. m \notin Range(channel[t]) /\ m \notin Carried(t) /\ m \notin Range(received[t])
    BY <2>1, HasIs
  <2>4. CASE Fits(t)
    <3>1. fallback' = fallback /\ channel' = [channel EXCEPT ![t] = Append(channel[t], m)]
          /\ receiver[t] = "open"
      BY <2>2, <2>4 DEF Fits
    <3>2. CASE s # t  BY <1>3, <2>2, <3>1, <3>2
    <3>3. CASE s = t
      <4>1. /\ Range(Append(channel[s], m)) = Range(channel[s]) \cup {m}
            /\ EachOnce(Append(channel[s], m))
        BY <1>1, <1>2, <2>3, <3>3, RangeAppend DEF Placed
      <4>2. channel'[s] = Append(channel[s], m) /\ receiver'[s] = "open" /\ received'[s] = received[s]
        BY <2>2, <3>1, <3>3
      <4>3. Carried(s)' = Carried(s)  BY <3>1 DEF Carried
      <4> QED BY <1>1, <2>3, <3>3, <4>1, <4>2, <4>3 DEF Placed
    <3> QED BY <3>2, <3>3
  <2>5. CASE receiver[t] = "open" /\ ~Fits(t)
    <3>1. fallback' = fallback \cup {<<t, m>>} /\ channel' = channel  BY <2>2, <2>5
    <3>2. Carried(s)' = IF s = t THEN Carried(s) \cup {m} ELSE Carried(s)  BY <3>1 DEF Carried
    <3> QED BY <1>1, <2>2, <2>3, <2>5, <3>1, <3>2 DEF Placed
  <2>6. CASE receiver[t] # "open" /\ ~Fits(t)
    BY <1>3, <2>2, <2>6
  <2> QED BY <2>4, <2>5, <2>6
<1>9. ASSUME NEW p \in Pubs, PublishSnapshot(p) \/ PublishPanics(p) \/ Sweep(p) \/ SweepPanics(p)
      PROVE  Placed(s)'
  <2>1. UNCHANGED <<channel, received, fallback, receiver>>
    BY <1>9 DEF PublishSnapshot, PublishPanics, Sweep, SweepPanics, subVars
  <2> QED BY <1>3, <2>1
<1>10. CASE UNCHANGED vars  BY <1>3, <1>10 DEF vars
<1> QED BY <1>4, <1>5, <1>6, <1>7, <1>8, <1>9, <1>10 DEF Next, Publish

-----------------------------------------------------------------------------
(* A message is handed to a subscription once, by the call it belongs to.  *)

LEMMA NextSent == BusInv /\ [Next]_vars => SentInv'
<1> SUFFICES ASSUME BusInv, [Next]_vars PROVE SentInv'
  OBVIOUS
<1>1. TypeOK /\ SentInv /\ ListsInv /\ CallsInv  BY DEF BusInv
<1>2. /\ count \in [Pubs -> Nat] /\ senders \in [Pubs -> Seq(Subs)]
      /\ idx \in [Pubs -> Nat \ {0}]
  BY <1>1 DEF TypeOK
<1>3. ASSUME NEW p \in Pubs  PROVE count[p] \in Nat /\ count'[p] >= count[p]
  <2>1. count'[p] = count[p] \/ count'[p] = count[p] + 1
    BY NextPublisher DEF Same, Starts, Ends, Sends
  <2> QED BY <1>2, <2>1
<1>4. \A s \in Subs : Has(s) \subseteq Messages /\ Has(s)' \subseteq Messages
  <2>1. TypeOK'  BY NextType
  <2>2. ASSUME NEW s \in Subs PROVE Has(s) \subseteq Messages
    <3>1. channel[s] \in Seq(Messages) /\ received[s] \in Seq(Messages)
      BY <1>1 DEF TypeOK
    <3>2. Range(channel[s]) \subseteq Messages /\ Range(received[s]) \subseteq Messages
      BY <3>1 DEF Range
    <3> QED BY <3>2 DEF Has, Owed, Got
  <2>3. ASSUME NEW s \in Subs PROVE Has(s)' \subseteq Messages
    <3>1. channel'[s] \in Seq(Messages) /\ received'[s] \in Seq(Messages)
      BY <2>1 DEF TypeOK
    <3>2. Range(channel'[s]) \subseteq Messages /\ Range(received'[s]) \subseteq Messages
      BY <3>1 DEF Range
    <3> QED BY <3>2 DEF Has, Owed, Got
  <2> QED BY <2>2, <2>3
<1>5. ASSUME NEW s \in Subs, NEW m \in Has(s)'  PROVE m[2] <= count'[m[1]]
  <2>1. m[1] \in Pubs /\ m[2] \in Nat  BY <1>4, IsMessage
  <2>2. CASE m \in Has(s)
    <3>1. m[2] <= count[m[1]]  BY <1>1, <2>2 DEF SentInv
    <3>2. count'[m[1]] \in Nat  BY <2>1, NextType DEF TypeOK
    <3> QED BY <1>3, <2>1, <3>1, <3>2
  <2>3. CASE m \notin Has(s)
    <3>1. PICK p \in Pubs : TrySend(p) /\ m = Current(p)  BY <2>3, NextHas
    <3>2. count' = count /\ m[1] = p /\ m[2] = count[p]  BY <3>1 DEF TrySend, Current
    <3> QED BY <1>2, <3>2
  <2> QED BY <2>2, <2>3
<1>6. ASSUME NEW p \in Pubs, pc'[p] = "fanout",
             NEW i \in idx'[p]..Len(senders'[p])
      PROVE  Current(p)' \notin (Has(senders[p][i]))'
  <2>1. TypeOK' /\ CallsInv'  BY NextType
  <2>2. senders'[p] \in Seq(Subs) /\ idx'[p] \in Nat \ {0} /\ Len(senders'[p]) \in Nat
    BY <2>1 DEF TypeOK
  <2>3. i \in Nat /\ i \in DOMAIN senders'[p] /\ senders'[p][i] \in Subs  BY <2>2
  <2>4. PICK s \in Subs : s = senders'[p][i]  BY <2>3
  <2>5. PICK m : m = Current(p)'  OBVIOUS
  <2>6. m[1] = p /\ m[2] = count'[p]  BY <2>5 DEF Current
  <2> SUFFICES ASSUME m \in Has(s)' PROVE FALSE
    BY <2>4, <2>5
  <2>7. ASSUME m \notin Has(s)  PROVE TrySend(p) /\ s = Target(p) /\ m = Current(p)
    <3>1. PICK q \in Pubs : TrySend(q) /\ s = Target(q) /\ m = Current(q)  BY <2>7, NextHas
    <3>2. q = p  BY <2>6, <3>1 DEF Current
    <3> QED BY <3>1, <3>2
  <2>8. CASE Same(p)
    <3>1. pc[p] = "fanout" /\ i \in idx[p]..Len(senders[p]) /\ s = senders[p][i] /\ m = Current(p)
      BY <1>6, <2>4, <2>5, <2>8 DEF Same, Current
    <3>2. m \notin Has(s)  BY <1>1, <3>1 DEF SentInv
    <3>3. idx'[p] = idx[p] + 1  BY <1>2, <2>7, <3>2 DEF TrySend
    <3>4. idx'[p] = idx[p] /\ idx[p] \in Nat  BY <1>2, <2>8 DEF Same
    <3> QED BY <3>3, <3>4
  <2>9. CASE Starts(p)
    <3>1. count'[p] = count[p] + 1 /\ count[p] \in Nat /\ pc[p] = "idle"
      BY <1>2, <2>9 DEF Starts
    <3>2. m \in Has(s)
      <4>1. ~TrySend(p)  BY <3>1 DEF TrySend, Turn
      <4> QED BY <2>7, <4>1
    <3>3. m[2] <= count[p]  BY <1>1, <2>6, <3>2 DEF SentInv
    <3> QED BY <2>6, <3>1, <3>3
  <2>10. CASE Sends(p)
    <3>1. /\ m = Current(p) /\ s = senders[p][i] /\ pc[p] = "fanout"
          /\ i \in (idx[p] + 1)..Len(senders[p])
      BY <2>4, <2>5, <2>10 DEF Sends, Current
    <3>2. idx[p] \in Nat \ {0} /\ Len(senders[p]) \in Nat  BY <1>2
    <3>3. i \in idx[p]..Len(senders[p]) /\ i # idx[p] /\ i \in DOMAIN senders[p]
          /\ idx[p] \in DOMAIN senders[p]
      BY <1>2, <3>1, <3>2
    <3>4. m \notin Has(s)  BY <1>1, <3>1, <3>3 DEF SentInv
    <3>5. senders[p][i] = senders[p][idx[p]]  BY <2>7, <3>1, <3>4 DEF Target
    <3> QED BY <1>1, <3>3, <3>5 DEF ListsInv, EachOnce
  <2>11. CASE Ends(p)  BY <1>6, <2>11 DEF Ends
  <2> QED BY <2>8, <2>9, <2>10, <2>11, NextPublisher
<1> QED BY <1>5, <1>6 DEF SentInv

-----------------------------------------------------------------------------
(* Whom the fan-out has passed.                                            *)

LEMMA NextSkipsNone == BusInv /\ [Next]_vars => NoSubscriberSkipped'
<1> SUFFICES ASSUME BusInv, [Next]_vars, NEW p \in Pubs, pc'[p] \in {"fanout", "sweep"},
                    NEW i \in 1..(idx'[p] - 1), receiver'[senders'[p][i]] = "open"
             PROVE  Current(p)' \in (Has(senders[p][i]))'
  BY DEF NoSubscriberSkipped, Has
<1>1. TypeOK /\ CallsInv /\ ListsInv /\ NoSubscriberSkipped  BY DEF BusInv
<1>2. TypeOK' /\ CallsInv'  BY NextType
<1>3. senders'[p] \in Seq(Subs) /\ idx'[p] \in Nat \ {0} /\ idx'[p] <= Len(senders'[p]) + 1
  BY <1>2 DEF TypeOK, CallsInv
<1>4. i \in DOMAIN senders'[p] /\ senders'[p][i] \in Subs  BY <1>3
<1>5. PICK s \in Subs : s = senders'[p][i]  BY <1>4
<1>6. PICK m : m = Current(p)'  OBVIOUS
<1> SUFFICES m \in Has(s)'
  BY <1>5, <1>6
<1>7. receiver'[s] = "open"  BY <1>5
<1>8. ASSUME senders'[p] = senders[p], count'[p] = count[p], i \in 1..(idx[p] - 1),
             pc[p] \in {"fanout", "sweep"}
      PROVE  m \in Has(s)'
  <2>1. s = senders[p][i] /\ m = Current(p)  BY <1>5, <1>6, <1>8 DEF Current
  <2>2. receiver[s] # "unborn"
    <3>1. i \in DOMAIN senders[p]  BY <1>4, <1>8
    <3> QED BY <1>1, <2>1, <3>1 DEF ListsInv, Known
  <2>3. receiver[s] = "open"  BY <1>7, <2>2, NextReceiver
  <2>4. m \in Has(s)  BY <1>1, <1>8, <2>1, <2>3 DEF NoSubscriberSkipped, Has
  <2> QED BY <1>7, <2>4, NextHas
<1>9. CASE Same(p)  BY <1>8, <1>9 DEF Same
<1>10. CASE Starts(p)  BY <1>10 DEF Starts
<1>11. CASE Ends(p)  BY <1>11 DEF Ends
<1>12. CASE Sends(p)
  <2>1. /\ idx'[p] = idx[p] + 1 /\ idx[p] \in Nat \ {0} /\ pc[p] = "fanout" /\ TrySend(p)
        /\ senders'[p] = senders[p] /\ count'[p] = count[p] /\ receiver' = receiver
    BY <1>1, <1>12 DEF Sends, TypeOK
  <2>2. i \in 1..(idx[p] - 1) \/ i = idx[p]  BY <2>1
  <2>3. CASE i \in 1..(idx[p] - 1)  BY <1>8, <2>1, <2>3
  <2>4. CASE i = idx[p]
    <3>1. s = Target(p) /\ m = Current(p) /\ receiver[s] = "open"
      BY <1>5, <1>6, <1>7, <2>1, <2>4 DEF Target, Current
    <3> QED BY <2>1, <3>1, SendMoves DEF Has
  <2> QED BY <2>2, <2>3, <2>4
<1> QED BY <1>9, <1>10, <1>11, <1>12, NextPublisher

-----------------------------------------------------------------------------
(* Only a message that spilled can be behind a later one of its publisher. *)

LEMMA InTurnAppend ==
  ASSUME NEW r \in Seq(Messages), NEW c \in Seq(Messages), NEW late, NEW m \in Messages,
         InTurn(r, c, late),
         \A x \in Range(r) \cup Range(c) : Late(x, m) => m \in late
  PROVE  InTurn(r, Append(c, m), late)
<1> DEFINE n == Len(c)
           new == Append(c, m)
<1>1. /\ n \in Nat /\ DOMAIN c = 1..n /\ DOMAIN new = 1..(n + 1)
      /\ new[n + 1] = m /\ \A i \in 1..n : new[i] = c[i]
  BY AppendProperties
<1> HIDE DEF n, new
<1>2. \A i \in DOMAIN r : Late(r[i], m) => m \in late  BY DEF Range
<1>3. \A i \in 1..n : Late(c[i], m) => m \in late  BY <1>1 DEF Range
<1>4. \A j \in 1..(n + 1) : j = n + 1 \/ j \in 1..n  BY <1>1
<1>5. ASSUME NEW i \in DOMAIN r, NEW j \in 1..(n + 1), Late(r[i], new[j])  PROVE new[j] \in late
  BY <1>1, <1>2, <1>4, <1>5 DEF InTurn
<1>6. ASSUME NEW i \in 1..(n + 1), NEW j \in 1..(n + 1), i < j, Late(new[i], new[j])
      PROVE  new[j] \in late
  <2>1. i \in 1..n  BY <1>1, <1>6
  <2>2. CASE j = n + 1  BY <1>1, <1>3, <1>6, <2>1, <2>2
  <2>3. CASE j \in 1..n  BY <1>1, <1>6, <2>1, <2>3 DEF InTurn
  <2> QED BY <1>4, <2>2, <2>3
<1> QED BY <1>1, <1>5, <1>6 DEF InTurn, new

LEMMA InTurnTail ==
  ASSUME NEW r \in Seq(Messages), NEW c \in Seq(Messages), c # <<>>, NEW late,
         InTurn(r, c, late)
  PROVE  InTurn(Append(r, Head(c)), Tail(c), late)
<1> DEFINE n == Len(c)
           k == Len(r)
           rest == Tail(c)
           new == Append(r, Head(c))
<1>1. /\ n \in Nat \ {0} /\ DOMAIN c = 1..n /\ DOMAIN rest = 1..(n - 1)
      /\ Head(c) = c[1] /\ \A i \in 1..(n - 1) : rest[i] = c[i + 1]
  BY HeadTailProperties, EmptySeq
<1>2. /\ k \in Nat /\ DOMAIN r = 1..k /\ DOMAIN new = 1..(k + 1)
      /\ new[k + 1] = c[1] /\ \A i \in 1..k : new[i] = r[i]
  <2>1. Head(c) \in Messages  BY HeadTailProperties
  <2> QED BY <1>1, <2>1, AppendProperties
<1> HIDE DEF n, k, rest, new
<1>3. \A j \in 1..(k + 1) : j = k + 1 \/ j \in 1..k  BY <1>2
<1>4. \A j \in 1..(n - 1) : j + 1 \in 1..n /\ 1 < j + 1  BY <1>1
<1>5. 1 \in 1..n  BY <1>1
<1>6. ASSUME NEW i \in 1..(k + 1), NEW j \in 1..(k + 1), i < j, Late(new[i], new[j])
      PROVE  new[j] \in late
  <2>1. i \in 1..k  BY <1>2, <1>6
  <2>2. CASE j = k + 1
    <3>1. Late(r[i], c[1])  BY <1>2, <1>6, <2>1, <2>2
    <3> QED BY <1>1, <1>2, <1>5, <2>1, <2>2, <3>1 DEF InTurn
  <2>3. CASE j \in 1..k  BY <1>2, <1>6, <2>1, <2>3 DEF InTurn
  <2> QED BY <1>3, <2>2, <2>3
<1>7. ASSUME NEW i \in 1..(k + 1), NEW j \in 1..(n - 1), Late(new[i], rest[j])
      PROVE  rest[j] \in late
  <2>1. rest[j] = c[j + 1]  BY <1>1
  <2>2. CASE i = k + 1
    <3>1. Late(c[1], c[j + 1])  BY <1>2, <1>7, <2>1, <2>2
    <3> QED BY <1>1, <1>4, <1>5, <2>1, <3>1 DEF InTurn
  <2>3. CASE i \in 1..k
    <3>1. Late(r[i], c[j + 1])  BY <1>2, <1>7, <2>1, <2>3
    <3> QED BY <1>1, <1>2, <1>4, <2>1, <2>3, <3>1 DEF InTurn
  <2> QED BY <1>3, <2>2, <2>3
<1>8. ASSUME NEW i \in 1..(n - 1), NEW j \in 1..(n - 1), i < j, Late(rest[i], rest[j])
      PROVE  rest[j] \in late
  <2>1. rest[j] = c[j + 1] /\ rest[i] = c[i + 1] /\ i + 1 < j + 1  BY <1>1, <1>8
  <2> QED BY <1>1, <1>4, <1>8, <2>1 DEF InTurn
<1> QED BY <1>1, <1>2, <1>6, <1>7, <1>8 DEF InTurn, new, rest

LEMMA InTurnMore ==
  ASSUME NEW r, NEW c, NEW late, NEW more, late \subseteq more, InTurn(r, c, late)
  PROVE  InTurn(r, c, more)
BY DEF InTurn

LEMMA NextOrder == BusInv /\ [Next]_vars => OrderInv'
<1> SUFFICES ASSUME BusInv, [Next]_vars PROVE OrderInv'
  OBVIOUS
<1>1. TypeOK /\ OrderInv /\ SentInv  BY DEF BusInv
<1>2. channel \in [Subs -> Seq(Messages)] /\ received \in [Subs -> Seq(Messages)]
  BY <1>1 DEF TypeOK
<1>3. ASSUME UNCHANGED <<channel, received, fallback, spilled>>  PROVE OrderInv'
  BY <1>1, <1>3 DEF OrderInv, Spilled
<1>4. ASSUME UNCHANGED spilled  PROVE \A s \in Subs : Spilled(s)' = Spilled(s)
  BY <1>4 DEF Spilled
<1>5. ASSUME NEW t \in Subs, DropSubscription(t)  PROVE OrderInv'
  <2>1. /\ UNCHANGED <<received, fallback, spilled>>
        /\ channel'[t] = <<>> /\ \A s \in Subs \ {t} : channel'[s] = channel[s]
    BY <1>2, <1>5 DEF DropSubscription, subVars
  <2>2. DOMAIN <<>> = {}  OBVIOUS
  <2>3. InTurn(received[t], <<>>, Spilled(t))  BY <1>1, <2>2 DEF OrderInv, InTurn
  <2>4. ASSUME NEW s \in Subs  PROVE InTurn(received'[s], channel'[s], Spilled(s)')
    <3>1. Spilled(s)' = Spilled(s) /\ received'[s] = received[s]  BY <1>4, <2>1
    <3>2. InTurn(received[s], channel[s], Spilled(s))  BY <1>1 DEF OrderInv
    <3> QED BY <2>1, <2>3, <3>1, <3>2
  <2> QED BY <1>1, <2>1, <2>4 DEF OrderInv
<1>6. ASSUME NEW t \in Subs, Recv(t)  PROVE OrderInv'
  <2>1. /\ UNCHANGED <<fallback, spilled>> /\ channel[t] # <<>>
        /\ channel'[t] = Tail(channel[t]) /\ received'[t] = Append(received[t], Head(channel[t]))
        /\ \A s \in Subs \ {t} : channel'[s] = channel[s] /\ received'[s] = received[s]
    BY <1>2, <1>6 DEF Recv
  <2>2. InTurn(Append(received[t], Head(channel[t])), Tail(channel[t]), Spilled(t))
    BY <1>1, <1>2, <2>1, InTurnTail DEF OrderInv
  <2>3. ASSUME NEW s \in Subs  PROVE InTurn(received'[s], channel'[s], Spilled(s)')
    <3>1. Spilled(s)' = Spilled(s)  BY <1>4, <2>1
    <3>2. InTurn(received[s], channel[s], Spilled(s))  BY <1>1 DEF OrderInv
    <3> QED BY <2>1, <2>2, <3>1, <3>2
  <2> QED BY <1>1, <2>1, <2>3 DEF OrderInv
<1>7. ASSUME NEW t \in Subs, FallbackTask(t)  PROVE OrderInv'
  <2>1. PICK m \in Messages : FallbackDelivers(t, m) \/ FallbackFindsClosed(t, m)
    BY <1>7 DEF FallbackTask
  <2>2. /\ <<t, m>> \in fallback /\ fallback' \subseteq fallback /\ UNCHANGED <<received, spilled>>
    BY <2>1 DEF FallbackDelivers, FallbackFindsClosed, TaskEnds, subVars
  <2>3. fallback' \subseteq spilled'  BY <1>1, <2>2 DEF OrderInv
  <2>4. CASE FallbackFindsClosed(t, m)
    <3>1. channel' = channel  BY <2>4 DEF FallbackFindsClosed
    <3> QED BY <1>1, <2>2, <2>3, <3>1 DEF OrderInv, Spilled
  <2>5. CASE FallbackDelivers(t, m)
    <3>1. /\ channel'[t] = Append(channel[t], m)
          /\ \A s \in Subs \ {t} : channel'[s] = channel[s]
      BY <1>2, <2>5 DEF FallbackDelivers
    <3>2. m \in Spilled(t)  BY <1>1, <2>2 DEF OrderInv, Spilled
    <3>3. InTurn(received[t], Append(channel[t], m), Spilled(t))
      BY <1>1, <1>2, <3>2, InTurnAppend DEF OrderInv
    <3>4. ASSUME NEW s \in Subs  PROVE InTurn(received'[s], channel'[s], Spilled(s)')
      <4>1. Spilled(s)' = Spilled(s)  BY <1>4, <2>2
      <4>2. InTurn(received[s], channel[s], Spilled(s))  BY <1>1 DEF OrderInv
      <4> QED BY <2>2, <3>1, <3>3, <4>1, <4>2
    <3> QED BY <2>3, <3>4 DEF OrderInv
  <2> QED BY <2>1, <2>4, <2>5
<1>8. ASSUME NEW p \in Pubs, TrySend(p)  PROVE OrderInv'
  <2>1. PICK t \in Subs, m \in Messages : t = Target(p) /\ m = Current(p)
    <3>1. Target(p) \in Subs  BY <1>8, TargetType DEF BusInv, TrySend
    <3> QED BY <1>8, <3>1, Unsent
  <2>2. /\ channel' = IF Fits(t) THEN [channel EXCEPT ![t] = Append(channel[t], m)] ELSE channel
        /\ fallback' = IF receiver[t] = "open" /\ ~Fits(t) THEN fallback \cup {<<t, m>>}
                                                         ELSE fallback
        /\ spilled' = IF Full(t) THEN spilled \cup {<<t, m>>} ELSE spilled
        /\ received' = received
    BY <1>8, <2>1 DEF TrySend, SpawnFullSend
  <2>3. fallback' \subseteq spilled'
    <3>1. (receiver[t] = "open" /\ ~Fits(t)) <=> Full(t)  BY DEF Fits, Full
    <3> QED BY <1>1, <2>2, <3>1 DEF OrderInv
  <2>4. \A s \in Subs : Spilled(s) \subseteq Spilled(s)'  BY <2>2 DEF Spilled
  <2>5. \A x \in Range(received[t]) \cup Range(channel[t]) : ~Late(x, m)
    <3> SUFFICES ASSUME NEW x \in Range(received[t]) \cup Range(channel[t]), Late(x, m)
                 PROVE  FALSE
      OBVIOUS
    <3>1. x \in Has(t)  BY HasIs
    <3>2. channel[t] \in Seq(Messages) /\ received[t] \in Seq(Messages)  BY <1>2
    <3>3. Range(channel[t]) \subseteq Messages /\ Range(received[t]) \subseteq Messages
      BY <3>2 DEF Range
    <3>4. x[1] \in Pubs /\ x[2] \in Nat  BY <3>3, IsMessage
    <3>5. x[2] <= count[x[1]]  BY <1>1, <3>1 DEF SentInv
    <3>6. x[1] = p /\ x[2] > count[p]  BY <2>1 DEF Late, Current
    <3>7. count[p] \in Nat  BY <1>1 DEF TypeOK
    <3> QED BY <3>4, <3>5, <3>6, <3>7
  <2>6. InTurn(received[t], Append(channel[t], m), Spilled(t))
    BY <1>1, <1>2, <2>5, InTurnAppend DEF OrderInv
  <2>7. ASSUME NEW s \in Subs  PROVE InTurn(received'[s], channel'[s], Spilled(s)')
    <3>1. InTurn(received[s], channel[s], Spilled(s))  BY <1>1 DEF OrderInv
    <3>2. channel'[s] = channel[s] \/ (s = t /\ channel'[s] = Append(channel[t], m))
      BY <1>2, <2>2
    <3>3. InTurn(received'[s], channel'[s], Spilled(s))  BY <2>2, <2>6, <3>1, <3>2
    <3> QED BY <2>4, <3>3, InTurnMore
  <2> QED BY <2>3, <2>7 DEF OrderInv
<1>9. ASSUME NEW p \in Pubs, PublishSnapshot(p) \/ PublishPanics(p) \/ Sweep(p) \/ SweepPanics(p)
      PROVE  OrderInv'
  <2>1. UNCHANGED <<channel, received, fallback, spilled>>
    BY <1>9 DEF PublishSnapshot, PublishPanics, Sweep, SweepPanics, subVars
  <2> QED BY <1>3, <2>1
<1>10. ASSUME NEW t \in Subs, Subscribe(t)  PROVE OrderInv'
  BY <1>3, <1>10 DEF Subscribe
<1>11. CASE UNCHANGED vars  BY <1>3, <1>11 DEF vars
<1> QED BY <1>5, <1>6, <1>7, <1>8, <1>9, <1>10, <1>11 DEF Next, Publish

-----------------------------------------------------------------------------
(* BusInv holds in every state.                                            *)
THEOREM BusInvariant == Spec => []BusInv
<1>1. BusInv /\ [Next]_vars => BusInv'
  BY NextType, NextLists, NextOnce, NextSent, NextOrder, NextSkipsNone DEF BusInv
<1> QED BY InitInv, <1>1, PTL DEF Spec

(* The types; a channel never holds more than its bound.                   *)
THEOREM TypeCorrect == Spec => []TypeOK
BY BusInvariant, PTL DEF BusInv

(* A publish skips nobody who is in its copy of the registry and still     *)
(* open, whatever is subscribed, dropped, received or swept meanwhile      *)
(* (lib.rs publish).                                                       *)
THEOREM NobodySkipped == Spec => []NoSubscriberSkipped
BY BusInvariant, PTL DEF BusInv

(* A subscriber receives one publisher's messages in the order of the      *)
(* calls, but for those that found its channel full (lib.rs publish,       *)
(* spawn_full_send).                                                       *)
THEOREM OrderCorrect == Spec => []PublisherOrder
<1>1. BusInv => PublisherOrder
  BY DEF BusInv, OrderInv, InTurn, Late, Spilled, PublisherOrder
<1> QED BY <1>1, BusInvariant, PTL

LEMMA SweepStep == BusInv /\ [Next]_vars =>
  (\A p \in Pubs :
     pc[p] = "sweep" /\ pc'[p] # "sweep" /\ ~poisoned /\ IsPrefix(senders[p], registry) =>
       /\ pc'[p] = "idle"
       /\ \A i \in closed[p] : senders[p][i] \notin Range(registry')
       /\ \A s \in Range(registry) \ Range(registry') : receiver[s] = "dropped")
<1> SUFFICES ASSUME BusInv, [Next]_vars, NEW p \in Pubs,
                    pc[p] = "sweep", pc'[p] # "sweep", ~poisoned, IsPrefix(senders[p], registry)
             PROVE  /\ pc'[p] = "idle"
                    /\ \A i \in closed[p] : senders[p][i] \notin Range(registry')
                    /\ \A s \in Range(registry) \ Range(registry') : receiver[s] = "dropped"
  OBVIOUS
<1>1. TypeOK /\ CallsInv /\ ListsInv  BY DEF BusInv
<1>2. /\ pc \in [Pubs -> {"idle", "fanout", "sweep", "panicked"}]
      /\ registry \in Seq(Subs) /\ senders[p] \in Seq(Subs)
  BY <1>1 DEF TypeOK
<1>3. \A i \in closed[p] : i \in DOMAIN senders[p] /\ i \in DOMAIN registry
                            /\ senders[p][i] = registry[i]
  <2>1. closed[p] \subseteq 1..(idx[p] - 1) /\ idx[p] \in Nat /\ idx[p] <= Len(senders[p]) + 1
    BY <1>1 DEF CallsInv, TypeOK
  <2>2. /\ Len(senders[p]) \in Nat /\ DOMAIN senders[p] = 1..Len(senders[p])
        /\ Len(registry) \in Nat /\ DOMAIN registry = 1..Len(registry)
    BY <1>2
  <2>3. /\ Len(senders[p]) <= Len(registry)
        /\ SubSeq(senders[p], 1, Len(senders[p])) = SubSeq(registry, 1, Len(senders[p]))
    BY DEF IsPrefix
  <2>4. \A i \in 1..Len(senders[p]) : senders[p][i] = registry[i]
    BY <1>2, <2>2, <2>3, SubSeqProperties
  <2> QED BY <2>1, <2>2, <2>3, <2>4
<1>4. Sweep(p)
  <2>1. ASSUME NEW q \in Pubs, Publish(q)  PROVE q = p /\ (Sweep(p) \/ SweepPanics(p))
    <3>1. CASE PublishSnapshot(q) \/ PublishPanics(q) \/ TrySend(q)
      <4>1. pc[q] \in {"idle", "fanout"} /\ \A r \in Pubs \ {q} : pc'[r] = pc[r]
        BY <1>2, <3>1 DEF PublishSnapshot, PublishPanics, TrySend, Turn
      <4> QED BY <4>1
    <3>2. CASE Sweep(q) \/ SweepPanics(q)
      <4>1. \A r \in Pubs \ {q} : pc'[r] = pc[r]
        BY <1>2, <3>2 DEF Sweep, SweepPanics
      <4> QED BY <3>2, <4>1
    <3> QED BY <2>1, <3>1, <3>2 DEF Publish
  <2>2. ASSUME NEW s \in Subs, Subscribe(s) \/ DropSubscription(s) \/ Recv(s) \/ FallbackTask(s)
        PROVE  FALSE
    BY <2>2 DEF Subscribe, DropSubscription, Recv, FallbackTask, FallbackDelivers,
                FallbackFindsClosed, pubVars
  <2>3. Sweep(p) \/ SweepPanics(p)  BY <2>1, <2>2 DEF Next, vars
  <2>4. ~SweepPanics(p)  BY <1>3 DEF SweepPanics
  <2> QED BY <2>3, <2>4
<1>5. registry' = WithoutPositions(registry, closed[p]) /\ pc'[p] = "idle"
  BY <1>2, <1>4 DEF Sweep
<1>6. /\ \A k \in DOMAIN registry' : \E i \in DOMAIN registry \ closed[p] : registry'[k] = registry[i]
      /\ \A i \in DOMAIN registry \ closed[p] : \E k \in DOMAIN registry' : registry'[k] = registry[i]
  BY <1>2, <1>5, WithoutPositionsIs
<1>7. ASSUME NEW i \in closed[p]  PROVE senders[p][i] \notin Range(registry')
  <2> SUFFICES ASSUME NEW k \in DOMAIN registry', registry'[k] = senders[p][i]  PROVE FALSE
    BY DEF Range
  <2>1. PICK j \in DOMAIN registry \ closed[p] : registry'[k] = registry[j]  BY <1>6
  <2>2. j = i  BY <1>1, <1>3, <2>1 DEF ListsInv, EachOnce
  <2> QED BY <2>1, <2>2
<1>8. ASSUME NEW s \in Range(registry) \ Range(registry')  PROVE receiver[s] = "dropped"
  <2>1. PICK i \in DOMAIN registry : s = registry[i]  BY DEF Range
  <2>2. i \in closed[p]
    <3> SUFFICES ASSUME i \notin closed[p] PROVE FALSE
      OBVIOUS
    <3>1. PICK k \in DOMAIN registry' : registry'[k] = registry[i]  BY <1>6
    <3> QED BY <2>1, <3>1 DEF Range
  <2> QED BY <1>1, <1>3, <2>1, <2>2 DEF ListsInv
<1> QED BY <1>5, <1>7, <1>8

(* As long as the registry only grew since the copy was made, the removal  *)
(* by position neither panics nor hits an open subscription                *)
(* (lib.rs publish, the removal after the fan-out loop).                   *)
THEOREM SweepCorrect == Spec => SweepIsExact
BY SweepStep, BusInvariant, PTL DEF Spec, SweepIsExact

-----------------------------------------------------------------------------
(* The refinement of BusContract, step by step.                            *)

LEMMA InitContract == Init => Contract!Init
<1> SUFFICES ASSUME Init PROVE Contract!Init
  OBVIOUS
<1>1. DOMAIN <<>> = {}  OBVIOUS
<1>2. \A s \in Subs : Owed(s) = {} /\ Got(s) = {}  BY <1>1 DEF Init, Owed, Got, Range
<1> QED BY <1>2 DEF Init, Contract!Init

OwedOf == [s \in Subs |-> Owed(s)]
GotOf  == [s \in Subs |-> Got(s)]

LEMMA StepContract ==
  BusInv /\ [Next]_vars => [Contract!Next]_(Contract!contractVars)
<1> SUFFICES ASSUME BusInv, [Next]_vars
             PROVE  Contract!Next \/ (receiver' = receiver /\ OwedOf' = OwedOf /\ GotOf' = GotOf)
  BY DEF Contract!contractVars, OwedOf, GotOf
<1>1. receiver \in [Subs -> {"unborn", "open", "dropped"}]  BY DEF BusInv, TypeOK
<1>2. ASSUME UNCHANGED <<channel, fallback, received>>
      PROVE  OwedOf' = OwedOf /\ GotOf' = GotOf
  <2>1. \A s \in Subs : Owed(s)' = Owed(s) /\ Got(s)' = Got(s)  BY <1>2, NothingMoves
  <2> QED BY <2>1 DEF OwedOf, GotOf
<1>3. ASSUME NEW s \in Subs, Subscribe(s)  PROVE Contract!Next
  <2>1. receiver[s] = "unborn" /\ receiver' = [receiver EXCEPT ![s] = "open"]
        /\ UNCHANGED <<channel, fallback, received>>
    BY <1>3 DEF Subscribe
  <2>2. Contract!Join(s)  BY <1>2, <2>1 DEF Contract!Join, OwedOf, GotOf
  <2> QED BY <2>2 DEF Contract!Next
<1>4. ASSUME NEW s \in Subs, DropSubscription(s)  PROVE Contract!Next
  <2>1. receiver[s] = "open" /\ receiver' = [receiver EXCEPT ![s] = "dropped"]
    BY <1>4 DEF DropSubscription
  <2>2. PICK left \in SUBSET Owed(s) : left = Carried(s)
    BY DEF Owed, Carried
  <2>3. OwedOf' = [OwedOf EXCEPT ![s] = left] /\ GotOf' = GotOf
    <3>1. /\ Owed(s)' = left /\ \A t \in Subs : Got(t)' = Got(t)
          /\ \A t \in Subs \ {s} : Owed(t)' = Owed(t)
      BY <1>4, <2>2, DropMoves
    <3> QED BY <3>1 DEF OwedOf, GotOf
  <2>4. Contract!Leave(s)  BY <2>1, <2>3 DEF Contract!Leave, OwedOf, GotOf
  <2> QED BY <2>4 DEF Contract!Next
<1>5. ASSUME NEW s \in Subs, Recv(s)  PROVE Contract!Next
  <2>1. receiver[s] = "open" /\ receiver' = receiver  BY <1>5 DEF Recv
  <2>2. PICK m \in Messages : m = Head(channel[s]) /\ m \in Owed(s)  BY <1>5, RecvMoves
  <2>3. /\ Owed(s)' = Owed(s) \ {m} /\ Got(s)' = Got(s) \cup {m}
        /\ \A t \in Subs \ {s} : Owed(t)' = Owed(t) /\ Got(t)' = Got(t)
    BY <1>5, <2>2, RecvMoves
  <2>4. OwedOf' = [OwedOf EXCEPT ![s] = Owed(s) \ {m}]  BY <2>3 DEF OwedOf
  <2>5. GotOf' = [GotOf EXCEPT ![s] = Got(s) \cup {m}]  BY <2>3 DEF GotOf
  <2>6. Contract!Deliver(s, m)
    BY <2>1, <2>2, <2>4, <2>5 DEF Contract!Deliver, OwedOf, GotOf
  <2> QED BY <2>6 DEF Contract!Next
<1>6. ASSUME NEW s \in Subs, FallbackTask(s)
      PROVE  Contract!Next \/ (receiver' = receiver /\ OwedOf' = OwedOf /\ GotOf' = GotOf)
  <2>1. PICK m \in Messages : FallbackDelivers(s, m) \/ FallbackFindsClosed(s, m)
    BY <1>6 DEF FallbackTask
  <2>2. receiver' = receiver  BY <2>1 DEF FallbackDelivers, FallbackFindsClosed, subVars
  <2>3. CASE FallbackDelivers(s, m)
    <3>1. \A t \in Subs : Owed(t)' = Owed(t) /\ Got(t)' = Got(t)  BY <2>3, DeliverMoves
    <3> QED BY <2>2, <3>1 DEF OwedOf, GotOf
  <2>4. CASE FallbackFindsClosed(s, m)
    <3>1. receiver[s] = "dropped"  BY <2>4 DEF FallbackFindsClosed
    <3>2. /\ m \in Owed(s) /\ Owed(s)' = Owed(s) \ {m} /\ \A t \in Subs : Got(t)' = Got(t)
          /\ \A t \in Subs \ {s} : Owed(t)' = Owed(t)
      BY <2>4, ClosedMoves
    <3>3. OwedOf' = [OwedOf EXCEPT ![s] = Owed(s) \ {m}] /\ GotOf' = GotOf
      BY <3>2 DEF OwedOf, GotOf
    <3>4. Contract!Discard(s, m)
      BY <2>2, <3>1, <3>2, <3>3 DEF Contract!Discard, OwedOf, GotOf
    <3> QED BY <3>4 DEF Contract!Next
  <2> QED BY <2>1, <2>3, <2>4
<1>7. ASSUME NEW p \in Pubs, TrySend(p)
      PROVE  Contract!Next \/ (receiver' = receiver /\ OwedOf' = OwedOf /\ GotOf' = GotOf)
  <2>1. PICK s \in Subs : s = Target(p)  BY <1>7, TargetType DEF BusInv, TrySend
  <2>2. receiver' = receiver  BY <1>7 DEF TrySend
  <2>3. PICK m \in Messages : m = Current(p) /\ m \notin Has(s)  BY <1>7, <2>1, Unsent
  <2>4. GotOf' = GotOf  BY <1>7, <2>1, SendMoves DEF GotOf
  <2>5. CASE receiver[s] = "open"
    <3>1. Owed(s)' = Owed(s) \cup {m} /\ \A t \in Subs \ {s} : Owed(t)' = Owed(t)
      BY <1>7, <2>1, <2>3, <2>5, SendMoves
    <3>2. OwedOf' = [OwedOf EXCEPT ![s] = Owed(s) \cup {m}]  BY <3>1 DEF OwedOf
    <3>3. m \notin Owed(s) \cup Got(s)  BY <2>3 DEF Has
    <3>4. Contract!Accept(s, m)
      BY <2>2, <2>4, <2>5, <3>2, <3>3 DEF Contract!Accept, OwedOf, GotOf
    <3> QED BY <3>4 DEF Contract!Next
  <2>6. CASE receiver[s] # "open"
    <3>1. \A t \in Subs : Owed(t)' = Owed(t)  BY <1>7, <2>1, <2>6, SendMoves
    <3> QED BY <2>2, <2>4, <3>1 DEF OwedOf
  <2> QED BY <2>5, <2>6
<1>8. ASSUME NEW p \in Pubs, PublishSnapshot(p) \/ PublishPanics(p) \/ Sweep(p) \/ SweepPanics(p)
      PROVE  receiver' = receiver /\ OwedOf' = OwedOf /\ GotOf' = GotOf
  <2>1. UNCHANGED <<receiver, channel, fallback, received>>
    BY <1>8 DEF PublishSnapshot, PublishPanics, Sweep, SweepPanics, subVars
  <2> QED BY <1>2, <2>1
<1>9. CASE UNCHANGED vars  BY <1>2, <1>9 DEF vars
<1> QED BY <1>3, <1>4, <1>5, <1>6, <1>7, <1>8, <1>9 DEF Next, Publish

(* The bus keeps the contract of BusContract: each subscription is handed  *)
(* a message once at most, keeps it until it is received, and loses it     *)
(* only by being dropped (lib.rs EventBus, Subscription, spawn_full_send). *)
THEOREM ContractImplemented == Spec => ContractSpec
BY InitContract, StepContract, BusInvariant, PTL DEF Spec, ContractSpec, Contract!Spec
=============================================================================
