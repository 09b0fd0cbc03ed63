------------------------- MODULE SpanLedgerProofs -------------------------
(***************************************************************************)
(* Proofs about SpanLedger, for every set of spans and clients, whatever   *)
(* the retentions, the capacity of the broadcast, the size of a page and   *)
(* the number of failures and restarts.                                    *)
(***************************************************************************)
EXTENDS SpanLedger, SequenceTheorems, FiniteSetTheorems, TLAPS

(* A span whose row was written, in this life of the process or before.    *)
Written(s) == span[s].stage \in {"inserted", "streamed", "gone"}

(* Rows are of written spans, and a span has one row ever.                 *)
RowsOnce ==
  /\ \A r \in rows : Written(r.id)
  /\ \A r, q \in rows : r.id = q.id => r = q

(* No purge that has not deleted counts anything; the cutoff of one that   *)
(* waits lies beyond some retention.                                       *)
PurgesSound ==
  \A p \in Purgers :
    /\ purge[p].stage # "deleted" => purge[p].deleted = 0
    /\ purge[p].stage = "waiting" => \E d \in InForce : purge[p].cutoff <= clock - d

(* A client of the stream has read up to the span it will read next.       *)
StreamSound(c) ==
  /\ client[c].stage = "off" => client[c] = Off /\ got[c] = <<>>
  /\ client[c].stage # "off" =>
       /\ client[c].from \in 1..Len(sent) + 1
       /\ client[c].from + Len(got[c]) <= Len(sent) + 1
       /\ \A i \in 1..Len(got[c]) : got[c][i] = sent[client[c].from + i - 1]
  /\ client[c].stage = "on" => client[c].next = client[c].from + Len(got[c])

(* The rows on the pages of a client.                                      *)
Shown(c) == UNION {ToSet(walk[c].pages[k]) : k \in DOMAIN walk[c].pages}

(* A row of a page is in the table, or it was.                             *)
ShownOnce(c) ==
  \A r \in Shown(c) \cup walk[c].there :
    /\ Written(r.id)
    /\ \A q \in rows : r.id = q.id => r = q

(* The pages lead back to the cursor of the next one.                      *)
PagesSorted(c) ==
  LET pages == walk[c].pages IN
  /\ \A k \in DOMAIN pages : pages[k] # <<>>
  /\ \A r \in Shown(c) : Ms(r.at) >= Ms(Cursor(c))
  /\ \A k, m \in DOMAIN pages : \A i \in DOMAIN pages[k], j \in DOMAIN pages[m] :
       k < m \/ (k = m /\ i < j) =>
         /\ Ms(pages[k][i].at) >= Ms(pages[m][j].at)
         /\ pages[k][i].id # pages[m][j].id

(* Rows of the beginning that are not before the cursor have been shown.   *)
Behind(c, r) ==
  \E k \in DOMAIN walk[c].pages :
    r \in ToSet(walk[c].pages[k]) \/ Ms(Last(walk[c].pages[k]).at) = Ms(r.at)

PagesComplete(c) ==
  /\ \A r \in walk[c].there \cap rows : Ms(r.at) >= Ms(Cursor(c)) => Behind(c, r)
  /\ walk[c].stage = "end" /\ walk[c].size > 0 =>
       \A r \in walk[c].there \cap rows : Behind(c, r)

WalkSound(c) == ShownOnce(c) /\ PagesSorted(c) /\ PagesComplete(c)

Finite == IsFiniteSet(rows) /\ IsFiniteSet(Recorded)

LedgerInv ==
  /\ TypeOK /\ Finite /\ RowsConserved /\ RowsOnce /\ PurgesSound
  /\ \A c \in Clients : StreamSound(c) /\ WalkSound(c)

-----------------------------------------------------------------------------
(* Whole milliseconds keep the order of the ticks.                         *)
LEMMA MsOrder ==
  ASSUME NEW a \in Int, NEW b \in Int
  PROVE  /\ Ms(a) \in Int
         /\ a <= b => Ms(a) <= Ms(b)
BY ClockAssumption DEF Ms

(* What is older by its milliseconds is older.                             *)
LEMMA OlderIs ==
  ASSUME NEW a \in Int, NEW b \in Int, Older(a, b)
  PROVE  a < b
<1>1. CASE b <= a
  BY <1>1, MsOrder DEF Older
<1>2. QED
  BY <1>1

(* The interval fires next at a later tick.                                *)
LEMMA TickType ==
  ASSUME NEW t \in Nat, clock \in Nat, LoopRuns, clock >= t
  PROVE  TickAfter(t) \in Nat
<1>1. Interval \in Nat \ {0} /\ clock - t \in Nat
  BY ClockAssumption DEF LoopRuns
<1>2. (clock - t) \div Interval \in Nat
  BY <1>1
<1> DEFINE q == (clock - t) \div Interval
<1> HIDE DEF q
<1>3. t + Interval * (q + 1) \in Nat
  BY <1>1, <1>2 DEF q
<1>4. QED
  BY <1>3 DEF TickAfter, q

(* The rows before a cutoff are rows.                                      *)
LEMMA ExpiredType ==
  ASSUME NEW x PROVE Expired(x) \subseteq rows
BY DEF Expired

(* A page is a sequence of different rows from before the cursor.          *)
LEMMA PageSeq ==
  ASSUME TypeOK, Finite, NEW x, NEW some \in SUBSET Expired(x),
         NEW page \in SetToSeqs(some)
  PROVE  /\ page \in Seq(RowSet)
         /\ Len(page) = Cardinality(some)
         /\ \A i \in 1..Len(page) : page[i] \in Expired(x)
         /\ \A i, j \in 1..Len(page) : i # j => page[i] # page[j]
<1>1. IsFiniteSet(some) /\ Cardinality(some) \in Nat
  BY ExpiredType, FS_Subset, FS_CardinalityType DEF Finite
<1> DEFINE n == Cardinality(some)
<1>2. page \in [1..n -> some] /\ \A i, j \in 1..n : i # j => page[i] # page[j]
  BY DEF SetToSeqs
<1>3. some \subseteq RowSet
  BY ExpiredType DEF TypeOK
<1> HIDE DEF n
<1>4. page \in Seq(some) /\ Len(page) = n
  BY <1>1, <1>2 DEF n
<1>5. page \in Seq(RowSet)
  BY <1>1, <1>2, <1>3 DEF n
<1>6. QED
  BY <1>2, <1>4, <1>5 DEF n

(* The first purges, clients and walks are of their types.                 *)
LEMMA Blank ==
  /\ Idle \in [stage : PurgeStages, cutoff : Int, deleted : Nat]
  /\ Off \in [stage : {"off", "on", "ended"}, from : Nat, next : Nat]
  /\ Unasked \in [stage : {"off", "on", "end"}, since : Nat, size : Nat,
                  pages : Seq(Seq(RowSet)), there : SUBSET RowSet]
<1>1. <<>> \in Seq(Seq(RowSet)) /\ {} \in SUBSET RowSet
  OBVIOUS
<1>2. QED
  BY <1>1 DEF Idle, Off, Unasked, PurgeStages

(* The invariant holds in the initial states.                              *)
LEMMA InitHolds == ASSUME Init PROVE LedgerInv
<1>1. TypeOK
  <2>1. /\ clock \in 0..MaxClock /\ boots \in 1..MaxBoots /\ nextTick \in Nat
    BY ClockAssumption, BoundAssumption DEF Init
  <2>2. /\ span \in [Spans -> [stage : SpanStages, at : 0..MaxClock]]
        /\ audit \in [purged : Nat, failed : 0..MaxFailures]
    BY ClockAssumption, BoundAssumption DEF Init, SpanStages
  <2>3. /\ purge \in [Purgers -> [stage : PurgeStages, cutoff : Int, deleted : Nat]]
        /\ client \in [Clients -> [stage : {"off", "on", "ended"}, from : Nat, next : Nat]]
    BY Blank DEF Init
  <2>4. walk \in [Clients -> [stage : {"off", "on", "end"}, since : Nat, size : Nat,
                              pages : Seq(Seq(RowSet)), there : SUBSET RowSet]]
    BY Blank DEF Init
  <2>5. sent \in Seq(Spans) /\ got \in [Clients -> Seq(Spans)]
    BY DEF Init
  <2>6. rows \subseteq RowSet /\ drops \in Nat
    BY DEF Init
  <2>7. QED
    BY <2>1, <2>2, <2>3, <2>4, <2>5, <2>6 DEF TypeOK
<1>2. rows = {} /\ Recorded = {}
  BY DEF Init, Recorded
<1>3. Finite /\ RowsConserved
  <2>1. purge["loop"] = Idle /\ purge["manual"] = Idle /\ audit.purged = 0
    BY DEF Init, Purgers
  <2>2. QED
    BY <1>2, <2>1, FS_EmptySet DEF Finite, RowsConserved, Idle
<1>4. RowsOnce /\ PurgesSound
  BY <1>2 DEF Init, RowsOnce, PurgesSound, Idle, Purgers
<1>5. ASSUME NEW c \in Clients PROVE StreamSound(c) /\ WalkSound(c)
  <2>1. client[c] = Off /\ got[c] = <<>> /\ walk[c] = Unasked
    BY <1>5 DEF Init
  <2>2. StreamSound(c)
    BY <2>1 DEF StreamSound, Off
  <2>3. walk[c].pages = <<>> /\ walk[c].there = {} /\ walk[c].stage = "off"
    BY <2>1 DEF Unasked
  <2>4. DOMAIN walk[c].pages = {}
    BY <2>3
  <2>5. Shown(c) = {}
    BY <2>4 DEF Shown
  <2>6. QED
    BY <2>2, <2>3, <2>4, <2>5 DEF WalkSound, ShownOnce, PagesSorted, PagesComplete
<1>6. QED
  BY <1>1, <1>3, <1>4, <1>5 DEF LedgerInv

(* Every step keeps the types.                                             *)
LEMMA NextType ==
  ASSUME LedgerInv, Next
  PROVE  TypeOK'
<1>a. TypeOK /\ Finite /\ \A c \in Clients : StreamSound(c)
  BY DEF LedgerInv
<1> USE <1>a DEF TypeOK, ledger, purger, stream
<1>0. /\ clock \in Int /\ MaxClock \in Nat
      /\ \A c \in Clients : walk[c].pages \in Seq(Seq(RowSet)) /\ client[c].next \in Nat
  BY ClockAssumption
<1>1. CASE Tick
  BY <1>0, <1>1 DEF Tick
<1>2. ASSUME NEW s \in Spans, SpanStep(s) PROVE TypeOK'
  <2>1. CASE Begin(s)
    BY <2>1 DEF Begin, SpanStages
  <2>2. CASE Insert(s)
    <3>1. Row(s) \in RowSet
      BY DEF Row, RowSet
    <3>2. rows' \subseteq RowSet' /\ RowSet' = RowSet
      BY <2>2, <3>1 DEF Insert, RowSet
    <3>3. span' \in [Spans -> [stage : SpanStages, at : 0..MaxClock]]
      BY <1>0, <2>2 DEF Insert, SpanStages
    <3>4. UNCHANGED <<clock, drops, purge, nextTick, audit, sent, client, got, walk, boots>>
      BY <2>2 DEF Insert
    <3>5. QED
      BY <3>2, <3>3, <3>4
  <2>3. CASE Broadcast(s)
    <3>1. sent' \in Seq(Spans)
      BY <2>3, AppendProperties DEF Broadcast
    <3>2. span' \in [Spans -> [stage : SpanStages, at : 0..MaxClock]]
      <4>1. span' = [span EXCEPT ![s].stage = "streamed"]
        BY <2>3 DEF Broadcast
      <4>2. QED
        BY ONLY span \in [Spans -> [stage : SpanStages, at : 0..MaxClock]], <4>1
        DEF SpanStages
    <3>3. QED
      BY <2>3, <3>1, <3>2 DEF Broadcast
  <2>4. CASE Drop(s)
    BY <1>0, <2>4 DEF Drop, SpanStages
  <2>5. QED
    BY <1>2, <2>1, <2>2, <2>3, <2>4 DEF SpanStep
<1>3. CASE LoopTick
  <2>1. nextTick' \in Nat
    <3>1. CASE clock >= nextTick
      <4>1. TickAfter(nextTick) \in Nat
        BY <1>3, <3>1, TickType DEF LoopTick
      <4>2. QED
        BY <1>3, <3>1, <4>1 DEF LoopTick
    <3>2. CASE ~(clock >= nextTick)
      BY <1>3, <3>2 DEF LoopTick
    <3>3. QED
      BY <3>1, <3>2
  <2>2. Waiting(clock - DefaultRetention) \in [stage : PurgeStages, cutoff : Int, deleted : Nat]
    BY <1>0, RetentionAssumption DEF Waiting, PurgeStages
  <2>3. QED
    BY <1>3, <2>1, <2>2 DEF LoopTick
<1>4. ASSUME NEW ret \in Manual, ManualPurge(ret) PROVE TypeOK'
  <2>1. Waiting(clock - ret) \in [stage : PurgeStages, cutoff : Int, deleted : Nat]
    BY <1>0, RetentionAssumption DEF Waiting, PurgeStages
  <2>2. QED
    BY <1>4, <2>1 DEF ManualPurge
<1>5. ASSUME NEW p \in Purgers, PurgeStep(p) PROVE TypeOK'
  <2>1. CASE Delete(p)
    <3>1. Counted(p) \in Nat
      BY ExpiredType, FS_Subset, FS_CardinalityType DEF Counted, Finite
    <3>2. purge' \in [Purgers -> [stage : PurgeStages, cutoff : Int, deleted : Nat]]
      <4>1. purge' = [purge EXCEPT ![p].stage = "deleted", ![p].deleted = Counted(p)]
        BY <2>1 DEF Delete
      <4>2. QED
        BY ONLY purge \in [Purgers -> [stage : PurgeStages, cutoff : Int, deleted : Nat]],
                <3>1, <4>1 DEF PurgeStages
    <3>3. QED
      BY <2>1, <3>2 DEF Delete
  <2>2. CASE DeleteFails(p)
    <3>1. purge' \in [Purgers -> [stage : PurgeStages, cutoff : Int, deleted : Nat]]
      BY <2>2, Blank DEF DeleteFails
    <3>2. audit' \in [purged : Nat, failed : 0..MaxFailures]
      <4>1. audit' = [audit EXCEPT !.failed = @ + 1] /\ audit.failed < MaxFailures
        BY <2>2 DEF DeleteFails, SpansPurgeFailed
      <4>2. QED
        BY ONLY audit \in [purged : Nat, failed : 0..MaxFailures], <4>1, BoundAssumption
    <3>3. QED
      BY <2>2, <3>1, <3>2 DEF DeleteFails
  <2>3. CASE EmitPurged(p)
    <3>1. purge' \in [Purgers -> [stage : PurgeStages, cutoff : Int, deleted : Nat]]
      BY <2>3, Blank DEF EmitPurged
    <3>2. purge[p].deleted \in Nat
      BY <1>5
    <3>3. audit' \in [purged : Nat, failed : 0..MaxFailures]
      <4>1. audit' = [audit EXCEPT !.purged = @ + purge[p].deleted]
        BY <2>3 DEF EmitPurged, SpansPurged
      <4>2. QED
        BY ONLY audit \in [purged : Nat, failed : 0..MaxFailures], <3>2, <4>1
    <3>4. QED
      BY <2>3, <3>1, <3>3 DEF EmitPurged, StoreZero
  <2>4. QED
    BY <1>5, <2>1, <2>2, <2>3 DEF PurgeStep
<1>6. ASSUME NEW c \in Clients, Subscribe(c) \/ Forward(c) \/ Lag(c) \/ Disconnect(c)
      PROVE TypeOK'
  <2>1. Len(sent) \in Nat
    BY LenProperties
  <2>2. CASE Subscribe(c)
    <3>1. Len(sent) + 1 \in Nat
      BY <2>1
    <3>2. client' = [client EXCEPT ![c] = [stage |-> "on", from |-> Len(sent) + 1,
                                           next |-> Len(sent) + 1]]
      BY <2>2 DEF Subscribe
    <3>3. client' \in [Clients -> [stage : {"off", "on", "ended"}, from : Nat, next : Nat]]
      BY ONLY client \in [Clients -> [stage : {"off", "on", "ended"}, from : Nat, next : Nat]],
              <3>1, <3>2
    <3>4. QED
      BY <2>2, <3>3 DEF Subscribe, RowSet
  <2>3. CASE Forward(c)
    <3>1. client[c].next \in 1..Len(sent)
      <4>1. client[c].stage = "on" /\ client[c].next =< Len(sent)
        BY <2>3 DEF Forward
      <4>2. client[c].from >= 1 /\ client[c].next = client[c].from + Len(got[c])
        BY <2>1, <4>1 DEF StreamSound
      <4>3. Len(got[c]) \in Nat
        BY LenProperties
      <4>4. QED
        BY <1>0, <2>1, <4>1, <4>2, <4>3
    <3>2. sent[client[c].next] \in Spans
      BY <3>1, ElementOfSeq
    <3>3. Append(got[c], sent[client[c].next]) \in Seq(Spans)
      BY <3>2, AppendProperties
    <3>4. got' \in [Clients -> Seq(Spans)]
      BY <2>3, <3>3 DEF Forward
    <3>5. client' = [client EXCEPT ![c].next = @ + 1]
      BY <2>3 DEF Forward
    <3>6. client' \in [Clients -> [stage : {"off", "on", "ended"}, from : Nat, next : Nat]]
      BY ONLY client \in [Clients -> [stage : {"off", "on", "ended"}, from : Nat, next : Nat]],
              <3>5
    <3>7. QED
      BY <2>3, <3>4, <3>6 DEF Forward, RowSet
  <2>4. CASE Lag(c) \/ Disconnect(c)
    <3>1. \/ client' = [client EXCEPT ![c] = [client[c] EXCEPT !.stage = "ended"]]
          \/ client' = [client EXCEPT ![c].stage = "ended"]
      BY <2>4 DEF Lag, LagEnds, Disconnect
    <3>2. client' \in [Clients -> [stage : {"off", "on", "ended"}, from : Nat, next : Nat]]
      BY ONLY client \in [Clients -> [stage : {"off", "on", "ended"}, from : Nat, next : Nat]],
              <3>1
    <3>3. QED
      BY <2>4, <3>2 DEF Lag, Disconnect, RowSet
  <2>5. QED
    BY <1>6, <2>2, <2>3, <2>4
<1>7. ASSUME NEW c \in Clients, NEW limit \in Limits, StartWalk(c, clock + TicksPerMs, limit)
      PROVE TypeOK'
  <2>1. PageSize(limit) \in Nat
    BY LimitAssumption DEF PageSize
  <2>2. Expired(clock + TicksPerMs) \in SUBSET RowSet /\ clock + TicksPerMs \in Nat
    BY ExpiredType, ClockAssumption
  <2>3. <<>> \in Seq(Seq(RowSet))
    OBVIOUS
  <2>4. walk' \in [Clients -> [stage : {"off", "on", "end"}, since : Nat, size : Nat,
                               pages : Seq(Seq(RowSet)), there : SUBSET RowSet]]
    BY <1>7, <2>1, <2>2, <2>3 DEF StartWalk
  <2>5. QED
    BY <1>7, <2>4 DEF StartWalk, RowSet
<1>8. ASSUME NEW c \in Clients, Page(c) PROVE TypeOK'
  <2>1. PICK some \in SUBSET Expired(Cursor(c)) : \E page \in SetToSeqs(some) :
          walk' = IF page = <<>> THEN [walk EXCEPT ![c].stage = "end"]
                  ELSE [walk EXCEPT ![c].pages = Append(@, page)]
    BY <1>8 DEF Page
  <2>2. PICK page \in SetToSeqs(some) :
          walk' = IF page = <<>> THEN [walk EXCEPT ![c].stage = "end"]
                  ELSE [walk EXCEPT ![c].pages = Append(@, page)]
    BY <2>1
  <2>3. page \in Seq(RowSet)
    BY PageSeq
  <2>4. Append(walk[c].pages, page) \in Seq(Seq(RowSet))
    BY <1>0, <2>3, AppendProperties
  <2>5. walk' \in [Clients -> [stage : {"off", "on", "end"}, since : Nat, size : Nat,
                               pages : Seq(Seq(RowSet)), there : SUBSET RowSet]]
    <3>1. PICK of : /\ walk' = [walk EXCEPT ![c] = of]
                    /\ of \in {[walk[c] EXCEPT !.stage = "end"],
                               [walk[c] EXCEPT !.pages = Append(@, page)]}
      BY <2>2
    <3>2. walk[c] \in [stage : {"off", "on", "end"}, since : Nat, size : Nat,
                       pages : Seq(Seq(RowSet)), there : SUBSET RowSet]
      BY <1>0
    <3>3. of \in [stage : {"off", "on", "end"}, since : Nat, size : Nat,
                  pages : Seq(Seq(RowSet)), there : SUBSET RowSet]
      BY <2>4, <3>1, <3>2
    <3>4. QED
      BY <1>0, <3>1, <3>3
  <2>6. QED
    BY <1>8, <2>5 DEF Page, RowSet
<1>9. CASE Restart
  <2>1. /\ boots' \in 1..MaxBoots /\ nextTick' \in Nat
    BY <1>9, ClockAssumption, BoundAssumption DEF Restart
  <2>2. span' \in [Spans -> [stage : SpanStages, at : 0..MaxClock]]
    BY <1>0, <1>9 DEF Restart, SpanStages
  <2>3. /\ purge' \in [Purgers -> [stage : PurgeStages, cutoff : Int, deleted : Nat]]
        /\ client' \in [Clients -> [stage : {"off", "on", "ended"}, from : Nat, next : Nat]]
    BY <1>9, Blank DEF Restart
  <2>4. sent' \in Seq(Spans) /\ got' \in [Clients -> Seq(Spans)]
    BY <1>9 DEF Restart
  <2>5. QED
    BY <1>9, <2>1, <2>2, <2>3, <2>4 DEF Restart, RowSet
<1>10. QED
  BY ONLY <1>1, <1>2, <1>3, <1>4, <1>5, <1>6, <1>7, <1>8, <1>9, Next DEF Next

(* What a step does to the table and to the stages of the spans: the row   *)
(* of a span at work goes in, or rows go out.                              *)
LEMMA RowsMove ==
  ASSUME TypeOK, Next
  PROVE  /\ \A s \in Spans : Written(s) => Written(s)'
         /\ \/ rows' \subseteq rows
            \/ \E s \in Spans : /\ span[s].stage = "open" /\ Written(s)'
                                /\ rows' = rows \cup {Row(s)}
<1> USE DEF ledger
<1>0. span \in [Spans -> [stage : SpanStages, at : 0..MaxClock]]
  BY DEF TypeOK
<1>1. ASSUME UNCHANGED span
      PROVE  \A s \in Spans : Written(s) => Written(s)'
  BY <1>1 DEF Written
<1>2. CASE Tick \/ LoopTick \/ \E retention \in Manual : ManualPurge(retention)
  BY <1>1, <1>2 DEF Tick, LoopTick, ManualPurge
<1>3. CASE Restart
  <2>1. \A s \in Spans : Written(s) => Written(s)'
    BY <1>0, <1>3 DEF Restart, Written
  <2>2. QED
    BY <1>3, <2>1 DEF Restart
<1>4. ASSUME NEW s \in Spans, SpanStep(s)
      PROVE  /\ \A t \in Spans : Written(t) => Written(t)'
             /\ \/ rows' = rows
                \/ /\ span[s].stage = "open" /\ Written(s)'
                   /\ rows' = rows \cup {Row(s)}
  <2>1. CASE Begin(s)
    BY <1>0, <2>1 DEF Begin, Written
  <2>2. CASE Insert(s)
    BY <1>0, <2>2 DEF Insert, Written
  <2>3. CASE Broadcast(s)
    BY <1>0, <2>3 DEF Broadcast, Written
  <2>4. CASE Drop(s)
    BY <1>0, <2>4 DEF Drop, Written
  <2>5. QED
    BY <1>4, <2>1, <2>2, <2>3, <2>4 DEF SpanStep
<1>5. ASSUME NEW p \in Purgers, PurgeStep(p)
      PROVE  UNCHANGED span /\ rows' \subseteq rows
  BY <1>5 DEF PurgeStep, Delete, DeleteFails, EmitPurged
<1>6. ASSUME NEW c \in Clients,
             \/ Subscribe(c) \/ Forward(c) \/ Lag(c) \/ Disconnect(c) \/ Page(c)
             \/ \E limit \in Limits : StartWalk(c, clock + TicksPerMs, limit)
      PROVE  UNCHANGED <<span, rows>>
  BY <1>6 DEF Subscribe, Forward, Lag, Disconnect, Page, StartWalk
<1>7. QED
  BY ONLY <1>1, <1>2, <1>3, <1>4, <1>5, <1>6, Next DEF Next

(* The rows are of spans at most once written.                             *)
LEMMA NextOnce ==
  ASSUME TypeOK, RowsOnce, Next
  PROVE  RowsOnce'
<1>0. \A r \in rows : r.id \in Spans
  BY DEF TypeOK, RowSet
<1>1. CASE rows' \subseteq rows
  BY <1>0, <1>1, RowsMove DEF RowsOnce
<1>2. ASSUME NEW s \in Spans, span[s].stage = "open", Written(s)', rows' = rows \cup {Row(s)}
      PROVE  RowsOnce'
  <2>1. ~Written(s) /\ Row(s).id = s
    BY <1>2 DEF Written, Row
  <2>2. \A r \in rows' : r \in rows \/ r = Row(s)
    BY <1>2
  <2>3. \A r \in rows : r.id # s
    BY <2>1 DEF RowsOnce
  <2>4. \A r \in rows' : Written(r.id)'
    BY <1>0, <1>2, <2>1, <2>2, RowsMove DEF RowsOnce
  <2>5. \A r, q \in rows' : r.id = q.id => r = q
    BY <2>1, <2>2, <2>3 DEF RowsOnce
  <2>6. QED
    BY <2>4, <2>5 DEF RowsOnce
<1>3. QED
  BY <1>1, <1>2, RowsMove

(* The cutoffs of the purges.                                              *)
LEMMA NextPurges ==
  ASSUME TypeOK, PurgesSound, Next
  PROVE  PurgesSound'
<1> USE DEF ledger, purger
<1>0. /\ purge \in [Purgers -> [stage : PurgeStages, cutoff : Int, deleted : Nat]]
      /\ clock \in Int /\ InForce \subseteq Nat
      /\ "loop" \in Purgers /\ "manual" \in Purgers
  BY RetentionAssumption, ClockAssumption DEF TypeOK, InForce, Purgers
<1>1. ASSUME UNCHANGED purge, clock' \in Int, clock <= clock'
      PROVE  PurgesSound'
  <2>1. ASSUME NEW p \in Purgers, purge[p].stage = "waiting"
        PROVE  \E d \in InForce : purge[p].cutoff <= clock' - d
    <3>1. PICK d \in InForce : purge[p].cutoff <= clock - d
      BY <2>1 DEF PurgesSound
    <3>2. purge[p].cutoff <= clock' - d
      BY <1>0, <1>1, <3>1
    <3>3. QED
      BY <3>2
  <2>2. QED
    BY <1>1, <2>1 DEF PurgesSound, InForce
<1>2. ASSUME NEW p \in Purgers, NEW d \in InForce, UNCHANGED clock,
             purge' = [purge EXCEPT ![p] = Waiting(clock - d)]
      PROVE  PurgesSound'
  BY <1>0, <1>2 DEF PurgesSound, Waiting, InForce
<1>3. CASE Tick
  BY <1>0, <1>1, <1>3 DEF Tick
<1>4. CASE LoopTick
  BY <1>0, <1>2, <1>4 DEF LoopTick, InForce
<1>5. ASSUME NEW ret \in Manual, ManualPurge(ret) PROVE PurgesSound'
  BY <1>0, <1>2, <1>5 DEF ManualPurge, InForce
<1>6. CASE Restart
  BY <1>0, <1>6 DEF Restart, PurgesSound, Idle
<1>7. ASSUME NEW s \in Spans, SpanStep(s) PROVE PurgesSound'
  BY <1>0, <1>1, <1>7 DEF SpanStep, Begin, Insert, Broadcast, Drop
<1>8. ASSUME NEW p \in Purgers, PurgeStep(p) PROVE PurgesSound'
  <2>1. CASE Delete(p)
    <3>1. purge' = [purge EXCEPT ![p].stage = "deleted", ![p].deleted = Counted(p)]
          /\ UNCHANGED clock
      BY <2>1 DEF Delete
    <3>2. purge'[p].stage = "deleted" /\ \A q \in Purgers \ {p} : purge'[q] = purge[q]
      BY <1>0, <3>1
    <3>3. QED
      BY <1>0, <3>1, <3>2 DEF PurgesSound, InForce
  <2>2. CASE DeleteFails(p) \/ EmitPurged(p)
    BY <1>0, <2>2 DEF DeleteFails, EmitPurged, PurgesSound, Idle, InForce
  <2>3. QED
    BY <1>8, <2>1, <2>2 DEF PurgeStep
<1>9. ASSUME NEW c \in Clients,
             \/ Subscribe(c) \/ Forward(c) \/ Lag(c) \/ Disconnect(c) \/ Page(c)
             \/ \E limit \in Limits : StartWalk(c, clock + TicksPerMs, limit)
      PROVE  PurgesSound'
  BY <1>0, <1>1, <1>9 DEF Subscribe, Forward, Lag, Disconnect, Page, StartWalk
<1>10. QED
  BY ONLY <1>3, <1>4, <1>5, <1>6, <1>7, <1>8, <1>9, Next DEF Next

(* A purge counts the rows it takes, no more and no less, and no row goes  *)
(* in twice.                                                               *)
LEMMA NextConserved ==
  ASSUME LedgerInv, Next
  PROVE  Finite' /\ RowsConserved'
<1> USE DEF ledger, purger
<1>0. /\ purge \in [Purgers -> [stage : PurgeStages, cutoff : Int, deleted : Nat]]
      /\ span \in [Spans -> [stage : SpanStages, at : 0..MaxClock]]
      /\ audit \in [purged : Nat, failed : 0..MaxFailures]
      /\ boots \in Nat \ {0}
      /\ Purgers = {"loop", "manual"}
  BY BoundAssumption DEF LedgerInv, TypeOK, Purgers
<1>f. /\ IsFiniteSet(rows) /\ IsFiniteSet(Recorded) /\ RowsConserved
      /\ Cardinality(rows) \in Nat /\ Cardinality(Recorded) \in Nat
  BY FS_CardinalityType DEF LedgerInv, Finite
<1>1. ASSUME UNCHANGED <<rows, boots, audit, purge>>, Recorded' = Recorded
      PROVE  Finite' /\ RowsConserved'
  BY <1>f, <1>1 DEF Finite, RowsConserved
<1>2. UNCHANGED span => Recorded' = Recorded
  BY DEF Recorded
<1>3. ASSUME UNCHANGED <<rows, span, boots, audit>>, NEW p \in Purgers,
             purge[p].stage = "idle", NEW x, purge' = [purge EXCEPT ![p] = Waiting(x)]
      PROVE  Finite' /\ RowsConserved'
  <2>1. purge[p].deleted = 0
    BY <1>3 DEF LedgerInv, PurgesSound
  <2>2. purge'["loop"].deleted = purge["loop"].deleted
        /\ purge'["manual"].deleted = purge["manual"].deleted
    BY <1>0, <1>3, <2>1 DEF Waiting
  <2>3. QED
    BY <1>2, <1>3, <1>f, <2>2 DEF Finite, RowsConserved
<1>4. CASE Tick
  BY <1>1, <1>2, <1>4 DEF Tick
<1>5. CASE LoopTick
  BY <1>0, <1>3, <1>5 DEF LoopTick
<1>6. ASSUME NEW ret \in Manual, ManualPurge(ret) PROVE Finite' /\ RowsConserved'
  BY <1>0, <1>3, <1>6 DEF ManualPurge
<1>7. CASE Restart
  <2>1. Recorded' = {} /\ UNCHANGED rows /\ boots' # 1
    BY <1>0, <1>7 DEF Restart, Recorded
  <2>2. QED
    BY <1>f, <2>1, FS_EmptySet DEF Finite, RowsConserved
<1>8. ASSUME NEW s \in Spans, SpanStep(s) PROVE Finite' /\ RowsConserved'
  <2>1. CASE Insert(s)
    <3>1. Recorded' = Recorded \cup {s} /\ s \notin Recorded
      BY <1>0, <2>1 DEF Insert, Recorded
    <3>2. rows' = rows \cup {Row(s)} /\ Row(s) \notin rows
      <4>1. ~Written(s) /\ Row(s).id = s
        BY <2>1 DEF Insert, Written, Row
      <4>2. QED
        BY <2>1, <4>1 DEF Insert, LedgerInv, RowsOnce
    <3>3. /\ IsFiniteSet(rows') /\ Cardinality(rows') = Cardinality(rows) + 1
          /\ IsFiniteSet(Recorded') /\ Cardinality(Recorded') = Cardinality(Recorded) + 1
      BY <1>f, <3>1, <3>2, FS_AddElement
    <3>4. UNCHANGED <<boots, audit, purge>>
      BY <2>1 DEF Insert
    <3>5. QED
      BY <1>0, <1>f, <3>3, <3>4 DEF Finite, RowsConserved
  <2>2. CASE Begin(s)
    <3>1. Recorded' = Recorded
      BY <1>0, <2>2 DEF Begin, Recorded
    <3>2. QED
      BY <1>1, <2>2, <3>1 DEF Begin
  <2>3. CASE Broadcast(s)
    <3>1. Recorded' = Recorded
      BY <1>0, <2>3 DEF Broadcast, Recorded
    <3>2. QED
      BY <1>1, <2>3, <3>1 DEF Broadcast
  <2>4. CASE Drop(s)
    <3>1. Recorded' = Recorded
      BY <1>0, <2>4 DEF Drop, Recorded
    <3>2. QED
      BY <1>1, <2>4, <3>1 DEF Drop
  <2>5. QED
    BY <1>8, <2>1, <2>2, <2>3, <2>4 DEF SpanStep
<1>9. ASSUME NEW p \in Purgers, PurgeStep(p) PROVE Finite' /\ RowsConserved'
  <2>1. CASE Delete(p)
    <3> DEFINE gone == Expired(purge[p].cutoff)
    <3>1. gone \subseteq rows
      BY ExpiredType
    <3>2. /\ rows' = rows \ gone /\ UNCHANGED <<span, boots, audit>>
          /\ purge' = [purge EXCEPT ![p].stage = "deleted", ![p].deleted = Counted(p)]
          /\ purge[p].stage = "waiting"
      BY <2>1 DEF Delete
    <3>3. Counted(p) = Cardinality(gone)
      BY DEF Counted
    <3> HIDE DEF gone
    <3>4. IsFiniteSet(gone) /\ Cardinality(gone) \in Nat
      BY <1>f, <3>1, FS_Subset, FS_CardinalityType
    <3>5. rows \cap gone = gone
      BY <3>1
    <3>6. IsFiniteSet(rows') /\ Cardinality(rows') = Cardinality(rows) - Cardinality(gone)
      <4>1. /\ IsFiniteSet(rows \ gone)
            /\ Cardinality(rows \ gone) = Cardinality(rows) - Cardinality(rows \cap gone)
        BY <1>f, FS_Difference
      <4>2. QED
        BY <3>2, <3>5, <4>1
    <3>7. purge[p].deleted = 0
      BY <3>2 DEF LedgerInv, PurgesSound
    <3>8. /\ purge'[p].deleted = Cardinality(gone)
          /\ \A q \in Purgers \ {p} : purge'[q] = purge[q]
      BY <1>0, <3>2, <3>3
    <3>9. purge'["loop"].deleted + purge'["manual"].deleted
            = purge["loop"].deleted + purge["manual"].deleted + Cardinality(gone)
      BY <1>0, <3>4, <3>7, <3>8
    <3>10. Finite'
      BY <1>2, <1>f, <3>2, <3>6 DEF Finite
    <3>11. /\ purge["loop"].deleted \in Nat /\ purge["manual"].deleted \in Nat
           /\ purge'["loop"].deleted \in Nat /\ purge'["manual"].deleted \in Nat
           /\ audit.purged \in Nat
      BY <1>0, <3>4, <3>8
    <3>12. RowsConserved'
      BY <1>2, <1>f, <3>2, <3>4, <3>6, <3>9, <3>11 DEF RowsConserved
    <3>13. QED
      BY <3>10, <3>12
  <2>2. CASE DeleteFails(p)
    <3>1. /\ UNCHANGED <<rows, span, boots>> /\ purge[p].stage = "waiting"
          /\ purge' = [purge EXCEPT ![p] = Idle]
          /\ audit' = [audit EXCEPT !.failed = @ + 1]
      BY <2>2 DEF DeleteFails, SpansPurgeFailed
    <3>2. purge[p].deleted = 0
      BY <3>1 DEF LedgerInv, PurgesSound
    <3>3. /\ purge'["loop"].deleted = purge["loop"].deleted
          /\ purge'["manual"].deleted = purge["manual"].deleted
          /\ audit'.purged = audit.purged
      BY <1>0, <3>1, <3>2 DEF Idle
    <3>4. QED
      BY <1>2, <1>f, <3>1, <3>3 DEF Finite, RowsConserved
  <2>3. CASE EmitPurged(p)
    <3>1. /\ UNCHANGED <<rows, span, boots>>
          /\ purge' = [purge EXCEPT ![p] = Idle]
          /\ audit' = [audit EXCEPT !.purged = @ + purge[p].deleted]
      BY <2>3 DEF EmitPurged, SpansPurged
    <3>2. /\ audit'.purged = audit.purged + purge[p].deleted
          /\ purge'[p].deleted = 0
          /\ \A q \in Purgers \ {p} : purge'[q] = purge[q]
      BY <1>0, <3>1 DEF Idle
    <3>3. audit'.purged + purge'["loop"].deleted + purge'["manual"].deleted
            = audit.purged + purge["loop"].deleted + purge["manual"].deleted
      BY <1>0, <3>2
    <3>4. /\ purge["loop"].deleted \in Nat /\ purge["manual"].deleted \in Nat
          /\ purge'["loop"].deleted \in Nat /\ purge'["manual"].deleted \in Nat
          /\ audit.purged \in Nat /\ audit'.purged \in Nat
      BY <1>0, <3>2
    <3>5. QED
      BY <1>2, <1>f, <3>1, <3>3, <3>4 DEF Finite, RowsConserved
  <2>4. QED
    BY <1>9, <2>1, <2>2, <2>3 DEF PurgeStep
<1>10. ASSUME NEW c \in Clients,
              \/ Subscribe(c) \/ Forward(c) \/ Lag(c) \/ Disconnect(c) \/ Page(c)
              \/ \E limit \in Limits : StartWalk(c, clock + TicksPerMs, limit)
       PROVE  Finite' /\ RowsConserved'
  BY <1>1, <1>2, <1>10 DEF Subscribe, Forward, Lag, Disconnect, Page, StartWalk
<1>11. QED
  BY ONLY <1>4, <1>5, <1>6, <1>7, <1>8, <1>9, <1>10, Next DEF Next

(* A purge takes only rows older than a retention in force.                *)
LEMMA NextRetention ==
  ASSUME LedgerInv, Next
  PROVE  \A r \in rows \ rows' : \E d \in InForce : clock - r.at > d
<1>1. SUFFICES ASSUME NEW r \in rows \ rows'
      PROVE  \E d \in InForce : clock - r.at > d
  OBVIOUS
<1>2. PICK p \in Purgers : Delete(p)
  <2>1. CASE Tick \/ LoopTick \/ Restart \/ \E retention \in Manual : ManualPurge(retention)
    BY <1>1, <2>1 DEF Tick, LoopTick, Restart, ManualPurge, ledger
  <2>2. ASSUME NEW s \in Spans, SpanStep(s) PROVE FALSE
    BY <1>1, <2>2 DEF SpanStep, Begin, Insert, Broadcast, Drop
  <2>3. ASSUME NEW c \in Clients,
               \/ Subscribe(c) \/ Forward(c) \/ Lag(c) \/ Disconnect(c) \/ Page(c)
               \/ \E limit \in Limits : StartWalk(c, clock + TicksPerMs, limit)
        PROVE  FALSE
    BY <1>1, <2>3 DEF Subscribe, Forward, Lag, Disconnect, Page, StartWalk, ledger
  <2>4. ASSUME NEW p \in Purgers, PurgeStep(p) PROVE Delete(p)
    BY <1>1, <2>4 DEF PurgeStep, DeleteFails, EmitPurged, ledger
  <2>5. QED
    BY ONLY <2>1, <2>2, <2>3, <2>4, Next DEF Next
<1>3. r \in Expired(purge[p].cutoff) /\ purge[p].stage = "waiting"
  BY <1>1, <1>2 DEF Delete
<1>4. PICK d \in InForce : purge[p].cutoff <= clock - d
  BY <1>3 DEF LedgerInv, PurgesSound
<1>5. /\ purge[p].cutoff \in Int /\ r.at \in Int /\ clock \in Int /\ d \in Int
  BY <1>1, RetentionAssumption, ClockAssumption DEF LedgerInv, TypeOK, RowSet, InForce
<1>6. r.at < purge[p].cutoff
  BY <1>3, <1>5, OlderIs DEF Expired
<1>7. QED
  BY <1>4, <1>5, <1>6

(* What was broadcast stays as it was until the process dies.              *)
LEMMA NextStream ==
  ASSUME LedgerInv, Next, NEW c \in Clients
  PROVE  StreamSound(c)'
<1> USE DEF stream
<1>0. /\ client \in [Clients -> [stage : {"off", "on", "ended"}, from : Nat, next : Nat]]
      /\ got \in [Clients -> Seq(Spans)] /\ sent \in Seq(Spans) /\ got[c] \in Seq(Spans)
      /\ Len(sent) \in Nat /\ Len(got[c]) \in Nat /\ StreamSound(c)
  BY LenProperties DEF LedgerInv, TypeOK
<1>1. ASSUME UNCHANGED <<sent, client[c], got[c]>>
      PROVE  StreamSound(c)'
  BY <1>0, <1>1 DEF StreamSound, Off
<1>2. CASE Tick \/ LoopTick \/ \E retention \in Manual : ManualPurge(retention)
  BY <1>1, <1>2 DEF Tick, LoopTick, ManualPurge
<1>3. CASE Restart
  BY <1>3 DEF Restart, StreamSound, Off
<1>4. ASSUME NEW s \in Spans, SpanStep(s) PROVE StreamSound(c)'
  <2>1. CASE Begin(s) \/ Insert(s) \/ Drop(s)
    BY <1>1, <2>1 DEF Begin, Insert, Drop
  <2>2. CASE Broadcast(s)
    <3>1. /\ Len(sent') = Len(sent) + 1
          /\ \A i \in 1..Len(sent) : sent'[i] = sent[i]
          /\ UNCHANGED <<client, got>>
      BY <1>0, <2>2, AppendProperties DEF Broadcast
    <3>2. CASE client[c].stage = "off"
      BY <1>0, <3>1, <3>2 DEF StreamSound, Off
    <3>3. CASE client[c].stage # "off"
      <4>1. /\ client[c].from \in 1..Len(sent) + 1
            /\ client[c].from + Len(got[c]) <= Len(sent) + 1
            /\ \A i \in 1..Len(got[c]) : got[c][i] = sent[client[c].from + i - 1]
            /\ client[c].stage = "on" => client[c].next = client[c].from + Len(got[c])
        BY <1>0, <3>3 DEF StreamSound
      <4>2. \A i \in 1..Len(got[c]) : client[c].from + i - 1 \in 1..Len(sent)
        BY <1>0, <4>1
      <4>3. \A i \in 1..Len(got[c]) : got[c][i] = sent'[client[c].from + i - 1]
        BY <3>1, <4>1, <4>2
      <4>4. /\ client[c].from \in 1..Len(sent') + 1
            /\ client[c].from + Len(got[c]) <= Len(sent') + 1
        BY <1>0, <3>1, <4>1
      <4>5. QED
        BY <3>1, <3>3, <4>1, <4>3, <4>4 DEF StreamSound
    <3>4. QED
      BY <3>2, <3>3
  <2>3. QED
    BY <1>4, <2>1, <2>2 DEF SpanStep
<1>5. ASSUME NEW p \in Purgers, PurgeStep(p) PROVE StreamSound(c)'
  BY <1>1, <1>5 DEF PurgeStep, Delete, DeleteFails, EmitPurged
<1>6. ASSUME NEW d \in Clients,
             \/ Subscribe(d) \/ Forward(d) \/ Lag(d) \/ Disconnect(d) \/ Page(d)
             \/ \E limit \in Limits : StartWalk(d, clock + TicksPerMs, limit)
      PROVE  StreamSound(c)'
  <2>1. CASE d # c
    BY <1>0, <1>1, <1>6, <2>1 DEF Subscribe, Forward, Lag, Disconnect, Page, StartWalk
  <2>2. CASE Page(d) \/ \E limit \in Limits : StartWalk(d, clock + TicksPerMs, limit)
    BY <1>0, <1>1, <2>2 DEF Page, StartWalk
  <2>3. CASE d = c /\ Subscribe(c)
    <3>1. got[c] = <<>> /\ UNCHANGED <<got, sent>>
      BY <1>0, <2>3 DEF Subscribe, StreamSound
    <3>2. client'[c] = [stage |-> "on", from |-> Len(sent) + 1, next |-> Len(sent) + 1]
      BY <1>0, <2>3 DEF Subscribe
    <3>3. QED
      BY <1>0, <3>1, <3>2 DEF StreamSound
  <2>4. CASE d = c /\ Forward(c)
    <3>1. /\ client[c].stage = "on" /\ client[c].next =< Len(sent) /\ UNCHANGED sent
          /\ got' = [got EXCEPT ![c] = Append(@, sent[client[c].next])]
          /\ client' = [client EXCEPT ![c].next = @ + 1]
      BY <2>4 DEF Forward
    <3>2. /\ client[c].from \in 1..Len(sent) + 1
          /\ \A i \in 1..Len(got[c]) : got[c][i] = sent[client[c].from + i - 1]
          /\ client[c].next = client[c].from + Len(got[c])
      BY <1>0, <3>1 DEF StreamSound
    <3>3. client[c].next \in 1..Len(sent)
      BY <1>0, <3>1, <3>2
    <3>4. got'[c] = Append(got[c], sent[client[c].next]) /\ sent[client[c].next] \in Spans
      BY <1>0, <3>1, <3>3, ElementOfSeq
    <3>5. /\ Len(got'[c]) = Len(got[c]) + 1
          /\ got'[c][Len(got[c]) + 1] = sent[client[c].next]
          /\ \A i \in 1..Len(got[c]) : got'[c][i] = got[c][i]
      BY <1>0, <3>4, AppendProperties
    <3>6. /\ client'[c].stage = "on" /\ client'[c].from = client[c].from
          /\ client'[c].next = client[c].next + 1
      BY <1>0, <3>1
    <3>7. \A i \in 1..Len(got'[c]) : got'[c][i] = sent[client[c].from + i - 1]
      <4>1. TAKE i \in 1..Len(got'[c])
      <4>2. CASE i \in 1..Len(got[c])
        BY <3>2, <3>5, <4>2
      <4>3. CASE i = Len(got[c]) + 1
        <5>1. client[c].from + i - 1 = client[c].next
          BY <1>0, <3>2, <4>3
        <5>2. QED
          BY <3>5, <4>3, <5>1
      <4>4. QED
        BY <1>0, <3>5, <4>2, <4>3
    <3>8. client'[c].from + Len(got'[c]) <= Len(sent) + 1
      BY <1>0, <3>1, <3>2, <3>5, <3>6
    <3>9. client'[c].next = client'[c].from + Len(got'[c])
      <4>1. client[c].from \in Int /\ Len(got[c]) \in Int
        BY <1>0
      <4>2. /\ client[c].next = client[c].from + Len(got[c])
            /\ client'[c].next = client[c].next + 1 /\ client'[c].from = client[c].from
            /\ Len(got'[c]) = Len(got[c]) + 1
        BY <3>2, <3>5, <3>6
      <4>3. QED
        BY ONLY <4>1, <4>2
    <3>10. QED
      BY <3>1, <3>2, <3>6, <3>7, <3>8, <3>9 DEF StreamSound
  <2>5. CASE d = c /\ (Lag(c) \/ Disconnect(c))
    <3>1. /\ client[c].stage = "on" /\ UNCHANGED <<sent, got>>
          /\ client'[c].stage = "ended" /\ client'[c].from = client[c].from
      BY <1>0, <2>5 DEF Lag, LagEnds, Disconnect
    <3>2. QED
      BY <1>0, <3>1 DEF StreamSound
  <2>6. QED
    BY <1>6, <2>1, <2>2, <2>3, <2>4, <2>5
<1>7. QED
  BY ONLY <1>2, <1>3, <1>4, <1>5, <1>6, Next DEF Next

(* A client of the stream has a part of what was broadcast, without a gap. *)
LEMMA SoundIsGapless ==
  ASSUME TypeOK, NEW c \in Clients, StreamSound(c)
  PROVE  got[c] = SubSeq(sent, client[c].from, client[c].from + Len(got[c]) - 1)
<1> DEFINE a == client[c].from
           b == client[c].from + Len(got[c]) - 1
<1>0. /\ got[c] \in Seq(Spans) /\ sent \in Seq(Spans) /\ Len(got[c]) \in Nat
      /\ Len(sent) \in Nat /\ client[c].from \in Nat
  BY LenProperties DEF TypeOK
<1>1. CASE client[c].stage = "off"
  <2>1. got[c] = <<>> /\ client[c].from = 0 /\ Len(got[c]) = 0
    BY <1>1 DEF StreamSound, Off
  <2>2. SubSeq(sent, 0, -1) = <<>>
    BY <1>0, SubSeqProperties
  <2>3. QED
    BY <2>1, <2>2
<1>2. CASE client[c].stage # "off"
  <2>1. /\ a \in 1..Len(sent) + 1 /\ a + Len(got[c]) <= Len(sent) + 1
        /\ \A i \in 1..Len(got[c]) : got[c][i] = sent[a + i - 1]
    BY <1>2 DEF StreamSound
  <2>2. CASE Len(got[c]) = 0
    <3>1. got[c] = <<>>
      BY <1>0, <2>2, EmptySeq
    <3>2. b < a /\ a \in Int /\ b \in Int
      BY <1>0, <2>2
    <3> HIDE DEF a, b
    <3>3. SubSeq(sent, a, b) = <<>>
      BY <1>0, <3>2, SubSeqProperties
    <3>4. QED
      BY <3>1, <3>3 DEF a, b
  <2>3. CASE Len(got[c]) # 0
    <3>1. a \in 1..Len(sent) /\ b \in a..Len(sent) /\ b - a + 1 = Len(got[c])
      BY <1>0, <2>1, <2>3
    <3> HIDE DEF a, b
    <3>2. /\ SubSeq(sent, a, b) \in Seq(Spans)
          /\ Len(SubSeq(sent, a, b)) = b - a + 1
          /\ \A i \in 1..b - a + 1 : SubSeq(sent, a, b)[i] = sent[a + i - 1]
      BY <1>0, <3>1, SubSeqProperties
    <3>3. \A i \in 1..Len(got[c]) : SubSeq(sent, a, b)[i] = got[c][i]
      BY <2>1, <3>1, <3>2
    <3>4. got[c] = SubSeq(sent, a, b)
      BY <1>0, <3>1, <3>2, <3>3, SeqEqual
    <3>5. QED
      BY <3>4 DEF a, b
  <2>4. QED
    BY <2>2, <2>3
<1>3. QED
  BY <1>1, <1>2

(* The pages of a client, by type; a cursor is a time.                     *)
LEMMA PagesType ==
  ASSUME TypeOK, NEW c \in Clients
  PROVE  /\ walk[c].pages \in Seq(Seq(RowSet)) /\ Len(walk[c].pages) \in Nat
         /\ DOMAIN walk[c].pages = 1..Len(walk[c].pages)
         /\ \A k \in DOMAIN walk[c].pages : walk[c].pages[k] \in Seq(RowSet)
         /\ walk[c].there \subseteq RowSet /\ walk[c].size \in Nat /\ walk[c].since \in Nat
<1>1. walk[c].pages \in Seq(Seq(RowSet))
  BY DEF TypeOK
<1>2. /\ Len(walk[c].pages) \in Nat
      /\ DOMAIN walk[c].pages = 1..Len(walk[c].pages)
  BY <1>1, LenProperties
<1>3. \A k \in DOMAIN walk[c].pages : walk[c].pages[k] \in Seq(RowSet)
  BY <1>1, <1>2, ElementOfSeq
<1>4. QED
  BY <1>1, <1>2, <1>3 DEF TypeOK

LEMMA CursorType ==
  ASSUME TypeOK, NEW c \in Clients, PagesSorted(c)
  PROVE  Cursor(c) \in Int
<1> DEFINE pages == walk[c].pages
<1>1. CASE pages = <<>>
  BY <1>1, PagesType DEF Cursor
<1>2. CASE pages # <<>>
  <2>1. Len(pages) \in 1..Len(pages) /\ Last(pages) = pages[Len(pages)]
    BY <1>2, PagesType, EmptySeq DEF Last
  <2>2. Last(pages) \in Seq(RowSet) /\ Last(pages) # <<>>
    BY <2>1, PagesType DEF PagesSorted
  <2>3. Len(Last(pages)) \in 1..Len(Last(pages))
    BY <2>2, EmptySeq, LenProperties
  <2>4. Last(Last(pages)) \in RowSet
    BY <2>2, <2>3, ElementOfSeq DEF Last
  <2>5. QED
    BY <1>2, <2>4 DEF Cursor, RowSet
<1>3. QED
  BY <1>1, <1>2

(* What comes into the table and goes out of it leaves the pages of a      *)
(* client true.                                                            *)
LEMMA WalkKept ==
  ASSUME LedgerInv, [Next]_vars, NEW c \in Clients, walk'[c] = walk[c]
  PROVE  WalkSound(c)'
<1>0. /\ TypeOK /\ WalkSound(c) /\ walk[c].there \subseteq RowSet
      /\ \A r \in RowSet : r.id \in Spans
  BY PagesType DEF LedgerInv, RowSet
<1>m. /\ \A s \in Spans : Written(s) => Written(s)'
      /\ \/ rows' \subseteq rows
         \/ \E s \in Spans : /\ span[s].stage = "open" /\ Written(s)'
                             /\ rows' = rows \cup {Row(s)}
  <2>1. CASE Next
    BY <1>0, <2>1, RowsMove
  <2>2. CASE UNCHANGED vars
    BY <2>2 DEF vars, ledger, Written
  <2>3. QED
    BY <2>1, <2>2
<1>1. Shown(c)' = Shown(c) /\ Cursor(c)' = Cursor(c)
  BY DEF Shown, Cursor, ToSet
<1>2. Shown(c) \subseteq RowSet
  <2>1. SUFFICES ASSUME NEW r \in Shown(c) PROVE r \in RowSet
    OBVIOUS
  <2>2. PICK k \in DOMAIN walk[c].pages : r \in ToSet(walk[c].pages[k])
    BY DEF Shown
  <2>3. walk[c].pages[k] \in Seq(RowSet)
    BY <1>0, PagesType
  <2>4. PICK i \in 1..Len(walk[c].pages[k]) : r = walk[c].pages[k][i]
    BY <2>2, <2>3, LenProperties DEF ToSet
  <2>5. QED
    BY <2>3, <2>4, ElementOfSeq
<1>3. ASSUME NEW r \in Shown(c) \cup walk[c].there
      PROVE  Written(r.id)' /\ (r \in rows' => r \in rows)
             /\ \A q \in rows' : r.id = q.id => r = q
  <2>1. Written(r.id) /\ \A q \in rows : r.id = q.id => r = q
    BY <1>0 DEF WalkSound, ShownOnce
  <2>2. Written(r.id)'
    BY <1>0, <1>2, <1>m, <2>1
  <2>3. CASE rows' \subseteq rows
    BY <2>1, <2>2, <2>3
  <2>4. ASSUME NEW s \in Spans, span[s].stage = "open", rows' = rows \cup {Row(s)}
        PROVE  /\ r \in rows' => r \in rows
               /\ \A q \in rows' : r.id = q.id => r = q
    <3>1. r.id # Row(s).id
      BY <2>1, <2>4 DEF Written, Row
    <3>2. QED
      BY <2>1, <2>4, <3>1
  <2>5. QED
    BY <1>m, <2>2, <2>3, <2>4
<1>4. ShownOnce(c)'
  BY <1>1, <1>3 DEF ShownOnce
<1>5. PagesSorted(c)'
  BY <1>0, <1>1 DEF WalkSound, PagesSorted, Ms
<1>6. ASSUME NEW r PROVE Behind(c, r)' <=> Behind(c, r)
  BY DEF Behind, Ms, Last, ToSet
<1>7. \A r \in walk'[c].there \cap rows' : r \in walk[c].there \cap rows
  BY <1>3
<1>8. PagesComplete(c)'
  <2>1. /\ \A r \in walk[c].there \cap rows : Ms(r.at) >= Ms(Cursor(c)) => Behind(c, r)
        /\ walk[c].stage = "end" /\ walk[c].size > 0 =>
             \A r \in walk[c].there \cap rows : Behind(c, r)
    BY <1>0 DEF WalkSound, PagesComplete
  <2>2. \A r \in walk'[c].there \cap rows' : Ms(r.at) >= Ms(Cursor(c))' => Behind(c, r)'
    BY <1>1, <1>6, <1>7, <2>1 DEF Ms
  <2>3. walk'[c].stage = "end" /\ walk'[c].size > 0 =>
          \A r \in walk'[c].there \cap rows' : Behind(c, r)'
    BY <1>6, <1>7, <2>1
  <2>4. QED
    BY <1>1, <2>2, <2>3 DEF PagesComplete, Ms
<1>9. QED
  BY <1>4, <1>5, <1>8 DEF WalkSound

(* Before its first page a client has been shown nothing.                  *)
LEMMA WalkStarts ==
  ASSUME LedgerInv, NEW c \in Clients, NEW limit \in Limits,
         StartWalk(c, clock + TicksPerMs, limit)
  PROVE  WalkSound(c)'
<1> DEFINE since == clock + TicksPerMs
<1>0. /\ walk \in [Clients -> [stage : {"off", "on", "end"}, since : Nat, size : Nat,
                               pages : Seq(Seq(RowSet)), there : SUBSET RowSet]]
      /\ RowsOnce /\ rows \subseteq RowSet /\ clock \in Nat
  BY DEF LedgerInv, TypeOK
<1>1. /\ walk'[c] = [stage |-> "on", since |-> since, size |-> PageSize(limit),
                     pages |-> <<>>, there |-> Expired(since)]
      /\ UNCHANGED <<span, rows>>
  BY <1>0 DEF StartWalk, ledger
<1>2. /\ walk'[c].pages = <<>> /\ walk'[c].there = Expired(since)
      /\ walk'[c].since = since /\ walk'[c].stage = "on"
  BY <1>1
<1>3. DOMAIN walk'[c].pages = {}
  BY <1>2
<1>4. Shown(c)' = {} /\ Cursor(c)' = since
  BY <1>2, <1>3 DEF Shown, Cursor
<1>5. ShownOnce(c)'
  <2>1. \A r \in Expired(since) : r \in rows
    BY ExpiredType
  <2>2. QED
    BY <1>0, <1>1, <1>2, <1>4, <2>1 DEF ShownOnce, RowsOnce, Written
<1>6. PagesSorted(c)'
  BY <1>3, <1>4 DEF PagesSorted
<1>7. \A r \in Expired(since) : ~(Ms(r.at) >= Ms(since))
  <2>1. TAKE r \in Expired(since)
  <2>2. Ms(r.at) < Ms(since) /\ r \in rows
    BY DEF Expired, Older
  <2>3. r.at \in Int /\ since \in Int
    BY <1>0, <2>2, ClockAssumption DEF RowSet
  <2>4. Ms(r.at) \in Int /\ Ms(since) \in Int
    BY <2>3, MsOrder
  <2>5. QED
    BY <2>2, <2>4
<1> HIDE DEF since
<1>8. PagesComplete(c)'
  BY <1>2, <1>4, <1>7 DEF PagesComplete, Ms
<1>9. QED
  BY <1>5, <1>6, <1>8 DEF WalkSound

(* Rows by the times of a page and of its cursor.                          *)
LEMMA PageIs ==
  ASSUME LedgerInv, NEW c \in Clients, NEW some \in SUBSET Expired(Cursor(c)),
         NEW page \in SetToSeqs(some), IsPage(page, Cursor(c), walk[c].size)
  PROVE  /\ page \in Seq(RowSet) /\ Len(page) \in Nat /\ DOMAIN page = 1..Len(page)
         /\ \A i \in 1..Len(page) :
              /\ page[i] \in rows
              /\ Ms(page[i].at) \in Int /\ Ms(page[i].at) < Ms(Cursor(c))
         /\ \A i, j \in 1..Len(page) : i < j =>
              Ms(page[i].at) >= Ms(page[j].at) /\ page[i].id # page[j].id
         /\ \A r \in Expired(Cursor(c)) \ ToSet(page), i \in 1..Len(page) :
              Ms(page[i].at) >= Ms(r.at)
         /\ page = <<>> /\ walk[c].size > 0 => Expired(Cursor(c)) = {}
<1>a. TypeOK /\ Finite /\ RowsOnce /\ rows \subseteq RowSet
  BY DEF LedgerInv, TypeOK
<1>b. walk[c].size \in Nat /\ \A r \in RowSet : r.at \in Int
  BY <1>a, PagesType, ClockAssumption DEF RowSet
<1>0. /\ TypeOK /\ Finite /\ RowsOnce /\ rows \subseteq RowSet /\ walk[c].size \in Nat
      /\ \A r \in rows : r.at \in Int
  BY <1>a, <1>b
<1>1. /\ page \in Seq(RowSet)
      /\ \A i \in 1..Len(page) : page[i] \in Expired(Cursor(c))
      /\ \A i, j \in 1..Len(page) : i # j => page[i] # page[j]
  BY <1>0, PageSeq
<1>2. Len(page) \in Nat /\ DOMAIN page = 1..Len(page)
  BY <1>1, LenProperties
<1>3. ASSUME NEW i \in 1..Len(page)
      PROVE  /\ page[i] \in rows
             /\ Ms(page[i].at) \in Int /\ Ms(page[i].at) < Ms(Cursor(c))
  <2>1. page[i] \in rows /\ Ms(page[i].at) < Ms(Cursor(c))
    BY <1>1, <1>3 DEF Expired, Older
  <2>2. QED
    BY <1>0, <2>1, MsOrder
<1>4. /\ \A i, j \in DOMAIN page : i < j => Ms(page[i].at) >= Ms(page[j].at)
      /\ \A r \in Expired(Cursor(c)) \ ToSet(page), s \in ToSet(page) : Ms(s.at) >= Ms(r.at)
  BY DEF IsPage, NewestFirst
<1>5. ASSUME NEW i \in 1..Len(page), NEW j \in 1..Len(page), i < j
      PROVE  Ms(page[i].at) >= Ms(page[j].at) /\ page[i].id # page[j].id
  <2>1. page[i] # page[j]
    BY <1>1, <1>2, <1>5
  <2>2. QED
    BY <1>0, <1>2, <1>3, <1>4, <1>5, <2>1 DEF RowsOnce
<1>6. \A i \in 1..Len(page) : page[i] \in ToSet(page)
  BY <1>2 DEF ToSet
<1>7. ASSUME page = <<>>, walk[c].size > 0 PROVE Expired(Cursor(c)) = {}
  <2> DEFINE found == Expired(Cursor(c))
  <2>1. Len(page) = IF Cardinality(found) < walk[c].size THEN Cardinality(found)
                    ELSE walk[c].size
    BY DEF IsPage
  <2>2. IsFiniteSet(found)
    BY <1>0, ExpiredType, FS_Subset DEF Finite
  <2> HIDE DEF found
  <2>3. Cardinality(found) \in Nat
    BY <2>2, FS_CardinalityType
  <2>4. Len(page) = 0
    BY <1>7
  <2>5. Cardinality(found) = 0
    BY <1>0, <1>7, <2>1, <2>3, <2>4
  <2>6. found = {}
    BY <2>2, <2>5, FS_EmptySet
  <2>7. QED
    BY <2>6 DEF found
<1>8. QED
  BY <1>1, <1>2, <1>3, <1>4, <1>5, <1>6, <1>7

(* A page goes on from the cursor of the one before.                       *)
LEMMA WalkGoes ==
  ASSUME LedgerInv, NEW c \in Clients, NEW some \in SUBSET Expired(Cursor(c)),
         NEW page \in SetToSeqs(some), IsPage(page, Cursor(c), walk[c].size),
         page # <<>>, UNCHANGED <<span, rows>>,
         walk' = [walk EXCEPT ![c].pages = Append(@, page)]
  PROVE  WalkSound(c)'
<1> DEFINE pages == walk[c].pages
<1>n. PICK n : n = Len(pages) + 1
  OBVIOUS
<1>l. PICK l : l = Len(page)
  OBVIOUS
<1>x. PICK x : x = Cursor(c)
  OBVIOUS
<1>a. /\ TypeOK /\ WalkSound(c) /\ RowsOnce /\ rows \subseteq RowSet
      /\ ShownOnce(c) /\ PagesSorted(c) /\ PagesComplete(c)
  BY DEF LedgerInv, WalkSound, TypeOK
<1>b. /\ pages \in Seq(Seq(RowSet)) /\ Len(pages) \in Nat
      /\ DOMAIN pages = 1..Len(pages)
      /\ \A k \in DOMAIN pages : pages[k] \in Seq(RowSet)
      /\ walk[c].there \subseteq RowSet
  BY <1>a, PagesType
<1>c. n \in Nat \ {0} /\ n - 1 = Len(pages)
  BY <1>b, <1>n
<1>0. /\ TypeOK /\ WalkSound(c) /\ walk[c].there \subseteq RowSet
      /\ \A k \in 1..n - 1 : pages[k] \in Seq(RowSet)
      /\ pages \in Seq(Seq(RowSet)) /\ n \in Nat \ {0} /\ DOMAIN pages = 1..n - 1
      /\ ShownOnce(c) /\ PagesSorted(c) /\ PagesComplete(c) /\ RowsOnce
      /\ rows \subseteq RowSet
  BY <1>a, <1>b, <1>c
<1>1. /\ page \in Seq(RowSet) /\ DOMAIN page = 1..l
      /\ \A i \in 1..l : page[i] \in rows /\ Ms(page[i].at) \in Int /\ Ms(page[i].at) < Ms(x)
      /\ \A i, j \in 1..l : i < j =>
              Ms(page[i].at) >= Ms(page[j].at) /\ page[i].id # page[j].id
      /\ \A r \in Expired(x) \ ToSet(page), i \in 1..l : Ms(page[i].at) >= Ms(r.at)
  BY <1>x, <1>l, PageIs
<1>2. l \in Nat \ {0}
  BY <1>l, <1>1, EmptySeq, LenProperties
<1>3. x \in Int /\ Ms(x) \in Int
  BY <1>0, <1>x, CursorType, MsOrder
<1>4. /\ walk'[c] = [walk[c] EXCEPT !.pages = Append(@, page)]
      /\ walk'[c].there = walk[c].there
      /\ walk'[c].stage = walk[c].stage /\ walk'[c].size = walk[c].size
      /\ walk'[c].pages = Append(pages, page)
  BY <1>0 DEF TypeOK
<1>5. PICK new : new = walk'[c].pages
  OBVIOUS
<1>6. /\ new \in Seq(Seq(RowSet)) /\ Len(new) = n /\ DOMAIN new = 1..n /\ new[n] = page
      /\ \A k \in 1..n - 1 : new[k] = pages[k]
  BY <1>n, <1>0, <1>1, <1>4, <1>5, AppendProperties
<1>7. Cursor(c)' = page[l].at
  <2>1. new # <<>> /\ Last(new) = page
    BY <1>0, <1>6, EmptySeq DEF Last
  <2>2. QED
    BY <1>l, <1>5, <2>1 DEF Cursor, Last
<1>8. ASSUME NEW r
      PROVE  r \in Shown(c)' <=> r \in Shown(c) \/ r \in ToSet(page)
  <2>1. r \in Shown(c)' <=> \E k \in 1..n : r \in ToSet(new[k])
    BY <1>5, <1>6 DEF Shown
  <2>2. r \in Shown(c) <=> \E k \in 1..n - 1 : r \in ToSet(pages[k])
    BY <1>0 DEF Shown
  <2>3. \A k \in 1..n : k = n \/ k \in 1..n - 1
    BY <1>0
  <2>4. n \in 1..n /\ 1..n - 1 \subseteq 1..n
    BY <1>0
  <2>5. QED
    BY <1>6, <2>1, <2>2, <2>3, <2>4
<1>9. ASSUME NEW r \in ToSet(page) PROVE \E i \in 1..l : r = page[i]
  BY <1>1, <1>9 DEF ToSet
<1>10. ASSUME NEW r \in Shown(c) PROVE Ms(r.at) >= Ms(x)
  BY <1>0, <1>x, <1>10 DEF PagesSorted
<1>11. ShownOnce(c)'
  <2>1. \A r \in Shown(c) \cup walk[c].there :
          Written(r.id)' /\ \A q \in rows' : r.id = q.id => r = q
    BY <1>0 DEF ShownOnce, Written
  <2>2. \A r \in ToSet(page) :
          Written(r.id)' /\ \A q \in rows' : r.id = q.id => r = q
    BY <1>0, <1>1, <1>9 DEF RowsOnce, Written
  <2>3. QED
    BY <1>4, <1>8, <2>1, <2>2 DEF ShownOnce
<1>12. \A r \in Shown(c) : Ms(r.at) \in Int
  <2>1. SUFFICES ASSUME NEW r \in Shown(c) PROVE Ms(r.at) \in Int
    OBVIOUS
  <2>2. PICK k \in 1..n - 1 : r \in ToSet(pages[k])
    BY <1>0 DEF Shown
  <2>3. PICK i \in 1..Len(pages[k]) : r = pages[k][i]
    BY <1>0, <2>2, LenProperties DEF ToSet
  <2>4. r \in RowSet
    BY <1>0, <2>3, ElementOfSeq
  <2>5. QED
    BY <2>4, MsOrder, ClockAssumption DEF RowSet
<1>13. \A r \in Shown(c)' : Ms(r.at) >= Ms(page[l].at)
  <2>1. \A r \in Shown(c) : Ms(r.at) >= Ms(page[l].at)
    BY <1>1, <1>2, <1>3, <1>10, <1>12
  <2>2. ASSUME NEW r \in ToSet(page) PROVE Ms(r.at) >= Ms(page[l].at)
    <3>1. PICK i \in 1..l : r = page[i]
      BY <1>9
    <3>2. i = l \/ (i < l /\ l \in 1..l)
      BY <1>2
    <3>3. QED
      BY <1>1, <1>2, <3>1, <3>2
  <2>3. QED
    BY <1>8, <2>1, <2>2
<1>14. ASSUME NEW k \in 1..n, NEW m \in 1..n, NEW i \in DOMAIN new[k], NEW j \in DOMAIN new[m],
              k < m \/ (k = m /\ i < j)
       PROVE  Ms(new[k][i].at) >= Ms(new[m][j].at) /\ new[k][i].id # new[m][j].id
  <2>1. CASE m \in 1..n - 1
    <3>1. k \in 1..n - 1
      BY <1>0, <1>14, <2>1
    <3>2. /\ new[k] = pages[k] /\ new[m] = pages[m]
          /\ k \in DOMAIN pages /\ m \in DOMAIN pages
      BY <1>0, <1>6, <2>1, <3>1
    <3>3. i \in DOMAIN pages[k] /\ j \in DOMAIN pages[m]
      BY <3>2, <1>14
    <3>4. Ms(pages[k][i].at) >= Ms(pages[m][j].at) /\ pages[k][i].id # pages[m][j].id
      <4>1. \A a, b \in DOMAIN pages : \A u \in DOMAIN pages[a], v \in DOMAIN pages[b] :
              a < b \/ (a = b /\ u < v) =>
                Ms(pages[a][u].at) >= Ms(pages[b][v].at) /\ pages[a][u].id # pages[b][v].id
        BY <1>0 DEF PagesSorted
      <4>2. QED
        BY <1>14, <3>2, <3>3, <4>1
    <3>5. QED
      BY <3>2, <3>4
  <2>2. CASE m = n /\ k = n
    <3>1. i < j /\ i \in 1..l /\ j \in 1..l /\ new[k] = page /\ new[m] = page
      BY <1>0, <1>1, <1>6, <1>14, <2>2
    <3>2. QED
      BY <1>1, <3>1
  <2>3. CASE m = n /\ k \in 1..n - 1
    <3>1. new[k] = pages[k] /\ new[m] = page /\ j \in 1..l
      BY <1>1, <1>6, <1>14, <2>3
    <3>2. pages[k][i] \in Shown(c)
      <4>1. k \in DOMAIN pages /\ i \in DOMAIN pages[k]
        BY <1>0, <1>14, <2>3, <3>1
      <4>2. pages[k][i] \in ToSet(pages[k])
        BY <4>1 DEF ToSet
      <4>3. QED
        BY <4>1, <4>2 DEF Shown
    <3>3. Ms(pages[k][i].at) >= Ms(x) /\ Ms(pages[k][i].at) \in Int
      BY <1>10, <1>12, <3>2
    <3>4. page[j] \in rows /\ Ms(page[j].at) < Ms(x) /\ Ms(page[j].at) \in Int
      BY <1>1, <3>1
    <3>5. Ms(pages[k][i].at) > Ms(page[j].at)
      BY <1>3, <3>3, <3>4
    <3>6. pages[k][i] # page[j]
      BY <3>3, <3>4, <3>5
    <3>7. pages[k][i].id # page[j].id
      BY <1>0, <3>2, <3>4, <3>6 DEF ShownOnce
    <3>8. QED
      BY <3>1, <3>3, <3>4, <3>5, <3>7
  <2>4. QED
    BY <1>0, <1>14, <2>1, <2>2, <2>3
<1>15. PagesSorted(c)'
  <2>1. \A k \in 1..n : new[k] # <<>>
    <3>1. \A k \in 1..n : k = n \/ k \in 1..n - 1
      BY <1>0
    <3>2. \A k \in 1..n - 1 : pages[k] # <<>>
      BY <1>0 DEF PagesSorted
    <3>3. QED
      BY <1>6, <3>1, <3>2
  <2>2. \A r \in Shown(c)' : Ms(r.at) >= Ms(Cursor(c))'
    BY <1>7, <1>13 DEF Ms
  <2>3. \A k, m \in 1..n : \A i \in DOMAIN new[k], j \in DOMAIN new[m] :
          k < m \/ (k = m /\ i < j) =>
            Ms(new[k][i].at) >= Ms(new[m][j].at) /\ new[k][i].id # new[m][j].id
    BY <1>14
  <2>4. \A k \in DOMAIN walk'[c].pages : walk'[c].pages[k] # <<>>
    BY <1>5, <1>6, <2>1
  <2>5. \A k, m \in DOMAIN walk'[c].pages :
          \A i \in DOMAIN walk'[c].pages[k], j \in DOMAIN walk'[c].pages[m] :
            k < m \/ (k = m /\ i < j) =>
              /\ Ms(walk'[c].pages[k][i].at) >= Ms(walk'[c].pages[m][j].at)
              /\ walk'[c].pages[k][i].id # walk'[c].pages[m][j].id
    <3>1. DOMAIN new = 1..n
      BY <1>6
    <3>2. QED
      BY ONLY <1>5, <2>3, <3>1, Zenon
  <2>6. QED
    BY <2>2, <2>4, <2>5 DEF PagesSorted
<1>16. ASSUME NEW r, Behind(c, r) PROVE Behind(c, r)'
  <2>1. PICK k \in 1..n - 1 : r \in ToSet(pages[k]) \/ Ms(Last(pages[k]).at) = Ms(r.at)
    BY <1>0, <1>16 DEF Behind
  <2>2. k \in 1..n /\ new[k] = pages[k]
    BY <1>0, <1>6, <2>1
  <2>3. QED
    BY <1>5, <1>6, <2>1, <2>2 DEF Behind, Ms, Last
<1>17. ASSUME NEW r, r \in ToSet(page) \/ Ms(page[l].at) = Ms(r.at) PROVE Behind(c, r)'
  <2>1. n \in 1..n /\ Last(new[n]) = page[l]
    BY <1>0, <1>l, <1>6 DEF Last
  <2>2. n \in DOMAIN new /\ (r \in ToSet(new[n]) \/ Ms(Last(new[n]).at) = Ms(r.at))
    BY <1>6, <1>17, <2>1
  <2>3. \E k \in DOMAIN new : r \in ToSet(new[k]) \/ Ms(Last(new[k]).at) = Ms(r.at)
    BY <2>2
  <2>4. QED
    BY <1>5, <2>3 DEF Behind, Ms, Last, ToSet
<1>18. ASSUME NEW r \in walk[c].there \cap rows, Ms(r.at) >= Ms(page[l].at)
       PROVE  Behind(c, r)'
  <2>1. Ms(r.at) \in Int
    BY <1>0, MsOrder, ClockAssumption DEF RowSet
  <2>2. CASE Ms(r.at) >= Ms(x)
    BY <1>0, <1>x, <1>16, <2>2 DEF PagesComplete
  <2>3. CASE Ms(r.at) < Ms(x)
    <3>1. r \in Expired(x)
      BY <2>3 DEF Expired, Older
    <3>2. r \in ToSet(page) \/ Ms(page[l].at) >= Ms(r.at)
      BY <1>1, <1>2, <3>1
    <3>3. Ms(page[l].at) \in Int
      BY <1>1, <1>2
    <3>4. QED
      BY <1>17, <1>18, <2>1, <3>2, <3>3
  <2>4. QED
    BY <1>3, <2>1, <2>2, <2>3
<1>19. PagesComplete(c)'
  <2>1. \A r \in walk'[c].there \cap rows' : Ms(r.at) >= Ms(Cursor(c))' => Behind(c, r)'
    BY <1>4, <1>7, <1>18 DEF Ms
  <2>2. walk'[c].stage = "end" /\ walk'[c].size > 0 =>
          \A r \in walk'[c].there \cap rows' : Behind(c, r)'
    BY <1>0, <1>4, <1>16 DEF PagesComplete
  <2>3. QED
    BY <2>1, <2>2 DEF PagesComplete, Ms
<1>20. QED
  BY <1>11, <1>15, <1>19 DEF WalkSound

(* An empty page ends the walk: nothing lies before the cursor any more.   *)
LEMMA WalkEnds ==
  ASSUME LedgerInv, Next, NEW c \in Clients, NEW some \in SUBSET Expired(Cursor(c)),
         NEW page \in SetToSeqs(some), IsPage(page, Cursor(c), walk[c].size),
         page = <<>>, UNCHANGED <<span, rows>>,
         walk' = [walk EXCEPT ![c].stage = "end"]
  PROVE  WalkSound(c)'
<1>0. /\ TypeOK /\ WalkSound(c) /\ rows \subseteq RowSet /\ Cursor(c) \in Int
      /\ ShownOnce(c) /\ PagesSorted(c) /\ PagesComplete(c)
  BY CursorType DEF LedgerInv, WalkSound, TypeOK
<1>1. /\ walk'[c].pages = walk[c].pages /\ walk'[c].there = walk[c].there
      /\ walk'[c].since = walk[c].since /\ walk'[c].size = walk[c].size
  BY <1>0 DEF TypeOK
<1>2. Shown(c)' = Shown(c) /\ Cursor(c)' = Cursor(c)
  BY <1>1 DEF Shown, Cursor, ToSet, Last
<1>3. ASSUME NEW r PROVE Behind(c, r)' <=> Behind(c, r)
  BY <1>1 DEF Behind, Ms, Last, ToSet
<1>4. ShownOnce(c)'
  BY <1>0, <1>1, <1>2 DEF ShownOnce, Written
<1>5. PagesSorted(c)'
  BY <1>0, <1>1, <1>2 DEF PagesSorted, Ms
<1>6. ASSUME walk[c].size > 0, NEW r \in walk[c].there \cap rows
      PROVE  Behind(c, r)
  <2>1. Expired(Cursor(c)) = {}
    BY <1>6, PageIs
  <2>2. ~(Ms(r.at) < Ms(Cursor(c)))
    BY <2>1 DEF Expired, Older
  <2>3. Ms(r.at) \in Int /\ Ms(Cursor(c)) \in Int
    BY <1>0, MsOrder, ClockAssumption DEF RowSet
  <2>4. Ms(r.at) >= Ms(Cursor(c))
    BY <2>2, <2>3
  <2>5. QED
    BY <1>0, <2>4 DEF PagesComplete
<1>7. PagesComplete(c)'
  BY <1>0, <1>1, <1>2, <1>3, <1>6 DEF PagesComplete, Ms
<1>8. QED
  BY <1>4, <1>5, <1>7 DEF WalkSound

(* The pages lead back without leaving a row out.                          *)
LEMMA NextWalk ==
  ASSUME LedgerInv, Next, NEW c \in Clients
  PROVE  WalkSound(c)'
<1>0. walk \in [Clients -> [stage : {"off", "on", "end"}, since : Nat, size : Nat,
                            pages : Seq(Seq(RowSet)), there : SUBSET RowSet]]
  BY DEF LedgerInv, TypeOK
<1> USE DEF stream
<1>1. CASE Tick \/ LoopTick \/ Restart \/ \E retention \in Manual : ManualPurge(retention)
  BY <1>1, WalkKept DEF Tick, LoopTick, Restart, ManualPurge
<1>2. ASSUME NEW s \in Spans, SpanStep(s) PROVE WalkSound(c)'
  BY <1>2, WalkKept DEF SpanStep, Begin, Insert, Broadcast, Drop
<1>3. ASSUME NEW p \in Purgers, PurgeStep(p) PROVE WalkSound(c)'
  BY <1>3, WalkKept DEF PurgeStep, Delete, DeleteFails, EmitPurged
<1>4. ASSUME NEW d \in Clients, Subscribe(d) \/ Forward(d) \/ Lag(d) \/ Disconnect(d)
      PROVE  WalkSound(c)'
  BY <1>4, WalkKept DEF Subscribe, Forward, Lag, Disconnect
<1>5. ASSUME NEW d \in Clients, NEW limit \in Limits, StartWalk(d, clock + TicksPerMs, limit)
      PROVE  WalkSound(c)'
  <2>1. CASE d = c
    BY <1>5, <2>1, WalkStarts
  <2>2. CASE d # c
    BY <1>0, <1>5, <2>2, WalkKept DEF StartWalk
  <2>3. QED
    BY <2>1, <2>2
<1>6. ASSUME NEW d \in Clients, Page(d) PROVE WalkSound(c)'
  <2>1. PICK some \in SUBSET Expired(Cursor(d)) : \E page \in SetToSeqs(some) :
          /\ IsPage(page, Cursor(d), walk[d].size)
          /\ walk' = IF page = <<>> THEN [walk EXCEPT ![d].stage = "end"]
                     ELSE [walk EXCEPT ![d].pages = Append(@, page)]
    BY <1>6 DEF Page
  <2>2. PICK page \in SetToSeqs(some) :
          /\ IsPage(page, Cursor(d), walk[d].size)
          /\ walk' = IF page = <<>> THEN [walk EXCEPT ![d].stage = "end"]
                     ELSE [walk EXCEPT ![d].pages = Append(@, page)]
    BY <2>1
  <2>3. UNCHANGED <<span, rows>>
    BY <1>6 DEF Page, ledger
  <2>4. CASE d # c
    BY <1>0, <2>2, <2>4, WalkKept
  <2>5. CASE d = c /\ page = <<>>
    BY <2>2, <2>3, <2>5, WalkEnds
  <2>6. CASE d = c /\ page # <<>>
    BY <2>2, <2>3, <2>6, WalkGoes
  <2>7. QED
    BY <2>4, <2>5, <2>6
<1>7. QED
  BY ONLY <1>1, <1>2, <1>3, <1>4, <1>5, <1>6, Next DEF Next

-----------------------------------------------------------------------------
(* The inductive invariant of the engine, the purges and the clients       *)
(* (observability.rs, purge.rs, dashboard/spans.rs).                       *)
THEOREM LedgerInvariant == Spec => []LedgerInv
<1>1. Init => LedgerInv
  BY InitHolds
<1>2. LedgerInv /\ [Next]_vars => LedgerInv'
  <2> SUFFICES ASSUME LedgerInv, [Next]_vars PROVE LedgerInv'
    OBVIOUS
  <2>1. CASE Next
    <3>1. TypeOK /\ RowsOnce /\ PurgesSound
      BY DEF LedgerInv
    <3>2. TypeOK' /\ Finite' /\ RowsConserved' /\ RowsOnce' /\ PurgesSound'
      BY <2>1, <3>1, NextType, NextConserved, NextOnce, NextPurges
    <3>3. \A c \in Clients : StreamSound(c)' /\ WalkSound(c)'
      BY <2>1, NextStream, NextWalk
    <3>4. QED
      BY <3>2, <3>3 DEF LedgerInv
  <2>2. CASE UNCHANGED vars
    <3> USE <2>2 DEF vars, ledger, purger, stream
    <3>1. TypeOK' /\ Finite' /\ RowsConserved' /\ RowsOnce' /\ PurgesSound'
      <4>1. TypeOK' <=> TypeOK
        BY DEF TypeOK, RowSet
      <4>2. (Finite' <=> Finite) /\ (RowsConserved' <=> RowsConserved)
        BY DEF Finite, RowsConserved, Recorded
      <4>3. (RowsOnce' <=> RowsOnce) /\ (PurgesSound' <=> PurgesSound)
        BY DEF RowsOnce, PurgesSound, Written, InForce
      <4>4. QED
        BY <4>1, <4>2, <4>3 DEF LedgerInv
    <3>2. ASSUME NEW c \in Clients PROVE StreamSound(c)' /\ WalkSound(c)'
      <4>1. StreamSound(c)' <=> StreamSound(c)
        BY DEF StreamSound, Off
      <4>2. WalkSound(c)'
        BY WalkKept
      <4>3. QED
        BY <4>1, <4>2 DEF LedgerInv
    <3>3. QED
      BY <3>1, <3>2 DEF LedgerInv
  <2>3. QED
    BY <2>1, <2>2
<1>3. QED
  BY <1>1, <1>2, PTL DEF Spec

(* Types of the state of the engine, the purges and the clients.           *)
THEOREM TypeCorrect == Spec => []TypeOK
<1>1. LedgerInv => TypeOK
  BY DEF LedgerInv
<1>2. QED
  BY <1>1, LedgerInvariant, PTL

(* No row vanishes unseen and none is counted twice, however purges and    *)
(* inserts overlap (purge.rs execute_one_purge).                           *)
THEOREM ConservedCorrect == Spec => []RowsConserved
<1>1. LedgerInv => RowsConserved
  BY DEF LedgerInv
<1>2. QED
  BY <1>1, LedgerInvariant, PTL

(* A purge takes no row younger than every retention in force (purge.rs    *)
(* cutoff_datetime, persistence.rs delete_older_than).                     *)
THEOREM RetentionCorrect == Spec => RetentionKept
<1>1. LedgerInv /\ [Next]_vars => [\A r \in rows \ rows' : \E d \in InForce : clock - r.at > d]_vars
  BY NextRetention
<1>2. QED
  BY <1>1, LedgerInvariant, PTL DEF Spec, RetentionKept

(* What a client of the stream or of the pages is shown, it is shown whole *)
(* and in order (dashboard/spans.rs stream, recent).                       *)
THEOREM ShownCorrect == Spec => []ClientsShownWhole
<1>1. LedgerInv => ClientsShownWhole
  <2>1. SUFFICES ASSUME LedgerInv PROVE ClientsShownWhole
    OBVIOUS
  <2>2. StreamGapless
    BY <2>1, SoundIsGapless DEF LedgerInv, StreamGapless
  <2>3. PagesWhole
    BY <2>1 DEF LedgerInv, PagesWhole, WalkSound, PagesSorted, PagesComplete, Behind
  <2>4. QED
    BY <2>2, <2>3 DEF ClientsShownWhole
<1>2. QED
  BY <1>1, LedgerInvariant, PTL
=============================================================================
