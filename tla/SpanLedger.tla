----------------------------- MODULE SpanLedger -----------------------------
(***************************************************************************)
(* What becomes of a span: the insert and the broadcast of                 *)
(* ObservabilityEngine::record_span, the counter of drops behind its       *)
(* health, the purge (the hourly loop and run_one_purge called by hand,    *)
(* which may overlap), and the dashboard's stream and pages of spans.      *)
(*                                                                         *)
(* Time is a clock of ticks; started_at is stored, and compared, by whole  *)
(* milliseconds of TicksPerMs ticks.  Days and hours are numbers of ticks. *)
(* The connection's lock makes each statement atomic; between a statement  *)
(* and what follows it the other threads run.  A crash keeps the rows.     *)
(***************************************************************************)
EXTENDS Integers, SequencesExt, FiniteSets

CONSTANTS
  Spans,             \* the spans that are recorded
  Clients,           \* the clients of /spans/stream and /spans/recent
  Limits,            \* the limits the clients of /spans/recent ask for
  DefaultLimit,      \* rows of a page when none is asked for (100)
  LimitCap,          \* rows of a page at most (1000)
  None,              \* Option::None: no retention, no limit
  Retention,         \* ObservabilityConfig::retention_days
  DefaultRetention,  \* purge::default_retention_days
  Manual,            \* the retentions run_one_purge is called with by hand
  Interval,          \* ObservabilityConfig::purge_interval_hours
  TicksPerMs,        \* resolution of the clock against the stored format
  Capacity,          \* capacity of the broadcast channel (1024)
  MaxClock, MaxDrops, MaxFailures, MaxBoots  \* bounds of the model

ASSUME RetentionAssumption ==
  /\ DefaultRetention \in Nat
  /\ Retention \in Nat \cup {None}
  /\ Manual \subseteq Nat
  /\ None \notin Nat
ASSUME LimitAssumption ==
  Limits \subseteq Nat \cup {None} /\ DefaultLimit \in Nat /\ LimitCap \in Nat
ASSUME ClockAssumption ==
  Interval \in Nat /\ TicksPerMs \in Nat \ {0} /\ MaxClock \in Nat
ASSUME BoundAssumption ==
  {MaxDrops, MaxFailures} \subseteq Nat /\ {Capacity, MaxBoots} \subseteq Nat \ {0}

VARIABLES
  clock,
  span,      \* where each span is, and when it started
  rows,      \* the spans table
  drops,     \* drops_in_last_hour
  purge,     \* each purge under way: its stage, its cutoff, the rows it deleted
  nextTick,  \* when the interval of the loop fires next
  audit,     \* history: rows announced as purged, failed purges announced
  sent,      \* what this process has broadcast
  client,    \* each client: its stage, the first and the next span it reads
  got,       \* what each client has received
  walk,      \* each client: the pages it has been given, back in time
  boots

vars == <<clock, span, rows, drops, purge, nextTick, audit, sent, client, got,
          walk, boots>>
ledger == <<span, rows, drops>>
purger == <<purge, nextTick, audit>>
stream == <<sent, client, got, walk>>

Purgers     == {"loop", "manual"}
SpanStages  == {"new", "open", "inserted", "dropped", "streamed", "gone"}
PurgeStages == {"idle", "waiting", "deleted"}

Idle == [stage |-> "idle", cutoff |-> 0, deleted |-> 0]
Off  == [stage |-> "off", from |-> 0, next |-> 0]
Unasked == [stage |-> "off", since |-> 0, size |-> 0, pages |-> <<>>, there |-> {}]

Ms(t) == t \div TicksPerMs

Init ==
  /\ clock    = 0
  /\ span     = [s \in Spans |-> [stage |-> "new", at |-> 0]]
  /\ rows     = {}
  /\ drops    = 0
  /\ purge    = [p \in Purgers |-> Idle]
  /\ nextTick = Interval
  /\ audit    = [purged |-> 0, failed |-> 0]
  /\ sent     = <<>>
  /\ client   = [c \in Clients |-> Off]
  /\ got      = [c \in Clients |-> <<>>]
  /\ walk     = [c \in Clients |-> Unasked]
  /\ boots    = 1

Tick ==
  /\ clock < MaxClock
  /\ clock' = clock + 1
  /\ UNCHANGED <<ledger, purger, stream, boots>>

-----------------------------------------------------------------------------
(* record_inner takes the time before the work, record_span inserts after it *)

Begin(s) ==
  /\ span[s].stage = "new"
  /\ span' = [span EXCEPT ![s] = [stage |-> "open", at |-> clock]]
  /\ UNCHANGED <<clock, rows, drops, purger, stream, boots>>

\* The columns of the SpanRecord that a statement selects by or orders by.
Row(s) == [id |-> s, at |-> span[s].at]

Insert(s) ==
  /\ span[s].stage = "open"
  /\ rows' = rows \cup {Row(s)}
  /\ span' = [span EXCEPT ![s] = [stage |-> "inserted", at |-> 0]]
  /\ UNCHANGED <<clock, drops, purger, stream, boots>>

Broadcast(s) ==
  /\ span[s].stage = "inserted"
  /\ sent' = Append(sent, s)
  /\ span' = [span EXCEPT ![s].stage = "streamed"]
  /\ UNCHANGED <<clock, rows, drops, purger, client, got, walk, boots>>

Dropped == {s \in Spans : span[s].stage = "dropped"}

\* The insert fails; Dispatch has the SpansWriteFailed that is published next.
Drop(s) ==
  /\ span[s].stage = "open"
  /\ Cardinality(Dropped) < MaxDrops
  /\ drops' = drops + 1
  /\ span' = [span EXCEPT ![s] = [stage |-> "dropped", at |-> 0]]
  /\ UNCHANGED <<clock, rows, purger, stream, boots>>

-----------------------------------------------------------------------------
(* The purge *)

\* ObservabilityEngine::new spawns the loop only with a retention.
LoopRuns == Interval > 0 /\ Retention # None

Waiting(cutoff) == [stage |-> "waiting", cutoff |-> cutoff, deleted |-> 0]

\* The interval skips the ticks it missed.
TickAfter(t) == t + Interval * ((clock - t) \div Interval + 1)

\* Past the bound of the clock the ticks come without time passing.
LoopTick ==
  /\ LoopRuns
  /\ purge["loop"].stage = "idle"
  /\ clock >= nextTick \/ clock = MaxClock
  /\ purge' = [purge EXCEPT !["loop"] = Waiting(clock - DefaultRetention)]
  /\ nextTick' = IF clock >= nextTick THEN TickAfter(nextTick) ELSE nextTick
  /\ UNCHANGED <<clock, ledger, audit, stream, boots>>

\* run_one_purge; without a retention it only publishes a SpansPurged of 0.
ManualPurge(retention) ==
  /\ purge["manual"].stage = "idle"
  /\ purge' = [purge EXCEPT !["manual"] = Waiting(clock - retention)]
  /\ UNCHANGED <<clock, ledger, nextTick, audit, stream, boots>>

SpansPurged(count) == audit' = [audit EXCEPT !.purged = @ + count]
SpansPurgeFailed   == audit' = [audit EXCEPT !.failed = @ + 1]

\* Mutant: the row of the very millisecond of the cutoff is taken for older.
NotNewer(at, cutoff) == Ms(at) <= Ms(cutoff)

\* The texts compare by milliseconds: where those agree the stored text, which
\* ends in Z, sorts after the cutoff, which goes on with digits or an offset.
Older(at, cutoff) == Ms(at) < Ms(cutoff)

Expired(cutoff) == {r \in rows : Older(r.at, cutoff)}

\* Mutant: the rows are counted with the cutoff the event will name.
CountedLater(p) == Cardinality(Expired(clock - DefaultRetention))

Counted(p) == Cardinality(Expired(purge[p].cutoff))

Delete(p) ==
  /\ purge[p].stage = "waiting"
  /\ rows' = rows \ Expired(purge[p].cutoff)
  /\ purge' = [purge EXCEPT ![p].stage = "deleted", ![p].deleted = Counted(p)]
  /\ UNCHANGED <<clock, span, drops, nextTick, audit, stream, boots>>

DeleteFails(p) ==
  /\ purge[p].stage = "waiting"
  /\ audit.failed < MaxFailures
  /\ SpansPurgeFailed
  /\ purge' = [purge EXCEPT ![p] = Idle]
  /\ UNCHANGED <<clock, ledger, nextTick, stream, boots>>

\* Mutant: the counter is left alone.
DropsKept == UNCHANGED <<drops>>

StoreZero == drops' = 0

\* The counter is reset and SpansPurged published: nothing reads the two together.
EmitPurged(p) ==
  /\ purge[p].stage = "deleted"
  /\ StoreZero
  /\ SpansPurged(purge[p].deleted)
  /\ purge' = [purge EXCEPT ![p] = Idle]
  /\ UNCHANGED <<clock, span, rows, nextTick, stream, boots>>

-----------------------------------------------------------------------------
(* GET /spans/stream *)

Subscribe(c) ==
  /\ client[c].stage = "off" /\ walk[c].stage = "off"
  /\ client' = [client EXCEPT ![c] = [stage |-> "on", from |-> Len(sent) + 1,
                                      next |-> Len(sent) + 1]]
  /\ UNCHANGED <<clock, ledger, purger, sent, got, walk, boots>>

\* The slot of the next span has been overwritten.
Lags(c) == Len(sent) - client[c].next + 1 > Capacity

\* Mutant: the handler reads on after Lagged.
LagSkips(c) == [client[c] EXCEPT !.next = Len(sent) - Capacity + 1]

\* recv returns Lagged: the loop of the handler ends.
LagEnds(c) == [client[c] EXCEPT !.stage = "ended"]

Lag(c) ==
  /\ client[c].stage = "on" /\ Lags(c)
  /\ client' = [client EXCEPT ![c] = LagEnds(c)]
  /\ UNCHANGED <<clock, ledger, purger, sent, got, walk, boots>>

Forward(c) ==
  /\ client[c].stage = "on" /\ ~Lags(c)
  /\ client[c].next =< Len(sent)
  /\ got' = [got EXCEPT ![c] = Append(@, sent[client[c].next])]
  /\ client' = [client EXCEPT ![c].next = @ + 1]
  /\ UNCHANGED <<clock, ledger, purger, sent, walk, boots>>

Disconnect(c) ==
  /\ client[c].stage = "on"
  /\ client' = [client EXCEPT ![c].stage = "ended"]
  /\ UNCHANGED <<clock, ledger, purger, sent, got, walk, boots>>

-----------------------------------------------------------------------------
(* GET /spans/recent, asked for page after page: the cursor of each is the    *)
(* started_at of the last row of the page before.                             *)

PageSize(limit) == IF limit = None THEN DefaultLimit
                   ELSE IF limit > LimitCap THEN LimitCap ELSE limit

StartWalk(c, since, limit) ==
  /\ client[c].stage = "off" /\ walk[c].stage = "off"
  /\ walk' = [walk EXCEPT ![c] = [stage |-> "on", since |-> since,
                size |-> PageSize(limit), pages |-> <<>>, there |-> Expired(since)]]
  /\ UNCHANGED <<clock, ledger, purger, sent, client, got, boots>>

Cursor(c) == IF walk[c].pages = <<>> THEN walk[c].since
             ELSE Last(Last(walk[c].pages)).at

\* Mutant: LIMIT without ORDER BY.
AnyOrder(page, found) == ToSet(page) \subseteq found

\* ORDER BY started_at DESC: rows of one millisecond come in any order.
NewestFirst(page, found) ==
  /\ \A i, j \in DOMAIN page : i < j => Ms(page[i].at) >= Ms(page[j].at)
  /\ \A r \in found \ ToSet(page), s \in ToSet(page) : Ms(s.at) >= Ms(r.at)

\* read_after_started_at: the rows before the cursor, in spite of its name.
IsPage(page, cursor, size) ==
  LET found == Expired(cursor) IN
  /\ Len(page) = IF Cardinality(found) < size THEN Cardinality(found) ELSE size
  /\ NewestFirst(page, found)

Page(c) ==
  /\ walk[c].stage = "on"
  /\ \E some \in SUBSET Expired(Cursor(c)) : \E page \in SetToSeqs(some) :
       /\ IsPage(page, Cursor(c), walk[c].size)
       /\ walk' = IF page = <<>> THEN [walk EXCEPT ![c].stage = "end"]
                  ELSE [walk EXCEPT ![c].pages = Append(@, page)]
  /\ UNCHANGED <<clock, ledger, purger, sent, client, got, boots>>

-----------------------------------------------------------------------------
(* The process dies and is started again: only the table survives.           *)

Restart ==
  /\ boots < MaxBoots
  /\ boots'    = boots + 1
  /\ span'     = [s \in Spans |->
                    IF span[s].stage # "new"
                    THEN [stage |-> "gone", at |-> 0] ELSE span[s]]
  /\ drops'    = 0
  /\ purge'    = [p \in Purgers |-> Idle]
  /\ nextTick' = clock + Interval
  /\ sent'     = <<>>
  /\ client'   = [c \in Clients |-> Off]
  /\ got'      = [c \in Clients |-> <<>>]
  /\ UNCHANGED <<clock, rows, audit, walk>>

-----------------------------------------------------------------------------
PurgeStep(p) == Delete(p) \/ DeleteFails(p) \/ EmitPurged(p)
SpanStep(s)  == Begin(s) \/ Insert(s) \/ Broadcast(s) \/ Drop(s)

Next ==
  \/ Tick \/ LoopTick \/ Restart
  \/ \E retention \in Manual : ManualPurge(retention)
  \/ \E s \in Spans : SpanStep(s)
  \/ \E p \in Purgers : PurgeStep(p)
  \/ \E c \in Clients : Subscribe(c) \/ Forward(c) \/ Lag(c) \/ Disconnect(c)
  \/ \E c \in Clients, limit \in Limits : StartWalk(c, clock + TicksPerMs, limit)
  \/ \E c \in Clients : Page(c)

Spec == Init /\ [][Next]_vars

\* Time passes, and the runtime polls the loop and the task of a purge.
Fairness ==
  /\ WF_vars(Tick) /\ WF_vars(LoopTick)
  /\ \A p \in Purgers : WF_vars(PurgeStep(p))

FairSpec == Spec /\ Fairness

-----------------------------------------------------------------------------
RowSet == [id : Spans, at : 0..MaxClock]

\* Types of the state of the engine, the purges and the streams.
TypeOK ==
  /\ clock \in 0..MaxClock
  /\ span \in [Spans -> [stage : SpanStages, at : 0..MaxClock]]
  /\ rows \subseteq RowSet
  /\ drops \in Nat
  /\ purge \in [Purgers -> [stage : PurgeStages, cutoff : Int, deleted : Nat]]
  /\ nextTick \in Nat
  /\ audit \in [purged : Nat, failed : 0..MaxFailures]
  /\ sent \in Seq(Spans)
  /\ client \in [Clients -> [stage : {"off", "on", "ended"},
                             from : Nat, next : Nat]]
  /\ got \in [Clients -> Seq(Spans)]
  /\ walk \in [Clients -> [stage : {"off", "on", "end"}, since : Nat, size : Nat,
                           pages : Seq(Seq(RowSet)), there : SUBSET RowSet]]
  /\ boots \in 1..MaxBoots

Recorded == {s \in Spans : span[s].stage \in {"inserted", "streamed"}}

\* No row vanishes unseen and none is counted twice, however the two purges and
\* the inserts overlap: what was inserted is in the table, or in the count of a
\* purge that is announced or about to be (purge.rs execute_one_purge).
RowsConserved ==
  boots = 1 =>
    Cardinality(Recorded) =
      Cardinality(rows) + audit.purged + purge["loop"].deleted + purge["manual"].deleted

\* A purge takes no row that is younger than every retention in force, although
\* its cutoff was fixed before it waited for the connection and the stored times
\* are truncated (purge.rs cutoff_datetime, persistence.rs delete_older_than).
InForce == Manual \cup {DefaultRetention}
RetentionKept ==
  [][\A r \in rows \ rows' : \E d \in InForce : clock - r.at > d]_vars

\* A client sees the spans broadcast since it subscribed in their order and
\* without a gap (dashboard/spans.rs stream).
StreamGapless ==
  \A c \in Clients :
    got[c] = SubSeq(sent, client[c].from, client[c].from + Len(got[c]) - 1)

\* Who follows the pages goes back in time, is shown no span twice and, once they
\* end, has been shown every row that was there when it began and still is, save
\* those of the millisecond a page ended in (dashboard/spans.rs recent,
\* persistence.rs read_after_started_at).
PagesWhole ==
  \A c \in Clients :
    LET pages == walk[c].pages IN
    /\ \A k, m \in DOMAIN pages : \A i \in DOMAIN pages[k], j \in DOMAIN pages[m] :
         k < m \/ (k = m /\ i < j) =>
           /\ Ms(pages[k][i].at) >= Ms(pages[m][j].at)
           /\ pages[k][i].id # pages[m][j].id
    /\ walk[c].stage = "end" /\ walk[c].size > 0 =>
         \A r \in walk[c].there \cap rows : \E k \in DOMAIN pages :
           r \in ToSet(pages[k]) \/ Ms(Last(pages[k]).at) = Ms(r.at)

\* What either client is shown, it is shown whole and in order, while inserts,
\* purges and restarts go on.
ClientsShownWhole == StreamGapless /\ PagesWhole

\* A degraded engine becomes healthy again once a purge goes through; failed
\* purges and purges by hand do not stop the loop (observability.rs run_purge_loop).
HealthRecovers == drops > 0 ~> drops = 0
=============================================================================
