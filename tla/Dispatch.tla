------------------------------ MODULE Dispatch ------------------------------
(***************************************************************************)
(* Runtime::ingest and Scheduler::dispatch: an event is announced, fanned  *)
(* out to the steps registered for its type and joined, inside two spans;  *)
(* each step runs on a task of its own, inside a span of its own.          *)
(*                                                                         *)
(* The bus is reduced to the log of the facts of each correlation          *)
(* (EventBus models it in full), the spans table to the spans of each      *)
(* correlation in the order of their inserts.  The caller may   *)
(* drop the future of ingest where it awaits; the JoinSet then aborts the  *)
(* tasks, each at its next await.                                          *)
(***************************************************************************)
EXTENDS Integers, Sequences, FiniteSets

CONSTANTS
  Ingests,     \* calls of Runtime::ingest, each with its CorrelationId
  Steps,       \* what is pushed onto the registry, one per call of register
  TypeOf,      \* the TypeId of each ingest's event, and of what each step takes
  Cancelled,   \* the ingests whose caller may drop the future
  Panicking,   \* the steps that may panic
  MaxDrops     \* bound of the model: how many inserts into spans may fail

ASSUME IngestAssumption == Cancelled \subseteq Ingests
ASSUME StepAssumption ==
  /\ Panicking \subseteq Steps
  /\ "ingest" \notin Steps /\ "dispatch" \notin Steps
ASSUME DropAssumption == MaxDrops \in Nat

VARIABLES
  registry,   \* Scheduler::registry: the steps of all types
  pc,         \* where each ingest is
  known,      \* history: the registry when the ingest was called
  snapshot,   \* the steps dispatch took from the registry
  task,       \* the task of each step on the JoinSet of each ingest
  failed,     \* history: the steps whose closure returned Err
  rows,       \* the rows of the spans table, by correlation
  facts,      \* the facts published, by correlation
  drops       \* ObservabilityEngine::drops_in_last_hour

vars == <<registry, pc, known, snapshot, task, failed, rows, facts, drops>>

IngestStages == {"idle", "called", "received", "spawning", "joining", "announcing",
                 "dispatch drop", "dispatched", "ingest drop", "returned", "dropped"}
TaskStages   == {"none", "running", "span", "drop", "ended", "panicked",
                 "taken", "joined", "announced", "aborted"}

\* What a row or a failed insert is about: a step, or one of the two wraps.
Spans == Steps \cup {"ingest", "dispatch"}

EventReceived       == [fact |-> "EventReceived", of |-> "ingest"]
StepFailed(s)       == [fact |-> "WorkflowStepFailed", of |-> s]
StepReported(s)     == [fact |-> "reported by the step", of |-> s]
SpansWriteFailed(w) == [fact |-> "SpansWriteFailed", of |-> w]

\* registry.get(TypeId of the event).
StepsFor(i) == {s \in registry : TypeOf[s] = TypeOf[i]}

Init ==
  /\ registry = {}
  /\ pc       = [i \in Ingests |-> "idle"]
  /\ known    = [i \in Ingests |-> {}]
  /\ snapshot = [i \in Ingests |-> {}]
  /\ task     = [i \in Ingests |-> [s \in Steps |-> "none"]]
  /\ failed   = [i \in Ingests |-> {}]
  /\ rows     = [i \in Ingests |-> <<>>]
  /\ facts    = [i \in Ingests |-> <<>>]
  /\ drops    = 0

Goto(i, stage)    == pc' = [pc EXCEPT ![i] = stage]
TaskTo(i, s, stage) == task' = [task EXCEPT ![i][s] = stage]

\* EventBusHandle::publish, by what an ingest hands to it under its correlation.
Publish(i, fact) == facts' = [facts EXCEPT ![i] = Append(@, fact)]

-----------------------------------------------------------------------------
(* ObservabilityEngine::record_span: the insert, or the count of a drop     *)
(* that the next step publishes.  The caller gets Ok either way.            *)

Insert(i, w) ==
  /\ rows' = [rows EXCEPT ![i] = Append(@, w)]
  /\ UNCHANGED <<facts, drops>>

CountDrop ==
  /\ drops < MaxDrops
  /\ drops' = drops + 1
  /\ UNCHANGED <<rows, facts>>

\* Mutant: a dropped row is only counted.
DropUnannounced(i, w) == UNCHANGED <<rows, facts, drops>>

AnnounceDrop(i, w) ==
  /\ Publish(i, SpansWriteFailed(w))
  /\ UNCHANGED <<rows, drops>>

-----------------------------------------------------------------------------
(* Scheduler::register *)

Register(s) ==
  /\ s \notin registry
  /\ registry' = registry \cup {s}
  /\ UNCHANGED <<pc, known, snapshot, task, failed, rows, facts, drops>>

-----------------------------------------------------------------------------
(* Runtime::ingest *)

Call(i) ==
  /\ pc[i] = "idle"
  /\ Goto(i, "called")
  /\ known' = [known EXCEPT ![i] = StepsFor(i)]
  /\ UNCHANGED <<registry, snapshot, task, failed, rows, facts, drops>>

Receive(i) ==
  /\ pc[i] = "called"
  /\ Publish(i, EventReceived)
  /\ Goto(i, "received")
  /\ UNCHANGED <<registry, known, snapshot, task, failed, rows, drops>>

(* Scheduler::dispatch up to the first join_next: no await in between, but   *)
(* other threads may register, and tasks run, while it proceeds.  Without    *)
(* steps the wrapped future has nothing to join.                             *)

TakeSnapshot(i) ==
  /\ pc[i] = "received"
  /\ snapshot' = [snapshot EXCEPT ![i] = StepsFor(i)]
  /\ Goto(i, "spawning")
  /\ UNCHANGED <<registry, known, task, failed, rows, facts, drops>>

Spawn(i) ==
  /\ pc[i] = "spawning"
  /\ task' = [task EXCEPT ![i] =
                [s \in Steps |-> IF s \in snapshot[i] THEN "running" ELSE @[s]]]
  /\ Goto(i, "joining")
  /\ UNCHANGED <<registry, known, snapshot, failed, rows, facts, drops>>

-----------------------------------------------------------------------------
(* The task of a step.  Of a dropped ingest it may go on until an await.     *)

StepOk(i, s) ==
  /\ task[i][s] = "running"
  /\ TaskTo(i, s, "span")
  /\ UNCHANGED <<registry, pc, known, snapshot, failed, rows, facts, drops>>

\* A step that returns Err has published the failure itself.
StepErr(i, s) ==
  /\ task[i][s] = "running"
  /\ TaskTo(i, s, "span")
  /\ failed' = [failed EXCEPT ![i] = @ \cup {s}]
  /\ Publish(i, StepReported(s))
  /\ UNCHANGED <<registry, pc, known, snapshot, rows, drops>>

StepPanics(i, s) ==
  /\ s \in Panicking
  /\ task[i][s] = "running"
  /\ TaskTo(i, s, "panicked")
  /\ UNCHANGED <<registry, pc, known, snapshot, failed, rows, facts, drops>>

StepSpan(i, s) ==
  /\ task[i][s] = "span"
  /\ \/ Insert(i, s) /\ TaskTo(i, s, "ended")
     \/ CountDrop    /\ TaskTo(i, s, "drop")
  /\ UNCHANGED <<registry, pc, known, snapshot, failed>>

StepDrop(i, s) ==
  /\ task[i][s] = "drop"
  /\ AnnounceDrop(i, s)
  /\ TaskTo(i, s, "ended")
  /\ UNCHANGED <<registry, pc, known, snapshot, failed>>

Abort(i, s) ==
  /\ pc[i] = "dropped"
  /\ task[i][s] \in {"running", "span", "drop"}
  /\ TaskTo(i, s, "aborted")
  /\ UNCHANGED <<registry, pc, known, snapshot, failed, rows, facts, drops>>

-----------------------------------------------------------------------------
(* Scheduler::dispatch: the drain of the JoinSet, then the two spans.        *)

JoinEnded(i, s) ==
  /\ pc[i] = "joining" /\ task[i][s] = "ended"
  /\ TaskTo(i, s, "joined")
  /\ UNCHANGED <<registry, pc, known, snapshot, failed, rows, facts, drops>>

JoinPanicked(i, s) ==
  /\ pc[i] = "joining" /\ task[i][s] = "panicked"
  /\ TaskTo(i, s, "taken")
  /\ Goto(i, "announcing")
  /\ UNCHANGED <<registry, known, snapshot, failed, rows, facts, drops>>

\* Mutant: the panic is logged only.
PanicLogged(i, s) == UNCHANGED facts

\* What dispatch publishes on behalf of a step that panicked.
PublishOnBehalf(i, s) == Publish(i, StepFailed(s))

AnnouncePanic(i, s) ==
  /\ pc[i] = "announcing" /\ task[i][s] = "taken"
  /\ PublishOnBehalf(i, s)
  /\ TaskTo(i, s, "announced")
  /\ Goto(i, "joining")
  /\ UNCHANGED <<registry, known, snapshot, failed, rows, drops>>

\* Mutant: the drain stops at the first task that is joined.
SomeDrained(i) ==
  \/ snapshot[i] = {}
  \/ \E s \in snapshot[i] : task[i][s] \in {"joined", "announced"}

\* Mutant: the drain waits for every step to have ended well.
AllWell(i) == \A s \in snapshot[i] : task[i][s] = "joined"

\* join_next returns None.
Drained(i) == \A s \in snapshot[i] : task[i][s] \in {"joined", "announced"}

DispatchSpan(i) ==
  /\ pc[i] = "joining" /\ Drained(i)
  /\ \/ Insert(i, "dispatch") /\ Goto(i, "dispatched")
     \/ CountDrop             /\ Goto(i, "dispatch drop")
  /\ UNCHANGED <<registry, known, snapshot, task, failed>>

DispatchDrop(i) ==
  /\ pc[i] = "dispatch drop"
  /\ AnnounceDrop(i, "dispatch")
  /\ Goto(i, "dispatched")
  /\ UNCHANGED <<registry, known, snapshot, task, failed>>

IngestSpan(i) ==
  /\ pc[i] = "dispatched"
  /\ \/ Insert(i, "ingest") /\ Goto(i, "returned")
     \/ CountDrop           /\ Goto(i, "ingest drop")
  /\ UNCHANGED <<registry, known, snapshot, task, failed>>

IngestDrop(i) ==
  /\ pc[i] = "ingest drop"
  /\ AnnounceDrop(i, "ingest")
  /\ Goto(i, "returned")
  /\ UNCHANGED <<registry, known, snapshot, task, failed>>

\* The caller drops the future while it waits: for the bus, for a task or
\* for the connection.
Cancel(i) ==
  /\ i \in Cancelled
  /\ pc[i] \in {"called", "joining", "announcing",
                "dispatch drop", "dispatched", "ingest drop"}
  /\ Goto(i, "dropped")
  /\ UNCHANGED <<registry, known, snapshot, task, failed, rows, facts, drops>>

-----------------------------------------------------------------------------
StepEnds(i, s) == StepOk(i, s) \/ StepErr(i, s) \/ StepPanics(i, s)

TaskNext(i, s) ==
  \/ StepSpan(i, s) \/ StepDrop(i, s) \/ Abort(i, s)
  \/ JoinEnded(i, s) \/ JoinPanicked(i, s) \/ AnnouncePanic(i, s)

IngestNext(i) ==
  \/ Receive(i) \/ TakeSnapshot(i) \/ Spawn(i)
  \/ DispatchSpan(i) \/ DispatchDrop(i) \/ IngestSpan(i) \/ IngestDrop(i)

Next ==
  \/ \E s \in Steps : Register(s)
  \/ \E i \in Ingests : Call(i) \/ Cancel(i) \/ IngestNext(i)
  \/ \E i \in Ingests, s \in Steps : StepEnds(i, s) \/ TaskNext(i, s)

Spec == Init /\ [][Next]_vars

\* The runtime polls what is ready.  Nothing makes a step return.
FairSpec ==
  /\ Spec
  /\ \A i \in Ingests : WF_vars(IngestNext(i))
  /\ \A i \in Ingests, s \in Steps : WF_vars(TaskNext(i, s))

-----------------------------------------------------------------------------
Fact ==
  {EventReceived} \cup {StepReported(s) : s \in Steps}
  \cup {StepFailed(s) : s \in Steps} \cup {SpansWriteFailed(w) : w \in Spans}

\* Types of the state of Scheduler, of its tasks and of what they leave behind.
TypeOK ==
  /\ registry \subseteq Steps
  /\ pc \in [Ingests -> IngestStages]
  /\ known \in [Ingests -> SUBSET Steps] /\ snapshot \in [Ingests -> SUBSET Steps]
  /\ failed \in [Ingests -> SUBSET Steps]
  /\ task \in [Ingests -> [Steps -> TaskStages]]
  /\ rows \in [Ingests -> Seq(Spans)]
  /\ facts \in [Ingests -> Seq(Fact)]
  /\ drops \in 0..MaxDrops

Published(i, fact) == \E k \in DOMAIN facts[i] : facts[i][k] = fact
HasRow(i, w)       == \E k \in DOMAIN rows[i] : rows[i][k] = w

\* dispatch has returned to ingest.
AfterDispatch(i) == pc[i] \in {"dispatch drop", "dispatched", "ingest drop", "returned"}

\* When dispatch has come back, every step that was registered for the event
\* when ingest was called, and none of another event, has run to its end and is
\* joined, and exactly those that panicked are announced as failed
\* (scheduler.rs, the registry and the drain of the JoinSet).
EveryStepJoined ==
  \A i \in Ingests : AfterDispatch(i) =>
    /\ known[i] \subseteq snapshot[i]
    /\ \A s \in snapshot[i] : TypeOf[s] = TypeOf[i]
    /\ \A s \in snapshot[i] :
         /\ task[i][s] \in {"joined", "announced"}
         /\ Published(i, StepFailed(s)) <=> task[i][s] = "announced"

\* When ingest has returned, each of its spans is either a row or a
\* SpansWriteFailed, never both and never neither; only a step that panicked has
\* neither (observability.rs record_span, best effort).
EverySpanAccounted ==
  \A i \in Ingests : pc[i] = "returned" =>
    \A w \in snapshot[i] \cup {"ingest", "dispatch"} :
      IF w \in Steps /\ task[i][w] = "announced"
      THEN ~HasRow(i, w) /\ ~Published(i, SpansWriteFailed(w))
      ELSE HasRow(i, w) <=> ~Published(i, SpansWriteFailed(w))

\* Nothing of an ingest goes on behind the back of the caller it returned to:
\* no step, no row and no fact of its correlation comes later (runtime.rs: ingest
\* awaits the full completion of every concurrent step).
ReturnedIsOver ==
  [][\A i \in Ingests : pc[i] = "returned" =>
       UNCHANGED <<task[i], facts[i], rows[i], failed[i]>>]_vars

\* An ingest returns unless one of its own steps hangs: neither a panic nor a
\* failed insert nor a step that hangs in another ingest holds it.
IngestReturns ==
  \A i \in Ingests :
    (\A s \in Steps : []<>(task[i][s] # "running")) =>
      (pc[i] = "called" ~> pc[i] \in {"returned", "dropped"})
=============================================================================
