--------------------------- MODULE DispatchProofs ---------------------------
(***************************************************************************)
(* Proofs about Dispatch, for any number of ingests and steps and any      *)
(* number of failed inserts: an ingest that returns has joined every step, *)
(* announced exactly the panics, and is over.                              *)
(***************************************************************************)
EXTENDS Dispatch, TLAPS

BeforeSnapshot(i) == pc[i] \in {"idle", "called", "received"}
Fanned(i)         == pc[i] \in {"joining", "announcing"} \/ AfterDispatch(i)

\* The steps of an ingest's snapshot have a task from the fan-out on, no other
\* step ever has one, and past the drain all are joined.
TasksOK(i) ==
  /\ BeforeSnapshot(i) => snapshot[i] = {}
  /\ \A s \in Steps \ snapshot[i] : task[i][s] = "none"
  /\ pc[i] = "spawning" => \A s \in Steps : task[i][s] = "none"
  /\ AfterDispatch(i) => Drained(i)

\* What was registered for the event before the call is in the snapshot, which
\* holds nothing of another event.
KnownOK(i) ==
  /\ known[i] \subseteq StepsFor(i)
  /\ \A s \in snapshot[i] : TypeOf[s] = TypeOf[i]
  /\ pc[i] = "spawning" \/ Fanned(i) => known[i] \subseteq snapshot[i]

\* The log names exactly the steps whose panic was announced.
LogOK(i) == \A s \in Steps : Published(i, StepFailed(s)) <=> task[i][s] = "announced"

IInv ==
  /\ TypeOK
  /\ \A i \in Ingests : TasksOK(i)
  /\ \A i \in Ingests : KnownOK(i)
  /\ \A i \in Ingests : LogOK(i)

-----------------------------------------------------------------------------
\* A log that grows by one fact holds the old facts and the new one.
LEMMA LogGrows ==
  ASSUME NEW S, NEW q \in Seq(S), NEW x \in S, NEW y
  PROVE  (\E k \in DOMAIN Append(q, x) : Append(q, x)[k] = y)
           <=> (\E k \in DOMAIN q : q[k] = y) \/ x = y
<1> DEFINE r == Append(q, x)
<1>1. Len(r) = Len(q) + 1 /\ DOMAIN r = 1..(Len(q) + 1) /\ DOMAIN q = 1..Len(q)
  OBVIOUS
<1>2. r[Len(q) + 1] = x /\ \A k \in 1..Len(q) : r[k] = q[k]
  OBVIOUS
<1>3. Len(q) \in Nat
  OBVIOUS
<1> HIDE DEF r
<1>4. (\E k \in DOMAIN r : r[k] = y) <=> (\E k \in DOMAIN q : q[k] = y) \/ x = y
  BY <1>1, <1>2, <1>3
<1> QED BY <1>4 DEF r

\* The four kinds of facts are distinct, and those of a kind are told apart by
\* what they are about.
LEMMA FactsDiffer ==
  /\ \A s, t : StepFailed(s) = StepFailed(t) => s = t
  /\ \A s : EventReceived # StepFailed(s)
  /\ \A s, t : StepReported(s) # StepFailed(t)
  /\ \A w, s : SpansWriteFailed(w) # StepFailed(s)
BY DEF StepFailed, EventReceived, StepReported, SpansWriteFailed

\* A published fact that is no WorkflowStepFailed of the scheduler leaves the
\* panics announced as they are; one that is adds its step.
LEMMA PublishLogs ==
  ASSUME TypeOK, NEW i \in Ingests, NEW fact \in Fact, Publish(i, fact)
  PROVE  /\ facts' \in [Ingests -> Seq(Fact)]
         /\ \A j \in Ingests, s \in Steps :
              Published(j, StepFailed(s))'
                <=> Published(j, StepFailed(s)) \/ (j = i /\ fact = StepFailed(s))
<1>1. facts[i] \in Seq(Fact) BY DEF TypeOK
<1>2. facts'[i] = Append(facts[i], fact) /\ \A j \in Ingests \ {i} : facts'[j] = facts[j]
  BY DEF TypeOK, Publish
<1>3. facts' \in [Ingests -> Seq(Fact)]
  BY <1>1 DEF TypeOK, Publish
<1>4. ASSUME NEW s \in Steps
      PROVE  Published(i, StepFailed(s))' <=> Published(i, StepFailed(s)) \/ fact = StepFailed(s)
  <2>1. PICK q \in Seq(Fact) : q = facts[i]
    BY <1>1
  <2>2. PICK y : y = StepFailed(s)
    OBVIOUS
  <2>3. (\E k \in DOMAIN Append(q, fact) : Append(q, fact)[k] = y)
           <=> (\E k \in DOMAIN q : q[k] = y) \/ fact = y
    BY LogGrows
  <2>4. (\E k \in DOMAIN facts'[i] : facts'[i][k] = y)
           <=> (\E k \in DOMAIN facts[i] : facts[i][k] = y) \/ fact = y
    BY <2>1, <2>3, <1>2
  <2> QED BY <2>2, <2>4 DEF Published, StepFailed
<1>5. ASSUME NEW j \in Ingests \ {i}, NEW s \in Steps
      PROVE  Published(j, StepFailed(s))' <=> Published(j, StepFailed(s))
  BY <1>2 DEF Published, StepFailed
<1> QED BY <1>3, <1>4, <1>5

(* What the code publishes has the type of facts.                          *)
LEMMA FactsOfTheCode ==
  /\ EventReceived \in Fact
  /\ \A s \in Steps : StepReported(s) \in Fact /\ StepFailed(s) \in Fact
  /\ \A w \in Spans : SpansWriteFailed(w) \in Fact
BY DEF Fact

\* An insert, or the count of a failed one, keeps rows and counter typed and
\* publishes nothing.
LEMMA RecordKeeps ==
  ASSUME TypeOK, NEW i \in Ingests, NEW w \in Spans, Insert(i, w) \/ CountDrop
  PROVE  /\ rows' \in [Ingests -> Seq(Spans)] /\ drops' \in 0..MaxDrops
         /\ facts' = facts
<1>1. CASE Insert(i, w)
  BY <1>1 DEF Insert, TypeOK
<1>2. CASE CountDrop
  BY <1>2, DropAssumption DEF CountDrop, TypeOK
<1> QED BY <1>1, <1>2

(* Spans made of typed parts are typed.                                    *)
LEMMA SpansTyped ==
  /\ \A s \in Steps : s \in Spans
  /\ "ingest" \in Spans /\ "dispatch" \in Spans
BY DEF Spans

-----------------------------------------------------------------------------
\* Every step keeps the types.
LEMMA TypeStep ==
  ASSUME TypeOK, [Next]_vars
  PROVE  TypeOK'
<1>1. CASE \E s \in Steps : Register(s)
  BY <1>1 DEF Register, Goto, TaskTo, IngestStages, TaskStages, TypeOK
<1>2. ASSUME NEW i \in Ingests, Call(i) PROVE TypeOK'
  BY <1>2 DEF Call, StepsFor, Goto, TaskTo, IngestStages, TaskStages, TypeOK
<1>3. ASSUME NEW i \in Ingests, Receive(i) PROVE TypeOK'
  BY <1>3, PublishLogs, FactsOfTheCode, SpansTyped
  DEF Receive, Goto, TaskTo, IngestStages, TaskStages, TypeOK, AnnounceDrop, PublishOnBehalf
<1>4. ASSUME NEW i \in Ingests, TakeSnapshot(i) PROVE TypeOK'
  BY <1>4 DEF TakeSnapshot, StepsFor, Goto, TaskTo, IngestStages, TaskStages, TypeOK
<1>5. ASSUME NEW i \in Ingests, Spawn(i) PROVE TypeOK'
  BY <1>5 DEF Spawn, Goto, TaskTo, IngestStages, TaskStages, TypeOK
<1>6. ASSUME NEW i \in Ingests, DispatchSpan(i) PROVE TypeOK'
  BY <1>6, RecordKeeps, SpansTyped DEF DispatchSpan, Goto, TaskTo, IngestStages, TaskStages, TypeOK
<1>7. ASSUME NEW i \in Ingests, DispatchDrop(i) PROVE TypeOK'
  BY <1>7, PublishLogs, FactsOfTheCode, SpansTyped
  DEF DispatchDrop, Goto, TaskTo, IngestStages, TaskStages, TypeOK, AnnounceDrop, PublishOnBehalf
<1>8. ASSUME NEW i \in Ingests, IngestSpan(i) PROVE TypeOK'
  BY <1>8, RecordKeeps, SpansTyped DEF IngestSpan, Goto, TaskTo, IngestStages, TaskStages, TypeOK
<1>9. ASSUME NEW i \in Ingests, IngestDrop(i) PROVE TypeOK'
  BY <1>9, PublishLogs, FactsOfTheCode, SpansTyped
  DEF IngestDrop, Goto, TaskTo, IngestStages, TaskStages, TypeOK, AnnounceDrop, PublishOnBehalf
<1>10. ASSUME NEW i \in Ingests, Cancel(i) PROVE TypeOK'
  BY <1>10 DEF Cancel, Goto, TaskTo, IngestStages, TaskStages, TypeOK
<1>11. ASSUME NEW i \in Ingests, NEW s \in Steps, StepOk(i, s) PROVE TypeOK'
  BY <1>11 DEF StepOk, Goto, TaskTo, IngestStages, TaskStages, TypeOK
<1>12. ASSUME NEW i \in Ingests, NEW s \in Steps, StepErr(i, s) PROVE TypeOK'
  BY <1>12, PublishLogs, FactsOfTheCode, SpansTyped
  DEF StepErr, Goto, TaskTo, IngestStages, TaskStages, TypeOK, AnnounceDrop, PublishOnBehalf
<1>13. ASSUME NEW i \in Ingests, NEW s \in Steps, StepPanics(i, s) PROVE TypeOK'
  BY <1>13 DEF StepPanics, Goto, TaskTo, IngestStages, TaskStages, TypeOK
<1>14. ASSUME NEW i \in Ingests, NEW s \in Steps, StepSpan(i, s) PROVE TypeOK'
  <2>1. PICK stage \in {"ended", "drop"} : TaskTo(i, s, stage)
    BY <1>14 DEF StepSpan
  <2>2. /\ task[i][s] = "span" /\ (Insert(i, s) \/ CountDrop)
        /\ UNCHANGED <<registry, pc, known, snapshot, failed>>
    BY <1>14 DEF StepSpan
  <2> QED BY <2>1, <2>2, RecordKeeps, SpansTyped
    DEF TaskTo, TaskStages, TypeOK
<1>15. ASSUME NEW i \in Ingests, NEW s \in Steps, StepDrop(i, s) PROVE TypeOK'
  BY <1>15, PublishLogs, FactsOfTheCode, SpansTyped
  DEF StepDrop, Goto, TaskTo, IngestStages, TaskStages, TypeOK, AnnounceDrop, PublishOnBehalf
<1>16. ASSUME NEW i \in Ingests, NEW s \in Steps, Abort(i, s) PROVE TypeOK'
  BY <1>16 DEF Abort, Goto, TaskTo, IngestStages, TaskStages, TypeOK
<1>17. ASSUME NEW i \in Ingests, NEW s \in Steps, JoinEnded(i, s) PROVE TypeOK'
  BY <1>17 DEF JoinEnded, Goto, TaskTo, IngestStages, TaskStages, TypeOK
<1>18. ASSUME NEW i \in Ingests, NEW s \in Steps, JoinPanicked(i, s) PROVE TypeOK'
  BY <1>18 DEF JoinPanicked, Goto, TaskTo, IngestStages, TaskStages, TypeOK
<1>19. ASSUME NEW i \in Ingests, NEW s \in Steps, AnnouncePanic(i, s) PROVE TypeOK'
  BY <1>19, PublishLogs, FactsOfTheCode, SpansTyped
  DEF AnnouncePanic, Goto, TaskTo, IngestStages, TaskStages, TypeOK, AnnounceDrop, PublishOnBehalf
<1>20. CASE UNCHANGED vars
  BY <1>20 DEF vars, Goto, TaskTo, IngestStages, TaskStages, TypeOK
<1> QED
  BY <1>1, <1>2, <1>3, <1>4, <1>5, <1>6, <1>7, <1>8, <1>9, <1>10,
     <1>11, <1>12, <1>13, <1>14, <1>15, <1>16, <1>17, <1>18, <1>19, <1>20
     DEF Next, IngestNext, TaskNext, StepEnds

\* Every step keeps the tasks in line with the snapshot and the drain.
LEMMA TasksStep ==
  ASSUME TypeOK, NEW j \in Ingests, TasksOK(j), [Next]_vars
  PROVE  TasksOK(j)'
<1>1. CASE \E s \in Steps : Register(s)
  BY <1>1 DEF Register, Goto, TaskTo, TypeOK, TasksOK, BeforeSnapshot, AfterDispatch, Drained
<1>2. ASSUME NEW i \in Ingests, Call(i) PROVE TasksOK(j)'
  BY <1>2 DEF Call, Goto, TaskTo, TypeOK, TasksOK, BeforeSnapshot, AfterDispatch, Drained
<1>3. ASSUME NEW i \in Ingests, Receive(i) PROVE TasksOK(j)'
  BY <1>3 DEF Receive, Goto, TaskTo, TypeOK, TasksOK, BeforeSnapshot, AfterDispatch, Drained
<1>4. ASSUME NEW i \in Ingests, TakeSnapshot(i) PROVE TasksOK(j)'
  BY <1>4 DEF TakeSnapshot, StepsFor, Goto, TaskTo, TypeOK, TasksOK, BeforeSnapshot, AfterDispatch, Drained
<1>5. ASSUME NEW i \in Ingests, Spawn(i) PROVE TasksOK(j)'
  BY <1>5 DEF Spawn, Goto, TaskTo, TypeOK, TasksOK, BeforeSnapshot, AfterDispatch, Drained
<1>6. ASSUME NEW i \in Ingests, DispatchSpan(i) PROVE TasksOK(j)'
  BY <1>6 DEF DispatchSpan, Goto, TaskTo, TypeOK, TasksOK, BeforeSnapshot, AfterDispatch, Drained
<1>7. ASSUME NEW i \in Ingests, DispatchDrop(i) PROVE TasksOK(j)'
  BY <1>7 DEF DispatchDrop, Goto, TaskTo, TypeOK, TasksOK, BeforeSnapshot, AfterDispatch, Drained
<1>8. ASSUME NEW i \in Ingests, IngestSpan(i) PROVE TasksOK(j)'
  BY <1>8 DEF IngestSpan, Goto, TaskTo, TypeOK, TasksOK, BeforeSnapshot, AfterDispatch, Drained
<1>9. ASSUME NEW i \in Ingests, IngestDrop(i) PROVE TasksOK(j)'
  BY <1>9 DEF IngestDrop, Goto, TaskTo, TypeOK, TasksOK, BeforeSnapshot, AfterDispatch, Drained
<1>10. ASSUME NEW i \in Ingests, Cancel(i) PROVE TasksOK(j)'
  BY <1>10 DEF Cancel, Goto, TaskTo, TypeOK, TasksOK, BeforeSnapshot, AfterDispatch, Drained
<1>11. ASSUME NEW i \in Ingests, NEW s \in Steps, StepOk(i, s) PROVE TasksOK(j)'
  BY <1>11 DEF StepOk, Goto, TaskTo, TypeOK, TasksOK, BeforeSnapshot, AfterDispatch, Drained
<1>12. ASSUME NEW i \in Ingests, NEW s \in Steps, StepErr(i, s) PROVE TasksOK(j)'
  BY <1>12 DEF StepErr, Goto, TaskTo, TypeOK, TasksOK, BeforeSnapshot, AfterDispatch, Drained
<1>13. ASSUME NEW i \in Ingests, NEW s \in Steps, StepPanics(i, s) PROVE TasksOK(j)'
  BY <1>13 DEF StepPanics, Goto, TaskTo, TypeOK, TasksOK, BeforeSnapshot, AfterDispatch, Drained
<1>14. ASSUME NEW i \in Ingests, NEW s \in Steps, StepSpan(i, s) PROVE TasksOK(j)'
  <2>1. PICK stage \in {"ended", "drop"} : TaskTo(i, s, stage)
    BY <1>14 DEF StepSpan
  <2>2. /\ task[i][s] = "span" /\ (Insert(i, s) \/ CountDrop)
        /\ UNCHANGED <<registry, pc, known, snapshot, failed>>
    BY <1>14 DEF StepSpan
  <2>3. \A r \in Steps : task'[j][r] = IF j = i /\ r = s THEN stage ELSE task[j][r]
    BY <2>1 DEF TaskTo, TypeOK
  <2> QED BY <2>2, <2>3 DEF TypeOK, TasksOK, BeforeSnapshot, AfterDispatch, Drained
<1>15. ASSUME NEW i \in Ingests, NEW s \in Steps, StepDrop(i, s) PROVE TasksOK(j)'
  BY <1>15 DEF StepDrop, Goto, TaskTo, TypeOK, TasksOK, BeforeSnapshot, AfterDispatch, Drained
<1>16. ASSUME NEW i \in Ingests, NEW s \in Steps, Abort(i, s) PROVE TasksOK(j)'
  BY <1>16 DEF Abort, Goto, TaskTo, TypeOK, TasksOK, BeforeSnapshot, AfterDispatch, Drained
<1>17. ASSUME NEW i \in Ingests, NEW s \in Steps, JoinEnded(i, s) PROVE TasksOK(j)'
  BY <1>17 DEF JoinEnded, Goto, TaskTo, TypeOK, TasksOK, BeforeSnapshot, AfterDispatch, Drained
<1>18. ASSUME NEW i \in Ingests, NEW s \in Steps, JoinPanicked(i, s) PROVE TasksOK(j)'
  BY <1>18 DEF JoinPanicked, Goto, TaskTo, TypeOK, TasksOK, BeforeSnapshot, AfterDispatch, Drained
<1>19. ASSUME NEW i \in Ingests, NEW s \in Steps, AnnouncePanic(i, s) PROVE TasksOK(j)'
  BY <1>19 DEF AnnouncePanic, Goto, TaskTo, TypeOK, TasksOK, BeforeSnapshot, AfterDispatch, Drained
<1>20. CASE UNCHANGED vars
  BY <1>20 DEF vars, TypeOK, TasksOK, BeforeSnapshot, AfterDispatch, Drained
<1> QED
  BY <1>1, <1>2, <1>3, <1>4, <1>5, <1>6, <1>7, <1>8, <1>9, <1>10,
     <1>11, <1>12, <1>13, <1>14, <1>15, <1>16, <1>17, <1>18, <1>19, <1>20
     DEF Next, IngestNext, TaskNext, StepEnds

\* The registry only grows, and the snapshot is taken of all its steps of the event.
LEMMA KnownStep ==
  ASSUME TypeOK, NEW j \in Ingests, KnownOK(j), [Next]_vars
  PROVE  KnownOK(j)'
<1>1. CASE \E s \in Steps : Register(s)
  BY <1>1 DEF Register, Goto, TypeOK, KnownOK, StepsFor, Fanned, AfterDispatch
<1>2. ASSUME NEW i \in Ingests, Call(i) PROVE KnownOK(j)'
  BY <1>2 DEF Call, Goto, TypeOK, KnownOK, StepsFor, Fanned, AfterDispatch
<1>3. ASSUME NEW i \in Ingests, Receive(i) PROVE KnownOK(j)'
  BY <1>3 DEF Receive, Goto, TypeOK, KnownOK, StepsFor, Fanned, AfterDispatch
<1>4. ASSUME NEW i \in Ingests, TakeSnapshot(i) PROVE KnownOK(j)'
  BY <1>4 DEF TakeSnapshot, Goto, TypeOK, KnownOK, StepsFor, Fanned, AfterDispatch
<1>5. ASSUME NEW i \in Ingests, Spawn(i) PROVE KnownOK(j)'
  BY <1>5 DEF Spawn, Goto, TypeOK, KnownOK, StepsFor, Fanned, AfterDispatch
<1>6. ASSUME NEW i \in Ingests, DispatchSpan(i) PROVE KnownOK(j)'
  BY <1>6 DEF DispatchSpan, Goto, TypeOK, KnownOK, StepsFor, Fanned, AfterDispatch
<1>7. ASSUME NEW i \in Ingests, DispatchDrop(i) PROVE KnownOK(j)'
  BY <1>7 DEF DispatchDrop, Goto, TypeOK, KnownOK, StepsFor, Fanned, AfterDispatch
<1>8. ASSUME NEW i \in Ingests, IngestSpan(i) PROVE KnownOK(j)'
  BY <1>8 DEF IngestSpan, Goto, TypeOK, KnownOK, StepsFor, Fanned, AfterDispatch
<1>9. ASSUME NEW i \in Ingests, IngestDrop(i) PROVE KnownOK(j)'
  BY <1>9 DEF IngestDrop, Goto, TypeOK, KnownOK, StepsFor, Fanned, AfterDispatch
<1>10. ASSUME NEW i \in Ingests, Cancel(i) PROVE KnownOK(j)'
  BY <1>10 DEF Cancel, Goto, TypeOK, KnownOK, StepsFor, Fanned, AfterDispatch
<1>11. ASSUME NEW i \in Ingests, NEW s \in Steps, StepOk(i, s) PROVE KnownOK(j)'
  BY <1>11 DEF StepOk, Goto, TypeOK, KnownOK, StepsFor, Fanned, AfterDispatch
<1>12. ASSUME NEW i \in Ingests, NEW s \in Steps, StepErr(i, s) PROVE KnownOK(j)'
  BY <1>12 DEF StepErr, Goto, TypeOK, KnownOK, StepsFor, Fanned, AfterDispatch
<1>13. ASSUME NEW i \in Ingests, NEW s \in Steps, StepPanics(i, s) PROVE KnownOK(j)'
  BY <1>13 DEF StepPanics, Goto, TypeOK, KnownOK, StepsFor, Fanned, AfterDispatch
<1>14. ASSUME NEW i \in Ingests, NEW s \in Steps, StepSpan(i, s) PROVE KnownOK(j)'
  BY <1>14 DEF StepSpan, Goto, TypeOK, KnownOK, StepsFor, Fanned, AfterDispatch
<1>15. ASSUME NEW i \in Ingests, NEW s \in Steps, StepDrop(i, s) PROVE KnownOK(j)'
  BY <1>15 DEF StepDrop, Goto, TypeOK, KnownOK, StepsFor, Fanned, AfterDispatch
<1>16. ASSUME NEW i \in Ingests, NEW s \in Steps, Abort(i, s) PROVE KnownOK(j)'
  BY <1>16 DEF Abort, Goto, TypeOK, KnownOK, StepsFor, Fanned, AfterDispatch
<1>17. ASSUME NEW i \in Ingests, NEW s \in Steps, JoinEnded(i, s) PROVE KnownOK(j)'
  BY <1>17 DEF JoinEnded, Goto, TypeOK, KnownOK, StepsFor, Fanned, AfterDispatch
<1>18. ASSUME NEW i \in Ingests, NEW s \in Steps, JoinPanicked(i, s) PROVE KnownOK(j)'
  BY <1>18 DEF JoinPanicked, Goto, TypeOK, KnownOK, StepsFor, Fanned, AfterDispatch
<1>19. ASSUME NEW i \in Ingests, NEW s \in Steps, AnnouncePanic(i, s) PROVE KnownOK(j)'
  BY <1>19 DEF AnnouncePanic, Goto, TypeOK, KnownOK, StepsFor, Fanned, AfterDispatch
<1>20. CASE UNCHANGED vars
  BY <1>20 DEF vars, Goto, TypeOK, KnownOK, StepsFor, Fanned, AfterDispatch
<1> QED
  BY <1>1, <1>2, <1>3, <1>4, <1>5, <1>6, <1>7, <1>8, <1>9, <1>10,
     <1>11, <1>12, <1>13, <1>14, <1>15, <1>16, <1>17, <1>18, <1>19, <1>20
     DEF Next, IngestNext, TaskNext, StepEnds

\* The announcement of dropped spans is no WorkflowStepFailed.
LEMMA DropAnnounced ==
  ASSUME TypeOK, NEW i \in Ingests, NEW w \in Spans, AnnounceDrop(i, w)
  PROVE  \A k \in Ingests, s \in Steps :
           Published(k, StepFailed(s))' <=> Published(k, StepFailed(s))
<1>1. Publish(i, SpansWriteFailed(w)) /\ SpansWriteFailed(w) \in Fact
  BY FactsOfTheCode DEF AnnounceDrop
<1>2. \A k \in Ingests, s \in Steps :
        Published(k, StepFailed(s))'
          <=> Published(k, StepFailed(s)) \/ (k = i /\ SpansWriteFailed(w) = StepFailed(s))
  BY <1>1, PublishLogs
<1> QED BY <1>2, FactsDiffer

\* Only the announcement of a panic adds a WorkflowStepFailed, for the step it
\* belongs to.
LEMMA LogStep ==
  ASSUME TypeOK, NEW j \in Ingests, TasksOK(j), LogOK(j), [Next]_vars
  PROVE  LogOK(j)'
<1>1. CASE \E s \in Steps : Register(s)
  BY <1>1 DEF Register, TaskTo, TypeOK, TasksOK, LogOK, Published, StepFailed
<1>2. ASSUME NEW i \in Ingests, Call(i) PROVE LogOK(j)'
  BY <1>2 DEF Call, TaskTo, TypeOK, TasksOK, LogOK, Published, StepFailed
<1>3. ASSUME NEW i \in Ingests, Receive(i) PROVE LogOK(j)'
  BY <1>3, PublishLogs, FactsDiffer, FactsOfTheCode, SpansTyped
  DEF Receive, TaskTo, TypeOK, LogOK, AnnounceDrop, PublishOnBehalf
<1>4. ASSUME NEW i \in Ingests, TakeSnapshot(i) PROVE LogOK(j)'
  BY <1>4 DEF TakeSnapshot, TaskTo, TypeOK, TasksOK, LogOK, Published, StepFailed
<1>5. ASSUME NEW i \in Ingests, Spawn(i) PROVE LogOK(j)'
  BY <1>5 DEF Spawn, TaskTo, TypeOK, TasksOK, LogOK, Published, StepFailed
<1>6. ASSUME NEW i \in Ingests, DispatchSpan(i) PROVE LogOK(j)'
  <2>1. (Insert(i, "dispatch") \/ CountDrop) /\ task' = task
    BY <1>6 DEF DispatchSpan
  <2>2. facts' = facts
    BY <2>1, RecordKeeps, SpansTyped
  <2> QED BY <2>1, <2>2 DEF LogOK, Published, StepFailed
<1>7. ASSUME NEW i \in Ingests, DispatchDrop(i) PROVE LogOK(j)'
  <2>1. AnnounceDrop(i, "dispatch") /\ task' = task
    BY <1>7 DEF DispatchDrop
  <2> QED BY <2>1, DropAnnounced, SpansTyped DEF LogOK
<1>8. ASSUME NEW i \in Ingests, IngestSpan(i) PROVE LogOK(j)'
  <2>1. (Insert(i, "ingest") \/ CountDrop) /\ task' = task
    BY <1>8 DEF IngestSpan
  <2>2. facts' = facts
    BY <2>1, RecordKeeps, SpansTyped
  <2> QED BY <2>1, <2>2 DEF LogOK, Published, StepFailed
<1>9. ASSUME NEW i \in Ingests, IngestDrop(i) PROVE LogOK(j)'
  <2>1. AnnounceDrop(i, "ingest") /\ task' = task
    BY <1>9 DEF IngestDrop
  <2> QED BY <2>1, DropAnnounced, SpansTyped DEF LogOK
<1>10. ASSUME NEW i \in Ingests, Cancel(i) PROVE LogOK(j)'
  BY <1>10 DEF Cancel, TaskTo, TypeOK, TasksOK, LogOK, Published, StepFailed
<1>11. ASSUME NEW i \in Ingests, NEW s \in Steps, StepOk(i, s) PROVE LogOK(j)'
  BY <1>11 DEF StepOk, TaskTo, TypeOK, TasksOK, LogOK, Published, StepFailed
<1>12. ASSUME NEW i \in Ingests, NEW s \in Steps, StepErr(i, s) PROVE LogOK(j)'
  BY <1>12, PublishLogs, FactsDiffer, FactsOfTheCode, SpansTyped
  DEF StepErr, TaskTo, TypeOK, LogOK, AnnounceDrop, PublishOnBehalf
<1>13. ASSUME NEW i \in Ingests, NEW s \in Steps, StepPanics(i, s) PROVE LogOK(j)'
  BY <1>13 DEF StepPanics, TaskTo, TypeOK, TasksOK, LogOK, Published, StepFailed
<1>14. ASSUME NEW i \in Ingests, NEW s \in Steps, StepSpan(i, s) PROVE LogOK(j)'
  <2>1. PICK stage \in {"ended", "drop"} : TaskTo(i, s, stage)
    BY <1>14 DEF StepSpan
  <2>2. /\ task[i][s] = "span" /\ (Insert(i, s) \/ CountDrop)
        /\ UNCHANGED <<registry, pc, known, snapshot, failed>>
    BY <1>14 DEF StepSpan
  <2>3. \A r \in Steps : task'[j][r] = IF j = i /\ r = s THEN stage ELSE task[j][r]
    BY <2>1 DEF TaskTo, TypeOK
  <2>4. facts' = facts
    BY <2>2, RecordKeeps, SpansTyped
  <2> QED BY <2>2, <2>3, <2>4 DEF LogOK, Published, StepFailed
<1>15. ASSUME NEW i \in Ingests, NEW s \in Steps, StepDrop(i, s) PROVE LogOK(j)'
  BY <1>15, PublishLogs, FactsDiffer, FactsOfTheCode, SpansTyped
  DEF StepDrop, TaskTo, TypeOK, LogOK, AnnounceDrop, PublishOnBehalf
<1>16. ASSUME NEW i \in Ingests, NEW s \in Steps, Abort(i, s) PROVE LogOK(j)'
  BY <1>16 DEF Abort, TaskTo, TypeOK, TasksOK, LogOK, Published, StepFailed
<1>17. ASSUME NEW i \in Ingests, NEW s \in Steps, JoinEnded(i, s) PROVE LogOK(j)'
  BY <1>17 DEF JoinEnded, TaskTo, TypeOK, TasksOK, LogOK, Published, StepFailed
<1>18. ASSUME NEW i \in Ingests, NEW s \in Steps, JoinPanicked(i, s) PROVE LogOK(j)'
  BY <1>18 DEF JoinPanicked, TaskTo, TypeOK, TasksOK, LogOK, Published, StepFailed
<1>19. ASSUME NEW i \in Ingests, NEW s \in Steps, AnnouncePanic(i, s) PROVE LogOK(j)'
  BY <1>19, PublishLogs, FactsDiffer, FactsOfTheCode, SpansTyped
  DEF AnnouncePanic, TaskTo, TypeOK, LogOK, AnnounceDrop, PublishOnBehalf
<1>20. CASE UNCHANGED vars
  BY <1>20 DEF vars, TaskTo, TypeOK, TasksOK, LogOK, Published, StepFailed
<1> QED
  BY <1>1, <1>2, <1>3, <1>4, <1>5, <1>6, <1>7, <1>8, <1>9, <1>10,
     <1>11, <1>12, <1>13, <1>14, <1>15, <1>16, <1>17, <1>18, <1>19, <1>20
     DEF Next, IngestNext, TaskNext, StepEnds

-----------------------------------------------------------------------------
\* The span w of ingest i is still to be recorded ...
Pending(i, w) ==
  \/ w \in Steps /\ task[i][w] \in {"none", "running", "span", "drop",
                                    "panicked", "taken", "announced"}
  \/ w = "dispatch" /\ pc[i] \in {"idle", "called", "received", "spawning", "joining",
                                  "announcing", "dispatch drop"}
  \/ w = "ingest" /\ pc[i] \notin {"returned", "dropped"}

\* ... or has been: not so the span of a task that was aborted, or of an ingest
\* whose caller dropped it.
Recorded(i, w) ==
  \/ w \in Steps /\ task[i][w] \in {"ended", "joined"}
  \/ w = "dispatch" /\ pc[i] \in {"dispatched", "ingest drop", "returned"}
  \/ w = "ingest" /\ pc[i] = "returned"

\* A span to be recorded has left nothing behind, a recorded one a row or a fact:
\* EverySpanAccounted of the spans of every place, not only of those that returned.
SpanOK(i) ==
  \A w \in Spans :
    /\ Pending(i, w) => ~HasRow(i, w) /\ ~Published(i, SpansWriteFailed(w))
    /\ Recorded(i, w) => (HasRow(i, w) <=> ~Published(i, SpansWriteFailed(w)))

\* An insert adds the row of its span and no fact.
LEMMA InsertRows ==
  ASSUME TypeOK, NEW i \in Ingests, NEW w \in Spans, Insert(i, w)
  PROVE  \A j \in Ingests, v \in Spans :
           /\ HasRow(j, v)' <=> HasRow(j, v) \/ (j = i /\ v = w)
           /\ Published(j, SpansWriteFailed(v))' <=> Published(j, SpansWriteFailed(v))
<1>1. rows[i] \in Seq(Spans) BY DEF TypeOK
<1>2. rows'[i] = Append(rows[i], w) /\ \A j \in Ingests \ {i} : rows'[j] = rows[j]
  BY DEF TypeOK, Insert
<1>3. ASSUME NEW v \in Spans PROVE HasRow(i, v)' <=> HasRow(i, v) \/ v = w
  <2>1. PICK q \in Seq(Spans) : q = rows[i]
    BY <1>1
  <2>2. (\E k \in DOMAIN Append(q, w) : Append(q, w)[k] = v)
           <=> (\E k \in DOMAIN q : q[k] = v) \/ w = v
    BY LogGrows
  <2> QED BY <2>1, <2>2, <1>2 DEF HasRow
<1>4. ASSUME NEW j \in Ingests \ {i}, NEW v \in Spans PROVE HasRow(j, v)' <=> HasRow(j, v)
  BY <1>2 DEF HasRow
<1>5. facts' = facts
  BY DEF Insert
<1> QED BY <1>3, <1>4, <1>5 DEF Published, SpansWriteFailed

\* A published fact announces a dropped span only if it is SpansWriteFailed of it.
LEMMA PublishDrops ==
  ASSUME TypeOK, NEW i \in Ingests, NEW fact \in Fact, Publish(i, fact), rows' = rows
  PROVE  \A j \in Ingests, v \in Spans :
           /\ HasRow(j, v)' <=> HasRow(j, v)
           /\ Published(j, SpansWriteFailed(v))'
                <=> Published(j, SpansWriteFailed(v)) \/ (j = i /\ fact = SpansWriteFailed(v))
<1>1. facts[i] \in Seq(Fact) BY DEF TypeOK
<1>2. facts'[i] = Append(facts[i], fact) /\ \A j \in Ingests \ {i} : facts'[j] = facts[j]
  BY DEF TypeOK, Publish
<1>3. ASSUME NEW v \in Spans
      PROVE  Published(i, SpansWriteFailed(v))'
               <=> Published(i, SpansWriteFailed(v)) \/ fact = SpansWriteFailed(v)
  <2>1. PICK q \in Seq(Fact) : q = facts[i]
    BY <1>1
  <2>2. PICK y : y = SpansWriteFailed(v)
    OBVIOUS
  <2>3. (\E k \in DOMAIN Append(q, fact) : Append(q, fact)[k] = y)
           <=> (\E k \in DOMAIN q : q[k] = y) \/ fact = y
    BY LogGrows
  <2>4. (\E k \in DOMAIN facts'[i] : facts'[i][k] = y)
           <=> (\E k \in DOMAIN facts[i] : facts[i][k] = y) \/ fact = y
    BY <2>1, <2>3, <1>2
  <2> QED BY <2>2, <2>4 DEF Published, SpansWriteFailed
<1>4. ASSUME NEW j \in Ingests \ {i}, NEW v \in Spans
      PROVE  Published(j, SpansWriteFailed(v))' <=> Published(j, SpansWriteFailed(v))
  BY <1>2 DEF Published, SpansWriteFailed
<1>5. \A j \in Ingests, v \in Spans : HasRow(j, v)' <=> HasRow(j, v)
  BY DEF HasRow
<1> QED BY <1>3, <1>4, <1>5

\* What is published of a failed insert, and what is not.
LEMMA DropsDiffer ==
  /\ \A v, w : SpansWriteFailed(v) = SpansWriteFailed(w) => v = w
  /\ \A w : EventReceived # SpansWriteFailed(w)
  /\ \A s, w : StepReported(s) # SpansWriteFailed(w) /\ StepFailed(s) # SpansWriteFailed(w)
BY DEF StepFailed, EventReceived, StepReported, SpansWriteFailed

\* Nothing is left behind of any span: what was pending or recorded stays so.
NothingLeft ==
  \A j \in Ingests, v \in Spans :
    /\ HasRow(j, v)' <=> HasRow(j, v)
    /\ Published(j, SpansWriteFailed(v))' <=> Published(j, SpansWriteFailed(v))

\* The places of all spans but (i, w) are as they were, or they are aborted.
PlacesKept(i, w) ==
  \A j \in Ingests, v \in Spans : (j # i \/ v # w) =>
    (Pending(j, v)' => Pending(j, v)) /\ (Recorded(j, v)' => Recorded(j, v))

\* A step that leaves nothing behind and records nothing.
LEMMA QuietStep ==
  ASSUME NEW j \in Ingests, SpanOK(j), NothingLeft,
         \A v \in Spans :
           (Pending(j, v)' => Pending(j, v)) /\ (Recorded(j, v)' => Recorded(j, v))
  PROVE  SpanOK(j)'
BY DEF SpanOK, NothingLeft

\* A pending span is recorded by a row.
LEMMA RowRecords ==
  ASSUME TypeOK, NEW j \in Ingests, SpanOK(j), NEW i \in Ingests, NEW w \in Spans,
         Insert(i, w), Pending(i, w), ~Pending(i, w)', PlacesKept(i, w)
  PROVE  SpanOK(j)'
BY InsertRows DEF SpanOK, PlacesKept

\* A pending span is recorded by the announcement of its drop.
LEMMA DropRecords ==
  ASSUME TypeOK, NEW j \in Ingests, SpanOK(j), NEW i \in Ingests, NEW w \in Spans,
         AnnounceDrop(i, w), Pending(i, w), ~Pending(i, w)', PlacesKept(i, w)
  PROVE  SpanOK(j)'
<1>1. \A k \in Ingests, v \in Spans :
        /\ HasRow(k, v)' <=> HasRow(k, v)
        /\ Published(k, SpansWriteFailed(v))'
             <=> Published(k, SpansWriteFailed(v)) \/ (k = i /\ v = w)
  <2>1. Publish(i, SpansWriteFailed(w)) /\ rows' = rows /\ SpansWriteFailed(w) \in Fact
    BY FactsOfTheCode DEF AnnounceDrop
  <2>2. \A k \in Ingests, v \in Spans :
          /\ HasRow(k, v)' <=> HasRow(k, v)
          /\ Published(k, SpansWriteFailed(v))'
               <=> Published(k, SpansWriteFailed(v))
                     \/ (k = i /\ SpansWriteFailed(w) = SpansWriteFailed(v))
    BY <2>1, PublishDrops
  <2> QED BY <2>2, DropsDiffer
<1> QED BY <1>1 DEF SpanOK, PlacesKept

\* The record of the dispatch, of the ingest or of a step ends one pending span and
\* moves no other.
LEMMA DispatchRecorded ==
  ASSUME TypeOK, NEW i \in Ingests, pc[i] \in {"joining", "dispatch drop"},
         Goto(i, "dispatched"), task' = task
  PROVE  "dispatch" \in Spans /\ Pending(i, "dispatch") /\ ~Pending(i, "dispatch")'
         /\ PlacesKept(i, "dispatch")
<1>1. pc'[i] = "dispatched" /\ \A j \in Ingests \ {i} : pc'[j] = pc[j]
  BY DEF Goto, TypeOK
<1>2. Pending(i, "dispatch") /\ ~Pending(i, "dispatch")'
  BY <1>1, StepAssumption DEF Pending
<1>3. ASSUME NEW j \in Ingests \ {i}, NEW v \in Spans
      PROVE  (Pending(j, v)' => Pending(j, v)) /\ (Recorded(j, v)' => Recorded(j, v))
  BY <1>1 DEF Pending, Recorded
<1>4. ASSUME NEW v \in Spans, v # "dispatch"
      PROVE  (Pending(i, v)' => Pending(i, v)) /\ (Recorded(i, v)' => Recorded(i, v))
  BY <1>1, <1>4 DEF Pending, Recorded
<1> QED BY <1>2, <1>3, <1>4, SpansTyped DEF PlacesKept

LEMMA IngestRecorded ==
  ASSUME TypeOK, NEW i \in Ingests, pc[i] \in {"dispatched", "ingest drop"},
         Goto(i, "returned"), task' = task
  PROVE  "ingest" \in Spans /\ Pending(i, "ingest") /\ ~Pending(i, "ingest")'
         /\ PlacesKept(i, "ingest")
<1>1. pc'[i] = "returned" /\ \A j \in Ingests \ {i} : pc'[j] = pc[j]
  BY DEF Goto, TypeOK
<1>2. Pending(i, "ingest") /\ ~Pending(i, "ingest")'
  BY <1>1, StepAssumption DEF Pending
<1>3. ASSUME NEW j \in Ingests \ {i}, NEW v \in Spans
      PROVE  (Pending(j, v)' => Pending(j, v)) /\ (Recorded(j, v)' => Recorded(j, v))
  BY <1>1 DEF Pending, Recorded
<1>4. ASSUME NEW v \in Spans, v # "ingest"
      PROVE  (Pending(i, v)' => Pending(i, v)) /\ (Recorded(i, v)' => Recorded(i, v))
  BY <1>1, <1>4 DEF Pending, Recorded
<1> QED BY <1>2, <1>3, <1>4, SpansTyped DEF PlacesKept

LEMMA StepRecorded ==
  ASSUME TypeOK, NEW i \in Ingests, NEW s \in Steps, task[i][s] \in {"span", "drop"},
         TaskTo(i, s, "ended"), pc' = pc
  PROVE  s \in Spans /\ Pending(i, s) /\ ~Pending(i, s)' /\ PlacesKept(i, s)
<1>1. /\ task'[i][s] = "ended" /\ \A j \in Ingests \ {i} : task'[j] = task[j]
      /\ \A r \in Steps \ {s} : task'[i][r] = task[i][r]
  BY DEF TaskTo, TypeOK
<1>2. Pending(i, s) /\ ~Pending(i, s)'
  BY <1>1, StepAssumption DEF Pending
<1>3. ASSUME NEW j \in Ingests \ {i}, NEW v \in Spans
      PROVE  (Pending(j, v)' => Pending(j, v)) /\ (Recorded(j, v)' => Recorded(j, v))
  BY <1>1 DEF Pending, Recorded
<1>4. ASSUME NEW v \in Spans, v # s
      PROVE  (Pending(i, v)' => Pending(i, v)) /\ (Recorded(i, v)' => Recorded(i, v))
  BY <1>1, <1>4 DEF Pending, Recorded
<1> QED BY <1>2, <1>3, <1>4, SpansTyped DEF PlacesKept

\* What leaves rows and facts alone, or publishes something else, leaves nothing
\* behind of a span.
LEMMA SilentStep == rows' = rows /\ facts' = facts => NothingLeft
BY DEF NothingLeft, HasRow, Published, SpansWriteFailed

LEMMA OtherFact ==
  ASSUME TypeOK, NEW i \in Ingests, rows' = rows,
         \/ Publish(i, EventReceived)
         \/ \E s \in Steps : Publish(i, StepReported(s)) \/ Publish(i, StepFailed(s))
  PROVE  NothingLeft
<1>1. PICK fact \in Fact : Publish(i, fact) /\ \A v : fact # SpansWriteFailed(v)
  BY FactsOfTheCode, DropsDiffer
<1> QED BY <1>1, PublishDrops DEF NothingLeft

\* Every step keeps the account of the spans: each span is recorded once, by the
\* one who ran what it is about.
LEMMA SpanStep ==
  ASSUME TypeOK, NEW j \in Ingests, TasksOK(j), SpanOK(j), [Next]_vars
  PROVE  SpanOK(j)'
<1>1. CASE \E s \in Steps : Register(s)
  <2>1. NothingLeft
    BY <1>1, SilentStep DEF Register
  <2>2. \A v \in Spans :
          (Pending(j, v)' => Pending(j, v)) /\ (Recorded(j, v)' => Recorded(j, v))
    BY <1>1 DEF Register, Pending, Recorded, Goto, TaskTo, TypeOK
  <2> QED BY <2>1, <2>2, QuietStep
<1>2. ASSUME NEW i \in Ingests, Call(i) PROVE SpanOK(j)'
  <2>1. NothingLeft
    BY <1>2, SilentStep DEF Call
  <2>2. \A v \in Spans :
          (Pending(j, v)' => Pending(j, v)) /\ (Recorded(j, v)' => Recorded(j, v))
    BY <1>2 DEF Call, Pending, Recorded, Goto, TaskTo, TypeOK
  <2> QED BY <2>1, <2>2, QuietStep
<1>3. ASSUME NEW i \in Ingests, Receive(i) PROVE SpanOK(j)'
  <2>1. NothingLeft
    BY <1>3, OtherFact DEF Receive, TypeOK
  <2>2. \A v \in Spans :
          (Pending(j, v)' => Pending(j, v)) /\ (Recorded(j, v)' => Recorded(j, v))
    BY <1>3 DEF Receive, Pending, Recorded, Goto, TaskTo, TypeOK
  <2> QED BY <2>1, <2>2, QuietStep
<1>4. ASSUME NEW i \in Ingests, TakeSnapshot(i) PROVE SpanOK(j)'
  <2>1. NothingLeft
    BY <1>4, SilentStep DEF TakeSnapshot
  <2>2. \A v \in Spans :
          (Pending(j, v)' => Pending(j, v)) /\ (Recorded(j, v)' => Recorded(j, v))
    BY <1>4 DEF TakeSnapshot, Pending, Recorded, Goto, TaskTo, TypeOK
  <2> QED BY <2>1, <2>2, QuietStep
<1>5. ASSUME NEW i \in Ingests, Spawn(i) PROVE SpanOK(j)'
  <2>1. NothingLeft
    BY <1>5, SilentStep DEF Spawn
  <2>2. \A v \in Spans :
          (Pending(j, v)' => Pending(j, v)) /\ (Recorded(j, v)' => Recorded(j, v))
    BY <1>5, StepAssumption DEF Spawn, TasksOK, Pending, Recorded, Goto, TypeOK
  <2> QED BY <2>1, <2>2, QuietStep
<1>6. ASSUME NEW i \in Ingests, DispatchSpan(i) PROVE SpanOK(j)'
  <2>1. CASE Insert(i, "dispatch") /\ Goto(i, "dispatched")
    <3>1. "dispatch" \in Spans /\ Pending(i, "dispatch") /\ ~Pending(i, "dispatch")' /\ PlacesKept(i, "dispatch")
      BY <1>6, <2>1, DispatchRecorded DEF DispatchSpan
    <3> QED BY <2>1, <3>1, RowRecords
  <2>2. CASE CountDrop /\ Goto(i, "dispatch drop")
    <3>1. NothingLeft
      BY <2>2, SilentStep DEF CountDrop
    <3>2. \A v \in Spans :
            (Pending(j, v)' => Pending(j, v)) /\ (Recorded(j, v)' => Recorded(j, v))
      BY <1>6, <2>2, StepAssumption DEF DispatchSpan, Pending, Recorded, Goto, TaskTo, TypeOK
    <3> QED BY <3>1, <3>2, QuietStep
  <2> QED BY <1>6, <2>1, <2>2 DEF DispatchSpan
<1>7. ASSUME NEW i \in Ingests, DispatchDrop(i) PROVE SpanOK(j)'
  <2>1. "dispatch" \in Spans /\ Pending(i, "dispatch") /\ ~Pending(i, "dispatch")' /\ PlacesKept(i, "dispatch")
    BY <1>7, DispatchRecorded DEF DispatchDrop
  <2> QED BY <1>7, <2>1, DropRecords DEF DispatchDrop
<1>8. ASSUME NEW i \in Ingests, IngestSpan(i) PROVE SpanOK(j)'
  <2>1. CASE Insert(i, "ingest") /\ Goto(i, "returned")
    <3>1. "ingest" \in Spans /\ Pending(i, "ingest") /\ ~Pending(i, "ingest")' /\ PlacesKept(i, "ingest")
      BY <1>8, <2>1, IngestRecorded DEF IngestSpan
    <3> QED BY <2>1, <3>1, RowRecords
  <2>2. CASE CountDrop /\ Goto(i, "ingest drop")
    <3>1. NothingLeft
      BY <2>2, SilentStep DEF CountDrop
    <3>2. \A v \in Spans :
            (Pending(j, v)' => Pending(j, v)) /\ (Recorded(j, v)' => Recorded(j, v))
      BY <1>8, <2>2, StepAssumption DEF IngestSpan, Pending, Recorded, Goto, TaskTo, TypeOK
    <3> QED BY <3>1, <3>2, QuietStep
  <2> QED BY <1>8, <2>1, <2>2 DEF IngestSpan
<1>9. ASSUME NEW i \in Ingests, IngestDrop(i) PROVE SpanOK(j)'
  <2>1. "ingest" \in Spans /\ Pending(i, "ingest") /\ ~Pending(i, "ingest")' /\ PlacesKept(i, "ingest")
    BY <1>9, IngestRecorded DEF IngestDrop
  <2> QED BY <1>9, <2>1, DropRecords DEF IngestDrop
<1>10. ASSUME NEW i \in Ingests, Cancel(i) PROVE SpanOK(j)'
  <2>1. NothingLeft
    BY <1>10, SilentStep DEF Cancel
  <2>2. \A v \in Spans :
          (Pending(j, v)' => Pending(j, v)) /\ (Recorded(j, v)' => Recorded(j, v))
    BY <1>10 DEF Cancel, Pending, Recorded, Goto, TaskTo, TypeOK
  <2> QED BY <2>1, <2>2, QuietStep
<1>11. ASSUME NEW i \in Ingests, NEW s \in Steps, StepOk(i, s) PROVE SpanOK(j)'
  <2>1. NothingLeft
    BY <1>11, SilentStep DEF StepOk
  <2>2. \A v \in Spans :
          (Pending(j, v)' => Pending(j, v)) /\ (Recorded(j, v)' => Recorded(j, v))
    BY <1>11 DEF StepOk, Pending, Recorded, Goto, TaskTo, TypeOK
  <2> QED BY <2>1, <2>2, QuietStep
<1>12. ASSUME NEW i \in Ingests, NEW s \in Steps, StepErr(i, s) PROVE SpanOK(j)'
  <2>1. NothingLeft
    BY <1>12, OtherFact DEF StepErr, TypeOK
  <2>2. \A v \in Spans :
          (Pending(j, v)' => Pending(j, v)) /\ (Recorded(j, v)' => Recorded(j, v))
    BY <1>12 DEF StepErr, Pending, Recorded, Goto, TaskTo, TypeOK
  <2> QED BY <2>1, <2>2, QuietStep
<1>13. ASSUME NEW i \in Ingests, NEW s \in Steps, StepPanics(i, s) PROVE SpanOK(j)'
  <2>1. NothingLeft
    BY <1>13, SilentStep DEF StepPanics
  <2>2. \A v \in Spans :
          (Pending(j, v)' => Pending(j, v)) /\ (Recorded(j, v)' => Recorded(j, v))
    BY <1>13 DEF StepPanics, Pending, Recorded, Goto, TaskTo, TypeOK
  <2> QED BY <2>1, <2>2, QuietStep
<1>14. ASSUME NEW i \in Ingests, NEW s \in Steps, StepSpan(i, s) PROVE SpanOK(j)'
  <2>1. CASE Insert(i, s) /\ TaskTo(i, s, "ended")
    <3>1. s \in Spans /\ Pending(i, s) /\ ~Pending(i, s)' /\ PlacesKept(i, s)
      BY <1>14, <2>1, StepRecorded DEF StepSpan
    <3> QED BY <2>1, <3>1, RowRecords
  <2>2. CASE CountDrop /\ TaskTo(i, s, "drop")
    <3>1. NothingLeft
      BY <2>2, SilentStep DEF CountDrop
    <3>2. \A v \in Spans :
            (Pending(j, v)' => Pending(j, v)) /\ (Recorded(j, v)' => Recorded(j, v))
      BY <1>14, <2>2, StepAssumption DEF StepSpan, Pending, Recorded, Goto, TaskTo, TypeOK
    <3> QED BY <3>1, <3>2, QuietStep
  <2> QED BY <1>14, <2>1, <2>2 DEF StepSpan
<1>15. ASSUME NEW i \in Ingests, NEW s \in Steps, StepDrop(i, s) PROVE SpanOK(j)'
  <2>1. s \in Spans /\ Pending(i, s) /\ ~Pending(i, s)' /\ PlacesKept(i, s)
    BY <1>15, StepRecorded DEF StepDrop
  <2> QED BY <1>15, <2>1, DropRecords DEF StepDrop
<1>16. ASSUME NEW i \in Ingests, NEW s \in Steps, Abort(i, s) PROVE SpanOK(j)'
  <2>1. NothingLeft
    BY <1>16, SilentStep DEF Abort
  <2>2. \A v \in Spans :
          (Pending(j, v)' => Pending(j, v)) /\ (Recorded(j, v)' => Recorded(j, v))
    BY <1>16 DEF Abort, Pending, Recorded, Goto, TaskTo, TypeOK
  <2> QED BY <2>1, <2>2, QuietStep
<1>17. ASSUME NEW i \in Ingests, NEW s \in Steps, JoinEnded(i, s) PROVE SpanOK(j)'
  <2>1. NothingLeft
    BY <1>17, SilentStep DEF JoinEnded
  <2>2. \A v \in Spans :
          (Pending(j, v)' => Pending(j, v)) /\ (Recorded(j, v)' => Recorded(j, v))
    BY <1>17 DEF JoinEnded, Pending, Recorded, Goto, TaskTo, TypeOK
  <2> QED BY <2>1, <2>2, QuietStep
<1>18. ASSUME NEW i \in Ingests, NEW s \in Steps, JoinPanicked(i, s) PROVE SpanOK(j)'
  <2>1. NothingLeft
    BY <1>18, SilentStep DEF JoinPanicked
  <2>2. \A v \in Spans :
          (Pending(j, v)' => Pending(j, v)) /\ (Recorded(j, v)' => Recorded(j, v))
    BY <1>18 DEF JoinPanicked, Pending, Recorded, Goto, TaskTo, TypeOK
  <2> QED BY <2>1, <2>2, QuietStep
<1>19. ASSUME NEW i \in Ingests, NEW s \in Steps, AnnouncePanic(i, s) PROVE SpanOK(j)'
  <2>1. NothingLeft
    BY <1>19, OtherFact DEF AnnouncePanic, PublishOnBehalf, TypeOK
  <2>2. \A v \in Spans :
          (Pending(j, v)' => Pending(j, v)) /\ (Recorded(j, v)' => Recorded(j, v))
    BY <1>19 DEF AnnouncePanic, Pending, Recorded, Goto, TaskTo, TypeOK
  <2> QED BY <2>1, <2>2, QuietStep
<1>20. CASE UNCHANGED vars
  <2>1. NothingLeft
    BY <1>20, SilentStep DEF vars
  <2>2. \A v \in Spans :
          (Pending(j, v)' => Pending(j, v)) /\ (Recorded(j, v)' => Recorded(j, v))
    BY <1>20 DEF vars, Pending, Recorded, Goto, TaskTo, TypeOK
  <2> QED BY <2>1, <2>2, QuietStep
<1> QED
  BY <1>1, <1>2, <1>3, <1>4, <1>5, <1>6, <1>7, <1>8, <1>9, <1>10,
     <1>11, <1>12, <1>13, <1>14, <1>15, <1>16, <1>17, <1>18, <1>19, <1>20
     DEF Next, IngestNext, TaskNext, StepEnds

(* The invariant holds in the initial states.                              *)
LEMMA InitHolds == Init => IInv
BY DropAssumption
DEF Init, IInv, TypeOK, IngestStages, TaskStages, TasksOK, KnownOK, LogOK,
    BeforeSnapshot, Fanned, AfterDispatch, Published

(* Every step keeps the invariant.                                         *)
LEMMA InvariantKept == IInv /\ [Next]_vars => IInv'
BY TypeStep, TasksStep, KnownStep, LogStep DEF IInv

\* The inductive invariant behind the theorems below holds of every ingest that
\* scheduler.rs and runtime.rs can run.
THEOREM DispatchInvariant == Spec => []IInv
BY InitHolds, InvariantKept, PTL DEF Spec

\* The types of Dispatch's state hold for every number of ingests and steps.
THEOREM TypeCorrect == Spec => []TypeOK
<1>1. IInv => TypeOK
  BY DEF IInv
<1> QED BY <1>1, DispatchInvariant, PTL

\* For any number of ingests, steps, panics, failed inserts and dropped callers:
\* an ingest that comes back from dispatch has joined every step that was
\* registered before it, and exactly those that panicked are announced.
THEOREM JoinedCorrect == Spec => []EveryStepJoined
<1>1. IInv => EveryStepJoined
  <2> SUFFICES ASSUME IInv, NEW i \in Ingests, AfterDispatch(i)
               PROVE  /\ known[i] \subseteq snapshot[i]
                      /\ \A s \in snapshot[i] : TypeOf[s] = TypeOf[i]
                      /\ \A s \in snapshot[i] :
                           /\ task[i][s] \in {"joined", "announced"}
                           /\ Published(i, StepFailed(s)) <=> task[i][s] = "announced"
    BY DEF EveryStepJoined
  <2>1. known[i] \subseteq snapshot[i] /\ \A s \in snapshot[i] : TypeOf[s] = TypeOf[i]
    BY DEF IInv, KnownOK, Fanned
  <2>2. Drained(i) /\ snapshot[i] \subseteq Steps
    BY DEF IInv, TasksOK, TypeOK
  <2>3. \A s \in snapshot[i] : Published(i, StepFailed(s)) <=> task[i][s] = "announced"
    BY <2>2 DEF IInv, LogOK
  <2> QED BY <2>1, <2>2, <2>3 DEF Drained
<1> QED BY <1>1, DispatchInvariant, PTL

Over(i) == pc[i] = "returned" => UNCHANGED <<task[i], facts[i], rows[i], failed[i]>>

\* No task of an ingest that has returned can take a step.
LEMMA NoTaskLeft ==
  ASSUME IInv, NEW i \in Ingests, pc[i] = "returned", NEW s \in Steps
  PROVE  task[i][s] \in {"none", "joined", "announced"}
BY DEF IInv, TasksOK, AfterDispatch, Drained

\* A step leaves alone what belongs to an ingest that has returned.
LEMMA OverStep ==
  ASSUME IInv, NEW j \in Ingests, [Next]_vars
  PROVE  Over(j)
<1>1. CASE \E s \in Steps : Register(s)
  BY <1>1, NoTaskLeft DEF Register, Over, Goto, TaskTo, TypeOK, IInv
<1>2. ASSUME NEW i \in Ingests, Call(i) PROVE Over(j)
  BY <1>2, NoTaskLeft DEF Call, Over, Goto, TaskTo, TypeOK, IInv
<1>3. ASSUME NEW i \in Ingests, Receive(i) PROVE Over(j)
  BY <1>3, NoTaskLeft DEF Receive, Over, Goto, TaskTo, TypeOK, IInv, Publish, AnnounceDrop, PublishOnBehalf
<1>4. ASSUME NEW i \in Ingests, TakeSnapshot(i) PROVE Over(j)
  BY <1>4, NoTaskLeft DEF TakeSnapshot, Over, Goto, TaskTo, TypeOK, IInv
<1>5. ASSUME NEW i \in Ingests, Spawn(i) PROVE Over(j)
  BY <1>5, NoTaskLeft DEF Spawn, Over, Goto, TaskTo, TypeOK, IInv
<1>6. ASSUME NEW i \in Ingests, DispatchSpan(i) PROVE Over(j)
  BY <1>6, NoTaskLeft DEF DispatchSpan, Over, Goto, TaskTo, TypeOK, IInv, Insert, CountDrop
<1>7. ASSUME NEW i \in Ingests, DispatchDrop(i) PROVE Over(j)
  BY <1>7, NoTaskLeft DEF DispatchDrop, Over, Goto, TaskTo, TypeOK, IInv, Publish, AnnounceDrop, PublishOnBehalf
<1>8. ASSUME NEW i \in Ingests, IngestSpan(i) PROVE Over(j)
  BY <1>8, NoTaskLeft DEF IngestSpan, Over, Goto, TaskTo, TypeOK, IInv, Insert, CountDrop
<1>9. ASSUME NEW i \in Ingests, IngestDrop(i) PROVE Over(j)
  BY <1>9, NoTaskLeft DEF IngestDrop, Over, Goto, TaskTo, TypeOK, IInv, Publish, AnnounceDrop, PublishOnBehalf
<1>10. ASSUME NEW i \in Ingests, Cancel(i) PROVE Over(j)
  BY <1>10, NoTaskLeft DEF Cancel, Over, Goto, TaskTo, TypeOK, IInv
<1>11. ASSUME NEW i \in Ingests, NEW s \in Steps, StepOk(i, s) PROVE Over(j)
  BY <1>11, NoTaskLeft DEF StepOk, Over, Goto, TaskTo, TypeOK, IInv
<1>12. ASSUME NEW i \in Ingests, NEW s \in Steps, StepErr(i, s) PROVE Over(j)
  BY <1>12, NoTaskLeft DEF StepErr, Over, Goto, TaskTo, TypeOK, IInv, Publish, AnnounceDrop, PublishOnBehalf
<1>13. ASSUME NEW i \in Ingests, NEW s \in Steps, StepPanics(i, s) PROVE Over(j)
  BY <1>13, NoTaskLeft DEF StepPanics, Over, Goto, TaskTo, TypeOK, IInv
<1>14. ASSUME NEW i \in Ingests, NEW s \in Steps, StepSpan(i, s) PROVE Over(j)
  BY <1>14, NoTaskLeft DEF StepSpan, Over, Goto, TaskTo, TypeOK, IInv, Insert, CountDrop
<1>15. ASSUME NEW i \in Ingests, NEW s \in Steps, StepDrop(i, s) PROVE Over(j)
  BY <1>15, NoTaskLeft DEF StepDrop, Over, Goto, TaskTo, TypeOK, IInv, Publish, AnnounceDrop, PublishOnBehalf
<1>16. ASSUME NEW i \in Ingests, NEW s \in Steps, Abort(i, s) PROVE Over(j)
  BY <1>16, NoTaskLeft DEF Abort, Over, Goto, TaskTo, TypeOK, IInv
<1>17. ASSUME NEW i \in Ingests, NEW s \in Steps, JoinEnded(i, s) PROVE Over(j)
  BY <1>17, NoTaskLeft DEF JoinEnded, Over, Goto, TaskTo, TypeOK, IInv
<1>18. ASSUME NEW i \in Ingests, NEW s \in Steps, JoinPanicked(i, s) PROVE Over(j)
  BY <1>18, NoTaskLeft DEF JoinPanicked, Over, Goto, TaskTo, TypeOK, IInv
<1>19. ASSUME NEW i \in Ingests, NEW s \in Steps, AnnouncePanic(i, s) PROVE Over(j)
  BY <1>19, NoTaskLeft DEF AnnouncePanic, Over, Goto, TaskTo, TypeOK, IInv, Publish, AnnounceDrop, PublishOnBehalf
<1>20. CASE UNCHANGED vars
  BY <1>20, NoTaskLeft DEF vars, Over, Goto, TaskTo, TypeOK, IInv
<1> QED
  BY <1>1, <1>2, <1>3, <1>4, <1>5, <1>6, <1>7, <1>8, <1>9, <1>10,
     <1>11, <1>12, <1>13, <1>14, <1>15, <1>16, <1>17, <1>18, <1>19, <1>20
     DEF Next, IngestNext, TaskNext, StepEnds

\* Nothing of an ingest goes on once it has returned to its caller: no step runs,
\* no row and no fact is added under its correlation.
THEOREM OverCorrect == Spec => ReturnedIsOver
<1>1. IInv /\ [Next]_vars => [\A i \in Ingests : Over(i)]_vars
  BY OverStep
<1>2. Spec => [][\A i \in Ingests : Over(i)]_vars
  BY <1>1, DispatchInvariant, PTL DEF Spec
<1> QED BY <1>2 DEF ReturnedIsOver, Over

AllAccounted == \A i \in Ingests : SpanOK(i)

\* For any number of ingests and steps: when ingest has returned, each of its
\* spans is a row or an announced drop, and never both; only a step that panicked
\* has neither (observability.rs record_span, record.rs).
THEOREM SpansCorrect == Spec => []EverySpanAccounted
<1>1. Init => AllAccounted
  BY StepAssumption DEF Init, AllAccounted, SpanOK, Pending, Recorded, HasRow, Published
<1>2. IInv /\ AllAccounted /\ [Next]_vars => AllAccounted'
  BY SpanStep DEF IInv, AllAccounted
<1>3. IInv /\ AllAccounted => EverySpanAccounted
  <2> SUFFICES ASSUME IInv, AllAccounted, NEW i \in Ingests, pc[i] = "returned",
                      NEW w \in snapshot[i] \cup {"ingest", "dispatch"}
               PROVE  IF w \in Steps /\ task[i][w] = "announced"
                      THEN ~HasRow(i, w) /\ ~Published(i, SpansWriteFailed(w))
                      ELSE HasRow(i, w) <=> ~Published(i, SpansWriteFailed(w))
    BY DEF EverySpanAccounted
  <2>1. snapshot[i] \subseteq Steps /\ \A s \in snapshot[i] : task[i][s] \in {"joined", "announced"}
    BY DEF IInv, TypeOK, TasksOK, AfterDispatch, Drained
  <2>2. w \in Spans
    BY <2>1 DEF Spans
  <2>3. IF w \in Steps /\ task[i][w] = "announced" THEN Pending(i, w) ELSE Recorded(i, w)
    BY <2>1, StepAssumption DEF Pending, Recorded
  <2> QED BY <2>2, <2>3 DEF AllAccounted, SpanOK
<1> QED BY <1>1, <1>2, <1>3, DispatchInvariant, PTL DEF Spec
=============================================================================
