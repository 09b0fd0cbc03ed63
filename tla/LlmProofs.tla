------------------------------ MODULE LlmProofs ------------------------------
(***************************************************************************)
(* Proofs about the LLM adapters: KeyHolder, for every set of requests and *)
(* any number of failures of the engine, TokenStream, for every capacity   *)
(* of the channel and any number of events of the vendor, and LlmExchange, *)
(* for every answer and any number of calls.                               *)
(***************************************************************************)
EXTENDS KeyHolder, TokenStream, LlmExchange, SequenceTheorems, FiniteSetTheorems,
        FunctionTheorems, WellFoundedInduction, TLAPS

-----------------------------------------------------------------------------
(* The key holder.                                                         *)
Ticket == {"Requested", "Completed", "Failed"}

(* The two facts about one request.                                        *)
Waits(d) ==
  /\ pc[d] = "idle" => attempt[d] = 1
  /\ attempt[d] = 2 /\ pc[d] \in {"key", "cold", "unseal"}
       => cached = 0 \/ cached > seen[d]
Fresh(d) ==
  attempt[d] = 2 /\ pc[d] \in {"call", "answered", "ok"} => key[d] > seen[d]

(* The audit trail of one request, by where it is: it has sent a key only  *)
(* after its first unsealing.                                              *)
Trail(d) ==
  /\ pc[d] = "idle" => tickets[d] = <<>>
  /\ pc[d] \notin Over \cup {"idle"} => tickets[d] = <<"Requested">>
  /\ pc[d] = "rejected" => attempt[d] = 2
  /\ attempt[d] = 1 /\ pc[d] \in {"idle", "key", "cold", "unseal"} => key[d] = 0
  /\ key[d] # 0 /\ pc[d] = "ok"  => tickets[d] = <<"Requested", "Completed">>
  /\ key[d] # 0 /\ pc[d] = "err" => tickets[d] = <<"Requested", "Failed">>

(* An audit event keeps the type of the audit trail.                       *)
LEMMA PublishType ==
  ASSUME tickets \in [Calls -> Seq(Ticket)], NEW c \in Calls, NEW t \in Ticket,
         Publish(c, t)
  PROVE  tickets' \in [Calls -> Seq(Ticket)]
<1>1. Append(tickets[c], t) \in Seq(Ticket)
  BY AppendProperties
<1>2. QED
  BY <1>1 DEF Publish

(* The invariant holds in the initial states.                              *)
LEMMA InitType == ASSUME Init PROVE KeyInv
<1>1. <<>> \in Seq(Ticket)
  OBVIOUS
<1>2. TypeOK
  BY <1>1, KeyAssumption DEF Init, TypeOK, Stages, Over, Ticket
<1>3. QED
  BY <1>2, KeyAssumption
  DEF Init, KeyInv, TypeOK, GuardHeld, UnsealedOnce, RetryWaits, RetryIsFresh

(* A request moves from stage to stage.                                    *)
LEMMA GotoType ==
  ASSUME pc \in [Calls -> Stages], NEW c \in Calls, NEW n \in Stages, Goto(c, n)
  PROVE  pc' \in [Calls -> Stages]
BY DEF Goto

(* The stages, by name.                                                    *)
LEMMA StageNames ==
  /\ "key" \in Stages /\ "cold" \in Stages /\ "unseal" \in Stages
  /\ "call" \in Stages /\ "rejected" \in Stages /\ "answered" \in Stages
  /\ "failing" \in Stages /\ "ok" \in Stages /\ "err" \in Stages
  /\ "handed" \in Stages /\ "gone" \in Stages
BY DEF Stages, Over

(* A key of the holder keeps the types.                                    *)
LEMMA WithKeyType ==
  ASSUME TypeOK, NEW c \in Calls, NEW k \in 0..(fills'), fills' \in Nat,
         fills' >= fills, WithKey(c, k)
  PROVE  pc' \in [Calls -> Stages] /\ key' \in [Calls -> 0..(fills')]
<1>1. pc' \in [Calls -> Stages]
  BY GotoType, StageNames DEF WithKey, TypeOK
<1>2. key \in [Calls -> 0..(fills')]
  BY DEF TypeOK
<1>3. QED
  BY <1>1, <1>2 DEF WithKey

(* Every step keeps the types.                                             *)
LEMMA NextType ==
  ASSUME TypeOK, Next
  PROVE  TypeOK'
<1> USE KeyAssumption, StageNames DEF TypeOK, holder
<1>1. ASSUME NEW c \in Calls, Request(c)
      PROVE  TypeOK'
  <2>1. tickets' \in [Calls -> Seq(Ticket)]
    BY <1>1, PublishType DEF Request, Ticket
  <2>2. pc' \in [Calls -> Stages]
    BY <1>1, GotoType DEF Request
  <2>3. QED
    BY <1>1, <2>1, <2>2 DEF Request, Ticket
<1>2. ASSUME NEW c \in Calls, FastPath(c)
      PROVE  TypeOK'
  <2>1. pc' \in [Calls -> Stages]
    BY <1>2, WithKeyType, GotoType DEF FastPath
  <2>2. key' \in [Calls -> 0..(fills')]
    BY <1>2, WithKeyType DEF FastPath
  <2>3. QED
    BY <1>2, <2>1, <2>2 DEF FastPath
<1>3. ASSUME NEW c \in Calls, SlowPath(c)
      PROVE  TypeOK'
  <2>1. pc' \in [Calls -> Stages] /\ key' \in [Calls -> 0..(fills')]
    BY <1>3, WithKeyType, GotoType DEF SlowPath
  <2>2. QED
    BY <1>3, <2>1 DEF SlowPath
<1>4. ASSUME NEW c \in Calls, Unseal(c)
      PROVE  TypeOK'
  <2>1. pc' \in [Calls -> Stages] /\ key' \in [Calls -> 0..(fills')]
    BY <1>4, WithKeyType DEF Unseal
  <2>2. seen \in [Calls -> 0..(fills')]
    BY <1>4 DEF Unseal
  <2>3. QED
    BY <1>4, <2>1, <2>2 DEF Unseal
<1>5. ASSUME NEW c \in Calls, UnsealFails(c)
      PROVE  TypeOK'
  <2>1. pc' \in [Calls -> Stages]
    BY <1>5, GotoType DEF UnsealFails
  <2>2. errors' \in 0..MaxUnsealErrors
    BY <1>5 DEF UnsealFails
  <2>3. QED
    BY <1>5, <2>1, <2>2 DEF UnsealFails, DropGuard
<1>6. ASSUME NEW c \in Calls, Answer(c) \/ Reject(c) \/ VendorFails(c)
      PROVE  TypeOK'
  <2>1. pc' \in [Calls -> Stages]
    BY <1>6, GotoType DEF Answer, Reject, VendorFails
  <2>2. attempt' \in [Calls -> 1..2] /\ seen' \in [Calls -> 0..fills]
    <3>1. CASE Reject(c)
      <4>1. fills \in 0..fills /\ 2 \in 1..2
        OBVIOUS
      <4>2. attempt' = [attempt EXCEPT ![c] = 2] /\ seen' = [seen EXCEPT ![c] = fills]
        BY <3>1 DEF Reject
      <4>3. attempt \in [Calls -> 1..2] /\ seen \in [Calls -> 0..fills]
        OBVIOUS
      <4>4. QED
        BY ONLY <4>1, <4>2, <4>3
    <3>2. CASE Answer(c) \/ VendorFails(c)
      BY <3>2 DEF Answer, VendorFails
    <3>3. QED
      BY <1>6, <3>1, <3>2
  <2>3. QED
    BY <1>6, <2>1, <2>2 DEF Answer, Reject, VendorFails
<1>7. ASSUME NEW c \in Calls, Clear(c)
      PROVE  TypeOK'
  <2>1. pc' \in [Calls -> Stages]
    BY <1>7, GotoType DEF Clear
  <2>2. cached' \in 0..fills /\ clears' \in Nat
    BY <1>7 DEF Clear, TakeKey
  <2>3. QED
    BY <1>7, <2>1, <2>2 DEF Clear
<1>8. ASSUME NEW c \in Calls, Return(c)
      PROVE  TypeOK'
  <2>1. tickets' \in [Calls -> Seq(Ticket)]
    BY <1>8, PublishType DEF Return, Ticket
  <2>2. pc' \in [Calls -> Stages]
    BY <1>8, GotoType DEF Return
  <2>3. QED
    BY <1>8, <2>1, <2>2 DEF Return, Ticket
<1>9. ASSUME NEW c \in Calls, Abandon(c)
      PROVE  TypeOK'
  <2>1. pc' \in [Calls -> Stages]
    BY <1>9, GotoType DEF Abandon
  <2>2. QED
    BY <1>9, <2>1 DEF Abandon
<1>10. CASE Rotate
  BY <1>10 DEF Rotate
<1>11. QED
  BY <1>1, <1>2, <1>3, <1>4, <1>5, <1>6, <1>7, <1>8, <1>9, <1>10 DEF Next, Progress

(* The mutex: held just while its holder unseals.                          *)
LEMMA NextGuard ==
  ASSUME TypeOK, GuardHeld, Next
  PROVE  GuardHeld'
<1> USE KeyAssumption DEF TypeOK, GuardHeld, Goto, holder
<1>1. ASSUME NEW c \in Calls, Request(c) \/ Return(c)
      PROVE  GuardHeld'
  BY <1>1 DEF Request, Return
<1>2. ASSUME NEW c \in Calls, FastPath(c)
      PROVE  GuardHeld'
  BY <1>2 DEF FastPath, WithKey
<1>3. ASSUME NEW c \in Calls, SlowPath(c)
      PROVE  GuardHeld'
  BY <1>3 DEF SlowPath, WithKey
<1>4. ASSUME NEW c \in Calls, Unseal(c)
      PROVE  GuardHeld'
  BY <1>4 DEF Unseal, WithKey
<1>5. ASSUME NEW c \in Calls, UnsealFails(c)
      PROVE  GuardHeld'
  BY <1>5 DEF UnsealFails, DropGuard
<1>6. ASSUME NEW c \in Calls, Answer(c) \/ Reject(c) \/ VendorFails(c)
      PROVE  GuardHeld'
  BY <1>6 DEF Answer, Reject, VendorFails
<1>7. ASSUME NEW c \in Calls, Clear(c)
      PROVE  GuardHeld'
  BY <1>7 DEF Clear, TakeKey
<1>8. ASSUME NEW c \in Calls, Abandon(c)
      PROVE  GuardHeld'
  BY <1>8 DEF Abandon
<1>9. CASE Rotate
  BY <1>9 DEF Rotate
<1>10. QED
  BY <1>1, <1>2, <1>3, <1>4, <1>5, <1>6, <1>7, <1>8, <1>9 DEF Next, Progress

(* Only an empty holder is filled, and only what is in it is taken out.    *)
LEMMA NextUnsealed ==
  ASSUME TypeOK, GuardHeld, UnsealedOnce, Next
  PROVE  UnsealedOnce'
<1> USE DEF TypeOK, UnsealedOnce, holder
<1>1. ASSUME NEW c \in Calls, Unseal(c)
      PROVE  UnsealedOnce'
  BY <1>1 DEF Unseal, GuardHeld
<1>2. ASSUME NEW c \in Calls, Clear(c)
      PROVE  UnsealedOnce'
  BY <1>2 DEF Clear, TakeKey
<1>3. ASSUME UNCHANGED <<cached, fills, clears>>
      PROVE  UnsealedOnce'
  BY <1>3
<1>4. QED
  BY <1>1, <1>2, <1>3
  DEF Next, Progress, Request, FastPath, SlowPath, UnsealFails, Answer, Reject,
      VendorFails, Return, Abandon, Rotate

(* After the 401 the holder is emptied: what is in it later is newer.      *)
LEMMA NextRetry ==
  ASSUME TypeOK, GuardHeld, RetryWaits, RetryIsFresh, Next
  PROVE  RetryWaits' /\ RetryIsFresh'
<1> SUFFICES ASSUME NEW d \in Calls
             PROVE  Waits(d)' /\ Fresh(d)'
  BY DEF RetryWaits, RetryIsFresh, Waits, Fresh
<1>0. Waits(d) /\ Fresh(d)
  BY DEF RetryWaits, RetryIsFresh, Waits, Fresh
<1>t. /\ fills \in Nat /\ cached \in 0..fills /\ key[d] \in 0..fills
      /\ seen[d] \in 0..fills /\ attempt[d] \in 1..2
  BY DEF TypeOK
<1>d. /\ DOMAIN pc = Calls /\ DOMAIN key = Calls
      /\ DOMAIN attempt = Calls /\ DOMAIN seen = Calls
      /\ pc = [c \in Calls |-> pc[c]] /\ key = [c \in Calls |-> key[c]]
      /\ attempt = [c \in Calls |-> attempt[c]] /\ seen = [c \in Calls |-> seen[c]]
  BY DEF TypeOK
<1> USE <1>0, <1>t, <1>d DEF Waits, Fresh, Goto, holder
<1>1. ASSUME NEW c \in Calls, Request(c)
      PROVE  Waits(d)' /\ Fresh(d)'
  BY <1>1 DEF Request
<1>2. ASSUME NEW c \in Calls, FastPath(c)
      PROVE  Waits(d)' /\ Fresh(d)'
  BY <1>2 DEF FastPath, WithKey
<1>3. ASSUME NEW c \in Calls, SlowPath(c)
      PROVE  Waits(d)' /\ Fresh(d)'
  BY <1>3 DEF SlowPath, WithKey
<1>4. ASSUME NEW c \in Calls, Unseal(c)
      PROVE  Waits(d)' /\ Fresh(d)'
  BY <1>4 DEF Unseal, WithKey
<1>5. ASSUME NEW c \in Calls, UnsealFails(c)
      PROVE  Waits(d)' /\ Fresh(d)'
  BY <1>5 DEF UnsealFails
<1>6. ASSUME NEW c \in Calls, Answer(c) \/ Reject(c) \/ VendorFails(c)
      PROVE  Waits(d)' /\ Fresh(d)'
  BY <1>6 DEF Answer, Reject, VendorFails
<1>7. ASSUME NEW c \in Calls, Clear(c)
      PROVE  Waits(d)' /\ Fresh(d)'
  BY <1>7 DEF Clear, TakeKey
<1>8. ASSUME NEW c \in Calls, Return(c)
      PROVE  Waits(d)' /\ Fresh(d)'
  BY <1>8 DEF Return
<1>9. ASSUME NEW c \in Calls, Abandon(c)
      PROVE  Waits(d)' /\ Fresh(d)'
  BY <1>9 DEF Abandon
<1>10. CASE Rotate
  BY <1>10 DEF Rotate
<1>11. QED
  BY <1>1, <1>2, <1>3, <1>4, <1>5, <1>6, <1>7, <1>8, <1>9, <1>10 DEF Next, Progress

(* Two audit events in a row.                                              *)
LEMMA AppendPair ==
  ASSUME NEW S, NEW a \in S, NEW b \in S
  PROVE  Append(<<a>>, b) = <<a, b>>
<1>1. <<a>> \in Seq(S) /\ <<a, b>> \in Seq(S)
  OBVIOUS
<1>2. /\ Append(<<a>>, b) \in Seq(S) /\ Len(Append(<<a>>, b)) = 2
      /\ Append(<<a>>, b)[1] = a /\ Append(<<a>>, b)[2] = b
  BY <1>1, AppendProperties
<1>3. /\ Len(<<a, b>>) = 2 /\ <<a, b>>[1] = a /\ <<a, b>>[2] = b
  OBVIOUS
<1>4. ASSUME NEW s \in Seq(S), NEW t \in Seq(S), Len(s) = 2, Len(t) = 2,
             s[1] = t[1], s[2] = t[2]
      PROVE  s = t
  <2>1. \A i \in 1..Len(s) : s[i] = t[i]
    BY <1>4
  <2>2. QED
    BY <1>4, <2>1, SeqEqual
<1>5. QED
  BY <1>1, <1>2, <1>3, <1>4, Zenon

(* Each step writes what the request's place in its protocol calls for.    *)
LEMMA NextTrail ==
  ASSUME TypeOK, NEW d \in Calls, Trail(d), Next
  PROVE  Trail(d)'
<1>t. /\ pc[d] \in Stages /\ attempt[d] \in 1..2
      /\ DOMAIN pc = Calls /\ DOMAIN key = Calls /\ DOMAIN attempt = Calls
      /\ DOMAIN tickets = Calls
  BY DEF TypeOK
<1>a. /\ Append(<<>>, "Requested") = <<"Requested">>
      /\ Append(<<"Requested">>, "Completed") = <<"Requested", "Completed">>
      /\ Append(<<"Requested">>, "Failed") = <<"Requested", "Failed">>
  <2>1. Append(<<>>, "Requested") = <<"Requested">>
    OBVIOUS
  <2>2. "Requested" \in Ticket /\ "Completed" \in Ticket /\ "Failed" \in Ticket
    BY DEF Ticket
  <2>3. QED
    BY <2>1, <2>2, AppendPair, Zenon
<1> USE <1>t DEF Trail, Goto, holder, Over
<1>1. ASSUME NEW c \in Calls, Request(c)
      PROVE  Trail(d)'
  BY <1>1, <1>a DEF Request, Publish
<1>2. ASSUME NEW c \in Calls, FastPath(c)
      PROVE  Trail(d)'
  BY <1>2 DEF FastPath, WithKey
<1>3. ASSUME NEW c \in Calls, SlowPath(c)
      PROVE  Trail(d)'
  BY <1>3 DEF SlowPath, WithKey
<1>4. ASSUME NEW c \in Calls, Unseal(c)
      PROVE  Trail(d)'
  BY <1>4 DEF Unseal, WithKey
<1>5. ASSUME NEW c \in Calls, UnsealFails(c)
      PROVE  Trail(d)'
  BY <1>5 DEF UnsealFails
<1>6. ASSUME NEW c \in Calls, Answer(c) \/ Reject(c) \/ VendorFails(c)
      PROVE  Trail(d)'
  BY <1>6 DEF Answer, Reject, VendorFails
<1>7. ASSUME NEW c \in Calls, Clear(c)
      PROVE  Trail(d)'
  BY <1>7 DEF Clear
<1>8. ASSUME NEW c \in Calls, Return(c)
      PROVE  Trail(d)'
  <2>1. CASE c # d
    BY <1>8, <2>1 DEF Return, Publish
  <2>2. CASE c = d /\ pc[d] = "answered"
    <3>1. tickets[d] = <<"Requested">>
      BY <2>2
    <3>2. tickets'[d] = <<"Requested", "Completed">> /\ pc'[d] = "ok"
      BY <1>8, <1>a, <2>2, <3>1 DEF Return, Publish
    <3>3. QED
      BY <3>2
  <2>3. CASE c = d /\ pc[d] = "failing"
    <3>1. tickets[d] = <<"Requested">>
      BY <2>3
    <3>2. tickets'[d] = <<"Requested", "Failed">> /\ pc'[d] = "err"
      BY <1>8, <1>a, <2>3, <3>1 DEF Return, Publish
    <3>3. QED
      BY <3>2
  <2>4. QED
    BY <1>8, <2>1, <2>2, <2>3 DEF Return
<1>9. ASSUME NEW c \in Calls, Abandon(c)
      PROVE  Trail(d)'
  BY <1>9 DEF Abandon
<1>10. CASE Rotate
  BY <1>10 DEF Rotate
<1>11. QED
  BY <1>1, <1>2, <1>3, <1>4, <1>5, <1>6, <1>7, <1>8, <1>9, <1>10 DEF Next, Progress

(* The inductive invariant: types, the mutex, the count of unsealings and  *)
(* the freshness of retries (key_wiring.rs).                               *)
THEOREM KeyInvariant == Spec => []KeyInv
<1>1. Init => KeyInv
  BY InitType
<1>2. KeyInv /\ [Next]_vars => KeyInv'
  <2>1. CASE Next
    BY <2>1, NextType, NextGuard, NextUnsealed, NextRetry DEF KeyInv
  <2>2. CASE UNCHANGED vars
    BY <2>2 DEF vars, holder, KeyInv, TypeOK, GuardHeld, UnsealedOnce, RetryWaits,
                RetryIsFresh
  <2>3. QED
    BY <2>1, <2>2
<1>3. QED
  BY <1>1, <1>2, PTL DEF Spec

(* Type correctness of the holder and the requests.                        *)
THEOREM TypeCorrect == Spec => []TypeOK
<1>1. KeyInv => TypeOK
  BY DEF KeyInv
<1>2. QED
  BY <1>1, KeyInvariant, PTL

(* However many requests find the holder cold, one unseals                 *)
(* (key_wiring.rs get_or_unseal).                                          *)
THEOREM UnsealedOnceCorrect == Spec => []UnsealedOnce
<1>1. KeyInv => UnsealedOnce
  BY DEF KeyInv
<1>2. QED
  BY <1>1, KeyInvariant, PTL

(* A retry sends a key unsealed after its 401 (re_unseal_after_401).       *)
THEOREM RetryFreshCorrect == Spec => []RetryIsFresh
<1>1. KeyInv => RetryIsFresh
  BY DEF KeyInv
<1>2. QED
  BY <1>1, KeyInvariant, PTL

(* A request that has had a key leaves its beginning and its end in the    *)
(* audit trail, whichever unsealing or vendor call failed (adapter.rs      *)
(* complete).                                                              *)
THEOREM AuditedCorrect == Spec => []Audited
<1>1. Init => \A d \in Calls : Trail(d)
  BY DEF Init, Trail, Over
<1>2. TypeOK /\ (\A d \in Calls : Trail(d)) /\ [Next]_vars => (\A d \in Calls : Trail(d))'
  <2> SUFFICES ASSUME TypeOK, \A d \in Calls : Trail(d), [Next]_vars, NEW d \in Calls
               PROVE  Trail(d)'
    OBVIOUS
  <2>1. CASE Next
    BY <2>1, NextTrail
  <2>2. CASE UNCHANGED vars
    BY <2>2 DEF vars, holder, Trail
  <2>3. QED
    BY <2>1, <2>2
<1>3. (\A d \in Calls : Trail(d)) => Audited
  BY DEF Trail, Audited
<1>4. QED
  BY <1>1, <1>2, <1>3, TypeCorrect, PTL DEF Spec

-----------------------------------------------------------------------------
(* The stream.                                                              *)
StreamTicket == {"Requested", "Failed", "Cancelled"} \cup Reasons
Tasks == {"idle", "call", "reseal", "again", "listen", "send", "failing", "failed",
          "cancelled", "completed", "over"}

(* A chunk that no Finished chunk has come before.                         *)
NoFinish == \A i \in 1..Len(sent) : sent[i].kind \notin Reasons

(* Where the task stands, by what it has sent and published.               *)
Standing ==
  /\ task = "idle" => events = <<>>
  /\ task \notin {"idle", "over"} => Len(events) = 1
  /\ task \notin {"completed", "over"} => NoFinish
  /\ task = "send" => hand \in Chunks
  /\ task = "failing" => hand = Chunk("Error", 0)
  /\ task = "failed" => rx = "dropped" \/ Ending = Chunk("Error", 0)
  /\ task = "cancelled" => rx = "dropped"
  /\ task = "completed" => hand.kind \in Reasons /\ Ending = hand

StreamInv == StreamTypeOK /\ Standing /\ FinishedIsLast /\ AuditTrue

(* The mappers return a chunk or nothing, and a chunk just of an event     *)
(* that carries something.                                                 *)
LEMMA KindType ==
  ASSUME api \in {"chat", "responses"}, NEW e \in Events[api]
  PROVE  /\ KindOf(e) \in {"text", "call", "args", "none"} \cup Terminal
         /\ KindOf(e) # "none" <=> Carries(e)
<1>1. CASE api = "chat"
  <2>1. e \in ChatEvents
    BY <1>1, StreamAssumption DEF Events
  <2>2. e.finish \in Finishes /\ e.text \in {"absent", "empty", "some"} /\ e.calls \in Nat
    BY <2>1 DEF ChatEvents
  <2>3. e.finish # "none" => FinishKind[e.finish] \in Terminal
    BY <2>2 DEF Finishes, FinishKind, Terminal, Reasons
  <2>4. ChatKind(e) \in {"text", "call", "none"} \cup Terminal
    BY <2>3 DEF ChatKind
  <2>5. ChatKind(e) # "none" <=> Carries(e)
    <3>1. "none" \notin Terminal
      BY DEF Terminal, Reasons
    <3>2. QED
      BY <1>1, <2>2, <2>3, <3>1 DEF ChatKind, Carries
  <2>6. QED
    BY <1>1, <2>4, <2>5 DEF KindOf
<1>2. CASE api = "responses"
  BY <1>2 DEF Events, KindOf, ResponsesKind, Carries, Terminal, Reasons
<1>3. QED
  BY <1>1, <1>2

(* The empty sequence has every type.                                      *)
LEMMA EmptyType ==
  /\ <<>> \in Seq(Chunks) /\ <<>> \in Seq(Events[api]) /\ <<>> \in Seq(StreamTicket)
  /\ Len(<<>>) = 0
OBVIOUS

(* The invariant holds in the initial states.                              *)
LEMMA InitHolds == ASSUME StreamInit PROVE StreamInv
<1>1. StreamTypeOK
  <2>1. /\ heard \in Seq(Events[api]) /\ sent \in Seq(Chunks) /\ events \in Seq(StreamTicket)
        /\ Len(sent) = 0
    BY EmptyType DEF StreamInit
  <2>2. /\ api \in {"chat", "responses"} /\ task \in Tasks
        /\ watch \in {"none", "on", "off"} /\ rx \in {"none", "open", "dropped", "closed"}
        /\ hand \in {NoChunk} /\ calls \in BOOLEAN /\ read = 0
    BY DEF StreamInit, Tasks
  <2>3. QED
    BY <2>1, <2>2, StreamAssumption DEF StreamTypeOK, StreamTicket, Tasks
<1>2. Standing /\ FinishedIsLast /\ AuditTrue
  BY EmptyType DEF StreamInit, Standing, NoFinish, FinishedIsLast, AuditTrue
<1>3. QED
  BY <1>1, <1>2 DEF StreamInv

(* What a chunk at the end of the channel changes.                         *)
LEMMA PutSeq ==
  ASSUME sent \in Seq(Chunks), hand \in Chunks, Put
  PROVE  /\ sent' \in Seq(Chunks)
         /\ Len(sent') = Len(sent) + 1
         /\ sent'[Len(sent) + 1] = hand
         /\ \A i \in 1..Len(sent) : sent'[i] = sent[i]
         /\ Ending' = hand
<1>1. /\ sent' \in Seq(Chunks)
      /\ Len(sent') = Len(sent) + 1
      /\ sent'[Len(sent) + 1] = hand
      /\ \A i \in 1..Len(sent) : sent'[i] = sent[i]
  BY AppendProperties DEF Put
<1>2. Len(sent) \in Nat
  BY LenProperties
<1>3. sent' # <<>>
  BY <1>1, <1>2, EmptyType
<1>4. Ending' = sent'[Len(sent')]
  BY <1>3 DEF Ending, Last
<1>5. QED
  BY <1>1, <1>4

(* What an audit event at the end of the trail changes.                    *)
LEMMA TicketSeq ==
  ASSUME events \in Seq(StreamTicket), NEW t \in StreamTicket, events' = Append(events, t)
  PROVE  /\ events' \in Seq(StreamTicket)
         /\ Len(events') = Len(events) + 1
         /\ events'[Len(events) + 1] = t
BY AppendProperties

(* Every step keeps the types.                                             *)
LEMMA StreamNextType ==
  ASSUME StreamInv, StreamNext
  PROVE  StreamTypeOK'
<1> USE DEF StreamTypeOK, channel
<1>0. StreamTypeOK /\ Standing
  BY DEF StreamInv
<1>t. /\ events \in Seq(StreamTicket) /\ heard \in Seq(Events[api]) /\ sent \in Seq(Chunks)
      /\ Len(sent) \in Nat /\ Len(heard) \in Nat
  BY <1>0, LenProperties DEF StreamTicket
<1>c. Chunk("Error", 0) \in Chunks
  BY StreamAssumption DEF Chunk, Chunks, Terminal
<1>1. ASSUME NEW deadline \in BOOLEAN, Open(deadline)
      PROVE  StreamTypeOK'
  <2>1. events' \in Seq(StreamTicket)
    BY <1>1, <1>t, TicketSeq DEF Open, StreamTicket
  <2>2. QED
    BY <1>0, <1>1, <2>1 DEF Open, StreamTicket
<1>2. CASE Refuse
  <2>1. events' \in Seq(StreamTicket)
    BY <1>2, <1>t, TicketSeq DEF Refuse, StreamTicket
  <2>2. QED
    BY <1>0, <1>2, <2>1 DEF Refuse, StreamTicket
<1>3. CASE Accepted \/ Rejected \/ Resealed \/ Done \/ SendFails
  BY <1>0, <1>3 DEF Accepted, Rejected, Resealed, Done, SendFails, Become
<1>4. CASE CallFails \/ ResealFails \/ Closes
  BY <1>0, <1>4, <1>c DEF CallFails, ResealFails, Closes, Fail
<1>5. ASSUME NEW e \in Events[api], Hear(e)
      PROVE  StreamTypeOK'
  <2>1. heard' \in Seq(Events[api])
    BY <1>0, <1>5, <1>t, AppendProperties DEF Hear
  <2>2. hand' \in Chunks \cup {NoChunk} /\ task' \in Tasks
    <3>1. CASE KindOf(e) = "none"
      BY <1>0, <1>5, <3>1 DEF Hear, Tasks
    <3>2. CASE KindOf(e) # "none"
      <4>1. KindOf(e) \in {"text", "call", "args"} \cup Terminal
        BY <1>0, <3>2, KindType
      <4>2. Len(heard) + 1 \in 0..MaxEvents
        BY <1>5, <1>t, StreamAssumption DEF Hear
      <4>3. Chunk(KindOf(e), Len(heard) + 1) \in Chunks
        BY <4>1, <4>2 DEF Chunk, Chunks
      <4>4. QED
        BY <1>5, <3>2, <4>3 DEF Hear, Tasks
    <3>3. QED
      BY <3>1, <3>2
  <2>3. calls' \in BOOLEAN
    BY <1>0, <1>5 DEF Hear, SawCall
  <2>4. QED
    BY <1>0, <1>5, <2>1, <2>2, <2>3 DEF Hear, Tasks
<1>6. CASE Send
  <2>1. /\ sent' \in Seq(Chunks) /\ Len(sent') = Len(sent) + 1
    BY <1>0, <1>6, <1>t, PutSeq DEF Send, Standing
  <2>2. QED
    BY <1>0, <1>6, <1>t, <2>1, StreamAssumption DEF Send, Put, HasRoom, AfterSend
<1>7. CASE SendError
  <2>1. CASE rx = "open" /\ Put
    <3>1. hand \in Chunks
      BY <1>0, <1>7, <1>c DEF SendError, Standing
    <3>2. sent' \in Seq(Chunks) /\ Len(sent') = Len(sent) + 1
      BY <2>1, <3>1, <1>t, PutSeq
    <3>3. QED
      BY <1>0, <1>7, <2>1, <1>t, <3>2, StreamAssumption DEF SendError, Put, HasRoom
  <2>2. CASE UNCHANGED channel
    BY <1>0, <1>7, <2>2 DEF SendError
  <2>3. QED
    BY <1>7, <2>1, <2>2 DEF SendError
<1>8. CASE Finish
  <2>1. PICK t \in StreamTicket : events' = Append(events, t)
    BY <1>0, <1>8 DEF Finish, Stamp, Standing, StreamTicket
  <2>2. events' \in Seq(StreamTicket)
    BY <1>t, <2>1, TicketSeq
  <2>3. QED
    BY <1>0, <1>8, <2>2 DEF Finish, Stamp, StreamTicket
<1>9. CASE Expire
  BY <1>0, <1>9 DEF Expire
<1>10. CASE Recv
  <2>1. sent' = sent /\ rx' \in {rx, "closed"} /\ read' \in {read, read + 1}
    BY <1>10 DEF Recv
  <2>2. read' \in 0..Len(sent) /\ Len(sent) - read' <= Capacity
    <3>1. CASE read < Len(sent) /\ read' = read + 1
      BY <1>0, <1>t, <3>1, StreamAssumption
    <3>2. CASE read' = read
      BY <1>0, <3>2
    <3>3. QED
      BY <1>10, <3>1, <3>2 DEF Recv
  <2>3. UNCHANGED <<api, task, watch, hand, calls, heard, events>>
    BY <1>10 DEF Recv
  <2>4. QED
    BY <1>0, <2>1, <2>2, <2>3
<1>11. CASE DropReceiver
  BY <1>0, <1>11 DEF DropReceiver
<1>12. CASE Vendor
  BY <1>3, <1>4, <1>5, <1>12 DEF Vendor
<1>13. CASE Working
  BY <1>3, <1>4, <1>6, <1>7, <1>8, <1>13 DEF Working
<1>14. QED
  BY ONLY <1>1, <1>2, <1>9, <1>10, <1>11, <1>12, <1>13, StreamNext
  DEF StreamNext

(* One audit event closes the stream, and nothing follows a Finished chunk. *)
LEMMA NextStanding ==
  ASSUME StreamInv, StreamNext
  PROVE  Standing' /\ FinishedIsLast' /\ AuditTrue'
<1> USE DEF channel
<1>0. StreamTypeOK /\ Standing /\ FinishedIsLast /\ AuditTrue
  BY DEF StreamInv
<1>t. /\ events \in Seq(StreamTicket) /\ sent \in Seq(Chunks) /\ Len(sent) \in Nat
      /\ task \in Tasks
  BY <1>0, LenProperties DEF StreamTypeOK, StreamTicket, Tasks
<1>1. ASSUME NEW t \in StreamTicket, events = <<>>, events' = Append(events, t)
      PROVE  Len(events') = 1
  BY <1>1, <1>t, TicketSeq, EmptyType
<1>2. ASSUME UNCHANGED sent, NoFinish
      PROVE  NoFinish' /\ FinishedIsLast'
  BY <1>2 DEF NoFinish, FinishedIsLast
<1>3. ASSUME NEW deadline \in BOOLEAN, Open(deadline) \/ Refuse
      PROVE  Standing' /\ FinishedIsLast' /\ AuditTrue'
  <2>1. Len(events') = 1 /\ UNCHANGED sent /\ NoFinish /\ task' \in {"call", "over"}
    BY <1>0, <1>1, <1>3 DEF Open, Refuse, Standing, StreamTicket
  <2>2. NoFinish' /\ FinishedIsLast'
    BY <1>2, <2>1
  <2>3. QED
    BY <2>1, <2>2 DEF Standing, AuditTrue
<1>4. CASE Accepted \/ Rejected \/ Resealed \/ Done \/ SendFails
  <2>1. /\ UNCHANGED <<channel, hand, events>> /\ NoFinish
        /\ task \notin {"idle", "over"} /\ Len(events) = 1
        /\ task' \in {"listen", "reseal", "again", "over", "cancelled"}
        /\ task' = "cancelled" => rx = "dropped"
    BY <1>0, <1>4 DEF Accepted, Rejected, Resealed, Done, SendFails, Become, Standing
  <2>2. NoFinish' /\ FinishedIsLast'
    BY <1>2, <2>1
  <2>3. QED
    BY <2>1, <2>2 DEF Standing, AuditTrue
<1>5. CASE CallFails \/ ResealFails \/ Closes
  <2>1. /\ UNCHANGED <<channel, events>> /\ NoFinish /\ Len(events) = 1
        /\ task' = "failing" /\ hand' = Chunk("Error", 0)
    BY <1>0, <1>5 DEF CallFails, ResealFails, Closes, Fail, Standing
  <2>2. NoFinish' /\ FinishedIsLast'
    BY <1>2, <2>1
  <2>3. Chunk("Error", 0)' = Chunk("Error", 0)
    BY DEF Chunk
  <2>4. QED
    BY <2>1, <2>2, <2>3 DEF Standing, AuditTrue
<1>6. ASSUME NEW e \in Events[api], Hear(e)
      PROVE  Standing' /\ FinishedIsLast' /\ AuditTrue'
  <2>1. /\ UNCHANGED <<channel, events>> /\ NoFinish /\ Len(events) = 1
        /\ task' \in {"listen", "send"}
    BY <1>0, <1>6 DEF Hear, Standing
  <2>2. NoFinish' /\ FinishedIsLast'
    BY <1>2, <2>1
  <2>3. StreamTypeOK'
    BY StreamNextType
  <2>4. task' = "send" => hand' \in Chunks
    <3>1. CASE task' = "send"
      <4>1. KindOf(e) # "none" /\ hand' = Chunk(KindOf(e), Len(heard) + 1)
        BY <1>6, <3>1 DEF Hear
      <4>2. hand' # NoChunk
        BY <4>1 DEF NoChunk, Chunk
      <4>3. QED
        BY <2>3, <4>2 DEF StreamTypeOK, NoChunk, Chunks, Chunk
    <3>2. QED
      BY <3>1
  <2>5. QED
    BY <2>1, <2>2, <2>4 DEF Standing, AuditTrue
<1>7. CASE Send
  <2>1. /\ NoFinish /\ hand \in Chunks /\ Len(events) = 1 /\ UNCHANGED <<hand, events>>
        /\ Put /\ task' = AfterSend
    BY <1>0, <1>7 DEF Send, Standing
  <2>2. /\ Len(sent') = Len(sent) + 1 /\ sent'[Len(sent) + 1] = hand
        /\ \A i \in 1..Len(sent) : sent'[i] = sent[i]
        /\ Ending' = hand
    BY <1>t, <2>1, PutSeq
  <2>3. FinishedIsLast'
    BY <1>t, <2>1, <2>2 DEF NoFinish, FinishedIsLast
  <2>4. hand.kind \notin Reasons => NoFinish'
    BY <1>t, <2>1, <2>2 DEF NoFinish
  <2>5. task' = IF hand.kind \in Reasons THEN "completed" ELSE "listen"
    BY <2>1 DEF AfterSend
  <2>6. CASE hand.kind \in Reasons
    <3>1. task' = "completed" /\ hand'.kind \in Reasons /\ Ending' = hand'
      BY <2>1, <2>2, <2>5, <2>6
    <3>2. Len(events') = 1
      BY <2>1
    <3>3. Standing'
      BY <3>1, <3>2 DEF Standing
    <3>4. QED
      BY <2>3, <3>2, <3>3 DEF AuditTrue
  <2>7. CASE hand.kind \notin Reasons
    <3>1. task' = "listen" /\ NoFinish' /\ Len(events') = 1
      BY <2>1, <2>4, <2>5, <2>7
    <3>2. Standing'
      BY <3>1 DEF Standing
    <3>3. QED
      BY <2>3, <3>1, <3>2 DEF AuditTrue
  <2>8. QED
    BY <2>6, <2>7
<1>8. CASE SendError
  <2>1. /\ NoFinish /\ hand = Chunk("Error", 0) /\ Len(events) = 1 /\ UNCHANGED events
        /\ task' = "failed"
    BY <1>0, <1>8 DEF SendError, Standing
  <2>2. Chunk("Error", 0)' = Chunk("Error", 0)
    BY DEF Chunk
  <2>3. CASE rx = "open" /\ Put
    <3>1. hand \in Chunks
      BY <2>1, StreamAssumption DEF Chunk, Chunks, Terminal
    <3>2. /\ Len(sent') = Len(sent) + 1 /\ sent'[Len(sent) + 1] = hand
          /\ \A i \in 1..Len(sent) : sent'[i] = sent[i]
          /\ Ending' = hand
      BY <1>t, <2>3, <3>1, PutSeq
    <3>3. hand.kind \notin Reasons
      BY <2>1 DEF Chunk, Reasons
    <3>4. NoFinish' /\ FinishedIsLast'
      BY <1>t, <2>1, <3>2, <3>3 DEF NoFinish, FinishedIsLast
    <3>5. Ending' = Chunk("Error", 0)' /\ Len(events') = 1
      BY <2>1, <2>2, <3>2
    <3>6. Standing'
      BY <2>1, <3>4, <3>5 DEF Standing
    <3>7. QED
      BY <3>4, <3>5, <3>6 DEF AuditTrue
  <2>4. CASE rx = "dropped" /\ UNCHANGED channel
    <3>1. NoFinish' /\ FinishedIsLast'
      BY <1>2, <2>1, <2>4
    <3>2. rx' = "dropped" /\ Len(events') = 1
      BY <2>1, <2>4
    <3>3. Standing'
      BY <2>1, <3>1, <3>2 DEF Standing
    <3>4. QED
      BY <3>1, <3>2, <3>3 DEF AuditTrue
  <2>5. QED
    BY <1>8, <2>3, <2>4 DEF SendError
<1>9. CASE Finish
  <2>1. PICK t \in StreamTicket : events' = Append(events, t) /\
             \/ t \in Reasons /\ Ending.kind = t
             \/ t = "Failed" /\ (rx = "dropped" \/ Ending = Chunk("Error", 0))
             \/ t = "Cancelled" /\ rx = "dropped"
    BY <1>0, <1>9 DEF Finish, Stamp, Standing, StreamTicket
  <2>2. Len(events) = 1 /\ task' = "over" /\ UNCHANGED channel
    BY <1>0, <1>9 DEF Finish, Stamp, Standing
  <2>3. Len(events') = 2 /\ events'[2] = t
    BY <1>t, <2>1, <2>2, TicketSeq
  <2>4. UNCHANGED Ending /\ Chunk("Error", 0)' = Chunk("Error", 0)
    BY <2>2 DEF Ending, Chunk, NoChunk, Last
  <2>5. AuditTrue'
    BY <2>1, <2>2, <2>3, <2>4 DEF AuditTrue
  <2>6. Standing' /\ FinishedIsLast'
    BY <1>0, <2>2 DEF Standing, FinishedIsLast
  <2>7. QED
    BY <2>5, <2>6
<1>10. CASE Expire \/ Recv \/ DropReceiver
  <2>1. /\ UNCHANGED <<task, hand, events, sent>>
        /\ rx = "dropped" => rx' = "dropped"
    BY <1>10 DEF Expire, Recv, DropReceiver
  <2>2. UNCHANGED Ending /\ Chunk("Error", 0)' = Chunk("Error", 0)
    BY <2>1 DEF Ending, Chunk, NoChunk, Last
  <2>3. UNCHANGED <<NoFinish, FinishedIsLast, Chunks>>
    BY <2>1 DEF NoFinish, FinishedIsLast, Chunks
  <2>4. Standing'
    BY <1>0, <2>1, <2>2, <2>3 DEF Standing
  <2>5. QED
    BY <1>0, <2>1, <2>2, <2>3, <2>4 DEF AuditTrue
<1>11. CASE Vendor
  BY <1>4, <1>5, <1>6, <1>11 DEF Vendor
<1>12. CASE Working
  BY <1>4, <1>5, <1>7, <1>8, <1>9, <1>12 DEF Working
<1>13. QED
  BY ONLY <1>3, <1>10, <1>11, <1>12, StreamNext DEF StreamNext

(* A function call is among the chunks sent.                               *)
CallSent == \E j \in 1..Len(sent) : sent[j].kind = "call"

(* What has_function_call stands for, by where the task is.                *)
CallsTrue ==
  api = "responses" =>
    /\ task \in {"idle", "call", "reseal", "again"} => ~calls /\ sent = <<>>
    /\ task = "listen" => (calls <=> CallSent)
    /\ task = "send" =>
         /\ calls <=> CallSent \/ hand.kind = "call"
         /\ hand.kind \in Reasons => (hand.kind = "ToolCalls" <=> CallSent)

(* A step that sends nothing keeps what was said of the chunks.            *)
LEMMA Unsent ==
  ASSUME UNCHANGED <<api, sent>>, ToolsNamed
  PROVE  ToolsNamed' /\ (CallSent' <=> CallSent)
BY DEF ToolsNamed, CallSent

(* has_function_call tells which calls the consumer was given.             *)
LEMMA NextCalls ==
  ASSUME StreamInv, CallsTrue, ToolsNamed, StreamNext
  PROVE  CallsTrue' /\ ToolsNamed'
<1> USE DEF channel
<1>0. StreamTypeOK /\ Standing
  BY DEF StreamInv
<1>t. sent \in Seq(Chunks) /\ Len(sent) \in Nat /\ calls \in BOOLEAN
  BY <1>0, LenProperties DEF StreamTypeOK
<1>1. ASSUME NEW deadline \in BOOLEAN, Open(deadline) \/ Refuse
      PROVE  CallsTrue' /\ ToolsNamed'
  BY <1>1, Unsent DEF Open, Refuse, CallsTrue
<1>2. CASE Accepted
  <2>1. /\ UNCHANGED <<api, sent, calls>> /\ task' = "listen"
        /\ task \in {"call", "again"}
    BY <1>2 DEF Accepted, Become
  <2>2. ToolsNamed' /\ (CallSent' <=> CallSent)
    BY <2>1, Unsent
  <2>3. sent = <<>> => ~CallSent
    BY EmptyType DEF CallSent
  <2>4. QED
    BY <2>1, <2>2, <2>3 DEF CallsTrue
<1>3. CASE Rejected \/ Resealed \/ Done \/ SendFails
  BY <1>3, Unsent DEF Rejected, Resealed, Done, SendFails, Become, CallsTrue
<1>4. CASE CallFails \/ ResealFails \/ Closes \/ Finish
  BY <1>4, Unsent DEF CallFails, ResealFails, Closes, Fail, Finish, Stamp, CallsTrue
<1>5. ASSUME NEW e \in Events[api], Hear(e)
      PROVE  CallsTrue' /\ ToolsNamed'
  <2>1. /\ UNCHANGED <<api, sent>> /\ task = "listen"
        /\ calls' = SawCall(e)
        /\ \/ KindOf(e) = "none" /\ task' = "listen"
           \/ KindOf(e) # "none" /\ task' = "send"
              /\ hand' = Chunk(KindOf(e), Len(heard) + 1)
    BY <1>5 DEF Hear
  <2>2. ToolsNamed' /\ (CallSent' <=> CallSent)
    BY <2>1, Unsent
  <2>3. ASSUME api = "responses"
        PROVE  /\ e = "call" <=> KindOf(e) = "call"
               /\ calls' <=> calls \/ e = "call"
               /\ KindOf(e) \in Reasons => (KindOf(e) = "ToolCalls" <=> calls)
    BY <1>t, <2>1, <2>3 DEF KindOf, ResponsesKind, SawCall, Events, Reasons
  <2>4. task' = "send" => hand'.kind = KindOf(e)
    BY <2>1 DEF Chunk
  <2>5. CASE KindOf(e) = "none"
    BY <2>1, <2>2, <2>3, <2>5 DEF CallsTrue
  <2>6. CASE KindOf(e) # "none"
    BY <2>1, <2>2, <2>3, <2>4, <2>6 DEF CallsTrue
  <2>7. QED
    BY <2>5, <2>6
<1>6. CASE Send
  <2>1. /\ hand \in Chunks /\ UNCHANGED <<api, calls, hand>> /\ Put
        /\ task = "send" /\ task' = AfterSend
    BY <1>0, <1>6 DEF Send, Standing
  <2>2. /\ Len(sent') = Len(sent) + 1 /\ sent'[Len(sent) + 1] = hand
        /\ \A i \in 1..Len(sent) : sent'[i] = sent[i]
    BY <1>t, <2>1, PutSeq
  <2>3. CallSent' <=> CallSent \/ hand.kind = "call"
    BY <1>t, <2>2 DEF CallSent
  <2>4. task' \in {"listen", "completed"}
    BY <2>1 DEF AfterSend
  <2>5. CallsTrue'
    BY <2>1, <2>3, <2>4 DEF CallsTrue
  <2>6. ASSUME api = "responses", NEW i \in 1..Len(sent'), sent'[i].kind \in Reasons
        PROVE  sent'[i].kind = "ToolCalls" <=> \E j \in 1..i : sent'[j].kind = "call"
    <3>1. CASE i \in 1..Len(sent)
      BY <1>t, <2>2, <2>6, <3>1 DEF ToolsNamed
    <3>2. CASE i = Len(sent) + 1
      <4>1. hand.kind \in Reasons /\ hand.kind # "call"
        BY <2>2, <2>6, <3>2 DEF Reasons
      <4>2. hand.kind = "ToolCalls" <=> CallSent
        BY <2>1, <2>6, <4>1 DEF CallsTrue
      <4>3. (\E j \in 1..i : sent'[j].kind = "call") <=> CallSent
        BY <1>t, <2>2, <3>2, <4>1 DEF CallSent
      <4>4. QED
        BY <2>2, <3>2, <4>2, <4>3
    <3>3. QED
      BY <1>t, <2>2, <2>6, <3>1, <3>2
  <2>7. QED
    BY <2>1, <2>5, <2>6 DEF ToolsNamed
<1>7. CASE SendError
  <2>1. hand = Chunk("Error", 0) /\ UNCHANGED api /\ task' = "failed"
    BY <1>0, <1>7 DEF SendError, Standing
  <2>2. CASE rx = "open" /\ Put
    <3>1. hand \in Chunks /\ hand.kind \notin Reasons
      BY <2>1, StreamAssumption DEF Chunk, Chunks, Terminal, Reasons
    <3>2. /\ Len(sent') = Len(sent) + 1 /\ sent'[Len(sent) + 1] = hand
          /\ \A i \in 1..Len(sent) : sent'[i] = sent[i]
      BY <1>t, <2>2, <3>1, PutSeq
    <3>3. ToolsNamed'
      BY <1>t, <2>1, <3>1, <3>2 DEF ToolsNamed
    <3>4. QED
      BY <2>1, <3>3 DEF CallsTrue
  <2>3. CASE rx = "dropped" /\ UNCHANGED channel
    BY <2>1, <2>3, Unsent DEF CallsTrue
  <2>4. QED
    BY <1>7, <2>2, <2>3 DEF SendError
<1>8. CASE Expire \/ Recv \/ DropReceiver
  <2>1. UNCHANGED <<api, task, sent, hand, calls>>
    BY <1>8 DEF Expire, Recv, DropReceiver
  <2>2. QED
    BY <2>1, Unsent DEF CallsTrue
<1>9. CASE Vendor
  BY <1>2, <1>3, <1>4, <1>5, <1>9 DEF Vendor
<1>10. CASE Working
  BY <1>3, <1>4, <1>6, <1>7, <1>10 DEF Working
<1>11. QED
  BY ONLY <1>1, <1>8, <1>9, <1>10, StreamNext DEF StreamNext

(* The inductive invariant: by where the task stands, what it has sent and *)
(* published (streaming.rs run).                                           *)
THEOREM StreamInvariant == StreamSpec => []StreamInv
<1>1. StreamInit => StreamInv
  BY InitHolds
<1>2. StreamInv /\ [StreamNext]_streamVars => StreamInv'
  <2>1. CASE StreamNext
    BY <2>1, StreamNextType, NextStanding DEF StreamInv
  <2>2. CASE UNCHANGED streamVars
    BY <2>2 DEF streamVars, channel, StreamInv, StreamTypeOK, Standing, NoFinish, FinishedIsLast,
                AuditTrue, Ending, Chunks, Chunk, NoChunk
  <2>3. QED
    BY <2>1, <2>2
<1>3. QED
  BY <1>1, <1>2, PTL DEF StreamSpec

(* Types; the channel holds no more than its capacity, whatever it is.     *)
THEOREM StreamTypeCorrect == StreamSpec => []StreamTypeOK
<1>1. StreamInv => StreamTypeOK
  BY DEF StreamInv
<1>2. QED
  BY <1>1, StreamInvariant, PTL

(* Nothing follows a Finished chunk (stream.rs CompletionChunk::Finished). *)
THEOREM FinishedCorrect == StreamSpec => []FinishedIsLast
<1>1. StreamInv => FinishedIsLast
  BY DEF StreamInv
<1>2. QED
  BY <1>1, StreamInvariant, PTL

(* One audit event closes a stream and tells what the consumer was told    *)
(* (streaming.rs fail_terminal, cancelled_terminal, completed_terminal).   *)
THEOREM AuditCorrect == StreamSpec => []AuditTrue
<1>1. StreamInv => AuditTrue
  BY DEF StreamInv
<1>2. QED
  BY <1>1, StreamInvariant, PTL

(* A stream of the Responses adapter ends with ToolCalls just when a call  *)
(* was among its chunks (streaming.rs map_responses_sse_event).            *)
THEOREM ToolsCorrect == StreamSpec => []ToolsNamed
<1>1. StreamInit => CallsTrue /\ ToolsNamed
  BY EmptyType DEF StreamInit, CallsTrue, ToolsNamed
<1>2. StreamInv /\ CallsTrue /\ ToolsNamed /\ [StreamNext]_streamVars
        => (CallsTrue /\ ToolsNamed)'
  <2>1. CASE UNCHANGED streamVars
    BY <2>1, Unsent DEF streamVars, channel, CallsTrue
  <2>2. QED
    BY <2>1, NextCalls
<1>3. QED
  BY <1>1, <1>2, StreamInvariant, PTL DEF StreamSpec

(* What the task holds in its hand is the last event it heard, and nobody  *)
(* was told of it yet.                                                     *)
LostInv ==
  /\ NothingLost
  /\ task = "idle" => rx = "none"
  /\ task = "send" =>
       /\ Due(Len(heard)) /\ hand.of = Len(heard)
       /\ \A k \in 1..Len(sent) : sent[k].of < Len(heard)

(* A step that neither hears nor sends, and does not leave the place where *)
(* the task sends, unless the receiver is gone.                            *)
LEMMA LostQuiet ==
  ASSUME LostInv, UNCHANGED <<api, heard, sent>>,
         task' = "idle" => task = "idle" /\ UNCHANGED rx,
         task' = "send" => task = "send" /\ UNCHANGED hand,
         rx = "dropped" => rx' = "dropped",
         task = "send" => task' = "send" \/ rx' = "dropped"
  PROVE  LostInv'
<1>1. ASSUME NEW i PROVE Due(i)' <=> Due(i)
  BY DEF Due, Carries
<1>2. ASSUME NEW i PROVE Told(i)' <=> Told(i)
  BY DEF Told
<1>3. NothingLost'
  BY <1>1, <1>2 DEF LostInv, NothingLost
<1>4. QED
  BY <1>1, <1>3 DEF LostInv

(* An event is heard: it is in the hand, or it is none of those owed.      *)
LEMMA LostHear ==
  ASSUME StreamInv, LostInv, NEW e \in Events[api], Hear(e)
  PROVE  LostInv'
<1>n. PICK n : n = Len(heard) + 1
  OBVIOUS
<1>t. /\ heard \in Seq(Events[api]) /\ sent \in Seq(Chunks) /\ Len(heard) \in Nat
      /\ Len(sent) \in Nat /\ api \in {"chat", "responses"} /\ task = "listen"
  BY LenProperties DEF StreamInv, StreamTypeOK, Hear
<1>1. /\ heard' = Append(heard, e) /\ UNCHANGED <<api, rx, sent>>
      /\ Len(heard') = n /\ heard'[n] = e
      /\ \A i \in 1..Len(heard) : heard'[i] = heard[i]
  BY <1>t, <1>n, AppendProperties DEF Hear, channel
<1>2. ASSUME NEW i \in 1..Len(heard) PROVE Due(i)' <=> Due(i)
  BY <1>t, <1>1 DEF Due, Carries
<1>3. Due(n)' <=> KindOf(e) # "none"
  <2>1. KindOf(e) # "none" <=> Carries(e)
    BY <1>t, KindType
  <2>2. n \in 1..Len(heard')
    BY <1>t, <1>n, <1>1
  <2>3. QED
    BY <1>1, <2>1, <2>2 DEF Due, Carries
<1>4. ASSUME NEW i PROVE Told(i)' <=> Told(i)
  BY <1>1 DEF Told
<1>5. \A k \in 1..Len(sent) : sent[k].of \in Nat /\ sent[k].of < n
  <2>1. TAKE k \in 1..Len(sent)
  <2>2. sent[k] \in Chunks
    BY <1>t, ElementOfSeq
  <2>3. sent[k].of \in Nat
    BY <2>2, StreamAssumption DEF Chunks
  <2>4. sent[k].of # 0 => sent[k].of \in 1..Len(heard)
    BY DEF LostInv, NothingLost, Due
  <2>5. QED
    BY <1>t, <1>n, <2>3, <2>4
<1>6. KindOf(e) = "none" => task' = "listen"
  BY <1>t DEF Hear
<1>7. KindOf(e) # "none" => task' = "send" /\ hand'.of = n
  BY <1>n DEF Hear, Chunk
<1>8. ASSUME NEW k \in 1..Len(sent'), NEW o, o = sent'[k].of, o # 0
      PROVE  Due(o)' /\ \A j \in 1..k - 1 : sent'[j].of < o
  <2>1. o \in 1..Len(heard) /\ Due(o)
    BY <1>1, <1>8 DEF LostInv, NothingLost, Due
  <2>2. Due(o)'
    BY <1>2, <2>1
  <2>3. QED
    BY <1>1, <1>8, <2>2 DEF LostInv, NothingLost
<1>9. ASSUME NEW i \in 1..Len(heard'), Due(i)'
      PROVE  \/ Told(i)'
             \/ /\ rx' = "dropped" \/ (task' = "send" /\ i = Len(heard'))
                /\ \A k \in 1..Len(sent') : sent'[k].of < i
  <2>1. CASE i \in 1..Len(heard)
    <3>1. \/ Told(i)
          \/ rx = "dropped" /\ \A k \in 1..Len(sent) : sent[k].of < i
      BY <1>t, <1>2, <1>9, <2>1 DEF LostInv, NothingLost
    <3>2. QED
      BY <1>1, <1>4, <3>1
  <2>2. CASE i = n
    BY <1>n, <1>1, <1>3, <1>5, <1>7, <1>9, <2>2
  <2>3. i \in 1..Len(heard) \/ i = n
    BY <1>t, <1>n, <1>1
  <2>4. QED
    BY <2>1, <2>2, <2>3
<1>10. NothingLost'
  <2>1. (\A k \in 1..Len(sent) : sent[k].of # 0 =>
           Due(sent[k].of) /\ \A j \in 1..k - 1 : sent[j].of < sent[k].of)'
    BY <1>8 DEF Due, Carries
  <2>2. QED
    BY <1>9, <2>1 DEF NothingLost, Due, Carries
<1>11. QED
  BY <1>1, <1>3, <1>5, <1>6, <1>7, <1>10 DEF LostInv

(* A chunk is put in the channel: what the task had in hand, or the error  *)
(* of its own, which is of no event.                                       *)
LEMMA LostPut ==
  ASSUME StreamInv, LostInv, hand \in Chunks, Put, rx = "open", UNCHANGED <<api, heard>>,
         task' \notin {"idle", "send"},
         task = "send" \/ (task # "send" /\ hand.of = 0)
  PROVE  LostInv'
<1>n. PICK n : n = Len(sent) + 1
  OBVIOUS
<1>t. /\ heard \in Seq(Events[api]) /\ sent \in Seq(Chunks) /\ Len(heard) \in Nat
      /\ Len(sent) \in Nat
  BY LenProperties DEF StreamInv, StreamTypeOK
<1>1. /\ Len(sent') = n /\ sent'[n] = hand /\ rx' = "open"
      /\ \A i \in 1..Len(sent) : sent'[i] = sent[i]
  BY <1>t, <1>n, PutSeq DEF Put
<1>2. ASSUME NEW i PROVE Due(i)' <=> Due(i)
  BY DEF Due, Carries
<1>3. ASSUME NEW i PROVE Told(i)' <=> Told(i) \/ hand.of = i
  BY <1>t, <1>n, <1>1 DEF Told
<1>4. task = "send" =>
        /\ Due(Len(heard)) /\ hand.of = Len(heard)
        /\ \A k \in 1..Len(sent) : sent[k].of < Len(heard)
  BY DEF LostInv
<1>5. ASSUME NEW k \in 1..Len(sent'), NEW o, o = sent'[k].of, o # 0
      PROVE  Due(o)' /\ \A j \in 1..k - 1 : sent'[j].of < o
  <2>1. CASE k \in 1..Len(sent)
    <3>1. o = sent[k].of
      BY <1>1, <1>5, <2>1
    <3>2. Due(o) /\ \A j \in 1..k - 1 : sent[j].of < o
      BY <1>5, <2>1, <3>1 DEF LostInv, NothingLost
    <3>3. \A j \in 1..k - 1 : j \in 1..Len(sent)
      BY <1>t, <2>1
    <3>4. QED
      BY <1>1, <1>2, <3>2, <3>3
  <2>2. CASE k = n
    <3>1. task = "send" /\ o = hand.of
      BY <1>1, <1>5, <2>2
    <3>2. Due(o) /\ \A j \in 1..Len(sent) : sent[j].of < o
      BY <1>4, <3>1
    <3>3. QED
      BY <1>t, <1>n, <1>1, <1>2, <2>2, <3>2
  <2>3. QED
    BY <1>t, <1>n, <1>1, <2>1, <2>2
<1>6. ASSUME NEW i \in 1..Len(heard'), Due(i)'
      PROVE  Told(i)'
  <2>1. Due(i) /\ i \in 1..Len(heard)
    BY <1>2, <1>6
  <2>2. Told(i) \/ (task = "send" /\ i = Len(heard))
    BY <2>1 DEF LostInv, NothingLost
  <2>3. QED
    BY <1>3, <1>4, <2>2
<1>7. NothingLost'
  <2>1. (\A k \in 1..Len(sent) : sent[k].of # 0 =>
           Due(sent[k].of) /\ \A j \in 1..k - 1 : sent[j].of < sent[k].of)'
    BY <1>5 DEF Due, Carries
  <2>2. QED
    BY <1>6, <2>1 DEF NothingLost, Due, Carries
<1>8. QED
  BY <1>7 DEF LostInv

(* Nothing is lost on the way to a consumer that stays.                    *)
LEMMA NextLost ==
  ASSUME StreamInv, LostInv, StreamNext
  PROVE  LostInv'
<1> USE DEF channel
<1>0. StreamTypeOK /\ Standing /\ (task = "idle" => rx = "none")
  BY DEF StreamInv, LostInv
<1>1. ASSUME NEW deadline \in BOOLEAN, Open(deadline) \/ Refuse
      PROVE  LostInv'
  <2>1. /\ UNCHANGED <<api, heard, sent>> /\ task = "idle" /\ task' \in {"call", "over"}
        /\ rx = "none"
    BY <1>0, <1>1 DEF Open, Refuse
  <2>2. QED
    BY <2>1, LostQuiet
<1>2. CASE Accepted \/ Rejected \/ Resealed \/ Done \/ SendFails
  <2>1. /\ UNCHANGED <<api, heard, sent, rx>> /\ task' \notin {"idle", "send"}
        /\ task = "send" => rx = "dropped"
    BY <1>2 DEF Accepted, Rejected, Resealed, Done, SendFails, Become
  <2>2. QED
    BY <2>1, LostQuiet
<1>3. CASE CallFails \/ ResealFails \/ Closes
  <2>1. UNCHANGED <<api, heard, sent, rx>> /\ task' = "failing" /\ task # "send"
    BY <1>3 DEF CallFails, ResealFails, Closes, Fail
  <2>2. QED
    BY <2>1, LostQuiet
<1>4. ASSUME NEW e \in Events[api], Hear(e)
      PROVE  LostInv'
  BY <1>4, LostHear
<1>5. CASE Send
  <2>1. /\ hand \in Chunks /\ Put /\ rx = "open" /\ UNCHANGED <<api, heard>>
        /\ task = "send" /\ task' \in {"completed", "listen"}
    BY <1>0, <1>5 DEF Send, Standing, AfterSend
  <2>2. QED
    BY <2>1, LostPut
<1>6. CASE SendError
  <2>1. /\ hand = Chunk("Error", 0) /\ task = "failing" /\ task' = "failed"
        /\ UNCHANGED <<api, heard>>
    BY <1>0, <1>6 DEF SendError, Standing
  <2>2. CASE rx = "open" /\ Put
    <3>1. hand \in Chunks /\ hand.of = 0
      BY <2>1, StreamAssumption DEF Chunk, Chunks, Terminal
    <3>2. QED
      BY <2>1, <2>2, <3>1, LostPut
  <2>3. CASE rx = "dropped" /\ UNCHANGED channel
    BY <2>1, <2>3, LostQuiet
  <2>4. QED
    BY <1>6, <2>2, <2>3 DEF SendError
<1>7. CASE Finish
  <2>1. UNCHANGED <<api, heard, sent, rx>> /\ task' = "over" /\ task # "send"
    BY <1>7 DEF Finish, Stamp
  <2>2. QED
    BY <2>1, LostQuiet
<1>8. CASE Expire \/ Recv \/ DropReceiver
  <2>1. /\ UNCHANGED <<api, task, hand, heard, sent>>
        /\ rx # "open" => rx' = rx
    BY <1>8 DEF Expire, Recv, DropReceiver
  <2>2. task = "idle" => UNCHANGED rx
    BY <1>0, <2>1
  <2>3. QED
    BY <2>1, <2>2, LostQuiet
<1>9. CASE Vendor
  BY <1>2, <1>3, <1>4, <1>9 DEF Vendor
<1>10. CASE Working
  BY <1>2, <1>3, <1>5, <1>6, <1>7, <1>10 DEF Working
<1>11. QED
  BY ONLY <1>1, <1>8, <1>9, <1>10, StreamNext DEF StreamNext

(* Every event that is owed reaches a consumer that stays, once and in     *)
(* order, whatever the capacity of the channel (streaming.rs run).         *)
THEOREM LossCorrect == StreamSpec => []NothingLost
<1>1. StreamInit => LostInv
  BY EmptyType DEF StreamInit, LostInv, NothingLost, Due
<1>2. StreamInv /\ LostInv /\ [StreamNext]_streamVars => LostInv'
  <2>1. CASE UNCHANGED streamVars
    BY <2>1, LostQuiet DEF streamVars, channel
  <2>2. QED
    BY <2>1, NextLost
<1>3. LostInv => NothingLost
  BY DEF LostInv
<1>4. QED
  BY <1>1, <1>2, <1>3, StreamInvariant, PTL DEF StreamSpec

-----------------------------------------------------------------------------
(* complete: the request, the answer and the estimate.                     *)

\* A set of numbers has a least one.
LEMMA NatMin ==
  ASSUME NEW T \in SUBSET Nat, T # {}
  PROVE  \E x \in T : \A y \in T : x <= y
<1> DEFINE R == {p \in Nat \X Nat : p[1] < p[2]}
<1>1. IsWellFoundedOn(R, Nat)
  BY NatLessThanWellFounded, Zenon DEF OpToRel
<1> HIDE DEF R
<1>2. PICK x \in T : \A y \in T : ~ (<<y, x>> \in R)
  BY <1>1, WFMin
<1>3. \A y \in T : ~(y < x)
  BY <1>2 DEF R, OpToRel
<1> QED BY <1>3

\* FlattenSeq of the library, unfolded.
LEMMA FlattenIs ==
  ASSUME NEW seqs, NEW n \in Nat \ {0}, Len(seqs) = n
  PROVE  FlattenSeq(seqs) =
           (CHOOSE f : f = [i \in 1..n |-> IF i = 1 THEN seqs[i] ELSE f[i - 1] \o seqs[i]])[n]
  BY DEF FlattenSeq

\* The recursive function it takes the last value of exists.
LEMMA FlattenSteps ==
  ASSUME NEW seqs, NEW n \in Nat
  PROVE  \E f : f = [i \in 1..n |-> IF i = 1 THEN seqs[i] ELSE f[i - 1] \o seqs[i]]
<1> DEFINE T == {k \in Nat :
                   ~ \E f : f = [i \in 1..k |->
                                  IF i = 1 THEN seqs[i] ELSE f[i - 1] \o seqs[i]]}
<1> SUFFICES ASSUME T # {} PROVE FALSE
  OBVIOUS
<1>0. T \in SUBSET Nat
  OBVIOUS
<1>1. PICK k \in T : \A j \in T : k <= j
  BY <1>0, NatMin
<1>2. k # 0
  <2> SUFFICES ASSUME k = 0 PROVE FALSE
    OBVIOUS
  <2> DEFINE f == [i \in 1..k |-> seqs[i]]
  <2>1. f = [i \in 1..k |-> IF i = 1 THEN seqs[i] ELSE f[i - 1] \o seqs[i]]
    OBVIOUS
  <2> HIDE DEF f
  <2> QED BY <2>1
<1>3. k - 1 \in Nat /\ k - 1 \notin T
  <2> HIDE DEF T
  <2>1. k \in Nat
    BY <1>0
  <2> QED BY <1>1, <1>2, <2>1
<1>4. PICK f : f = [i \in 1..(k - 1) |-> IF i = 1 THEN seqs[i] ELSE f[i - 1] \o seqs[i]]
  BY <1>3
<1> DEFINE g == [i \in 1..k |->
                   IF i = k THEN (IF i = 1 THEN seqs[i] ELSE f[i - 1] \o seqs[i])
                   ELSE f[i]]
<1>5. \A i \in 1..(k - 1) : f[i] = IF i = 1 THEN seqs[i] ELSE f[i - 1] \o seqs[i]
  BY <1>4, Zenon
<1>6. \A i \in 1..k : i # 1 => g[i - 1] = f[i - 1]
  BY <1>3
<1>7. \A i \in 1..k : g[i] = IF i = 1 THEN seqs[i] ELSE g[i - 1] \o seqs[i]
  <2> SUFFICES ASSUME NEW i \in 1..k
               PROVE  g[i] = IF i = 1 THEN seqs[i] ELSE g[i - 1] \o seqs[i]
    OBVIOUS
  <2>1. CASE i = k
    <3>1. g[i] = IF i = 1 THEN seqs[i] ELSE f[i - 1] \o seqs[i]
      BY <2>1
    <3> HIDE DEF g
    <3> QED BY <1>6, <3>1
  <2>2. CASE i # k
    <3>1. g[i] = f[i] /\ i \in 1..(k - 1)
      BY <2>2, <1>3
    <3> HIDE DEF g
    <3> QED BY <1>5, <1>6, <3>1
  <2> QED BY <2>1, <2>2
<1>8. g = [i \in 1..k |-> g[i]]
  OBVIOUS
<1> HIDE DEF g
<1>9. g = [i \in 1..k |-> IF i = 1 THEN seqs[i] ELSE g[i - 1] \o seqs[i]]
  BY <1>7, <1>8
<1> QED BY <1>1, <1>9

\* One tool call is before another: in an earlier item, or earlier in the same.
Follows(p, q) == \/ p[1] < q[1]
                 \/ p[1] = q[1] /\ p[2] < q[2]

\* A sequence of tool calls of the first k items: each, once, in order.
Lists(s, items, k) ==
  /\ s \in Seq(Nat \X Nat)
  /\ \A m \in 1..Len(s) : s[m][1] \in 1..k /\ s[m][2] \in 1..items[s[m][1]].calls
  /\ \A i \in 1..k : \A j \in 1..items[i].calls : \E m \in 1..Len(s) : s[m] = <<i, j>>
  /\ \A m, o \in 1..Len(s) : m < o => Follows(s[m], s[o])

\* The tool calls of one item.
LEMMA OfOneItem ==
  ASSUME NEW items, NEW i \in Nat \ {0}, items[i].calls \in Nat
  PROVE  /\ CallsOf(items, i) \in Seq(Nat \X Nat)
         /\ Len(CallsOf(items, i)) = items[i].calls
         /\ \A j \in 1..items[i].calls : CallsOf(items, i)[j] = <<i, j>>
  BY DEF CallsOf

\* Those of the next item, added at the end, keep the list in order.
LEMMA OneMore ==
  ASSUME NEW items, NEW k \in Nat \ {0}, items[k].calls \in Nat, NEW s, Lists(s, items, k - 1)
  PROVE  Lists(s \o CallsOf(items, k), items, k)
<1> DEFINE t == CallsOf(items, k)
           r == s \o t
           n == items[k].calls
<1>1. t \in Seq(Nat \X Nat) /\ Len(t) = n /\ n \in Nat
  BY OfOneItem
<1>2. \A j \in 1..n : t[j] = <<k, j>>
  BY OfOneItem
<1>3. s \in Seq(Nat \X Nat)
  BY DEF Lists
<1>4. \A m \in 1..Len(s) : s[m][1] \in 1..(k - 1) /\ s[m][2] \in 1..items[s[m][1]].calls
  BY DEF Lists
<1>5. \A i \in 1..(k - 1) : \A j \in 1..items[i].calls : \E m \in 1..Len(s) : s[m] = <<i, j>>
  BY DEF Lists
<1>6. \A m, o \in 1..Len(s) : m < o => Follows(s[m], s[o])
  BY DEF Lists
<1> HIDE DEF t, n
<1>7. r \in Seq(Nat \X Nat) /\ Len(r) = Len(s) + n
  BY <1>1, <1>3, ConcatProperties
<1>8. \A m \in 1..Len(s) : r[m] = s[m]
  BY <1>1, <1>3
<1>9. \A j \in 1..n : r[Len(s) + j] = <<k, j>>
  BY <1>1, <1>2, <1>3
<1>10. Len(s) \in Nat
  BY <1>3
<1> HIDE DEF r
<1>11. ASSUME NEW m \in 1..Len(r)
       PROVE  \/ m \in 1..Len(s) /\ r[m] = s[m]
              \/ m - Len(s) \in 1..n /\ r[m] = <<k, m - Len(s)>>
  <2>1. CASE m <= Len(s)
    BY <2>1, <1>8, <1>10
  <2>2. CASE ~(m <= Len(s))
    <3>1. m - Len(s) \in 1..n /\ Len(s) + (m - Len(s)) = m
      BY <2>2, <1>1, <1>7, <1>10
    <3> QED BY <1>9, <3>1
  <2> QED BY <2>1, <2>2
<1>12. \A m \in 1..Len(r) : r[m][1] \in 1..k /\ r[m][2] \in 1..items[r[m][1]].calls
  <2>1. TAKE m \in 1..Len(r)
  <2>2. CASE m \in 1..Len(s) /\ r[m] = s[m]
    BY <1>4, <2>2
  <2>3. CASE m - Len(s) \in 1..n /\ r[m] = <<k, m - Len(s)>>
    <3>1. r[m][1] = k /\ r[m][2] \in 1..items[k].calls
      BY <2>3 DEF n
    <3>2. k \in 1..k
      OBVIOUS
    <3> QED BY <3>1, <3>2
  <2> QED BY <1>11, <2>2, <2>3
<1>13. ASSUME NEW i \in 1..k, NEW j \in 1..items[i].calls
       PROVE  \E m \in 1..Len(r) : r[m] = <<i, j>>
  <2>1. CASE i = k
    <3>1. j \in 1..n
      BY <2>1 DEF n
    <3>2. Len(s) + j \in 1..Len(r)
      BY <3>1, <1>1, <1>7, <1>10
    <3> QED BY <2>1, <3>1, <3>2, <1>9
  <2>2. CASE i # k
    <3>0. i \in 1..(k - 1)
      BY <2>2
    <3>1. PICK m \in 1..Len(s) : s[m] = <<i, j>>
      BY <3>0, <1>5
    <3>2. m \in 1..Len(r)
      BY <1>1, <1>7, <1>10
    <3> QED BY <3>1, <3>2, <1>8
  <2> QED BY <2>1, <2>2
<1>14. ASSUME NEW m \in 1..Len(r), NEW o \in 1..Len(r), m < o
       PROVE  Follows(r[m], r[o])
  <2>1. CASE o \in 1..Len(s) /\ r[o] = s[o]
    <3>1. m \in 1..Len(s)
      BY <1>10, <1>14, <2>1
    <3> QED BY <1>6, <1>8, <1>14, <2>1, <3>1
  <2>2. CASE o - Len(s) \in 1..n /\ r[o] = <<k, o - Len(s)>>
    <3>1. CASE m \in 1..Len(s) /\ r[m] = s[m]
      <4>1. r[m][1] \in 1..(k - 1) /\ r[o][1] = k
        BY <1>4, <2>2, <3>1
      <4>2. r[m][1] < k
        BY <4>1
      <4>3. r[m][1] < r[o][1]
        BY <4>1, <4>2
      <4> QED BY <4>3 DEF Follows
    <3>2. CASE m - Len(s) \in 1..n /\ r[m] = <<k, m - Len(s)>>
      BY <1>10, <1>14, <2>2, <3>2 DEF Follows
    <3> QED BY <3>1, <3>2, <1>11
  <2> QED BY <2>1, <2>2, <1>11
<1>15. Lists(r, items, k)
  BY <1>7, <1>12, <1>13, <1>14 DEF Lists
<1> QED BY <1>15 DEF r, t

\* AllCalls of an answer lists the calls of all its items.
LEMMA AllListed ==
  ASSUME NEW n \in Nat, NEW items, Len(items) = n, DOMAIN items = 1..n,
         \A i \in 1..n : items[i].calls \in Nat
  PROVE  Lists(AllCalls(items), items, n)
<1> DEFINE seqs == [i \in 1..n |-> CallsOf(items, i)]
<1>1. AllCalls(items) = FlattenSeq(seqs) /\ Len(seqs) = n
  BY DEF AllCalls
<1>2. CASE n = 0
  <2>1. AllCalls(items) = <<>>
    BY <1>1, <1>2 DEF FlattenSeq
  <2> QED BY <1>2, <2>1 DEF Lists
<1>3. CASE n # 0
  <2> DEFINE f == CHOOSE g : g = [i \in 1..n |->
                                   IF i = 1 THEN seqs[i] ELSE g[i - 1] \o seqs[i]]
  <2> HIDE DEF seqs
  <2>0. AllCalls(items) = f[n]
    BY <1>1, <1>3, FlattenIs
  <2>1. f = [i \in 1..n |-> IF i = 1 THEN seqs[i] ELSE f[i - 1] \o seqs[i]]
    BY FlattenSteps
  <2> HIDE DEF f
  <2>2. /\ f[1] = CallsOf(items, 1)
        /\ \A i \in 1..n : i # 1 => f[i] = f[i - 1] \o CallsOf(items, i)
    <3>0. \A i \in 1..n : f[i] = IF i = 1 THEN seqs[i] ELSE f[i - 1] \o seqs[i]
      BY <2>1, Zenon
    <3>4. 1 \in 1..n
      BY <1>3
    <3>1. f[1] = seqs[1]
      BY <3>0, <3>4, Zenon
    <3>5. \A i \in 1..n : i # 1 => f[i] = f[i - 1] \o seqs[i]
      BY <3>0, Zenon
    <3>2. \A i \in 1..n : seqs[i] = CallsOf(items, i)
      BY DEF seqs
    <3> HIDE DEF seqs
    <3> QED BY <3>1, <3>2, <3>4, <3>5, Zenon
  <2> DEFINE T == {k \in 1..n : ~ Lists(f[k], items, k)}
  <2> SUFFICES ASSUME T # {} PROVE FALSE
    <3>1. n \in 1..n
      BY <1>3
    <3> QED BY <2>0, <3>1
  <2>3. T \in SUBSET Nat
    OBVIOUS
  <2>4. PICK k \in T : \A j \in T : k <= j
    BY <2>3, NatMin
  <2>5. k \in 1..n /\ ~Lists(f[k], items, k)
    BY <2>4
  <2>6. k # 1 => k - 1 \in 1..n /\ k - 1 \notin T
    <3>1. k \in Nat
      BY <2>5
    <3> HIDE DEF T
    <3> QED BY <2>4, <2>5, <3>1
  <2>7. CASE k = 1
    <3>1. Lists(<<>>, items, 0)
      BY DEF Lists
    <3>0. 1 - 1 = 0 /\ 1 \in Nat \ {0} /\ items[1].calls \in Nat
      BY <2>5, <2>7
    <3>2. Lists(<<>> \o CallsOf(items, 1), items, 1)
      BY <3>0, <3>1, OneMore
    <3>3. CallsOf(items, 1) \in Seq(Nat \X Nat)
      BY <2>5, <2>7, OfOneItem
    <3>4. <<>> \o CallsOf(items, 1) = CallsOf(items, 1)
      BY <3>3
    <3> QED BY <2>2, <2>5, <2>7, <3>2, <3>4
  <2>8. CASE k # 1
    <3>1. Lists(f[k - 1], items, k - 1)
      BY <2>6, <2>8
    <3>2. Lists(f[k - 1] \o CallsOf(items, k), items, k)
      BY <2>5, <3>1, OneMore
    <3> QED BY <2>2, <2>5, <2>8, <3>2
  <2> QED BY <2>7, <2>8
<1> QED BY <1>2, <1>3

\* What CallsKept asks of the calls of an answer.
LEMMA ListKept ==
  ASSUME NEW n \in Nat, NEW items, DOMAIN items = 1..n,
         \A i \in 1..n : items[i].calls \in Nat,
         NEW s, Lists(s, items, n)
  PROVE  LET all == UNION {{<<i, k>> : k \in 1..items[i].calls} : i \in 1..n}
         IN  /\ Range(s) = all /\ Len(s) = Cardinality(all)
             /\ \A m, o \in DOMAIN s : m < o => Follows(s[m], s[o])
             /\ s # <<>> <=> all # {}
<1> DEFINE all == UNION {{<<i, k>> : k \in 1..items[i].calls} : i \in 1..n}
<1>1. s \in Seq(Nat \X Nat) /\ DOMAIN s = 1..Len(s) /\ Len(s) \in Nat
  BY DEF Lists
<1>2. \A m \in 1..Len(s) : s[m] \in all
  <2> SUFFICES ASSUME NEW m \in 1..Len(s) PROVE s[m] \in all
    OBVIOUS
  <2>1. s[m] = <<s[m][1], s[m][2]>>
    BY <1>1
  <2> QED BY <2>1 DEF Lists
<1>3. ASSUME NEW p \in all PROVE \E m \in 1..Len(s) : s[m] = p
  <2>1. PICK i \in 1..n : p \in {<<i, k>> : k \in 1..items[i].calls}
    OBVIOUS
  <2>2. PICK k \in 1..items[i].calls : p = <<i, k>>
    BY <2>1
  <2> QED BY <2>2 DEF Lists
<1> HIDE DEF all
<1>4. Range(s) = all
  BY <1>1, <1>2, <1>3 DEF Range
<1>5. \A m, o \in 1..Len(s) : s[m] = s[o] => m = o
  <2> SUFFICES ASSUME NEW m \in 1..Len(s), NEW o \in 1..Len(s), s[m] = s[o], m < o PROVE FALSE
    <3>1. \A m, o \in 1..Len(s) : s[m] = s[o] => ~(m < o) /\ ~(o < m)
      OBVIOUS
    <3> QED BY <1>1, <3>1
  <2>1. Follows(s[m], s[o])
    BY DEF Lists
  <2>2. s[m] \in Nat \X Nat
    BY <1>1
  <2> QED BY <2>1, <2>2 DEF Follows
<1>6. s \in Bijection(1..Len(s), all)
  <2>1. s \in [1..Len(s) -> all]
    BY <1>1, <1>2
  <2> QED BY <2>1, <1>3, <1>5, Fun_IsBij
<1>7. IsFiniteSet(1..Len(s)) /\ Cardinality(1..Len(s)) = Len(s)
  <2>0. 1 \in Int /\ Len(s) \in Int
    BY <1>1
  <2>1. /\ IsFiniteSet(1..Len(s))
        /\ Cardinality(1..Len(s)) = IF 1 > Len(s) THEN 0 ELSE Len(s) - 1 + 1
    BY <2>0, FS_Interval
  <2> QED BY <1>1, <2>1
<1>8. Cardinality(all) = Len(s)
  BY <1>6, <1>7, FS_Bijection DEF ExistsBijection
<1>9. \A m, o \in DOMAIN s : m < o => Follows(s[m], s[o])
  BY <1>1 DEF Lists
<1>10. s # <<>> <=> all # {}
  BY <1>1, <1>2, <1>3
<1> QED BY <1>4, <1>8, <1>9, <1>10 DEF all

\* Where a call of complete may be.
ExchangeStages ==
  {"idle", "request", "wire", "answered", "published", "failed", "ok", "err", "gone"}

\* Some completion in the audit trail has this many tokens of prompt.
Measured(n) == \E j \in 1..Len(trail) : trail[j].event = "Completed" /\ trail[j].prompt = n

\* Where an estimate comes from, wherever it is.
EstimateInv ==
  /\ estimate # Absent => Measured(estimate)
  /\ \A c \in CompleteCalls : guess[c] # Absent => Measured(guess[c])
  /\ \A c \in CompleteCalls : exchangePc[c] = "published" => Measured(given[c].usage)
  /\ EstimateIsPast

\* What a call has of the vendor, by where it is.
GivenInv ==
  \A c \in CompleteCalls :
    /\ exchangePc[c] \in {"idle", "request", "wire"} => given[c] = Absent
    /\ exchangePc[c] \in {"answered", "published", "ok"} => given[c] \in Answers[adapter]
    /\ exchangePc[c] = "ok" => response[c] = CompletionResponse(given[c])

\* The inductive invariant: CallsKept follows from it, an answer in hand.
ExchangeInv ==
  /\ adapter \in DOMAIN Answers
  /\ exchangePc \in [CompleteCalls -> ExchangeStages]
  /\ DOMAIN guess = CompleteCalls /\ guess = [c \in CompleteCalls |-> guess[c]]
  /\ DOMAIN given = CompleteCalls /\ given = [c \in CompleteCalls |-> given[c]]
  /\ DOMAIN response = CompleteCalls /\ response = [c \in CompleteCalls |-> response[c]]
  /\ DOMAIN failure = CompleteCalls /\ failure = [c \in CompleteCalls |-> failure[c]]
  /\ \E S : trail \in Seq(S)
  /\ EstimateInv /\ GivenInv /\ RetryIsWorthIt

\* A refusal that is Unavailable or a Timeout is one of a status that may pass.
LEMMA ErrorsTrue ==
  ASSUME NEW s \in Statuses, ErrorKind[HttpError(s)] \in {"Unavailable", "Timeout"}
  PROVE  s.status \in {408, 429} \cup 500..599
<1>1. s.status \in Nat
  BY StatusAssumption
<1>2. /\ ErrorKind["AuthenticationFailed"] = "Unauthorized"
      /\ ErrorKind["ModelNotFound"] = "NotFound"
      /\ ErrorKind["InvalidRequest"] = "Internal"
      /\ ErrorKind["ContextLengthExceeded"] = "CapabilityUnsupported"
      /\ ErrorKind["ToolNotFound"] = "NotFound"
      /\ ErrorKind["ContentPolicyViolation"] = "CapabilityUnsupported"
      /\ ErrorKind["Internal"] = "Internal"
  BY DEF ErrorKind
<1>3. DOMAIN BadRequest =
        {"context_length_exceeded", "tool_not_found", "content_policy_violation"}
  BY DEF BadRequest
<1>4. \A code \in DOMAIN BadRequest :
        BadRequest[code] \in {"ContextLengthExceeded", "ToolNotFound",
                              "ContentPolicyViolation"}
  BY <1>3 DEF BadRequest
<1> DEFINE Lasting == {"AuthenticationFailed", "ModelNotFound", "InvalidRequest",
                       "Internal", "ContextLengthExceeded", "ToolNotFound",
                       "ContentPolicyViolation"}
<1>5. ASSUME NEW n \in Nat, NEW code, n \notin {429} \cup 500..599
      PROVE  ResponsesError(n, code) \in Lasting
  BY <1>4, <1>5 DEF ResponsesError
<1>6. ASSUME NEW n \in Nat, NEW code, n \notin {408, 429} \cup 500..599
      PROVE  ChatError(n, code) \in Lasting
  BY <1>5, <1>6 DEF ChatError
<1>7. s.status \in {408, 429} \cup 500..599 \/ HttpError(s) \in Lasting
  BY <1>1, <1>5, <1>6 DEF HttpError
<1> QED BY <1>2, <1>7

\* The trail only grows, and what it holds stays at its place.
LEMMA TrailGrows ==
  ASSUME NEW event, PublishEvent(event), \E S : trail \in Seq(S)
  PROVE  /\ \E S : trail' \in Seq(S)
         /\ Len(trail') = Len(trail) + 1 /\ Len(trail) \in Nat
         /\ \A i \in 1..Len(trail) : trail'[i] = trail[i]
         /\ trail'[Len(trail) + 1] = event
<1>1. PICK S : trail \in Seq(S)
  OBVIOUS
<1>2. /\ trail \in Seq(S \cup {event}) /\ event \in S \cup {event}
      /\ trail' = Append(trail, event)
  BY <1>1 DEF PublishEvent
<1>3. trail' \in Seq(S \cup {event})
  BY <1>2
<1> QED BY <1>2, <1>3

\* The initial states.
LEMMA ExchangeInitInv == ASSUME EInit PROVE ExchangeInv
<1>1. trail \in Seq({})
  BY DEF EInit
<1>2. EstimateInv /\ GivenInv /\ RetryIsWorthIt
  BY DEF EInit, EstimateInv, GivenInv, RetryIsWorthIt, EstimateIsPast
<1> QED BY <1>1, <1>2 DEF EInit, ExchangeInv, ExchangeStages

\* A step of the call at c.
OfCall(c) ==
  \/ \E q \in Requests : Ask(c, q)
  \/ PublishRequested(c) \/ Receive(c) \/ Refused(c) \/ Broken(c)
  \/ PublishCompleted(c) \/ Complete(c) \/ PublishFailed(c) \/ DropComplete(c)

\* It leaves the other calls what they have.
LEMMA OneCompletes ==
  ASSUME ExchangeInv, NEW c \in CompleteCalls, OfCall(c)
  PROVE  /\ adapter' = adapter
         /\ exchangePc' \in [CompleteCalls -> ExchangeStages]
         /\ DOMAIN guess' = CompleteCalls /\ guess' = [d \in CompleteCalls |-> guess'[d]]
         /\ DOMAIN given' = CompleteCalls /\ given' = [d \in CompleteCalls |-> given'[d]]
         /\ DOMAIN response' = CompleteCalls
         /\ response' = [d \in CompleteCalls |-> response'[d]]
         /\ DOMAIN failure' = CompleteCalls
         /\ failure' = [d \in CompleteCalls |-> failure'[d]]
         /\ \A d \in CompleteCalls \ {c} :
              /\ exchangePc'[d] = exchangePc[d] /\ guess'[d] = guess[d]
              /\ given'[d] = given[d] /\ response'[d] = response[d]
              /\ failure'[d] = failure[d]
<1> USE DEF OfCall, Ask, PublishRequested, Receive, Refused, Broken, PublishCompleted,
            Complete, PublishFailed, DropComplete, Fails
<1>1. /\ exchangePc' \in [CompleteCalls -> ExchangeStages]
      /\ \A d \in CompleteCalls \ {c} : exchangePc'[d] = exchangePc[d]
  <2>1. \E next \in ExchangeStages : exchangePc' = [exchangePc EXCEPT ![c] = next]
    BY DEF ExchangeGoto, ExchangeStages
  <2> QED BY <2>1 DEF ExchangeInv
<1>2. /\ DOMAIN guess' = CompleteCalls /\ guess' = [d \in CompleteCalls |-> guess'[d]]
      /\ \A d \in CompleteCalls \ {c} : guess'[d] = guess[d]
  <2>1. guess' = guess \/ guess' = [guess EXCEPT ![c] = estimate]
    OBVIOUS
  <2> QED BY ONLY <2>1, ExchangeInv DEF ExchangeInv
<1>3. /\ DOMAIN given' = CompleteCalls /\ given' = [d \in CompleteCalls |-> given'[d]]
      /\ \A d \in CompleteCalls \ {c} : given'[d] = given[d]
  <2>1. given' = given \/ \E next : given' = [given EXCEPT ![c] = next]
    BY DEF wire
  <2> QED BY ONLY <2>1, ExchangeInv DEF ExchangeInv
<1>4. /\ DOMAIN response' = CompleteCalls
      /\ response' = [d \in CompleteCalls |-> response'[d]]
      /\ \A d \in CompleteCalls \ {c} : response'[d] = response[d]
  <2>1. response' = response \/ \E next : response' = [response EXCEPT ![c] = next]
    OBVIOUS
  <2> QED BY ONLY <2>1, ExchangeInv DEF ExchangeInv
<1>5. /\ DOMAIN failure' = CompleteCalls
      /\ failure' = [d \in CompleteCalls |-> failure'[d]]
      /\ \A d \in CompleteCalls \ {c} : failure'[d] = failure[d]
  <2>1. failure' = failure \/ \E next : failure' = [failure EXCEPT ![c] = next]
    OBVIOUS
  <2> QED BY ONLY <2>1, ExchangeInv DEF ExchangeInv
<1>6. adapter' = adapter
  OBVIOUS
<1> QED BY <1>1, <1>2, <1>3, <1>4, <1>5, <1>6

\* A step leaves the call with what the vendor gave it, and an error that is true.
LEMMA NextGiven ==
  ASSUME ExchangeInv, NEW c \in CompleteCalls, OfCall(c)
  PROVE  GivenInv' /\ RetryIsWorthIt'
<1> DEFINE Right == /\ exchangePc'[c] \in {"idle", "request", "wire"} => given'[c] = Absent
                    /\ exchangePc'[c] \in {"answered", "published", "ok"} =>
                         given'[c] \in Answers[adapter]
                    /\ exchangePc'[c] = "ok" =>
                         given'[c] = given[c] /\ response'[c] = CompletionResponse(given[c])
                    /\ exchangePc'[c] \in {"failed", "err"} =>
                         \/ given'[c] = Absent
                         \/ given'[c] = given[c] /\ failure'[c] = failure[c]
                            /\ exchangePc[c] \in {"failed", "err"}
                         \/ \E s \in Statuses : given'[c] = s /\ failure'[c] = HttpError(s)
<1>1. /\ adapter' = adapter
      /\ \A d \in CompleteCalls \ {c} :
           /\ exchangePc'[d] = exchangePc[d] /\ given'[d] = given[d]
           /\ response'[d] = response[d] /\ failure'[d] = failure[d]
  BY OneCompletes
<1>2. /\ exchangePc[c] \in {"idle", "request", "wire"} => given[c] = Absent
      /\ exchangePc[c] \in {"answered", "published", "ok"} => given[c] \in Answers[adapter]
  BY DEF ExchangeInv, GivenInv
<1>3. /\ \A next : ExchangeGoto(c, next) => exchangePc'[c] = next
      /\ \A next : given' = [given EXCEPT ![c] = next] => given'[c] = next
      /\ \A next : response' = [response EXCEPT ![c] = next] => response'[c] = next
      /\ \A next : failure' = [failure EXCEPT ![c] = next] => failure'[c] = next
  BY DEF ExchangeInv, ExchangeGoto
<1>4. ASSUME NEW q \in Requests, Ask(c, q) PROVE Right
  BY <1>2, <1>3, <1>4 DEF Ask
<1>5. ASSUME PublishRequested(c) PROVE Right
  BY <1>2, <1>3, <1>5 DEF PublishRequested
<1>6. ASSUME Receive(c) PROVE Right
  BY <1>2, <1>3, <1>6 DEF Receive
<1>7. ASSUME Refused(c) PROVE Right
  BY <1>2, <1>3, <1>7 DEF Refused, Fails
<1>8. ASSUME Broken(c) PROVE Right
  BY <1>2, <1>3, <1>8 DEF Broken, Fails
<1>9. ASSUME PublishCompleted(c) PROVE Right
  BY <1>2, <1>3, <1>9 DEF PublishCompleted, wire
<1>10. ASSUME Complete(c) PROVE Right
  BY <1>2, <1>3, <1>10 DEF Complete, wire
<1>11. ASSUME PublishFailed(c) PROVE Right
  BY <1>2, <1>3, <1>11 DEF PublishFailed, wire
<1>12. ASSUME DropComplete(c) PROVE Right
  BY <1>2, <1>3, <1>12 DEF DropComplete, wire
<1>13. Right
  BY <1>4, <1>5, <1>6, <1>7, <1>8, <1>9, <1>10, <1>11, <1>12, Zenon DEF OfCall
<1> HIDE DEF Right
<1>14. exchangePc'[c] = "ok" => response'[c] = CompletionResponse(given[c])'
  BY <1>1, <1>13 DEF Right, CompletionResponse
<1>15. ASSUME NEW d \in CompleteCalls \ {c}, exchangePc'[d] = "ok"
       PROVE  response'[d] = CompletionResponse(given[d])'
  <2>1. response[d] = CompletionResponse(given[d])
    BY <1>1, <1>15 DEF ExchangeInv, GivenInv
  <2> QED BY <1>1, <2>1 DEF CompletionResponse
<1>16. GivenInv'
  <2>1. \A d \in CompleteCalls :
          /\ exchangePc'[d] \in {"idle", "request", "wire"} => given'[d] = Absent
          /\ exchangePc'[d] \in {"answered", "published", "ok"} =>
               given'[d] \in Answers[adapter']
    BY <1>1, <1>13 DEF Right, ExchangeInv, GivenInv
  <2> QED BY <1>14, <1>15, <2>1 DEF GivenInv
<1>17. ASSUME NEW d \in CompleteCalls, exchangePc'[d] \in {"failed", "err"},
              ErrorKind[failure'[d]] \in {"Unavailable", "Timeout"}
       PROVE  given'[d] = Absent \/ given'[d].status \in {408, 429} \cup 500..599
  <2>1. CASE \E s \in Statuses : given'[d] = s /\ failure'[d] = HttpError(s)
    BY <1>17, <2>1, ErrorsTrue
  <2>2. CASE given'[d] = given[d] /\ failure'[d] = failure[d]
             /\ exchangePc[d] \in {"failed", "err"}
    BY <1>17, <2>2 DEF ExchangeInv, RetryIsWorthIt
  <2> QED BY <1>1, <1>13, <1>17, <2>1, <2>2 DEF Right
<1>18. RetryIsWorthIt'
  BY <1>17 DEF RetryIsWorthIt
<1> QED BY <1>16, <1>18

\* Where the trail keeps what it has, what was measured still is.
LEMMA StillMeasured ==
  ASSUME Len(trail) \in Nat, Len(trail') \in Nat, Len(trail) <= Len(trail'),
         \A i \in 1..Len(trail) : trail'[i] = trail[i],
         NEW n, Measured(n)
  PROVE  Measured(n)'
<1>1. PICK j \in 1..Len(trail) : trail[j].event = "Completed" /\ trail[j].prompt = n
  BY DEF Measured
<1>2. j \in 1..Len(trail') /\ trail'[j] = trail[j]
  BY <1>1
<1> QED BY <1>1, <1>2 DEF Measured

\* A step leaves every estimate with a completion in the trail it is from.
LEMMA NextEstimate ==
  ASSUME ExchangeInv, NEW c \in CompleteCalls, OfCall(c)
  PROVE  EstimateInv' /\ \E S : trail' \in Seq(S)
<1>0. Len(trail) \in Nat /\ DOMAIN trail = 1..Len(trail) /\ \E S : trail \in Seq(S)
  BY DEF ExchangeInv
<1>1. /\ \A d \in CompleteCalls \ {c} :
           /\ exchangePc'[d] = exchangePc[d] /\ guess'[d] = guess[d] /\ given'[d] = given[d]
  BY OneCompletes
<1>2. /\ \A next : ExchangeGoto(c, next) => exchangePc'[c] = next
      /\ \A next : guess' = [guess EXCEPT ![c] = next] => guess'[c] = next
  BY DEF ExchangeInv, ExchangeGoto
<1>3. /\ estimate # Absent => Measured(estimate)
      /\ \A d \in CompleteCalls : guess[d] # Absent => Measured(guess[d])
      /\ \A d \in CompleteCalls : exchangePc[d] = "published" => Measured(given[d].usage)
      /\ EstimateIsPast
  BY DEF ExchangeInv, EstimateInv
<1>4. ASSUME UNCHANGED trail,
             estimate' # Absent => Measured(estimate'),
             guess'[c] # Absent => Measured(guess'[c]),
             exchangePc'[c] # "published"
      PROVE  EstimateInv' /\ \E S : trail' \in Seq(S)
  <2>1. \A n : Measured(n) => Measured(n)'
    BY <1>4 DEF Measured
  <2>2. EstimateIsPast'
    BY <1>3, <1>4 DEF EstimateIsPast
  <2>3. estimate' # Absent => Measured(estimate)'
    BY <1>4 DEF Measured
  <2>4. ASSUME NEW d \in CompleteCalls, guess'[d] # Absent PROVE Measured(guess[d])'
    <3>1. PICK n : n = guess'[d]
      OBVIOUS
    <3>2. Measured(n)
      BY <1>1, <1>3, <1>4, <2>4, <3>1
    <3> QED BY <1>4, <3>1, <3>2 DEF Measured
  <2>5. ASSUME NEW d \in CompleteCalls, exchangePc'[d] = "published"
        PROVE  Measured(given[d].usage)'
    <3>1. d \in CompleteCalls \ {c}
      BY <1>4, <2>5
    <3>2. given'[d] = given[d] /\ exchangePc[d] = "published"
      BY <1>1, <2>5, <3>1
    <3>3. Measured(given[d].usage)
      BY <1>3, <3>2
    <3> QED BY <1>4, <3>2, <3>3 DEF Measured
  <2>6. \E S : trail' \in Seq(S)
    BY <1>0, <1>4
  <2> QED BY <2>2, <2>3, <2>4, <2>5, <2>6 DEF EstimateInv
<1>5. ASSUME NEW event, PublishEvent(event), UNCHANGED <<estimate, guess, given>>,
             event.event = "Requested" /\ event.prompt # Absent => Measured(event.prompt),
             exchangePc'[c] = "published" =>
               event.event = "Completed" /\ event.prompt = given[c].usage
      PROVE  EstimateInv' /\ \E S : trail' \in Seq(S)
  <2>1. /\ Len(trail') = Len(trail) + 1 /\ \E S : trail' \in Seq(S)
        /\ \A i \in 1..Len(trail) : trail'[i] = trail[i]
        /\ trail'[Len(trail) + 1] = event
    BY <1>0, <1>5, TrailGrows
  <2>2. \A n : Measured(n) => Measured(n)'
    BY <1>0, <2>1, StillMeasured
  <2>3. DOMAIN trail' = 1..(Len(trail) + 1)
    BY <2>1
  <2>4. EstimateIsPast'
    <3> SUFFICES ASSUME NEW i \in DOMAIN trail', trail'[i].event = "Requested",
                        trail'[i].prompt # Absent
                 PROVE  \E j \in 1..(i - 1) : trail'[j].event = "Completed"
                                              /\ trail'[j].prompt = trail'[i].prompt
      BY DEF EstimateIsPast
    <3>1. CASE i \in 1..Len(trail)
      <4>1. trail'[i] = trail[i] /\ \A j \in 1..(i - 1) : trail'[j] = trail[j]
        BY <1>0, <2>1, <3>1
      <4>2. PICK j \in 1..(i - 1) :
              trail[j].event = "Completed" /\ trail[j].prompt = trail[i].prompt
        BY <1>0, <1>3, <3>1, <4>1 DEF EstimateIsPast
      <4> QED BY <4>1, <4>2
    <3>2. CASE i = Len(trail) + 1
      <4>1. Measured(event.prompt) /\ trail'[i] = event
        BY <1>5, <2>1, <3>2
      <4>2. PICK j \in 1..Len(trail) :
              trail[j].event = "Completed" /\ trail[j].prompt = event.prompt
        BY <4>1 DEF Measured
      <4>3. j \in 1..(i - 1) /\ trail'[j] = trail[j]
        BY <1>0, <2>1, <3>2
      <4> QED BY <4>1, <4>2, <4>3
    <3> QED BY <1>0, <2>3, <3>1, <3>2
  <2>5. estimate' # Absent => Measured(estimate)'
    <3>1. PICK n : n = estimate
      OBVIOUS
    <3>2. n # Absent => Measured(n)'
      BY <1>3, <2>2, <3>1
    <3> QED BY <1>5, <3>1, <3>2 DEF Measured
  <2>6. ASSUME NEW d \in CompleteCalls, guess'[d] # Absent PROVE Measured(guess[d])'
    <3>1. PICK n : n = guess[d]
      OBVIOUS
    <3>2. n # Absent => Measured(n)'
      BY <1>3, <2>2, <3>1
    <3> QED BY <1>5, <2>6, <3>1, <3>2 DEF Measured
  <2>7. ASSUME NEW d \in CompleteCalls, exchangePc'[d] = "published"
        PROVE  Measured(given[d].usage)'
    <3>1. PICK n : n = given[d].usage
      OBVIOUS
    <3>2. Measured(n)'
      <4>1. CASE d = c
        <5>1. Len(trail) + 1 \in 1..Len(trail')
          BY <1>0, <2>1
        <5> QED BY <1>5, <2>1, <2>7, <3>1, <4>1, <5>1 DEF Measured
      <4>2. CASE d # c
        BY <1>1, <1>3, <2>2, <2>7, <3>1, <4>2
      <4> QED BY <4>1, <4>2
    <3> QED BY <1>5, <3>1, <3>2 DEF Measured
  <2> QED BY <2>1, <2>4, <2>5, <2>6, <2>7 DEF EstimateInv
<1>6. CASE \E q \in Requests : Ask(c, q)
  BY <1>2, <1>3, <1>4, <1>6 DEF Ask
<1>7. CASE PublishRequested(c)
  <2>1. /\ PublishEvent(CompletionRequested(c)) /\ exchangePc'[c] = "wire"
        /\ UNCHANGED <<estimate, guess, given>>
    BY <1>2, <1>7 DEF PublishRequested
  <2>2. CompletionRequested(c).prompt = guess[c]
    BY DEF CompletionRequested
  <2> QED BY <1>3, <1>5, <2>1, <2>2
<1>8. CASE Receive(c) \/ Refused(c) \/ Broken(c)
  <2>1. /\ UNCHANGED <<trail, estimate, guess>> /\ exchangePc'[c] \in {"answered", "failed"}
    BY <1>2, <1>8 DEF Receive, Refused, Broken, Fails, LeaveEstimate
  <2> QED BY <1>3, <1>4, <2>1
<1>9. CASE PublishCompleted(c)
  <2>1. /\ PublishEvent(CompletionCompleted(c, given[c]))
        /\ UNCHANGED <<estimate, guess, given>>
    BY <1>9 DEF PublishCompleted, wire
  <2>2. /\ CompletionCompleted(c, given[c]).event = "Completed"
        /\ CompletionCompleted(c, given[c]).prompt = given[c].usage
    BY DEF CompletionCompleted, PromptTokens
  <2> QED BY <1>5, <2>1, <2>2
<1>10. CASE Complete(c)
  <2>1. /\ UNCHANGED <<trail, guess>> /\ exchangePc'[c] = "ok" /\ exchangePc[c] = "published"
        /\ estimate' = given[c].usage
    BY <1>2, <1>10 DEF Complete, LeaveEstimate, PromptTokens
  <2>2. Measured(estimate')
    BY <1>3, <2>1
  <2> QED BY <1>3, <1>4, <2>1, <2>2
<1>11. CASE PublishFailed(c)
  <2>1. /\ PublishEvent(CompletionFailed(c)) /\ UNCHANGED <<estimate, guess, given>>
        /\ exchangePc'[c] = "err"
    BY <1>2, <1>11 DEF PublishFailed, wire
  <2>2. CompletionFailed(c).event = "Failed"
    BY DEF CompletionFailed
  <2> QED BY <1>5, <2>1, <2>2
<1>12. CASE DropComplete(c)
  <2>1. UNCHANGED <<trail, estimate, guess>> /\ exchangePc'[c] = "gone"
    BY <1>2, <1>12 DEF DropComplete
  <2> QED BY <1>3, <1>4, <2>1
<1> QED BY <1>6, <1>7, <1>8, <1>9, <1>10, <1>11, <1>12 DEF OfCall

\* Every step keeps the invariant.
LEMMA ExchangeNextInv == ASSUME ExchangeInv, [ENext]_exchangeVars PROVE ExchangeInv'
<1>1. CASE UNCHANGED exchangeVars
  <2>1. /\ adapter' = adapter /\ exchangePc' = exchangePc /\ given' = given /\ guess' = guess
        /\ response' = response /\ failure' = failure /\ trail' = trail /\ estimate' = estimate
    BY <1>1 DEF exchangeVars, wire
  <2>2. EstimateInv' /\ RetryIsWorthIt'
    BY <2>1 DEF ExchangeInv, EstimateInv, EstimateIsPast, Measured, RetryIsWorthIt
  <2>3. GivenInv'
    BY <2>1 DEF ExchangeInv, GivenInv, CompletionResponse
  <2> QED BY <2>1, <2>2, <2>3 DEF ExchangeInv
<1>2. CASE \E c \in CompleteCalls : OfCall(c)
  BY <1>2, OneCompletes, NextGiven, NextEstimate DEF ExchangeInv
<1> QED BY <1>1, <1>2 DEF ENext, OfCall

\* The invariant always holds.
LEMMA ExchangeInvariant == ExchangeSpec => []ExchangeInv
<1>1. ExchangeInv /\ [ENext]_exchangeVars => ExchangeInv'
  BY ExchangeNextInv
<1> QED BY <1>1, ExchangeInitInv, PTL DEF ExchangeSpec

\* For every answer of a vendor and any number of overlapping or dropped calls of
\* complete: an estimate in the audit trail is of a completion before it, every tool
\* call of an answer is in the response once and in order, and a refusal a workflow may
\* try again is of a status that may pass (publish_requested, map_response,
\* map_http_error).
THEOREM ExchangeCorrect == ExchangeSpec => []ExchangeTrue
<1>1. ASSUME ExchangeInv, NEW c \in CompleteCalls, exchangePc[c] = "ok"
      PROVE  LET listed == response[c].calls
                 all == UNION {{<<i, k>> : k \in 1..ItemsOf(c)[i].calls} :
                               i \in DOMAIN ItemsOf(c)}
             IN  /\ Range(listed) = all /\ Len(listed) = Cardinality(all)
                 /\ \A m, n \in DOMAIN listed :
                      m < n => \/ listed[m][1] < listed[n][1]
                               \/ listed[m][1] = listed[n][1] /\ listed[m][2] < listed[n][2]
                 /\ response[c].kind = "ToolCalls" <=> all # {}
  <2>1. PICK answer, items, listed, n :
          /\ answer = given[c] /\ items = ItemsOf(c)
          /\ listed = AllCalls(items) /\ n = Len(items)
    OBVIOUS
  <2>2. /\ answer \in Answers[adapter] /\ items = answer.items
        /\ response[c] = CompletionResponse(answer)
    BY <1>1, <2>1 DEF ExchangeInv, GivenInv, ItemsOf
  <2>3. /\ n \in Nat /\ DOMAIN items = 1..n
        /\ \A i \in 1..n : items[i].calls \in Nat
    BY <1>1, <2>1, <2>2, AnswerAssumption DEF ExchangeInv
  <2>4. Lists(listed, items, n)
    BY <2>1, <2>3, AllListed
  <2>5. LET all == UNION {{<<i, k>> : k \in 1..items[i].calls} : i \in 1..n}
        IN  /\ Range(listed) = all /\ Len(listed) = Cardinality(all)
            /\ \A m, o \in DOMAIN listed : m < o => Follows(listed[m], listed[o])
            /\ listed # <<>> <=> all # {}
    BY <2>3, <2>4, ListKept
  <2>6. /\ response[c].calls = listed
        /\ response[c].kind = "ToolCalls" <=> listed # <<>>
    BY <2>1, <2>2 DEF CompletionResponse, ChatReply, ResponsesReply, ToolCalls, Called, Reply
  <2> DEFINE all == UNION {{<<i, k>> : k \in 1..items[i].calls} : i \in DOMAIN items}
  <2>7. /\ Range(listed) = all /\ Len(listed) = Cardinality(all)
        /\ listed # <<>> <=> all # {}
    BY <2>3, <2>5
  <2>8. \A m, o \in DOMAIN listed :
          m < o => \/ listed[m][1] < listed[o][1]
                   \/ listed[m][1] = listed[o][1] /\ listed[m][2] < listed[o][2]
    BY <2>5 DEF Follows
  <2>9. all = UNION {{<<i, k>> : k \in 1..ItemsOf(c)[i].calls} : i \in DOMAIN ItemsOf(c)}
    BY <2>1
  <2> HIDE DEF all
  <2> QED BY <2>6, <2>7, <2>8, <2>9
<1>2. ExchangeInv => CallsKept
  BY <1>1 DEF CallsKept
<1>3. ExchangeInv => EstimateIsPast /\ RetryIsWorthIt
  BY DEF ExchangeInv, EstimateInv
<1> QED BY <1>2, <1>3, ExchangeInvariant, PTL DEF ExchangeTrue
=============================================================================
