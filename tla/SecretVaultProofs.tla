------------------------- MODULE SecretVaultProofs --------------------------
(***************************************************************************)
(* Proofs about SecretVault, for every set of names, plaintexts, keys and  *)
(* clients and every bound on the versions.                                *)
(***************************************************************************)
EXTENDS SecretVault, SequenceTheorems, TLAPS

(* INSERT: appending a row to a table keeps the others and adds one.       *)
LEMMA InsertedRow ==
  ASSUME NEW table \in Seq(Row), NEW x \in Secrets, key \in Keys
  PROVE  /\ Inserted(table, x) \in Seq(Row)
         /\ Len(Inserted(table, x)) = Len(table) + 1
         /\ \A v \in 1..Len(table) : Inserted(table, x)[v] = table[v]
         /\ Inserted(table, x)[Len(table) + 1] = NewRow(x)
<1>1. NewRow(x) \in Row
  BY DEF NewRow, Row
<1>2. QED
  BY <1>1, AppendProperties DEF Inserted

(* UPDATE: retiring a row changes its status and nothing else.             *)
LEMMA RetiredRow ==
  ASSUME NEW table \in Seq(Row), NEW v \in 1..Len(table)
  PROVE  /\ Retired(table, v) \in Seq(Row)
         /\ Len(Retired(table, v)) = Len(table)
         /\ \A w \in 1..Len(table) : w # v => Retired(table, v)[w] = table[w]
         /\ Retired(table, v)[v] = [table[v] EXCEPT !.status = "rotated"]
<1> DEFINE row == [table[v] EXCEPT !.status = "rotated"]
<1>1. table[v] \in Row
  BY ElementOfSeq
<1>2. row \in Row
  BY <1>1 DEF Row
<1>3. Retired(table, v) = [table EXCEPT ![v] = row]
  BY DEF Retired
<1>4. QED
  BY <1>2, <1>3, ExceptSeq

(* What a seal does to the table, in terms of which versions exist and     *)
(* which are active.                                                       *)
LEMMA SealEffect ==
  ASSUME TypeOK, NEW c \in Clients, Seal(c)
  PROVE  LET n == call[c].name
             m == Len(rows[n]) + 1
         IN  /\ call[c] \in Calls /\ n \in Names /\ m \in Versions
             /\ rows' \in [Names -> Seq(Row)]
             /\ Len(rows'[n]) = m
             /\ \A k \in Names \ {n} : rows'[k] = rows[k]
             /\ \A v \in 1..Len(rows[n]) : rows'[n][v] = rows[n][v]
             /\ rows'[n][m] = NewRow(call[c].secret)
<1> DEFINE n == call[c].name
           x == call[c].secret
<1>1. call[c] \in Calls
  BY DEF TypeOK, Seal, Execute, Called, Idle
<1>2. n \in Names /\ x \in Secrets
  BY <1>1 DEF Calls
<1>3. rows[n] \in Seq(Row) /\ key \in Keys
  BY <1>2 DEF TypeOK
<1>4. Len(rows[n]) \in Nat /\ Len(rows[n]) < MaxVersion
  BY <1>3, LenProperties DEF Seal
<1>5. rows' = [rows EXCEPT ![n] = Inserted(rows[n], x)]
  BY <1>2 DEF Seal, TypeOK
<1>6. rows'[n] = Inserted(rows[n], x) /\ \A k \in Names \ {n} : rows'[k] = rows[k]
  BY <1>2, <1>5 DEF TypeOK
<1>7. rows' \in [Names -> Seq(Row)]
  BY <1>2, <1>3, <1>5, InsertedRow DEF TypeOK
<1>8. /\ Len(Inserted(rows[n], x)) = Len(rows[n]) + 1
      /\ \A w \in 1..Len(rows[n]) : Inserted(rows[n], x)[w] = rows[n][w]
      /\ Inserted(rows[n], x)[Len(rows[n]) + 1] = NewRow(x)
  BY <1>2, <1>3, InsertedRow
<1>9. Len(rows[n]) + 1 \in Versions
  BY <1>4, VersionAssumption DEF Versions
<1>10. QED
  BY <1>1, <1>2, <1>6, <1>7, <1>8, <1>9

(* What a successful rotate does to the table.                             *)
LEMMA RotateEffect ==
  ASSUME TypeOK, NEW c \in Clients, Rotate(c)
  PROVE  LET n == call[c].name
             v == call[c].version
             m == Len(rows[n]) + 1
         IN  /\ call[c] \in Calls /\ n \in Names /\ m \in Versions
             /\ v \in 1..Len(rows[n]) /\ v \in Versions
             /\ rows' \in [Names -> Seq(Row)]
             /\ Len(rows'[n]) = m
             /\ \A k \in Names \ {n} : rows'[k] = rows[k]
             /\ \A w \in 1..Len(rows[n]) : w # v => rows'[n][w] = rows[n][w]
             /\ rows'[n][v] = [rows[n][v] EXCEPT !.status = "rotated"]
             /\ rows'[n][m] = NewRow(call[c].secret)
<1> DEFINE n == call[c].name
           v == call[c].version
           x == call[c].secret
<1>1. call[c] \in Calls
  BY DEF TypeOK, Rotate, Execute, Called, Idle
<1>2. n \in Names /\ x \in Secrets
  BY <1>1 DEF Calls
<1>3. rows[n] \in Seq(Row) /\ key \in Keys
  BY <1>2 DEF TypeOK
<1>4. Len(rows[n]) \in Nat /\ Len(rows[n]) < MaxVersion
  BY <1>3, LenProperties DEF Rotate
<1>5. v \in 1..Len(rows[n])
  BY DEF Rotate, Active, Exists
<1> DEFINE table == Retired(rows[n], v)
<1>6. /\ table \in Seq(Row)
      /\ Len(table) = Len(rows[n])
      /\ \A w \in 1..Len(rows[n]) : w # v => table[w] = rows[n][w]
      /\ table[v] = [rows[n][v] EXCEPT !.status = "rotated"]
  BY <1>3, <1>5, RetiredRow
<1>7. rows' = [rows EXCEPT ![n] = Inserted(table, x)]
  BY <1>2 DEF Rotate, TypeOK
<1> HIDE DEF table
<1>8. /\ Inserted(table, x) \in Seq(Row)
      /\ Len(Inserted(table, x)) = Len(table) + 1
      /\ \A w \in 1..Len(table) : Inserted(table, x)[w] = table[w]
      /\ Inserted(table, x)[Len(table) + 1] = NewRow(x)
  BY <1>2, <1>3, <1>6, InsertedRow
<1>9. rows'[n] = Inserted(table, x) /\ \A k \in Names \ {n} : rows'[k] = rows[k]
  BY <1>2, <1>7 DEF TypeOK
<1>10. rows' \in [Names -> Seq(Row)]
  BY <1>2, <1>7, <1>8 DEF TypeOK
<1>11. v \in Versions /\ Len(rows[n]) + 1 \in Versions
  BY <1>4, <1>5, VersionAssumption DEF Versions
<1>12. /\ Len(rows'[n]) = Len(rows[n]) + 1
       /\ rows'[n][Len(rows[n]) + 1] = NewRow(x)
  BY <1>6, <1>8, <1>9
<1>13. \A w \in 1..Len(rows[n]) : rows'[n][w] = table[w]
  BY <1>6, <1>8, <1>9
<1>14. /\ \A w \in 1..Len(rows[n]) : w # v => rows'[n][w] = rows[n][w]
       /\ rows'[n][v] = [rows[n][v] EXCEPT !.status = "rotated"]
  BY <1>5, <1>6, <1>13
<1>15. QED
  BY <1>1, <1>2, <1>5, <1>9, <1>10, <1>11, <1>12, <1>14

(* Executing a call fills in its result and the version it inserted.       *)
LEMMA ExecutedRecord ==
  ASSUME NEW old \in Calls, NEW outcome \in Results, NEW version \in 0..MaxVersion
  PROVE  LET new == Finished(old, outcome, version)
         IN  /\ new \in Calls
             /\ new.stage = "executed" /\ new.result = outcome /\ new.created = version
             /\ new.op = old.op /\ new.name = old.name /\ new.version = old.version
             /\ new.secret = old.secret /\ new.dead = old.dead
BY DEF Calls, Finished

(* A step that executes a call leaves a call of the same client.           *)
LEMMA ExecuteEffect ==
  ASSUME TypeOK, NEW c \in Clients, NEW method \in Ops, NEW outcome \in Results,
         NEW version \in 0..MaxVersion, Execute(c, method, outcome, version)
  PROVE  /\ call[c] \in Calls /\ call[c].op = method /\ call[c].stage = "called"
         /\ call' \in [Clients -> Calls \cup {Idle}]
         /\ call'[c] \in Calls
         /\ call'[c].stage = "executed" /\ call'[c].op = method
         /\ call'[c].result = outcome /\ call'[c].created = version
         /\ call'[c].name = call[c].name /\ call'[c].version = call[c].version
         /\ call'[c].secret = call[c].secret /\ call'[c].dead = call[c].dead
         /\ \A d \in Clients \ {c} : call'[d] = call[d]
<1> DEFINE new == Finished(call[c], outcome, version)
<1>1. call[c] \in Calls /\ call[c].op = method /\ call[c].stage = "called"
  BY DEF TypeOK, Execute, Called, Idle
<1>2. call' = [call EXCEPT ![c] = new]
  BY DEF Execute
<1>3. /\ new \in Calls
      /\ new.stage = "executed" /\ new.result = outcome /\ new.created = version
      /\ new.op = call[c].op /\ new.name = call[c].name /\ new.version = call[c].version
      /\ new.secret = call[c].secret /\ new.dead = call[c].dead
  BY <1>1, ExecutedRecord
<1> HIDE DEF new
<1>4. call'[c] = new /\ \A d \in Clients \ {c} : call'[d] = call[d]
  BY <1>2 DEF TypeOK
<1>5. call' \in [Clients -> Calls \cup {Idle}]
  BY <1>2, <1>3 DEF TypeOK
<1>6. QED
  BY <1>1, <1>3, <1>4, <1>5

(* The database of a fresh process is well typed.                          *)
LEMMA InitType == Init => TypeOK
<1> SUFFICES ASSUME Init PROVE TypeOK
  OBVIOUS
<1>1. \A x \in Secrets : LegacyRow(x) \in Row
  BY DEF Init, LegacyRow, Row
<1>2. ASSUME NEW n \in Names
      PROVE  rows[n] \in Seq(Row) /\ Len(rows[n]) <= MaxVersion
  <2>1. CASE rows[n] = <<>>
    BY <2>1, EmptySeq, VersionAssumption
  <2>2. CASE \E x \in Secrets : rows[n] = <<LegacyRow(x)>>
    BY <2>2, <1>1, VersionAssumption
  <2>3. QED
    BY <2>1, <2>2 DEF Init
<1>3. rows \in [Names -> Seq(Row)]
  BY <1>2 DEF Init
<1>4. QED
  BY <1>2, <1>3, EmptySeq DEF Init, TypeOK

(* Every step keeps the type invariant.                                    *)
LEMMA StepType == TypeOK /\ AckedIsRotated /\ [Next]_vars => TypeOK'
<1> SUFFICES ASSUME TypeOK, AckedIsRotated, [Next]_vars PROVE TypeOK'
  OBVIOUS
<1> USE VersionAssumption, SetsAssumption
<1>1. ASSUME NEW c \in Clients, NEW method \in Ops, NEW n \in Names,
             NEW v \in 0..MaxVersion, NEW x \in Secrets, Call(c, method, n, v, x)
      PROVE  TypeOK'
  <2> DEFINE new == [stage |-> "called", op |-> method, name |-> n, version |-> v,
                     secret |-> x, result |-> "pending", created |-> 0, dead |-> acked]
  <2>1. new \in Calls
    BY DEF Calls, Results, TypeOK
  <2>2. call' = [call EXCEPT ![c] = new]
    BY <1>1 DEF Call
  <2> HIDE DEF new
  <2>3. QED
    BY <1>1, <2>1, <2>2 DEF TypeOK, Call
<1>2. ASSUME NEW c \in Clients, NEW method \in Ops, NEW outcome \in Results,
             NEW version \in 0..MaxVersion, Execute(c, method, outcome, version),
             UNCHANGED <<rows, rotations>>
      PROVE  TypeOK'
  BY <1>2, ExecuteEffect DEF TypeOK, Execute
<1>3. CASE Crash
  <2>1. \A c \in Clients : PendingEvent(c) \subseteq Events
    BY DEF TypeOK, PendingEvent, EventOf, Events, Calls, Executed, Idle, Versions
  <2>2. QED
    BY <1>3, <2>1 DEF TypeOK, Crash
<1>4. ASSUME NEW c \in Clients, CallSeal(c) \/ CallLookup(c) PROVE TypeOK'
  BY <1>1, <1>4 DEF CallSeal, CallLookup, Ops
<1>5. ASSUME NEW c \in Clients, CallUnseal(c) PROVE TypeOK'
  <2>1. (CHOOSE x \in Secrets : TRUE) \in Secrets
    OBVIOUS
  <2>2. PICK r \in Refs : Call(c, "unseal", r[1], r[2], CHOOSE x \in Secrets : TRUE)
    BY <1>5 DEF CallUnseal, TypeOK, Refs, Versions
  <2>3. r[1] \in Names /\ r[2] \in 0..MaxVersion
    BY DEF Refs, Versions
  <2>4. QED
    BY <1>1, <2>1, <2>2, <2>3 DEF Ops
<1>6. ASSUME NEW c \in Clients, CallRotate(c) PROVE TypeOK'
  <2>1. PICK r \in Refs, x \in Secrets : Call(c, "rotate", r[1], r[2], x)
    BY <1>6 DEF CallRotate, TypeOK, Refs, Versions
  <2>2. r[1] \in Names /\ r[2] \in 0..MaxVersion
    BY DEF Refs, Versions
  <2>3. QED
    BY <1>1, <2>1, <2>2 DEF Ops
<1>7. ASSUME NEW c \in Clients, Refuse(c) PROVE TypeOK'
  BY <1>2, <1>7 DEF Refuse, Ops, Results
<1>8. ASSUME NEW c \in Clients, Seal(c) PROVE TypeOK'
  <2>1. NextVersion(call[c].name) \in 0..MaxVersion
    BY <1>8, SealEffect DEF NextVersion, Versions
  <2>2. call' \in [Clients -> Calls \cup {Idle}]
    BY <1>8, <2>1, ExecuteEffect DEF Seal, Ops, Results
  <2>3. rows' \in [Names -> Seq(Row)] /\ \A n \in Names : Len(rows'[n]) <= MaxVersion
    <3>1. rows' \in [Names -> Seq(Row)] /\ Len(rows'[call[c].name]) \in Versions
      BY <1>8, SealEffect
    <3>2. \A n \in Names : n # call[c].name => rows'[n] = rows[n]
      BY <1>8, SealEffect
    <3>3. ASSUME NEW n \in Names PROVE Len(rows'[n]) <= MaxVersion
      <4>1. CASE n = call[c].name
        BY <3>1, <4>1 DEF Versions
      <4>2. CASE n # call[c].name
        BY <3>2, <4>2 DEF TypeOK
      <4>3. QED
        BY <4>1, <4>2
    <3>4. QED
      BY <3>1, <3>3
  <2>4. QED
    BY <1>8, <2>2, <2>3 DEF TypeOK, Seal, Execute
<1>9. ASSUME NEW c \in Clients, Unseal(c) PROVE TypeOK'
  <2>1. UnsealOutcome(call[c].name, call[c].version) \in Results
    BY DEF UnsealOutcome, Results
  <2>2. QED
    BY <1>2, <1>9, <2>1 DEF Unseal, Ops
<1>10. ASSUME NEW c \in Clients, RotateFails(c) PROVE TypeOK'
  BY <1>2, <1>10 DEF RotateFails, Ops, Results
<1>11. ASSUME NEW c \in Clients, Rotate(c) PROVE TypeOK'
  <2>1. NextVersion(call[c].name) \in Versions
    BY <1>11, RotateEffect DEF NextVersion
  <2>2. call' \in [Clients -> Calls \cup {Idle}]
    <3>1. NextVersion(call[c].name) \in 0..MaxVersion
      BY <2>1 DEF Versions
    <3>2. QED
      BY <1>11, <3>1, ExecuteEffect DEF Rotate, Ops, Results
  <2>3. rows' \in [Names -> Seq(Row)] /\ \A n \in Names : Len(rows'[n]) <= MaxVersion
    <3>1. rows' \in [Names -> Seq(Row)] /\ Len(rows'[call[c].name]) \in Versions
      BY <1>11, RotateEffect
    <3>2. \A n \in Names : n # call[c].name => rows'[n] = rows[n]
      BY <1>11, RotateEffect
    <3>3. ASSUME NEW n \in Names PROVE Len(rows'[n]) <= MaxVersion
      <4>1. CASE n = call[c].name
        BY <3>1, <4>1 DEF Versions
      <4>2. CASE n # call[c].name
        BY <3>2, <4>2 DEF TypeOK
      <4>3. QED
        BY <4>1, <4>2
    <3>4. QED
      BY <3>1, <3>3
  <2>4. rotations' \subseteq Names \X Versions \X Versions
    <3>1. call[c].name \in Names /\ call[c].version \in Versions
      BY <1>11, RotateEffect
    <3>2. rotations' = rotations \cup
            {<<call[c].name, call[c].version, NextVersion(call[c].name)>>}
      BY <1>11 DEF Rotate
    <3>3. QED
      BY <2>1, <3>1, <3>2 DEF TypeOK
  <2>5. QED
    BY <1>11, <2>2, <2>3, <2>4 DEF TypeOK, Rotate, Execute
<1>12. ASSUME NEW c \in Clients, LookupHash(c) PROVE TypeOK'
  <2>1. LookupOutcome(call[c].name, call[c].secret) \in Results
    BY DEF LookupOutcome, Results
  <2>2. QED
    BY <1>2, <1>12, <2>1 DEF LookupHash, Ops
<1>13. ASSUME NEW c \in Clients, Return(c) PROVE TypeOK'
  <2>1. call[c] \in Calls
    BY <1>13 DEF Return, Executed, TypeOK, Idle
  <2>2. PendingEvent(c) # {} => EventOf(c) \in Events
    BY <2>1 DEF PendingEvent, EventOf, Events, Calls, Versions
  <2>3. audit' \in Seq(Events)
    BY <1>13, <2>2, AppendProperties DEF Return, Published, TypeOK
  <2>4. Issued(c) \subseteq Refs
    BY <2>1 DEF Issued, PendingEvent, EventOf, Refs, Calls, Versions
  <2>5. Retires(c) \subseteq Refs
    <3>1. CASE call[c].op = "rotate" /\ call[c].result = "ok"
      <4>1. Exists(call[c].name, call[c].version) /\ call[c].name \in Names
        BY <1>13, <2>1, <3>1 DEF Return, AckedIsRotated, Calls
      <4>2. call[c].version \in Versions
        BY <4>1, LenProperties DEF Exists, Versions, TypeOK
      <4>3. QED
        BY <3>1, <4>1, <4>2 DEF Retires, Refs
    <3>2. QED
      BY <3>1 DEF Retires
  <2>6. QED
    BY <1>13, <2>3, <2>4, <2>5 DEF Return, TypeOK
<1>14. CASE UNCHANGED vars
  BY <1>14 DEF TypeOK, vars
<1>15. QED
  BY <1>3, <1>4, <1>5, <1>6, <1>7, <1>8, <1>9, <1>10, <1>11, <1>12, <1>13, <1>14
  DEF Next, ClientStep

(* Whatever a step does, the rows of the table stay; at most their status   *)
(* becomes rotated.                                                         *)
LEMMA AppendOnly ==
  TypeOK /\ [Next]_vars =>
    \A n \in Names :
      /\ Len(rows'[n]) >= Len(rows[n])
      /\ \A v \in DOMAIN rows[n] :
           rows'[n][v] \in {rows[n][v], [rows[n][v] EXCEPT !.status = "rotated"]}
<1> SUFFICES ASSUME TypeOK, [Next]_vars, NEW n \in Names
             PROVE  /\ Len(rows'[n]) >= Len(rows[n])
                    /\ \A v \in 1..Len(rows[n]) :
                         rows'[n][v] \in {rows[n][v], [rows[n][v] EXCEPT !.status = "rotated"]}
  BY LenProperties DEF TypeOK
<1>1. Len(rows[n]) \in Nat
  BY LenProperties DEF TypeOK
<1>2. ASSUME NEW c \in Clients, Seal(c)
      PROVE  /\ Len(rows'[n]) >= Len(rows[n])
             /\ \A v \in 1..Len(rows[n]) : rows'[n][v] = rows[n][v]
  <2>1. CASE n = call[c].name
    BY <1>1, <1>2, <2>1, SealEffect
  <2>2. CASE n # call[c].name
    BY <1>1, <1>2, <2>2, SealEffect
  <2>3. QED
    BY <2>1, <2>2
<1>3. ASSUME NEW c \in Clients, Rotate(c)
      PROVE  /\ Len(rows'[n]) >= Len(rows[n])
             /\ \A v \in 1..Len(rows[n]) :
                  rows'[n][v] \in {rows[n][v], [rows[n][v] EXCEPT !.status = "rotated"]}
  <2>1. CASE n = call[c].name
    <3>1. Len(rows'[n]) = Len(rows[n]) + 1
      BY <1>3, <2>1, RotateEffect
    <3>2. \A v \in 1..Len(rows[n]) : v # call[c].version => rows'[n][v] = rows[n][v]
      BY <1>3, <2>1, RotateEffect
    <3>3. rows'[n][call[c].version] = [rows[n][call[c].version] EXCEPT !.status = "rotated"]
      BY <1>3, <2>1, RotateEffect
    <3>4. ASSUME NEW v \in 1..Len(rows[n])
          PROVE  rows'[n][v] \in {rows[n][v], [rows[n][v] EXCEPT !.status = "rotated"]}
      <4>1. CASE v = call[c].version
        BY <3>3, <4>1
      <4>2. CASE v # call[c].version
        BY <3>2, <4>2
      <4>3. QED
        BY <4>1, <4>2
    <3>5. QED
      BY <1>1, <3>1, <3>4
  <2>2. CASE n # call[c].name
    <3>0. \A k \in Names \ {call[c].name} : rows'[k] = rows[k]
      BY <1>3, RotateEffect
    <3>1. rows'[n] = rows[n]
      BY <2>2, <3>0
    <3>2. QED
      BY <1>1, <3>1
  <2>3. QED
    BY <2>1, <2>2
<1>4. CASE UNCHANGED rows
  BY <1>1, <1>4
<1>5. QED
  BY <1>2, <1>3, <1>4 DEF Next, ClientStep, vars, Crash, Call, CallSeal, CallLookup,
     CallUnseal, CallRotate, Refuse, Unseal, RotateFails, LookupHash, Return

(* A row that is rotated stays so.                                         *)
LEMMA StaysRotated ==
  ASSUME TypeOK, [Next]_vars, NEW n \in Names, NEW v, Exists(n, v)
  PROVE  Exists(n, v)' /\ (~Active(n, v) => ~Active(n, v)')
<1>1. v \in 1..Len(rows[n]) /\ Len(rows[n]) \in Nat /\ rows[n] \in Seq(Row)
  BY LenProperties DEF Exists, TypeOK
<1>2. rows[n][v] \in Row /\ v \in DOMAIN rows[n]
  BY <1>1, ElementOfSeq, LenProperties
<1>3. /\ Len(rows'[n]) >= Len(rows[n])
      /\ rows'[n][v] \in {rows[n][v], [rows[n][v] EXCEPT !.status = "rotated"]}
  BY <1>2, AppendOnly
<1>4. rows' \in [Names -> Seq(Row)]
  <2>1. ASSUME NEW c \in Clients, Seal(c) PROVE rows' \in [Names -> Seq(Row)]
    BY <2>1, SealEffect
  <2>2. ASSUME NEW c \in Clients, Rotate(c) PROVE rows' \in [Names -> Seq(Row)]
    BY <2>2, RotateEffect
  <2>3. CASE UNCHANGED rows
    BY <2>3 DEF TypeOK
  <2>4. QED
    BY <2>1, <2>2, <2>3 DEF Next, ClientStep, vars, Crash, Call, CallSeal, CallLookup,
       CallUnseal, CallRotate, Refuse, Unseal, RotateFails, LookupHash, Return
<1>5. Len(rows'[n]) \in Nat
  BY <1>4, LenProperties
<1>6. v \in 1..Len(rows'[n])
  BY <1>1, <1>3, <1>5
<1>7. ~Active(n, v) => rows'[n][v].status # "active"
  BY <1>1, <1>2, <1>3 DEF Active, Exists, Row
<1>8. QED
  BY <1>6, <1>7 DEF Exists, Active

(* A step of client c leaves the calls of the other clients alone.         *)
LEMMA OtherCalls ==
  ASSUME TypeOK, NEW c \in Clients, ClientStep(c)
  PROVE  \A d \in Clients : d # c => call'[d] = call[d]
BY DEF TypeOK, ClientStep, CallSeal, CallLookup, CallUnseal, CallRotate, Call, Refuse, Seal,
   Unseal, RotateFails, Rotate, LookupHash, Execute, Return

(* What client c may have become: idle, called with what is now acked, or  *)
(* executed with what it began with.                                       *)
LEMMA OwnCall ==
  ASSUME TypeOK, NEW c \in Clients, ClientStep(c)
  PROVE  \/ call'[c] = Idle
         \/ call'[c].stage = "called" /\ call'[c].dead = acked /\ acked' = acked
         \/ /\ call[c] \in Calls /\ call[c].stage = "called" /\ acked' = acked
            /\ call'[c].dead = call[c].dead /\ call'[c].name = call[c].name
            /\ call'[c].version = call[c].version /\ call'[c].op = call[c].op
<1>1. ASSUME NEW method, NEW n, NEW v, NEW x, Call(c, method, n, v, x)
      PROVE  call'[c].stage = "called" /\ call'[c].dead = acked /\ acked' = acked
  BY <1>1 DEF Call, TypeOK
<1>2. ASSUME NEW method \in Ops, NEW outcome, NEW version, Execute(c, method, outcome, version)
      PROVE  /\ call[c] \in Calls /\ call[c].stage = "called" /\ acked' = acked
             /\ call'[c].dead = call[c].dead /\ call'[c].name = call[c].name
             /\ call'[c].version = call[c].version /\ call'[c].op = call[c].op
  <2>1. call[c] \in Calls /\ call[c].stage = "called" /\ acked' = acked
    BY <1>2 DEF Execute, Called, TypeOK, Idle
  <2>2. call'[c] = Finished(call[c], outcome, version)
    BY <1>2 DEF Execute, TypeOK
  <2>3. QED
    BY <2>1, <2>2 DEF Finished, Calls
<1>3. CASE CallSeal(c) \/ CallLookup(c) \/ CallUnseal(c) \/ CallRotate(c)
  BY <1>1, <1>3 DEF CallSeal, CallLookup, CallUnseal, CallRotate
<1>4. CASE Refuse(c) \/ Seal(c) \/ Unseal(c) \/ RotateFails(c) \/ Rotate(c) \/ LookupHash(c)
  BY <1>2, <1>4 DEF Refuse, Seal, Unseal, RotateFails, Rotate, LookupHash, Ops
<1>5. CASE Return(c)
  BY <1>5 DEF Return, TypeOK
<1>6. QED
  BY <1>3, <1>4, <1>5 DEF ClientStep

(* What an executed call of the client that stepped has come from.         *)
LEMMA ExecutedBy ==
  ASSUME TypeOK, TypeOK', NEW c \in Clients, ClientStep(c), Executed(c)'
  PROVE  /\ call'[c].op = "rotate" /\ call'[c].result = "ok" => Rotate(c)
         /\ call'[c].op = "unseal" /\ call'[c].result = "ok" =>
              UnsealOutcome(call[c].name, call[c].version) = "ok"
<1>1. ASSUME NEW method, NEW n, NEW v, NEW x, Call(c, method, n, v, x)
      PROVE  FALSE
  BY <1>1 DEF Call, TypeOK, Executed
<1>2. ASSUME NEW method \in Ops, NEW outcome, NEW version, Execute(c, method, outcome, version)
      PROVE  call'[c].op = method /\ call'[c].result = outcome
  <2>1. call[c] \in Calls /\ call[c].op = method
    BY <1>2 DEF Execute, Called, TypeOK, Idle
  <2>2. call'[c] = Finished(call[c], outcome, version)
    BY <1>2 DEF Execute, TypeOK
  <2>3. QED
    BY <2>1, <2>2 DEF Finished, Calls
<1>3. CASE CallSeal(c) \/ CallLookup(c) \/ CallUnseal(c) \/ CallRotate(c)
  BY <1>1, <1>3 DEF CallSeal, CallLookup, CallUnseal, CallRotate
<1>4. CASE Refuse(c)
  BY <1>2, <1>4 DEF Refuse, Ops
<1>5. CASE Seal(c)
  BY <1>2, <1>5 DEF Seal, Ops
<1>6. CASE Unseal(c)
  BY <1>2, <1>6 DEF Unseal, Ops
<1>7. CASE RotateFails(c)
  BY <1>2, <1>7 DEF RotateFails, Ops
<1>8. CASE Rotate(c)
  BY <1>2, <1>8 DEF Rotate, Ops
<1>9. CASE LookupHash(c)
  BY <1>2, <1>9 DEF LookupHash, Ops
<1>10. CASE Return(c)
  BY <1>10 DEF Return, TypeOK, Executed, Idle
<1>11. QED
  BY <1>3, <1>4, <1>5, <1>6, <1>7, <1>8, <1>9, <1>10 DEF ClientStep

(* A reference that a caller was told is retired has a rotated row.        *)
LEMMA AckedStep ==
  ASSUME TypeOK, TypeOK', AckedIsRotated, [Next]_vars
  PROVE  AckedIsRotated'
<1> DEFINE Gone(r) == Exists(r[1], r[2]) /\ ~Active(r[1], r[2])
           Ref(c)  == <<call[c].name, call[c].version>>
           Done(c) == Executed(c) /\ call[c].op = "rotate" /\ call[c].result = "ok"
<1>1. ASSUME NEW r, r[1] \in Names, Gone(r) PROVE Gone(r)'
  BY <1>1, StaysRotated
<1>2. \A r \in acked : Gone(r)'
  BY <1>1 DEF AckedIsRotated, TypeOK, Refs
<1>3. CASE UNCHANGED vars
  BY <1>3 DEF vars, AckedIsRotated, Exists, Active, Executed
<1>4. CASE Crash
  <2>1. acked' = acked /\ \A c \in Clients : call'[c] = Idle
    BY <1>4 DEF Crash
  <2>2. \A c \in Clients : ~Executed(c)'
    BY <2>1 DEF Executed, Idle
  <2>3. QED
    BY <1>2, <2>1, <2>2 DEF AckedIsRotated
<1>5. ASSUME NEW c \in Clients, ClientStep(c) PROVE AckedIsRotated'
  <2>1. acked \subseteq acked'
    BY <1>5 DEF ClientStep, CallSeal, CallLookup, CallUnseal, CallRotate, Call, Refuse, Seal,
       Unseal, RotateFails, Rotate, LookupHash, Execute, Return
  <2>2. \A r \in acked' : Gone(r)'
    <3>1. CASE acked' = acked
      BY <1>2, <3>1
    <3>2. CASE Return(c)
      <4>1. ASSUME NEW r \in Retires(c) PROVE Gone(r)'
        <5>1. call[c] \in Calls /\ Done(c) /\ r = Ref(c)
          BY <3>2, <4>1 DEF Return, Executed, Retires, TypeOK, Idle
        <5>2. r[1] \in Names /\ Gone(r)
          BY <5>1 DEF AckedIsRotated, Calls
        <5>3. QED
          BY <1>1, <5>2
      <4>2. QED
        BY <1>2, <3>2, <4>1 DEF Return
    <3>3. QED
      BY <1>5, <3>1, <3>2 DEF ClientStep, CallSeal, CallLookup, CallUnseal, CallRotate, Call,
         Refuse, Seal, Unseal, RotateFails, Rotate, LookupHash, Execute
  <2>3. \A d \in Clients : call'[d] # Idle => call'[d].dead \subseteq acked'
    <3>1. \A d \in Clients : d # c => (call'[d] # Idle => call'[d].dead \subseteq acked')
      BY <1>5, <2>1, OtherCalls DEF AckedIsRotated
    <3>2. call'[c] # Idle => call'[c].dead \subseteq acked'
      BY <1>5, <2>1, OwnCall DEF AckedIsRotated, Idle
    <3>3. QED
      BY <3>1, <3>2
  <2>4. ASSUME NEW d \in Clients, Done(d)'
        PROVE  Gone(Ref(d))'
    <3>1. CASE d = c
      <4>1. Rotate(c)
        BY <1>5, <2>4, <3>1, ExecutedBy
      <4>2. call'[c].name = call[c].name /\ call'[c].version = call[c].version
        BY <1>5, <2>4, <3>1, OwnCall DEF Executed, Idle
      <4>3. Exists(call[c].name, call[c].version)' /\ ~Active(call[c].name, call[c].version)'
        <5>1. /\ call[c].version \in 1..Len(rows[call[c].name])
              /\ Len(rows'[call[c].name]) = Len(rows[call[c].name]) + 1
              /\ rows'[call[c].name][call[c].version] =
                   [rows[call[c].name][call[c].version] EXCEPT !.status = "rotated"]
          BY <4>1, RotateEffect
        <5>2. rows[call[c].name] \in Seq(Row)
          BY <4>1, RotateEffect DEF TypeOK
        <5>3. rows[call[c].name][call[c].version] \in Row /\ Len(rows[call[c].name]) \in Nat
          BY <5>1, <5>2, ElementOfSeq, LenProperties
        <5>4. rows'[call[c].name][call[c].version].status = "rotated"
          BY <5>1, <5>3 DEF Row
        <5>5. QED
          BY <4>2, <5>1, <5>3, <5>4 DEF Exists, Active
      <4>4. QED
        BY <3>1, <4>2, <4>3
    <3>2. CASE d # c
      <4>1. call'[d] = call[d]
        BY <1>5, <3>2, OtherCalls
      <4>2. call[d] \in Calls /\ Done(d)
        BY <2>4, <4>1 DEF Executed, Idle, TypeOK
      <4>3. Ref(d)' = Ref(d) /\ Ref(d)[1] \in Names /\ Gone(Ref(d))
        BY <4>1, <4>2 DEF AckedIsRotated, Calls
      <4>4. QED
        BY <1>1, <4>3
    <3>3. QED
      BY <3>1, <3>2
  <2>5. QED
    BY <2>2, <2>3, <2>4 DEF AckedIsRotated
<1>6. QED
  BY <1>3, <1>4, <1>5 DEF Next

(* Which versions exist and are active after a seal.                       *)
LEMMA SealVersions ==
  ASSUME TypeOK, NEW c \in Clients, Seal(c), NEW n \in Names, NEW v \in Versions
  PROVE  LET new == n = call[c].name /\ v = Len(rows[n]) + 1
         IN  /\ Exists(n, v)' <=> Exists(n, v) \/ new
             /\ Active(n, v)' <=> Active(n, v) \/ new
<1>1. Len(rows[n]) \in Nat /\ v \in Nat
  BY LenProperties, VersionAssumption DEF TypeOK, Versions
<1>2. CASE n = call[c].name
  <2>1. Len(rows'[n]) = Len(rows[n]) + 1 /\ rows'[n][Len(rows[n]) + 1].status = "active"
    <3>1. NewRow(call[c].secret).status = "active"
      BY DEF NewRow
    <3>2. /\ Len(rows'[call[c].name]) = Len(rows[call[c].name]) + 1
          /\ rows'[call[c].name][Len(rows[call[c].name]) + 1] = NewRow(call[c].secret)
      BY SealEffect
    <3>3. QED
      BY <1>2, <3>1, <3>2
  <2>2. \A w \in 1..Len(rows[n]) : rows'[n][w] = rows[n][w]
    BY <1>2, SealEffect
  <2>3. Exists(n, v)' <=> Exists(n, v) \/ v = Len(rows[n]) + 1
    BY <1>1, <2>1 DEF Exists, Versions
  <2>4. CASE v \in 1..Len(rows[n])
    <3>1. Exists(n, v) /\ v # Len(rows[n]) + 1
      BY <1>1, <2>4 DEF Exists
    <3>2. Exists(n, v)'
      BY <2>3, <3>1
    <3>3. rows'[n][v] = rows[n][v]
      BY <2>2, <2>4
    <3>4. Active(n, v)' <=> Active(n, v)
      BY <3>1, <3>2, <3>3 DEF Active
    <3>5. QED
      BY <3>1, <3>2, <3>4
  <2>5. CASE v = Len(rows[n]) + 1
    <3>1. Active(n, v)'
      BY <2>1, <2>3, <2>5 DEF Active
    <3>2. QED
      BY <1>2, <2>3, <2>5, <3>1
  <2>6. CASE v > Len(rows[n]) + 1
    BY <1>1, <1>2, <2>3, <2>6 DEF Exists, Active
  <2>7. QED
    BY <1>1, <2>4, <2>5, <2>6, VersionAssumption DEF Versions
<1>3. CASE n # call[c].name
  <2>1. rows'[n] = rows[n]
    BY <1>3, SealEffect
  <2>2. QED
    BY <1>3, <2>1 DEF Exists, Active
<1>4. QED
  BY <1>2, <1>3

(* Which versions exist and are active after a rotate.                     *)
LEMMA RotateVersions ==
  ASSUME TypeOK, NEW c \in Clients, Rotate(c), NEW n \in Names, NEW v \in Versions
  PROVE  LET new == n = call[c].name /\ v = Len(rows[n]) + 1
             old == n = call[c].name /\ v = call[c].version
         IN  /\ Exists(n, v)' <=> Exists(n, v) \/ new
             /\ Active(n, v)' <=> (Active(n, v) /\ ~old) \/ new
<1>1. Len(rows[n]) \in Nat /\ v \in Nat /\ rows[n] \in Seq(Row)
  BY LenProperties, VersionAssumption DEF TypeOK, Versions
<1>2. CASE n = call[c].name
  <2>1. Len(rows'[n]) = Len(rows[n]) + 1 /\ rows'[n][Len(rows[n]) + 1].status = "active"
    <3>1. NewRow(call[c].secret).status = "active"
      BY DEF NewRow
    <3>2. /\ Len(rows'[call[c].name]) = Len(rows[call[c].name]) + 1
          /\ rows'[call[c].name][Len(rows[call[c].name]) + 1] = NewRow(call[c].secret)
      BY RotateEffect
    <3>3. QED
      BY <1>2, <3>1, <3>2
  <2>2. \A w \in 1..Len(rows[n]) : w # call[c].version => rows'[n][w] = rows[n][w]
    BY <1>2, RotateEffect
  <2>3. Exists(n, v)' <=> Exists(n, v) \/ v = Len(rows[n]) + 1
    BY <1>1, <2>1 DEF Exists, Versions
  <2>4. call[c].version \in 1..Len(rows[n]) /\ rows'[n][call[c].version].status = "rotated"
    <3>1. call[c].version \in 1..Len(rows[n])
      BY <1>2, RotateEffect
    <3>2. rows[n][call[c].version] \in Row
      BY <1>1, <3>1, ElementOfSeq
    <3>3. rows'[n][call[c].version] = [rows[n][call[c].version] EXCEPT !.status = "rotated"]
      BY <1>2, RotateEffect
    <3>4. QED
      BY <3>1, <3>2, <3>3 DEF Row
  <2>5. CASE v \in 1..Len(rows[n]) /\ v # call[c].version
    <3>1. Exists(n, v) /\ v # Len(rows[n]) + 1
      BY <1>1, <2>5 DEF Exists
    <3>2. Exists(n, v)'
      BY <2>3, <3>1
    <3>3. rows'[n][v] = rows[n][v]
      BY <2>2, <2>5
    <3>4. Active(n, v)' <=> Active(n, v)
      BY <3>1, <3>2, <3>3 DEF Active
    <3>5. QED
      BY <2>5, <3>1, <3>2, <3>4
  <2>6. CASE v = call[c].version
    <3>1. Exists(n, v) /\ v # Len(rows[n]) + 1
      BY <1>1, <2>4, <2>6 DEF Exists
    <3>2. Exists(n, v)'
      BY <2>3, <3>1
    <3>3. ~Active(n, v)'
      BY <2>4, <2>6 DEF Active
    <3>4. QED
      BY <1>2, <2>6, <3>1, <3>2, <3>3
  <2>7. CASE v = Len(rows[n]) + 1
    <3>1. Active(n, v)'
      BY <2>1, <2>3, <2>7 DEF Active
    <3>2. QED
      BY <1>2, <2>3, <2>7, <3>1
  <2>8. CASE v > Len(rows[n]) + 1
    BY <1>1, <1>2, <2>3, <2>8 DEF Exists, Active
  <2>9. QED
    BY <1>1, <2>5, <2>6, <2>7, <2>8, VersionAssumption DEF Versions
<1>3. CASE n # call[c].name
  <2>1. rows'[n] = rows[n]
    BY <1>3, RotateEffect
  <2>2. QED
    BY <1>3, <2>1 DEF Exists, Active
<1>4. QED
  BY <1>2, <1>3

(* A rotate of an active version adds one link to its chain.               *)
LEMMA RotationStep ==
  ASSUME TypeOK, RotationChain, [Next]_vars
  PROVE  RotationChain'
<1>1. ASSUME NEW c \in Clients, Seal(c) PROVE RotationChain'
  <2>1. rotations' = rotations /\ rotations \subseteq Names \X Versions \X Versions
    BY <1>1 DEF Seal, TypeOK
  <2>2. ASSUME NEW n \in Names, NEW v \in Versions
        PROVE  (\E w \in Versions : <<n, v, w>> \in rotations)
                 <=> (Exists(n, v)' /\ ~Active(n, v)')
    <3>1. n = call[c].name /\ v = Len(rows[n]) + 1 => ~Exists(n, v) /\ ~Active(n, v)
      BY LenProperties DEF Exists, Active, TypeOK
    <3>2. QED
      BY <1>1, <3>1, SealVersions DEF RotationChain
  <2>3. \A r \in rotations : r[2] < r[3] /\ Exists(r[1], r[3])'
    BY <1>1, <2>1, SealVersions DEF RotationChain
  <2>4. QED
    BY <2>1, <2>2, <2>3 DEF RotationChain
<1>2. ASSUME NEW c \in Clients, Rotate(c) PROVE RotationChain'
  <2> DEFINE k == call[c].name
             o == call[c].version
             m == Len(rows[k]) + 1
  <2>1. k \in Names /\ o \in Versions /\ m \in Versions /\ o \in 1..Len(rows[k])
    BY <1>2, RotateEffect
  <2>2. Len(rows[k]) \in Nat /\ o < m
    BY <2>1, LenProperties DEF TypeOK, Versions
  <2>3. rotations' = rotations \cup {<<k, o, m>>}
    BY <1>2 DEF Rotate, NextVersion
  <2>4. rotations \subseteq Names \X Versions \X Versions
    BY DEF TypeOK
  <2>5. Active(k, o) /\ Exists(k, o) /\ ~Exists(k, m)
    BY <1>2, <2>2 DEF Rotate, Active, Exists
  <2>6. \A n \in Names, v \in Versions :
          /\ Exists(n, v)' <=> Exists(n, v) \/ (n = k /\ v = m)
          /\ Active(n, v)' <=> (Active(n, v) /\ ~(n = k /\ v = o)) \/ (n = k /\ v = m)
    BY <1>2, RotateVersions
  <2> HIDE DEF k, o, m
  <2>7. \A r \in rotations : r[1] = k => r[2] # o /\ r[3] # m
    <3> SUFFICES ASSUME NEW r \in rotations, r[1] = k PROVE r[2] # o /\ r[3] # m
      OBVIOUS
    <3>1. r[2] \in Versions /\ r[3] \in Versions /\ <<k, r[2], r[3]>> \in rotations
      BY <2>4
    <3>2. ~Active(k, r[2]) /\ Exists(k, r[3])
      BY <2>1, <3>1 DEF RotationChain
    <3>3. QED
      BY <2>5, <3>2
  <2>8. ASSUME NEW n \in Names, NEW v \in Versions
        PROVE  (\E w \in Versions : <<n, v, w>> \in rotations')
                 <=> (Exists(n, v)' /\ ~Active(n, v)')
    <3>1. CASE n = k /\ v = o
      BY <2>1, <2>2, <2>3, <2>5, <2>6, <3>1
    <3>2. CASE n = k /\ v = m
      <4>1. ~\E w \in Versions : <<n, v, w>> \in rotations
        BY <2>5, <3>2 DEF RotationChain
      <4>2. QED
        <5>1. m # o
          BY <2>5
        <5>2. ~\E w \in Versions : <<n, v, w>> \in rotations'
          BY <2>3, <3>2, <4>1, <5>1
        <5>3. Active(n, v)'
          BY <2>6, <3>2
        <5>4. QED
          BY <5>2, <5>3
    <3>3. CASE ~(n = k /\ v = o) /\ ~(n = k /\ v = m)
      <4>1. (\E w \in Versions : <<n, v, w>> \in rotations')
              <=> (\E w \in Versions : <<n, v, w>> \in rotations)
        BY <2>3, <3>3
      <4>2. QED
        BY <2>6, <3>3, <4>1 DEF RotationChain
    <3>4. QED
      BY <3>1, <3>2, <3>3
  <2>9. \A r \in rotations' : r[2] < r[3] /\ Exists(r[1], r[3])'
    <3>1. ASSUME NEW r \in rotations PROVE r[2] < r[3] /\ Exists(r[1], r[3])'
      <4>1. r[1] \in Names /\ r[3] \in Versions
        BY <2>4
      <4>2. r[2] < r[3] /\ Exists(r[1], r[3])
        BY DEF RotationChain
      <4>3. QED
        BY <2>6, <4>1, <4>2
    <3>2. ASSUME NEW r, r = <<k, o, m>> PROVE r[2] < r[3] /\ Exists(r[1], r[3])'
      <4>1. r[1] = k /\ r[2] = o /\ r[3] = m
        BY <3>2
      <4>2. Exists(r[1], r[3])'
        BY <2>1, <2>6, <4>1
      <4>3. QED
        BY <2>2, <4>1, <4>2
    <3>3. QED
      BY <2>3, <3>1, <3>2
  <2>10. \A q, r \in rotations' : q[1] = r[1] => (q[2] = r[2] <=> q[3] = r[3])
    BY <2>3, <2>7 DEF RotationChain
  <2>11. QED
    BY <2>8, <2>9, <2>10 DEF RotationChain
<1>3. CASE UNCHANGED <<rows, rotations>>
  BY <1>3 DEF RotationChain, Exists, Active
<1>4. QED
  BY <1>1, <1>2, <1>3 DEF Next, ClientStep, vars, Crash, Call, CallSeal, CallLookup,
     CallUnseal, CallRotate, Refuse, Unseal, RotateFails, LookupHash, Return

(* An unseal that opens a row saw it active, so nobody had been told that  *)
(* it is retired.                                                          *)
LEMMA StaleStep ==
  ASSUME TypeOK, TypeOK', AckedIsRotated, NoStaleUnseal, [Next]_vars
  PROVE  NoStaleUnseal'
<1> DEFINE Opened(c) == Executed(c) /\ call[c].op = "unseal" /\ call[c].result = "ok"
           Ref(c)    == <<call[c].name, call[c].version>>
<1>1. CASE UNCHANGED vars
  BY <1>1 DEF vars, NoStaleUnseal, Executed
<1>2. CASE Crash
  BY <1>2 DEF Crash, NoStaleUnseal, Executed, Idle
<1>3. ASSUME NEW c \in Clients, ClientStep(c), NEW d \in Clients, Opened(d)'
      PROVE  Ref(d)' \notin call'[d].dead
  <2>1. CASE d = c
    <3>1. UnsealOutcome(call[c].name, call[c].version) = "ok"
      BY <1>3, <2>1, ExecutedBy
    <3>2. Active(call[c].name, call[c].version)
      BY <3>1 DEF UnsealOutcome
    <3>3. /\ call[c] \in Calls /\ call[c].stage = "called"
          /\ call'[c].dead = call[c].dead /\ Ref(c)' = Ref(c)
      BY <1>3, <2>1, OwnCall DEF Executed, Idle
    <3>4. call[c].dead \subseteq acked
      BY <3>3 DEF AckedIsRotated, Idle
    <3>5. Ref(c) \notin acked
      BY <3>2 DEF AckedIsRotated
    <3>6. QED
      BY <2>1, <3>3, <3>4, <3>5
  <2>2. CASE d # c
    <3>1. call'[d] = call[d]
      BY <1>3, <2>2, OtherCalls
    <3>2. QED
      BY <1>3, <3>1 DEF NoStaleUnseal, Executed
  <2>3. QED
    BY <2>1, <2>2
<1>4. QED
  BY <1>1, <1>2, <1>3 DEF Next, NoStaleUnseal

(***************************************************************************)
(* The inductive invariant.  The type of acked needs AckedIsRotated (only  *)
(* a reference with a row can have been rotated); NoStaleUnseal needs it   *)
(* too, since it speaks of what callers knew when they began.              *)
(***************************************************************************)
VaultInv == TypeOK /\ AckedIsRotated /\ RotationChain /\ NoStaleUnseal

(* The invariant holds in the initial states.                              *)
LEMMA InitVaultInv == Init => VaultInv
<1> SUFFICES ASSUME Init PROVE VaultInv
  OBVIOUS
<1>1. TypeOK
  BY InitType
<1>2. AckedIsRotated /\ NoStaleUnseal
  BY DEF Init, AckedIsRotated, NoStaleUnseal, Executed, Idle
<1>3. \A n \in Names, v \in Versions : Exists(n, v) => Active(n, v)
  BY DEF Init, Exists, Active, LegacyRow
<1>4. RotationChain
  BY <1>3 DEF Init, RotationChain
<1>5. QED
  BY <1>1, <1>2, <1>4 DEF VaultInv

(* Every step keeps the invariant.                                         *)
LEMMA NextVaultInv == VaultInv /\ [Next]_vars => VaultInv'
BY StepType, AckedStep, RotationStep, StaleStep DEF VaultInv

(* The vault keeps its invariant (engine.rs, storage.rs).                  *)
THEOREM VaultInvariant == Spec => []VaultInv
BY InitVaultInv, NextVaultInv, PTL DEF Spec

(* Every value the engine stores, returns or publishes has its type, and   *)
(* no name outgrows its versions.                                          *)
THEOREM TypeCorrect == Spec => []TypeOK
BY VaultInvariant, PTL DEF VaultInv

(* However many tasks seal, rotate and crash, rotations form chains: no    *)
(* reference is rotated twice, and a rotated row has one successor.        *)
THEOREM ChainCorrect == Spec => []RotationChain
BY VaultInvariant, PTL DEF VaultInv

(* A reference whose rotation was reported does not open for an unseal     *)
(* that begins later.                                                      *)
THEOREM StaleCorrect == Spec => []NoStaleUnseal
BY VaultInvariant, PTL DEF VaultInv

(* The table is append-only, and rotated is for good.                      *)
THEOREM RotatedForGoodCorrect == Spec => RotatedForGood
<1>1. TypeOK /\ [Next]_vars => [\A n \in Names :
       /\ Len(rows'[n]) >= Len(rows[n])
       /\ \A v \in DOMAIN rows[n] :
            rows'[n][v] \in {rows[n][v], [rows[n][v] EXCEPT !.status = "rotated"]}]_vars
  BY AppendOnly
<1>2. QED
  BY <1>1, TypeCorrect, PTL DEF Spec, RotatedForGood

-----------------------------------------------------------------------------
(* A match was found by a lookup, in an active row with the secret.        *)
LEMMA MatchedBy ==
  ASSUME TypeOK, TypeOK', NEW c \in Clients, ClientStep(c), Executed(c)',
         call'[c].result = "true"
  PROVE  /\ LookupHash(c) /\ LookupOutcome(call[c].name, call[c].secret) = "true"
         /\ call'[c].secret = call[c].secret
<1>1. ASSUME NEW method, NEW n, NEW v, NEW x, Call(c, method, n, v, x)
      PROVE  FALSE
  BY <1>1 DEF Call, TypeOK, Executed
<1>2. ASSUME NEW method \in Ops, NEW outcome, NEW version, Execute(c, method, outcome, version)
      PROVE  call'[c].result = outcome /\ call'[c].secret = call[c].secret
  <2>1. call[c] \in Calls
    BY <1>2 DEF Execute, Called, TypeOK, Idle
  <2>2. call'[c] = Finished(call[c], outcome, version)
    BY <1>2 DEF Execute, TypeOK
  <2>3. QED
    BY <2>1, <2>2 DEF Finished, Calls
<1>3. ~(CallSeal(c) \/ CallLookup(c) \/ CallUnseal(c) \/ CallRotate(c))
  BY <1>1 DEF CallSeal, CallLookup, CallUnseal, CallRotate
<1>4. ~(Refuse(c) \/ Seal(c) \/ RotateFails(c) \/ Rotate(c))
  BY <1>2 DEF Refuse, Seal, RotateFails, Rotate, Ops
<1>5. ~Unseal(c)
  <2>1. UnsealOutcome(call[c].name, call[c].version) # "true"
    BY DEF UnsealOutcome
  <2>2. QED
    BY <1>2, <2>1 DEF Unseal, Ops
<1>6. ~Return(c)
  BY DEF Return, TypeOK, Executed, Idle
<1>7. LookupHash(c)
  BY <1>3, <1>4, <1>5, <1>6 DEF ClientStep
<1>8. QED
  BY <1>2, <1>7 DEF LookupHash, Ops

(* A row keeps its secret.                                                 *)
LEMMA KeepsSecret ==
  ASSUME TypeOK, TypeOK', [Next]_vars, NEW n \in Names, NEW v \in DOMAIN rows[n]
  PROVE  /\ v \in DOMAIN rows'[n] /\ rows'[n][v].secret = rows[n][v].secret
         /\ rows'[n][v].hashed = rows[n][v].hashed
<1>1. rows[n] \in Seq(Row) /\ rows'[n] \in Seq(Row)
  BY DEF TypeOK
<1>2. Len(rows[n]) \in Nat /\ Len(rows'[n]) \in Nat /\ v \in 1..Len(rows[n])
  BY <1>1, LenProperties
<1>3. rows[n][v] \in Row
  BY <1>1, <1>2, ElementOfSeq
<1>4. /\ Len(rows'[n]) >= Len(rows[n])
      /\ rows'[n][v] \in {rows[n][v], [rows[n][v] EXCEPT !.status = "rotated"]}
  BY AppendOnly
<1>5. v \in DOMAIN rows'[n]
  BY <1>1, <1>2, <1>4, LenProperties
<1>6. QED
  BY <1>3, <1>4, <1>5 DEF Row

(* A lookup matches an active row, so nobody had been told that it is      *)
(* retired; that it may be rotated while the answer is on its way changes  *)
(* nothing about what was known when the lookup began.                     *)
LEMMA LookupStep ==
  ASSUME TypeOK, TypeOK', AckedIsRotated, LookupRejectsRotated, [Next]_vars
  PROVE  LookupRejectsRotated'
<1> DEFINE Match(n, x, d, v) == rows[n][v].secret = x /\ <<n, v>> \notin d
<1>1. ASSUME NEW c \in Clients, UNCHANGED call[c], Executed(c), call[c].result = "true"
      PROVE  \E v \in DOMAIN rows'[call[c].name] :
               Match(call[c].name, call[c].secret, call[c].dead, v)'
  <2>1. PICK v \in DOMAIN rows[call[c].name] :
          rows[call[c].name][v].secret = call[c].secret /\ <<call[c].name, v>> \notin call[c].dead
    BY <1>1 DEF LookupRejectsRotated
  <2>2. call[c].name \in Names
    BY <1>1 DEF TypeOK, Executed, Idle, Calls
  <2>3. v \in DOMAIN rows'[call[c].name]
        /\ rows'[call[c].name][v].secret = rows[call[c].name][v].secret
    BY <2>2, KeepsSecret
  <2>4. QED
    BY <1>1, <2>1, <2>3
<1>2. CASE UNCHANGED vars
  BY <1>2 DEF vars, LookupRejectsRotated, Executed
<1>3. CASE Crash
  BY <1>3 DEF Crash, LookupRejectsRotated, Executed, Idle
<1>4. ASSUME NEW c \in Clients, ClientStep(c), NEW d \in Clients, Executed(d)',
             call'[d].result = "true"
      PROVE  \E v \in DOMAIN rows'[call'[d].name] :
               /\ rows'[call'[d].name][v].secret = call'[d].secret
               /\ <<call'[d].name, v>> \notin call'[d].dead
  <2>1. CASE d = c
    <3>1. /\ LookupHash(c) /\ LookupOutcome(call[c].name, call[c].secret) = "true"
          /\ call'[c].secret = call[c].secret
      BY <1>4, <2>1, MatchedBy
    <3>2. /\ call[c] \in Calls /\ call[c].stage = "called"
          /\ call'[c].dead = call[c].dead /\ call'[c].name = call[c].name
      BY <1>4, <2>1, OwnCall DEF Executed, Idle
    <3>3. PICK v \in OldestActive(call[c].name) : rows[call[c].name][v].secret = call[c].secret
      BY <3>1 DEF LookupOutcome
    <3>4. Active(call[c].name, v) /\ v \in DOMAIN rows[call[c].name]
      BY <3>3 DEF OldestActive
    <3>5. call[c].dead \subseteq acked
      BY <3>2 DEF AckedIsRotated, Idle
    <3>6. <<call[c].name, v>> \notin acked
      BY <3>4 DEF AckedIsRotated
    <3>7. rows' = rows
      BY <3>1 DEF LookupHash
    <3>8. QED
      BY <2>1, <3>1, <3>2, <3>3, <3>4, <3>5, <3>6, <3>7
  <2>2. CASE d # c
    <3>1. call'[d] = call[d]
      BY <1>4, <2>2, OtherCalls
    <3>2. Executed(d) /\ call[d].result = "true"
      BY <1>4, <3>1 DEF Executed
    <3>3. QED
      BY <1>1, <3>1, <3>2
  <2>3. QED
    BY <2>1, <2>2
<1>5. QED
  BY <1>2, <1>3, <1>4 DEF Next, LookupRejectsRotated

(* A bearer token is rejected by every lookup that begins after its        *)
(* rotation was reported (engine.rs lookup_hash).                          *)
THEOREM LookupCorrect == Spec => []LookupRejectsRotated
<1>1. Init => LookupRejectsRotated
  BY DEF Init, LookupRejectsRotated, Executed, Idle
<1>2. VaultInv /\ VaultInv' /\ LookupRejectsRotated /\ [Next]_vars => LookupRejectsRotated'
  BY LookupStep DEF VaultInv
<1>3. QED
  BY <1>1, <1>2, VaultInvariant, PTL DEF Spec

-----------------------------------------------------------------------------
(* What ties the trail to the calls in flight: callers use what they were  *)
(* given, a reference is given with its announcement, and what a call has  *)
(* yet to announce exists and nobody else announces it.                    *)
KnownAnnounced == \A r \in known : Announced(r[1], r[2])

CallsNamed ==
  \A c \in Clients : call[c] # Idle =>
    call[c].version = 0 \/ <<call[c].name, call[c].version>> \in known \cup Forged

PendingFresh ==
  \A c \in Clients : \A e \in PendingEvent(c) :
    /\ Exists(e[1], e[3]) /\ ~Announced(e[1], e[3])
    /\ \A d \in Clients : \A f \in PendingEvent(d) : Announces(f, e[1], e[3]) => d = c

AuditInv == KnownAnnounced /\ CallsNamed /\ PendingFresh /\ AuditTells

(* A call that begins, is refused or only reads has nothing to announce.   *)
QuietCall(c) ==
  \/ CallSeal(c) \/ CallLookup(c) \/ CallUnseal(c) \/ CallRotate(c)
  \/ Refuse(c) \/ Unseal(c) \/ RotateFails(c) \/ LookupHash(c)

LEMMA QuietEffect ==
  ASSUME TypeOK, NEW c \in Clients, QuietCall(c)
  PROVE  /\ UNCHANGED <<rows, known, audit, lost>>
         /\ \A d \in Clients : PendingEvent(d)' = PendingEvent(d)
<1>1. UNCHANGED <<rows, known, audit, lost>>
  BY DEF QuietCall, CallSeal, CallLookup, CallUnseal, CallRotate, Call, Refuse, Unseal,
     RotateFails, LookupHash, Execute
<1>2. \A d \in Clients : d # c => call'[d] = call[d]
  BY OtherCalls DEF QuietCall, ClientStep
<1>3. ASSUME NEW method, NEW n, NEW v, NEW x, Call(c, method, n, v, x)
      PROVE  ~Executed(c) /\ ~Executed(c)'
  BY <1>3 DEF Call, TypeOK, Executed, Idle
<1>4. ASSUME NEW method, NEW outcome, Execute(c, method, outcome, 0)
      PROVE  ~Executed(c) /\ call'[c].created = 0
  <2>1. call[c] \in Calls /\ call[c].stage = "called"
    BY <1>4 DEF Execute, Called, TypeOK, Idle
  <2>2. call'[c] = Finished(call[c], outcome, 0)
    BY <1>4 DEF Execute, TypeOK
  <2>3. QED
    BY <2>1, <2>2 DEF Finished, Calls, Executed
<1>5. PendingEvent(c) = {} /\ PendingEvent(c)' = {}
  <2>1. CASE CallSeal(c) \/ CallLookup(c) \/ CallUnseal(c) \/ CallRotate(c)
    BY <1>3, <2>1 DEF CallSeal, CallLookup, CallUnseal, CallRotate, PendingEvent
  <2>2. CASE Refuse(c) \/ Unseal(c) \/ RotateFails(c) \/ LookupHash(c)
    BY <1>4, <2>2 DEF Refuse, Unseal, RotateFails, LookupHash, PendingEvent
  <2>3. QED
    BY <2>1, <2>2 DEF QuietCall
<1>6. \A d \in Clients : d # c => PendingEvent(d)' = PendingEvent(d)
  BY <1>2 DEF PendingEvent, EventOf, Executed
<1>7. QED
  BY <1>1, <1>5, <1>6

(* A call that inserts a version has it to announce, with the next number. *)
LEMMA InsertEffect ==
  ASSUME TypeOK, NEW c \in Clients, Seal(c) \/ Rotate(c)
  PROVE  /\ UNCHANGED <<known, audit, lost>> /\ call[c] \in Calls
         /\ call[c].name \in Names /\ Len(rows[call[c].name]) + 1 \in Versions
         /\ PendingEvent(c) = {}
         /\ PendingEvent(c)'
              = {<<call[c].name, call[c].version, Len(rows[call[c].name]) + 1>>}
         /\ \A d \in Clients : d # c => PendingEvent(d)' = PendingEvent(d)
         /\ \A n \in Names, v \in Versions :
              Exists(n, v)' <=> Exists(n, v) \/ (n = call[c].name /\ v = Len(rows[n]) + 1)
<1> DEFINE m == Len(rows[call[c].name]) + 1
<1>1. call[c] \in Calls /\ call[c].name \in Names /\ m \in Versions /\ m # 0
  <2>1. call[c] \in Calls /\ call[c].name \in Names /\ m \in Versions
    BY SealEffect, RotateEffect
  <2>2. QED
    BY <2>1, VersionAssumption DEF Versions
<1>2. UNCHANGED <<known, audit, lost>>
  BY DEF Seal, Rotate, Execute
<1>3. call[c].stage = "called" /\ call'[c] = Finished(call[c], "ok", m)
  BY DEF Seal, Rotate, Execute, Called, TypeOK, NextVersion
<1>4. PendingEvent(c) = {} /\ PendingEvent(c)' = {<<call[c].name, call[c].version, m>>}
  <2>1. /\ call'[c].stage = "executed" /\ call'[c].created = m
        /\ call'[c].name = call[c].name /\ call'[c].version = call[c].version
    BY <1>1, <1>3 DEF Finished, Calls
  <2>2. QED
    BY <1>1, <1>3, <2>1 DEF PendingEvent, EventOf, Executed
<1>5. \A d \in Clients : d # c => PendingEvent(d)' = PendingEvent(d)
  <2>1. \A d \in Clients : d # c => call'[d] = call[d]
    BY OtherCalls DEF ClientStep
  <2>2. QED
    BY <2>1 DEF PendingEvent, EventOf, Executed
<1>6. \A n \in Names, v \in Versions :
        Exists(n, v)' <=> Exists(n, v) \/ (n = call[c].name /\ v = Len(rows[n]) + 1)
  BY SealVersions, RotateVersions
<1>7. QED
  BY <1>1, <1>2, <1>4, <1>5, <1>6

(* Only references to versions there can be are issued or announced.       *)
LEMMA EventTypes ==
  ASSUME TypeOK
  PROVE  /\ \A c \in Clients : PendingEvent(c) \subseteq Events
         /\ \A i \in DOMAIN audit : audit[i] \in Events
         /\ audit \in Seq(Events) /\ DOMAIN audit = 1..Len(audit) /\ Len(audit) \in Nat
<1>1. \A c \in Clients : PendingEvent(c) \subseteq Events
  BY VersionAssumption DEF TypeOK, PendingEvent, EventOf, Events, Calls, Executed, Idle, Versions
<1>2. audit \in Seq(Events)
  BY DEF TypeOK
<1>3. QED
  BY <1>1, <1>2, ElementOfSeq, LenProperties

(* A version once made is made for good.                                   *)
LEMMA StaysMade ==
  ASSUME TypeOK, [Next]_vars, NEW e \in Events, Exists(e[1], e[3])
  PROVE  Exists(e[1], e[3])'
BY StaysRotated DEF Events

(* Callers use what they were given, after every step.                     *)
LEMMA NamedStep ==
  ASSUME TypeOK, TypeOK', CallsNamed, [Next]_vars
  PROVE  CallsNamed'
<1> DEFINE Named(c) == call[c].version = 0
                       \/ <<call[c].name, call[c].version>> \in known \cup Forged
<1>1. known \subseteq known'
  BY DEF Next, ClientStep, vars, Crash, Call, CallSeal, CallLookup, CallUnseal, CallRotate,
     Refuse, Unseal, RotateFails, LookupHash, Return, Seal, Rotate, Execute
<1>2. CASE UNCHANGED vars
  BY <1>2 DEF vars, CallsNamed
<1>3. CASE Crash
  BY <1>3 DEF Crash, CallsNamed, Idle
<1>4. ASSUME NEW c \in Clients, ClientStep(c) PROVE CallsNamed'
  <2>1. ASSUME NEW d \in Clients, d # c, call'[d] # Idle PROVE Named(d)'
    <3>1. call'[d] = call[d]
      BY <1>4, <2>1, OtherCalls
    <3>2. QED
      BY <1>1, <2>1, <3>1 DEF CallsNamed
  <2>2. ASSUME call'[c] # Idle PROVE Named(c)'
    <3>1. CASE CallSeal(c) \/ CallLookup(c)
      BY <3>1 DEF CallSeal, CallLookup, Call, TypeOK
    <3>2. CASE CallUnseal(c) \/ CallRotate(c)
      <4>1. PICK r \in known \cup Forged :
              call'[c].name = r[1] /\ call'[c].version = r[2] /\ known' = known
        BY <3>2 DEF CallUnseal, CallRotate, Call, TypeOK
      <4>2. r = <<r[1], r[2]>>
        BY SetsAssumption DEF TypeOK, Refs
      <4>3. QED
        BY <4>1, <4>2
    <3>3. CASE Refuse(c) \/ Seal(c) \/ Unseal(c) \/ RotateFails(c) \/ Rotate(c) \/ LookupHash(c)
      <4>1. ASSUME NEW method, NEW outcome, NEW version, Execute(c, method, outcome, version)
            PROVE  /\ call[c] # Idle /\ call'[c].name = call[c].name
                   /\ call'[c].version = call[c].version
        <5>1. call[c] \in Calls /\ call[c] # Idle
          BY <4>1 DEF Execute, Called, TypeOK, Idle
        <5>2. call'[c] = Finished(call[c], outcome, version)
          BY <4>1 DEF Execute, TypeOK
        <5>3. QED
          BY <5>1, <5>2 DEF Finished, Calls
      <4>2. QED
        BY <1>1, <3>3, <4>1 DEF Refuse, Seal, Unseal, RotateFails, Rotate, LookupHash, CallsNamed
    <3>4. CASE Return(c)
      BY <2>2, <3>4 DEF Return, TypeOK
    <3>5. QED
      BY <1>4, <3>1, <3>2, <3>3, <3>4 DEF ClientStep
  <2>3. QED
    BY <2>1, <2>2 DEF CallsNamed
<1>5. QED
  BY <1>2, <1>3, <1>4 DEF Next

(* A call that returns moves its event, if it has one, into the trail.     *)
LEMMA ReturnEffect ==
  ASSUME TypeOK, NEW c \in Clients, Return(c)
  PROVE  /\ UNCHANGED <<rows, lost>> /\ PendingEvent(c)' = {}
         /\ \A d \in Clients : d # c => PendingEvent(d)' = PendingEvent(d)
         /\ \/ PendingEvent(c) = {} /\ UNCHANGED <<audit, known>>
            \/ /\ PendingEvent(c) = {EventOf(c)} /\ EventOf(c) \in Events
               /\ audit' = Append(audit, EventOf(c))
               /\ known' = known \cup {<<EventOf(c)[1], EventOf(c)[3]>>}
<1>1. UNCHANGED <<rows, lost>> /\ call'[c] = Idle
  BY DEF Return, TypeOK
<1>2. PendingEvent(c)' = {}
  BY <1>1 DEF PendingEvent, Executed, Idle
<1>3. \A d \in Clients : d # c => PendingEvent(d)' = PendingEvent(d)
  BY OtherCalls DEF ClientStep, PendingEvent, EventOf, Executed
<1>4. PendingEvent(c) = {} \/ (PendingEvent(c) = {EventOf(c)} /\ EventOf(c) \in Events)
  BY EventTypes DEF PendingEvent
<1>5. audit' = Published(c) /\ known' = known \cup Issued(c)
  BY DEF Return
<1>6. CASE PendingEvent(c) = {}
  BY <1>1, <1>2, <1>3, <1>5, <1>6 DEF Published, Issued
<1>7. CASE PendingEvent(c) = {EventOf(c)} /\ EventOf(c) \in Events
  <2>1. PendingEvent(c) # {} /\ Issued(c) = {<<EventOf(c)[1], EventOf(c)[3]>>}
    BY <1>7 DEF Issued
  <2>2. QED
    BY <1>1, <1>2, <1>3, <1>5, <1>7, <2>1 DEF Published
<1>8. QED
  BY <1>4, <1>6, <1>7

(* The trail grows at its end.                                             *)
LEMMA TrailGrows ==
  ASSUME TypeOK, NEW e \in Events, audit' = Append(audit, e)
  PROVE  /\ DOMAIN audit' = 1..(Len(audit) + 1) /\ audit'[Len(audit) + 1] = e
         /\ \A i \in DOMAIN audit : audit'[i] = audit[i]
         /\ \A n, v : Announced(n, v)' <=> Announced(n, v) \/ Announces(e, n, v)
<1>1. audit \in Seq(Events) /\ DOMAIN audit = 1..Len(audit) /\ Len(audit) \in Nat
  BY EventTypes
<1>2. PICK q \in Seq(Events) : q = audit
  BY <1>1
<1>3. /\ DOMAIN Append(q, e) = 1..(Len(q) + 1) /\ Append(q, e)[Len(q) + 1] = e
      /\ \A i \in 1..Len(q) : Append(q, e)[i] = q[i]
  OBVIOUS
<1>4. /\ DOMAIN audit' = 1..(Len(audit) + 1) /\ audit'[Len(audit) + 1] = e
      /\ \A i \in DOMAIN audit : audit'[i] = audit[i]
  BY <1>1, <1>2, <1>3
<1>5. ASSUME NEW n, NEW v
      PROVE  Announced(n, v)' <=> Announced(n, v) \/ Announces(e, n, v)
  BY <1>1, <1>4 DEF Announced, Announces
<1>6. QED
  BY <1>4, <1>5

(* A call that has nothing to do with the trail leaves it right.           *)
LEMMA AuditQuiet ==
  ASSUME AuditInv, CallsNamed', UNCHANGED <<rows, known, audit, lost>>,
         \A d \in Clients : PendingEvent(d)' = PendingEvent(d)
  PROVE  AuditInv'
<1>1. /\ \A n, v : Exists(n, v)' <=> Exists(n, v)
      /\ \A n, v : Announced(n, v)' <=> Announced(n, v)
      /\ \A n, v : Pending(n, v)' <=> Pending(n, v)
      /\ \A n, v : Swallowed(n, v)' <=> Swallowed(n, v)
  BY DEF Exists, Announced, Announces, Pending, Swallowed
<1>2. KnownAnnounced' /\ AuditCausal'
  BY <1>1 DEF AuditInv, KnownAnnounced, AuditTells, AuditCausal
<1>3. PendingFresh'
  BY <1>1 DEF AuditInv, PendingFresh, Announces
<1>4. AuditComplete'
  BY <1>1 DEF AuditInv, AuditTells, AuditComplete, Announces
<1>5. QED
  BY <1>2, <1>3, <1>4 DEF AuditInv, AuditTells

(* A death swallows what was to be announced, and no more.                 *)
LEMMA AuditCrash ==
  ASSUME AuditInv, CallsNamed', Crash
  PROVE  AuditInv'
<1>1. /\ \A c \in Clients : PendingEvent(c)' = {}
      /\ UNCHANGED <<rows, known, audit>>
      /\ lost' = lost \cup UNION {PendingEvent(c) : c \in Clients}
  BY DEF Crash, PendingEvent, Executed, Idle
<1>2. /\ \A n, v : Exists(n, v)' <=> Exists(n, v)
      /\ \A n, v : Announced(n, v)' <=> Announced(n, v)
  BY <1>1 DEF Exists, Announced, Announces
<1>3. \A n, v : Pending(n, v) \/ Swallowed(n, v) => Swallowed(n, v)'
  BY <1>1 DEF Pending, Swallowed, Announces
<1>4. KnownAnnounced' /\ AuditCausal' /\ PendingFresh'
  BY <1>1, <1>2 DEF AuditInv, KnownAnnounced, AuditTells, AuditCausal, PendingFresh
<1>5. AuditComplete'
  BY <1>1, <1>2, <1>3 DEF AuditInv, AuditTells, AuditComplete, Announces
<1>6. QED
  BY <1>4, <1>5 DEF AuditInv, AuditTells

(* An inserted version is new to the trail and to the other calls.         *)
LEMMA AuditInsert ==
  ASSUME TypeOK, TypeOK', AuditInv, CallsNamed', [Next]_vars, NEW c \in Clients,
         Seal(c) \/ Rotate(c)
  PROVE  AuditInv'
<1>1. PICK k \in Names, m \in Versions, e \in Events :
        /\ m = Len(rows[k]) + 1 /\ e[1] = k /\ e[3] = m
        /\ PendingEvent(c) = {} /\ PendingEvent(c)' = {e}
        /\ UNCHANGED <<known, audit, lost>>
        /\ \A d \in Clients : d # c => PendingEvent(d)' = PendingEvent(d)
        /\ \A n \in Names, v \in Versions :
             Exists(n, v)' <=> Exists(n, v) \/ (n = k /\ v = Len(rows[n]) + 1)
  <2> DEFINE kk == call[c].name
             mm == Len(rows[kk]) + 1
  <2>1. /\ UNCHANGED <<known, audit, lost>> /\ call[c] \in Calls /\ kk \in Names /\ mm \in Versions
        /\ PendingEvent(c) = {} /\ PendingEvent(c)' = {<<kk, call[c].version, mm>>}
        /\ \A d \in Clients : d # c => PendingEvent(d)' = PendingEvent(d)
        /\ \A n \in Names, v \in Versions :
             Exists(n, v)' <=> Exists(n, v) \/ (n = kk /\ v = Len(rows[n]) + 1)
    BY InsertEffect
  <2>2. <<kk, call[c].version, mm>> \in Events
    BY <2>1 DEF Calls, Events
  <2>3. QED
    BY <2>1, <2>2
<1>2. ~Exists(k, m)
  BY <1>1, LenProperties DEF Exists, TypeOK
<1>3. \A n, v : Announced(n, v)' <=> Announced(n, v)
  BY <1>1 DEF Announced, Announces
<1>4. ~Announced(k, m)
  <2>1. ASSUME NEW i \in DOMAIN audit, Announces(audit[i], k, m) PROVE FALSE
    BY <1>2, <2>1 DEF AuditInv, AuditTells, AuditComplete, Announces
  <2>2. QED
    BY <2>1 DEF Announced
<1>5. \A d \in Clients : \A f \in PendingEvent(d) : ~Announces(f, k, m)
  BY <1>2 DEF AuditInv, PendingFresh, Announces
<1>6. \A f \in Events : Exists(f[1], f[3]) => Exists(f[1], f[3])'
  BY StaysMade
<1>7. Exists(k, m)'
  BY <1>1
<1>8. KnownAnnounced' /\ AuditCausal'
  BY <1>1, <1>3 DEF AuditInv, KnownAnnounced, AuditTells, AuditCausal
<1>9. PendingFresh'
  <2>1. ASSUME NEW d \in Clients, NEW f \in PendingEvent(d)'
        PROVE  /\ Exists(f[1], f[3])' /\ ~Announced(f[1], f[3])'
               /\ \A b \in Clients : \A g \in PendingEvent(b)' :
                    Announces(g, f[1], f[3]) => b = d
    <3>1. CASE d = c
      <4>1. f = e
        BY <1>1, <3>1
      <4>2. \A b \in Clients : \A g \in PendingEvent(b)' : Announces(g, k, m) => b = c
        BY <1>1, <1>5
      <4>3. QED
        BY <1>1, <1>3, <1>4, <1>7, <3>1, <4>1, <4>2
    <3>2. CASE d # c
      <4>1. f \in PendingEvent(d) /\ f \in Events
        BY <1>1, <3>2, EventTypes
      <4>2. /\ Exists(f[1], f[3]) /\ ~Announced(f[1], f[3])
            /\ \A b \in Clients : \A g \in PendingEvent(b) : Announces(g, f[1], f[3]) => b = d
        BY <4>1 DEF AuditInv, PendingFresh
      <4>3. ~Announces(e, f[1], f[3])
        BY <1>1, <1>5, <4>1 DEF Announces
      <4>4. QED
        BY <1>1, <1>3, <1>6, <4>1, <4>2, <4>3
    <3>3. QED
      BY <3>1, <3>2
  <2>2. QED
    BY <2>1 DEF PendingFresh
<1>10. AuditComplete'
  <2>1. ASSUME NEW n \in Names, NEW v \in Versions, Exists(n, v)', rows'[n][v].hashed
        PROVE  Announced(n, v)' \/ Pending(n, v)' \/ Swallowed(n, v)'
    <3>1. CASE n = k /\ v = m
      BY <1>1, <3>1 DEF Pending, Announces
    <3>2. CASE ~(n = k /\ v = m)
      <4>1. Exists(n, v)
        BY <1>1, <2>1, <3>2
      <4>2. rows[n][v].hashed
        BY <2>1, <4>1, KeepsSecret, LenProperties DEF Exists, TypeOK
      <4>3. Announced(n, v) \/ Pending(n, v) \/ Swallowed(n, v)
        BY <4>1, <4>2 DEF AuditInv, AuditTells, AuditComplete
      <4>4. Pending(n, v) => Pending(n, v)'
        BY <1>1 DEF Pending
      <4>5. Swallowed(n, v) => Swallowed(n, v)'
        BY <1>1 DEF Swallowed
      <4>6. QED
        BY <1>3, <4>3, <4>4, <4>5
    <3>3. QED
      BY <3>1, <3>2
  <2>2. ASSUME NEW i \in DOMAIN audit
        PROVE  /\ Exists(audit[i][1], audit[i][3])'
               /\ \A j \in DOMAIN audit : Announces(audit[j], audit[i][1], audit[i][3]) => j = i
    <3>1. PICK f \in Events : f = audit[i]
      BY EventTypes
    <3>2. Exists(f[1], f[3]) /\ \A j \in DOMAIN audit : Announces(audit[j], f[1], f[3]) => j = i
      BY <3>1 DEF AuditInv, AuditTells, AuditComplete
    <3>3. Exists(f[1], f[3])' /\ audit'[i] = f
      BY <1>1, <1>6, <3>1, <3>2
    <3>4. QED
      BY <3>1, <3>2, <3>3 DEF Exists
  <2>3. audit' = audit
    BY <1>1
  <2>4. QED
    BY <2>1, <2>2, <2>3 DEF AuditComplete, Announces
<1>11. QED
  BY <1>8, <1>9, <1>10 DEF AuditInv, AuditTells

(* A published event comes after the one that gave its caller the          *)
(* reference, and is the only one of its version.                          *)
LEMMA AuditReturn ==
  ASSUME TypeOK, TypeOK', AuditInv, CallsNamed', NEW c \in Clients, Return(c)
  PROVE  AuditInv'
<1>1. CASE PendingEvent(c) = {} /\ UNCHANGED <<audit, known>>
  BY <1>1, ReturnEffect, AuditQuiet
<1>2. ASSUME NEW e \in Events, e = EventOf(c), PendingEvent(c) = {e},
             audit' = Append(audit, e), known' = known \cup {<<e[1], e[3]>>}
      PROVE  AuditInv'
  <2>1. /\ UNCHANGED <<rows, lost>> /\ PendingEvent(c)' = {}
        /\ \A d \in Clients : d # c => PendingEvent(d)' = PendingEvent(d)
    BY ReturnEffect
  <2>2. /\ DOMAIN audit' = 1..(Len(audit) + 1) /\ audit'[Len(audit) + 1] = e
        /\ \A i \in DOMAIN audit : audit'[i] = audit[i]
        /\ \A n, v : Announced(n, v)' <=> Announced(n, v) \/ Announces(e, n, v)
        /\ DOMAIN audit = 1..Len(audit) /\ Len(audit) \in Nat
    BY <1>2, TrailGrows, EventTypes
  <2>3. \A n, v : Exists(n, v)' <=> Exists(n, v)
    BY <2>1 DEF Exists
  <2>4. /\ Exists(e[1], e[3]) /\ ~Announced(e[1], e[3])
        /\ \A d \in Clients : \A f \in PendingEvent(d) : Announces(f, e[1], e[3]) => d = c
    BY <1>2 DEF AuditInv, PendingFresh
  <2>5. KnownAnnounced'
    BY <1>2, <2>2 DEF AuditInv, KnownAnnounced, Announces
  <2>6. PendingFresh'
    <3>1. ASSUME NEW d \in Clients, NEW f \in PendingEvent(d)'
          PROVE  /\ Exists(f[1], f[3])' /\ ~Announced(f[1], f[3])'
                 /\ \A b \in Clients : \A g \in PendingEvent(b)' :
                      Announces(g, f[1], f[3]) => b = d
      <4>1. d # c /\ f \in PendingEvent(d)
        BY <2>1, <3>1
      <4>2. /\ Exists(f[1], f[3]) /\ ~Announced(f[1], f[3])
            /\ \A b \in Clients : \A g \in PendingEvent(b) : Announces(g, f[1], f[3]) => b = d
        BY <4>1 DEF AuditInv, PendingFresh
      <4>3. ~Announces(e, f[1], f[3])
        BY <1>2, <4>1, <4>2
      <4>4. QED
        BY <2>1, <2>2, <2>3, <4>2, <4>3
    <3>2. QED
      BY <3>1 DEF PendingFresh
  <2>7. AuditCausal'
    <3>1. ASSUME NEW i \in DOMAIN audit', audit'[i][2] # 0,
                 <<audit'[i][1], audit'[i][2]>> \notin Forged
          PROVE  \E j \in 1..(i - 1) :
                   audit'[j][1] = audit'[i][1] /\ audit'[j][3] = audit'[i][2]
      <4>1. CASE i \in DOMAIN audit
        <5>1. PICK j \in 1..(i - 1) : audit[j][1] = audit[i][1] /\ audit[j][3] = audit[i][2]
          BY <2>2, <3>1, <4>1 DEF AuditInv, AuditTells, AuditCausal
        <5>2. j \in DOMAIN audit
          BY <2>2, <4>1
        <5>3. QED
          BY <2>2, <4>1, <5>1, <5>2
      <4>2. CASE i = Len(audit) + 1
        <5>1. call[c] # Idle /\ e[1] = call[c].name /\ e[2] = call[c].version
          BY <1>2 DEF EventOf, Return, Executed, Idle
        <5>2. <<e[1], e[2]>> \in known
          BY <2>2, <3>1, <4>2, <5>1 DEF AuditInv, CallsNamed
        <5>3. Announced(e[1], e[2])
          BY <5>2 DEF AuditInv, KnownAnnounced
        <5>4. PICK j \in DOMAIN audit : audit[j][1] = e[1] /\ audit[j][3] = e[2]
          BY <5>3 DEF Announced, Announces
        <5>5. QED
          BY <2>2, <4>2, <5>4
      <4>3. QED
        BY <2>2, <3>1, <4>1, <4>2
    <3>2. QED
      BY <3>1 DEF AuditCausal
  <2>8. AuditComplete'
    <3>1. ASSUME NEW n \in Names, NEW v \in Versions, Exists(n, v)', rows'[n][v].hashed
          PROVE  Announced(n, v)' \/ Pending(n, v)' \/ Swallowed(n, v)'
      <4>1. Announced(n, v) \/ Pending(n, v) \/ Swallowed(n, v)
        BY <2>1, <2>3, <3>1 DEF AuditInv, AuditTells, AuditComplete
      <4>2. Pending(n, v) => Pending(n, v)' \/ Announces(e, n, v)
        BY <1>2, <2>1 DEF Pending
      <4>3. Swallowed(n, v) => Swallowed(n, v)'
        BY <2>1 DEF Swallowed
      <4>4. QED
        BY <2>2, <4>1, <4>2, <4>3
    <3>2. ASSUME NEW i \in DOMAIN audit', NEW f, f = audit'[i]
          PROVE  /\ Exists(f[1], f[3])
                 /\ \A j \in DOMAIN audit' : Announces(audit'[j], f[1], f[3]) => j = i
      <4>1. \A j \in DOMAIN audit : ~Announces(audit[j], e[1], e[3])
        BY <2>4 DEF Announced
      <4>2. CASE i \in DOMAIN audit
        <5>1. f = audit[i]
          BY <2>2, <3>2, <4>2
        <5>2. Exists(f[1], f[3]) /\ \A j \in DOMAIN audit : Announces(audit[j], f[1], f[3]) => j = i
          BY <4>2, <5>1 DEF AuditInv, AuditTells, AuditComplete
        <5>3. ~Announces(e, f[1], f[3])
          BY <4>1, <4>2, <5>1 DEF Announces
        <5>4. QED
          BY <2>2, <4>2, <5>2, <5>3
      <4>3. CASE i = Len(audit) + 1
        <5>1. f = e
          BY <2>2, <3>2, <4>3
        <5>2. QED
          BY <2>2, <2>4, <4>1, <4>3, <5>1
      <4>4. QED
        BY <2>2, <3>2, <4>2, <4>3
    <3>3. ASSUME NEW i \in DOMAIN audit' PROVE Exists(audit[i][1], audit[i][3])'
      <4>1. PICK f : f = audit'[i]
        OBVIOUS
      <4>2. QED
        BY <2>1, <3>2, <4>1 DEF Exists
    <3>4. \A i, j \in DOMAIN audit' : Announces(audit'[j], audit'[i][1], audit'[i][3]) => j = i
      BY <3>2
    <3>5. QED
      BY <3>1, <3>3, <3>4 DEF AuditComplete, Announces
  <2>9. QED
    BY <2>5, <2>6, <2>7, <2>8 DEF AuditInv, AuditTells
<1>3. QED
  BY <1>1, <1>2, ReturnEffect

(* The audit trail may be trusted: a rotation comes after the creation of  *)
(* what it rotates, each version is announced once, and only a death       *)
(* between commit and publish keeps one from it (engine.rs).               *)
THEOREM AuditCorrect == Spec => []AuditTells
<1>1. Init => AuditInv
  <2> SUFFICES ASSUME Init PROVE AuditInv
    OBVIOUS
  <2>1. \A n \in Names, v \in Versions : Exists(n, v) => ~rows[n][v].hashed
    BY DEF Init, Exists, LegacyRow
  <2>2. \A c \in Clients : PendingEvent(c) = {} /\ call[c] = Idle
    BY DEF Init, PendingEvent, Executed, Idle
  <2>3. DOMAIN audit = {} /\ known = {}
    BY DEF Init
  <2>4. QED
    BY <2>1, <2>2, <2>3 DEF AuditInv, KnownAnnounced, CallsNamed, PendingFresh, AuditTells,
       AuditCausal, AuditComplete
<1>2. VaultInv /\ VaultInv' /\ AuditInv /\ [Next]_vars => AuditInv'
  <2> SUFFICES ASSUME TypeOK, TypeOK', AuditInv, [Next]_vars PROVE AuditInv'
    BY DEF VaultInv
  <2>1. CallsNamed'
    BY NamedStep DEF AuditInv
  <2>2. ASSUME NEW c \in Clients, QuietCall(c) PROVE AuditInv'
    BY <2>1, <2>2, QuietEffect, AuditQuiet
  <2>3. ASSUME NEW c \in Clients, Seal(c) \/ Rotate(c) PROVE AuditInv'
    BY <2>1, <2>3, AuditInsert
  <2>4. ASSUME NEW c \in Clients, Return(c) PROVE AuditInv'
    BY <2>1, <2>4, AuditReturn
  <2>5. CASE Crash
    BY <2>1, <2>5, AuditCrash
  <2>6. CASE UNCHANGED vars
    <3>1. UNCHANGED <<rows, known, audit, lost>>
          /\ \A d \in Clients : PendingEvent(d)' = PendingEvent(d)
      BY <2>6 DEF vars, PendingEvent, EventOf, Executed
    <3>2. QED
      BY <2>1, <3>1, AuditQuiet
  <2>7. QED
    BY <2>2, <2>3, <2>4, <2>5, <2>6 DEF Next, ClientStep, QuietCall
<1>3. AuditInv => AuditTells
  BY DEF AuditInv
<1>4. QED
  BY <1>1, <1>2, <1>3, VaultInvariant, PTL DEF Spec

-----------------------------------------------------------------------------
(* The state of the contract, read off the table.                          *)
Status(r) == IF Exists(r[1], r[2]) THEN rows[r[1]][r[2]].status ELSE "unused"
Value(r)  == IF Exists(r[1], r[2]) THEN rows[r[1]][r[2]].secret ELSE "none"

(* The initial states are initial states of the contract.                  *)
LEMMA InitContract == Init => Contract!Init
<1> SUFFICES ASSUME Init PROVE Contract!Init
  OBVIOUS
<1>1. TypeOK
  BY InitType
<1>2. ASSUME NEW r \in Refs
      PROVE  \/ Status(r) = "unused" /\ Value(r) = "none"
             \/ Status(r) = "active" /\ Value(r) \in Secrets
  <2>1. r[1] \in Names
    BY DEF Refs
  <2>2. CASE rows[r[1]] = <<>>
    BY <2>2 DEF Status, Value, Exists
  <2>3. ASSUME NEW x \in Secrets, rows[r[1]] = <<LegacyRow(x)>>
        PROVE  \/ Status(r) = "unused" /\ Value(r) = "none"
               \/ Status(r) = "active" /\ Value(r) \in Secrets
    BY <2>3 DEF Status, Value, Exists, LegacyRow
  <2>4. QED
    BY <2>1, <2>2, <2>3 DEF Init
<1>3. QED
  BY <1>2 DEF Contract!Init, Contract!Refs, Refs, Versions, Status, Value

(* A seal issues the next reference of its name.                           *)
LEMMA SealIssues ==
  ASSUME TypeOK, TypeOK', NEW c \in Clients, Seal(c)
  PROVE  Contract!Next
<1> DEFINE k == call[c].name
           m == Len(rows[k]) + 1
           x == call[c].secret
<1>1. /\ k \in Names /\ m \in Versions /\ x \in Secrets /\ Len(rows[k]) \in Nat
      /\ rows'[k][m] = NewRow(x) /\ Len(rows'[k]) = m
      /\ \A n \in Names \ {k} : rows'[n] = rows[n]
      /\ \A v \in 1..Len(rows[k]) : rows'[k][v] = rows[k][v]
  BY SealEffect, LenProperties DEF Calls, TypeOK
<1> DEFINE new == <<k, m>>
<1>2. new \in Refs
  BY <1>1 DEF Refs
<1>3. \A q \in Refs : q[1] = new[1] /\ q[2] >= new[2] => Status(q) = "unused"
  BY <1>1 DEF Status, Exists, Refs, Versions
<1>4. ASSUME NEW r \in Refs, r # new
      PROVE  Status(r)' = Status(r) /\ Value(r)' = Value(r)
  <2>1. r[1] \in Names /\ r[2] \in Versions /\ r = <<r[1], r[2]>>
    BY DEF Refs
  <2>2. CASE r[1] # k
    BY <1>1, <2>1, <2>2 DEF Status, Value, Exists
  <2>3. CASE r[1] = k
    <3>1. r[2] # m
      BY <1>4, <2>1, <2>3
    <3>2. Exists(r[1], r[2])' <=> Exists(r[1], r[2])
      BY <1>1, <2>1, <2>3, <3>1, VersionAssumption DEF Exists, Versions
    <3>3. Exists(r[1], r[2]) => rows'[r[1]][r[2]] = rows[r[1]][r[2]]
      BY <1>1, <2>3 DEF Exists
    <3>4. QED
      BY <3>2, <3>3 DEF Status, Value
  <2>4. QED
    BY <2>2, <2>3
<1>5. ASSUME NEW r \in Refs, r = new
      PROVE  Status(r)' = "active" /\ Value(r)' = x
  BY <1>1, <1>5 DEF Status, Value, Exists, NewRow, Versions
<1> HIDE DEF new, k, m, x
<1>6. [r \in Refs |-> Status(r)'] = [[r \in Refs |-> Status(r)] EXCEPT ![new] = "active"]
  BY <1>2, <1>4, <1>5
<1>7. [r \in Refs |-> Value(r)'] = [[r \in Refs |-> Value(r)] EXCEPT ![new] = x]
  BY <1>2, <1>4, <1>5
<1>8. ASSUME NEW r \in Refs, NEW y \in Secrets, r = new, y = x PROVE Contract!Issue(r, y)
  BY <1>3, <1>6, <1>7, <1>8
  DEF Contract!Issue, Contract!Fresh, Contract!Refs, Refs, Versions, Status, Value
<1>9. QED
  BY <1>1, <1>2, <1>8 DEF Contract!Next, Contract!Refs, Refs, Versions

(* A rotate replaces an active reference by the next one of its name.      *)
LEMMA RotateReplaces ==
  ASSUME TypeOK, TypeOK', NEW c \in Clients, Rotate(c)
  PROVE  Contract!Next
<1> DEFINE k == call[c].name
           v == call[c].version
           m == Len(rows[k]) + 1
           x == call[c].secret
<1>1. /\ k \in Names /\ m \in Versions /\ x \in Secrets /\ Len(rows[k]) \in Nat
      /\ v \in 1..Len(rows[k]) /\ v \in Versions
      /\ rows'[k][m] = NewRow(x) /\ Len(rows'[k]) = m
      /\ \A n \in Names \ {k} : rows'[n] = rows[n]
      /\ \A w \in 1..Len(rows[k]) : w # v => rows'[k][w] = rows[k][w]
      /\ rows'[k][v] = [rows[k][v] EXCEPT !.status = "rotated"]
  BY RotateEffect, LenProperties DEF Calls, TypeOK
<1>2. rows[k][v] \in Row
  BY <1>1, ElementOfSeq DEF TypeOK
<1> DEFINE new == <<k, m>>
           old == <<k, v>>
<1>3. new \in Refs /\ old \in Refs /\ new # old
  BY <1>1 DEF Refs, Versions
<1>4. \A q \in Refs : q[1] = new[1] /\ q[2] >= new[2] => Status(q) = "unused"
  BY <1>1 DEF Status, Exists, Refs, Versions
<1>5. Status(old) = "active"
  BY DEF Rotate, Active, Status
<1>6. ASSUME NEW r \in Refs, r # new, r # old
      PROVE  Status(r)' = Status(r) /\ Value(r)' = Value(r)
  <2>1. r[1] \in Names /\ r[2] \in Versions /\ r = <<r[1], r[2]>>
    BY DEF Refs
  <2>2. CASE r[1] # k
    BY <1>1, <2>1, <2>2 DEF Status, Value, Exists
  <2>3. CASE r[1] = k
    <3>1. r[2] # m /\ r[2] # v
      BY <1>6, <2>1, <2>3
    <3>2. Exists(r[1], r[2])' <=> Exists(r[1], r[2])
      BY <1>1, <2>1, <2>3, <3>1, VersionAssumption DEF Exists, Versions
    <3>3. Exists(r[1], r[2]) => rows'[r[1]][r[2]] = rows[r[1]][r[2]]
      BY <1>1, <2>3, <3>1 DEF Exists
    <3>4. QED
      BY <3>2, <3>3 DEF Status, Value
  <2>4. QED
    BY <2>2, <2>3
<1>7. ASSUME NEW r \in Refs, r = new
      PROVE  Status(r)' = "active" /\ Value(r)' = x
  <2>1. r[1] = k /\ r[2] = m
    BY <1>7
  <2>2. rows'[k][m] = NewRow(x) /\ Exists(r[1], r[2])'
    BY <1>1, <2>1 DEF Exists, Versions
  <2>3. QED
    BY <2>1, <2>2 DEF Status, Value, NewRow
<1>8. ASSUME NEW r \in Refs, r = old
      PROVE  Status(r)' = "rotated" /\ Value(r)' = Value(r)
  <2>1. r[1] = k /\ r[2] = v
    BY <1>8
  <2>2. Exists(r[1], r[2]) /\ Exists(r[1], r[2])'
    BY <1>1, <2>1 DEF Exists
  <2>3. rows'[r[1]][r[2]].status = "rotated" /\ rows'[r[1]][r[2]].secret = rows[r[1]][r[2]].secret
    <3>1. PICK was : was = rows[k][v]
      OBVIOUS
    <3>2. rows'[k][v] = [was EXCEPT !.status = "rotated"] /\ was \in Row
      BY <1>1, <1>2, <3>1
    <3>3. rows'[k][v].status = "rotated" /\ rows'[k][v].secret = was.secret
      BY <3>2 DEF Row
    <3>4. QED
      BY <2>1, <3>1, <3>3
  <2>4. QED
    BY <2>2, <2>3 DEF Status, Value
<1> HIDE DEF new, old
<1>9. [r \in Refs |-> Status(r)']
        = [[r \in Refs |-> Status(r)] EXCEPT ![old] = "rotated", ![new] = "active"]
  BY <1>3, <1>6, <1>7, <1>8
<1>10. [r \in Refs |-> Value(r)'] = [[r \in Refs |-> Value(r)] EXCEPT ![new] = x]
  BY <1>3, <1>6, <1>7, <1>8
<1>11. old[1] = new[1]
  BY DEF old, new
<1> HIDE DEF k, m, v, x
<1>12. ASSUME NEW q \in Refs, NEW r \in Refs, NEW y \in Secrets, q = old, r = new, y = x
       PROVE  Contract!Replace(q, r, y)
  BY <1>3, <1>4, <1>5, <1>9, <1>10, <1>11, <1>12
  DEF Contract!Replace, Contract!Fresh, Contract!Refs, Refs, Versions, Status, Value
<1>13. QED
  BY <1>1, <1>3, <1>12 DEF Contract!Next, Contract!Refs, Refs, Versions

(* The engine implements the contract of a reference: whatever its callers *)
(* do and whenever it crashes, references are issued once and in order,    *)
(* and are replaced once and for good.                                     *)
THEOREM ContractImplemented == Spec => ContractSpec
<1>1. Init => Contract!Init
  BY InitContract
<1>2. TypeOK /\ TypeOK' /\ [Next]_vars => [Contract!Next]_(Contract!contractVars)
  <2>1. CASE UNCHANGED rows
    BY <2>1 DEF Contract!contractVars, Exists
  <2>2. QED
    BY <2>1, SealIssues, RotateReplaces DEF Next, ClientStep, vars, Crash, Call, CallSeal,
       CallLookup, CallUnseal, CallRotate, Refuse, Unseal, RotateFails, LookupHash, Return
<1>3. QED
  BY <1>1, <1>2, TypeCorrect, PTL DEF Spec, ContractSpec, Contract!Spec
=============================================================================
