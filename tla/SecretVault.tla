---------------------------- MODULE SecretVault -----------------------------
(***************************************************************************)
(* The security engine of afa-security: the sealed_secrets table and the   *)
(* four calls of SecurityV1 on it, made by concurrent tasks.               *)
(*                                                                         *)
(* A call does its SQL inside one with_conn closure, which holds the       *)
(* connection's lock and, for seal and rotate, one immediate transaction:  *)
(* that is one step.  The audit event is published after the lock is       *)
(* released: another step, that the process may not live to take.          *)
(*                                                                         *)
(* Rows are never deleted and seal and rotate number a new row MAX + 1,    *)
(* so the rows of a name are a sequence and the version is the position.   *)
(***************************************************************************)
EXTENDS Integers, Sequences, FiniteSets

CONSTANTS
  Names,       \* secret names
  Secrets,     \* plaintexts; a plaintext stands for its SHA-256 too
  Oversized,   \* the (name, plaintext) pairs over PAYLOAD_CAP or NAME_CAP
  Keys,        \* master keys the process may be started with
  Clients,     \* tasks that call the engine, each one call at a time
  Forged,      \* references a caller may name without having been given them
  Legacy,      \* secrets left by a version 1 database, with no hash
  MaxVersion   \* bound of the model: rows per name

ASSUME VersionAssumption == MaxVersion \in Nat \ {0}
ASSUME SetsAssumption ==
  /\ Names # {}
  /\ Secrets # {}
  /\ Oversized \subseteq Names \X Secrets
  /\ Forged \subseteq Names \X (1..MaxVersion)
  /\ Legacy \subseteq Names \X Secrets

VARIABLES
  rows,        \* sealed_secrets: per name, its rows by version
  key,         \* the engine's master key
  call,        \* per client: the call it is in, or Idle
  known,       \* references returned by a seal or rotate
  audit,       \* SecretSealed and SecretRotated events, as published
  lost,        \* events of committed calls that a crash prevented
  rotations,   \* history: <<name, old, new>> of every committed rotate
  acked        \* history: references whose rotation was reported to a caller

vars == <<rows, key, call, known, audit, lost, rotations, acked>>

Versions == 1..MaxVersion
Refs     == Names \X Versions
Events   == Names \X (0..MaxVersion) \X Versions
Ops      == {"seal", "unseal", "rotate", "lookup_hash"}
Results  == {"pending", "ok", "true", "false", "PayloadTooLarge", "SecretNotFound",
             "SecretRotated", "DecryptionFailed"}

\* A call: its arguments (version 0 if it takes none; the plaintext, or the
\* one that the hash is of), what it will return, the version it inserted (0
\* if none), and, as history, what was acked when it began.
Calls == [stage : {"called", "executed"}, op : Ops, name : Names,
          version : 0..MaxVersion, secret : Secrets, result : Results,
          created : 0..MaxVersion, dead : SUBSET Refs]

Idle == [stage |-> "idle"]

Row == [status : {"active", "rotated"}, secret : Secrets, key : Keys, hashed : BOOLEAN]

NewRow(x) == [status |-> "active", secret |-> x, key |-> key, hashed |-> TRUE]

LegacyRow(x) == [status |-> "active", secret |-> x, key |-> key, hashed |-> FALSE]

\* Boot on a fresh database, or on one that schema version 1 left with some
\* secrets, to whose rows the migration added a NULL sha256.
Init ==
  /\ key \in Keys
  /\ rows \in [Names -> {<<>>} \cup {<<LegacyRow(x)>> : x \in Secrets}]
  /\ \A n \in Names, x \in Secrets : rows[n] = <<LegacyRow(x)>> => <<n, x>> \in Legacy
  /\ call      = [c \in Clients |-> Idle]
  /\ known     = {}
  /\ audit     = <<>>
  /\ lost      = {}
  /\ rotations = {}
  /\ acked     = {}

-----------------------------------------------------------------------------
Called(c)   == call[c].stage = "called"
Executed(c) == call[c].stage = "executed"

Call(c, method, n, v, x) ==
  /\ call[c] = Idle
  /\ call' = [call EXCEPT ![c] =
       [stage |-> "called", op |-> method, name |-> n, version |-> v, secret |-> x,
        result |-> "pending", created |-> 0, dead |-> acked]]
  /\ UNCHANGED <<rows, key, known, audit, lost, rotations, acked>>

CallSeal(c)   == \E n \in Names, x \in Secrets : Call(c, "seal", n, 0, x)
CallLookup(c) == \E n \in Names, x \in Secrets : Call(c, "lookup_hash", n, 0, x)
CallRotate(c) == \E r \in known \cup Forged, x \in Secrets : Call(c, "rotate", r[1], r[2], x)
CallUnseal(c) == \E r \in known \cup Forged :
                   Call(c, "unseal", r[1], r[2], CHOOSE x \in Secrets : TRUE)

\* A call that has run to its result, and the version it inserted.
Finished(old, outcome, version) ==
  [old EXCEPT !.stage = "executed", !.result = outcome, !.created = version]

\* Client c executes its call of method and holds what it will return.
Execute(c, method, outcome, version) ==
  /\ Called(c)
  /\ call[c].op = method
  /\ call' = [call EXCEPT ![c] = Finished(@, outcome, version)]
  /\ UNCHANGED <<key, known, audit, lost, acked>>

\* seal and rotate check the caps before they touch the store.
OverCap(c) == <<call[c].name, call[c].secret>> \in Oversized

Refuse(c) ==
  /\ \E method \in {"seal", "rotate"} : Execute(c, method, "PayloadTooLarge", 0)
  /\ OverCap(c)
  /\ UNCHANGED <<rows, rotations>>

\* SELECT COALESCE(MAX(version), 0) + 1, inside the transaction.
NextVersion(n) == Len(rows[n]) + 1

\* Mutant: the insert takes the place of the last row.
ReplacingLast(table, x) ==
  IF table = <<>> THEN <<NewRow(x)>> ELSE [table EXCEPT ![Len(table)] = NewRow(x)]

\* INSERT of the row that has the next version.
Inserted(table, x) == Append(table, NewRow(x))

Seal(c) ==
  LET n == call[c].name IN
  /\ Execute(c, "seal", "ok", NextVersion(n))
  /\ ~OverCap(c)
  /\ Len(rows[n]) < MaxVersion
  /\ rows' = [rows EXCEPT ![n] = Inserted(@, call[c].secret)]
  /\ UNCHANGED rotations

Exists(n, v) == v \in 1..Len(rows[n])

\* Mutant: the status of the row is not looked at.
AnyStatus(n, v) == Exists(n, v)

Active(n, v) == Exists(n, v) /\ rows[n][v].status = "active"

\* What unseal finds for (n, v), status before decryption.
UnsealOutcome(n, v) ==
  IF ~Exists(n, v) THEN "SecretNotFound"
  ELSE IF ~Active(n, v) THEN "SecretRotated"
  ELSE IF rows[n][v].key # key THEN "DecryptionFailed"
  ELSE "ok"

Unseal(c) ==
  /\ Execute(c, "unseal", UnsealOutcome(call[c].name, call[c].version), 0)
  /\ UNCHANGED <<rows, rotations>>

\* UPDATE ... SET status = 'rotated' WHERE ... status = 'active', must hit
\* one row; a missing row and a rotated one are reported alike.
RotateFails(c) ==
  /\ Execute(c, "rotate", "SecretRotated", 0)
  /\ ~OverCap(c)
  /\ ~Active(call[c].name, call[c].version)
  /\ UNCHANGED <<rows, rotations>>

\* Mutant: the UPDATE is forgotten.
NotRetired(table, v) == table

Retired(table, v) == [table EXCEPT ![v].status = "rotated"]

Rotate(c) ==
  LET n == call[c].name
      v == call[c].version
  IN
  /\ Execute(c, "rotate", "ok", NextVersion(n))
  /\ ~OverCap(c)
  /\ Len(rows[n]) < MaxVersion
  /\ Active(n, v)
  /\ rows' = [rows EXCEPT ![n] = Inserted(Retired(@, v), call[c].secret)]
  /\ rotations' = rotations \cup {<<n, v, NextVersion(n)>>}

\* Mutant: rotated rows are not filtered out, only those without a hash.
OldestHashed(n) ==
  {v \in DOMAIN rows[n] : rows[n][v].hashed /\ \A w \in 1..(v - 1) : ~rows[n][w].hashed}

\* The query of lookup_hash has no ORDER BY and reads one row: the first
\* active one in primary key order, which is the oldest.
OldestActive(n) ==
  {v \in DOMAIN rows[n] : Active(n, v) /\ \A w \in 1..(v - 1) : ~Active(n, w)}

LookupOutcome(n, x) ==
  IF \E v \in OldestActive(n) : rows[n][v].hashed
  THEN IF \E v \in OldestActive(n) : rows[n][v].secret = x THEN "true" ELSE "false"
  ELSE "SecretNotFound"

LookupHash(c) ==
  /\ Execute(c, "lookup_hash", LookupOutcome(call[c].name, call[c].secret), 0)
  /\ UNCHANGED <<rows, rotations>>

-----------------------------------------------------------------------------
\* The audit event of client c's executed call: <<name, old version, version>>,
\* a SecretSealed if the old version is 0.  Only a call that inserted has one.
EventOf(c)      == <<call[c].name, call[c].version, call[c].created>>
PendingEvent(c) == IF Executed(c) /\ call[c].created # 0 THEN {EventOf(c)} ELSE {}

\* Mutant: seal publishes nothing.
PublishedIfRotated(c) ==
  IF call[c].op = "rotate" /\ call[c].created # 0 THEN Append(audit, EventOf(c)) ELSE audit

\* audit with the event of c, if it has one.
Published(c) == IF PendingEvent(c) = {} THEN audit ELSE Append(audit, EventOf(c))

\* What the return of the call tells its caller: a new reference, and that
\* the one it rotated is retired.
Issued(c)  == {<<e[1], e[3]>> : e \in PendingEvent(c)}
Retires(c) == IF call[c].op = "rotate" /\ call[c].result = "ok"
              THEN {<<call[c].name, call[c].version>>} ELSE {}

(* The call publishes its audit event, if it has one, and returns.  Both   *)
(* happen in one poll of the task: publish never awaits.  (SecretUnsealed  *)
(* is not recorded: nothing here depends on it.)                           *)
Return(c) ==
  /\ Executed(c)
  /\ call'  = [call EXCEPT ![c] = Idle]
  /\ audit' = Published(c)
  /\ known' = known \cup Issued(c)
  /\ acked' = acked \cup Retires(c)
  /\ UNCHANGED <<rows, key, lost, rotations>>

(* The process dies and is started again, maybe with another key.          *)
Crash ==
  /\ call' = [c \in Clients |-> Idle]
  /\ lost' = lost \cup UNION {PendingEvent(c) : c \in Clients}
  /\ key' \in Keys
  /\ UNCHANGED <<rows, known, audit, rotations, acked>>

ClientStep(c) ==
  \/ CallSeal(c) \/ CallLookup(c) \/ CallUnseal(c) \/ CallRotate(c)
  \/ Refuse(c) \/ Seal(c) \/ Unseal(c) \/ RotateFails(c) \/ Rotate(c) \/ LookupHash(c)
  \/ Return(c)

Next == Crash \/ \E c \in Clients : ClientStep(c)

Spec == Init /\ [][Next]_vars

-----------------------------------------------------------------------------
TypeOK ==
  /\ rows      \in [Names -> Seq(Row)]
  /\ key       \in Keys
  /\ call      \in [Clients -> Calls \cup {Idle}]
  /\ known     \subseteq Refs
  /\ audit     \in Seq(Events)
  /\ lost      \subseteq Events
  /\ rotations \subseteq Names \X Versions \X Versions
  /\ acked     \subseteq Refs
  /\ \A n \in Names : Len(rows[n]) <= MaxVersion

(* Rotations form chains: a row is rotated exactly if one rotate replaced  *)
(* it, no reference is rotated twice however many tasks try, no row        *)
(* replaces two, and a replacement is newer and exists.                    *)
RotationChain ==
  /\ \A n \in Names, v \in Versions :
       (\E w \in Versions : <<n, v, w>> \in rotations) <=> (Exists(n, v) /\ ~Active(n, v))
  /\ \A r \in rotations : r[2] < r[3] /\ Exists(r[1], r[3])
  /\ \A q, r \in rotations : q[1] = r[1] => (q[2] = r[2] <=> q[3] = r[3])

\* What makes RotationChain and NoStaleUnseal inductive: a reference that
\* some caller was or is about to be told is retired has a rotated row, and
\* no call knows more of them than have been reported.
AckedIsRotated ==
  /\ \A r \in acked : Exists(r[1], r[2]) /\ ~Active(r[1], r[2])
  /\ \A c \in Clients : call[c] # Idle => call[c].dead \subseteq acked
  /\ \A c \in Clients : Executed(c) /\ call[c].op = "rotate" /\ call[c].result = "ok" =>
       Exists(call[c].name, call[c].version) /\ ~Active(call[c].name, call[c].version)

(* The table is append-only: a version keeps its secret, its key and its   *)
(* hash, and a rotated one never becomes active again.                     *)
RotatedForGood ==
  [][\A n \in Names :
       /\ Len(rows'[n]) >= Len(rows[n])
       /\ \A v \in DOMAIN rows[n] :
            rows'[n][v] \in {rows[n][v], [rows[n][v] EXCEPT !.status = "rotated"]}]_vars

(* The doc of rotate: the old reference is SecretRotated from this call    *)
(* onward.  An unseal that began after a rotate returned does not open it. *)
NoStaleUnseal ==
  \A c \in Clients : Executed(c) /\ call[c].op = "unseal" /\ call[c].result = "ok" =>
    <<call[c].name, call[c].version>> \notin call[c].dead

(* A bearer token whose rotation was reported before the request began is  *)
(* rejected: a match comes from a reference not yet known to be retired.   *)
LookupRejectsRotated ==
  \A c \in Clients : Executed(c) /\ call[c].result = "true" =>
    \E v \in DOMAIN rows[call[c].name] :
      /\ rows[call[c].name][v].secret = call[c].secret
      /\ <<call[c].name, v>> \notin call[c].dead

(* The trail is causal: the rotation of a reference that callers use only  *)
(* when they were given it is published after its creation, although       *)
(* events are published outside the lock, and crashes swallow some.        *)
AuditCausal ==
  \A i \in DOMAIN audit : audit[i][2] # 0 /\ <<audit[i][1], audit[i][2]>> \notin Forged =>
    \E j \in 1..(i - 1) : audit[j][1] = audit[i][1] /\ audit[j][3] = audit[i][2]

Announces(e, n, v) == e[1] = n /\ e[3] = v

\* The version is announced in the trail, is about to be, or never will be.
Announced(n, v) == \E i \in DOMAIN audit : Announces(audit[i], n, v)
Pending(n, v)   == \E c \in Clients : \E e \in PendingEvent(c) : Announces(e, n, v)
Swallowed(n, v) == \E e \in lost : Announces(e, n, v)

(* ... and complete: each version that was sealed is announced once, unless*)
(* the process died between the commit and the publish; what is announced  *)
(* exists.                                                                 *)
AuditComplete ==
  /\ \A n \in Names, v \in Versions : Exists(n, v) /\ rows[n][v].hashed =>
       Announced(n, v) \/ Pending(n, v) \/ Swallowed(n, v)
  /\ \A i \in DOMAIN audit :
       /\ Exists(audit[i][1], audit[i][3])
       /\ \A j \in DOMAIN audit : Announces(audit[j], audit[i][1], audit[i][3]) => j = i

(* What an auditor may conclude from the trail.                            *)
AuditTells == AuditCausal /\ AuditComplete

(* What the vault promises the holder of a reference, see SecretContract.  *)
Contract == INSTANCE SecretContract WITH
  NoSecret <- "none",
  status <- [r \in Refs |-> IF Exists(r[1], r[2]) THEN rows[r[1]][r[2]].status ELSE "unused"],
  value  <- [r \in Refs |-> IF Exists(r[1], r[2]) THEN rows[r[1]][r[2]].secret ELSE "none"]

ContractSpec == Contract!Spec
=============================================================================
