----------------------------- MODULE SchemaBoot -----------------------------
(***************************************************************************)
(* How processes open one SQLite file: afa_storage::open and migrate, and  *)
(* around them open_storage of the security engine, which checks the       *)
(* schema version before and after the migrations.                         *)
(*                                                                         *)
(* Several processes may open the file at once, of another release or of   *)
(* this one.  A process reads the last applied version once and then runs  *)
(* every later migration in a transaction of its own; between two          *)
(* statements the other process may commit.  A migration is atomic: its    *)
(* SQL, its row in the notebook and the version in the meta table commit   *)
(* together or not at all, also when the process dies.                     *)
(***************************************************************************)
EXTENDS Integers

CONSTANTS
  Processes,  \* those that open the file
  Binary,     \* the SCHEMA_VERSION each was built with
  Latest,     \* the newest of them
  Files,      \* the files there may be at the start
  MaxFaults   \* bound of the model: statements that fail, and crashes

Versions == 1..Latest

\* meta: the schema_version row, 0 without one; notebook: _afa_migrations;
\* schema: the migrations whose tables and columns are there.
File == [meta : Versions \cup {0}, notebook : SUBSET Versions, schema : SUBSET Versions]

\* What the releases leave behind; the very first one kept no notebook.
LeftByRelease(f) ==
  /\ f.notebook \subseteq f.schema
  /\ f.meta > 1 => 1..f.meta \subseteq f.notebook
  /\ \A m \in f.notebook : m <= f.meta

ASSUME BinaryAssumption == Latest \in Nat \ {0} /\ Binary \in [Processes -> Versions]
ASSUME FilesAssumption  ==
  MaxFaults \in Nat /\ Files \subseteq File /\ \A f \in Files : LeftByRelease(f)

VARIABLES
  file,    \* what is on disk
  stage,   \* where each process is in open_storage
  seen,    \* while it migrates: the version it last read or applied
  faults   \* failures and crashes so far

fileVars == <<file, stage, seen, faults>>

OpenStages == {"down", "opened", "checked", "migrating", "migrated", "open", "failed"}

FileInit ==
  /\ file   \in Files
  /\ stage  = [p \in Processes |-> "down"]
  /\ seen   = [p \in Processes |-> 0]
  /\ faults = 0

-----------------------------------------------------------------------------
\* p goes on to another stage; what it had read counts no more.
To(p, s) ==
  /\ stage' = [stage EXCEPT ![p] = s]
  /\ seen' = [seen EXCEPT ![p] = 0]
  /\ UNCHANGED file

\* COALESCE(MAX(version), 0) of the notebook.
LastApplied(v) == v \in file.notebook \cup {0} /\ \A m \in file.notebook : m <= v

(* afa_storage::open: the directories and the connection.  A process that  *)
(* failed is started again by its operator.                                *)
Open(p) ==
  /\ stage[p] \in {"down", "failed"}
  /\ To(p, "opened")
  /\ UNCHANGED faults

\* check_schema_version before the migrations: a later release's file is refused.
Readable(p) == file.meta <= Binary[p]

PreCheck(p) ==
  /\ stage[p] = "opened"
  /\ To(p, IF Readable(p) THEN "checked" ELSE "failed")
  /\ UNCHANGED faults

(* migrate creates the notebook and reads its maximum, once.               *)
ReadNotebook(p) ==
  /\ stage[p] = "checked"
  /\ stage' = [stage EXCEPT ![p] = "migrating"]
  /\ \E v \in Versions \cup {0} : LastApplied(v) /\ seen' = [seen EXCEPT ![p] = v]
  /\ UNCHANGED <<file, faults>>

\* The migrations are sorted, and those applied are skipped.
Pending(p) == {m \in 1..Binary[p] : m > seen[p]}

FirstPending(p, m) == m \in Pending(p) /\ \A n \in Pending(p) : m <= n

\* Mutant: ADD COLUMN IF NOT EXISTS, and the row of the notebook replaced.
Repeatable(m) == TRUE

\* The SQL of version 1 is idempotent, an ALTER TABLE is not, and the
\* notebook's key is unique.
Applicable(m) == m \notin file.notebook /\ (m > 1 => m \notin file.schema)

\* INSERT OR IGNORE by the first migration, UPDATE of the row by the others.
VersionAfter(m) ==
  IF file.meta = 0 THEN (IF m = 1 THEN 1 ELSE 0)
  ELSE IF m = 1 THEN file.meta ELSE m

\* Mutant: the row of the notebook is forgotten.
WithoutNote(m) ==
  [meta |-> VersionAfter(m), notebook |-> file.notebook, schema |-> file.schema \cup {m}]

Migrated(m) ==
  [meta |-> VersionAfter(m), notebook |-> file.notebook \cup {m}, schema |-> file.schema \cup {m}]

(* One turn of the loop: a transaction with the migration's SQL.           *)
Migrate(p) ==
  /\ stage[p] = "migrating"
  /\ \E m \in Versions :
       /\ FirstPending(p, m)
       /\ \/ /\ Applicable(m)
             /\ file' = Migrated(m)
             /\ seen' = [seen EXCEPT ![p] = m]
             /\ UNCHANGED stage
          \/ ~Applicable(m) /\ To(p, "failed")
  /\ UNCHANGED faults

EndMigrate(p) ==
  /\ stage[p] = "migrating"
  /\ Pending(p) = {}
  /\ To(p, "migrated")
  /\ UNCHANGED faults

Current(p) == file.meta = Binary[p]

PostCheck(p) ==
  /\ stage[p] = "migrated"
  /\ To(p, IF Current(p) THEN "open" ELSE "failed")
  /\ UNCHANGED faults

(* A statement fails: the file is locked by the other process, the disk is *)
(* full.  What was begun is rolled back.                                   *)
StatementFails(p) ==
  /\ stage[p] \notin {"down", "open", "failed"}
  /\ faults < MaxFaults
  /\ faults' = faults + 1
  /\ To(p, "failed")

(* The process dies, with whatever it had open.                            *)
Killed(p) ==
  /\ stage[p] # "down"
  /\ faults < MaxFaults
  /\ faults' = faults + 1
  /\ To(p, "down")

Opening(p) == PreCheck(p) \/ ReadNotebook(p) \/ Migrate(p) \/ EndMigrate(p) \/ PostCheck(p)

OpenerStep(p) == Open(p) \/ Opening(p) \/ StatementFails(p) \/ Killed(p)

FileNext == \E p \in Processes : OpenerStep(p)

FileSpec == FileInit /\ [][FileNext]_fileVars

-----------------------------------------------------------------------------
FileTypeOK ==
  /\ file \in File
  /\ stage \in [Processes -> OpenStages]
  /\ seen \in [Processes -> Versions \cup {0}]
  /\ faults \in 0..MaxFaults

(* A process has the file open only with every table and column of its     *)
(* release in it, however the migrations of the two interleaved, failed or *)
(* were cut short.                                                         *)
OpenIsWhole ==
  \A p \in Processes : stage[p] = "open" => 1..Binary[p] \subseteq file.schema \cap file.notebook

(* What is on disk only grows: no process takes the file of a newer one    *)
(* back to its own version.                                                *)
NeverDowngraded ==
  [][/\ file'.meta >= file.meta
     /\ file.notebook \subseteq file'.notebook
     /\ file.schema \subseteq file'.schema]_file
=============================================================================
