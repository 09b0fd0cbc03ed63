--------------------------- MODULE KnowledgeStore ---------------------------
(***************************************************************************)
(* The JSON knowledge adapter: store_information writes a record's body    *)
(* and the sidecar .index.json, both with atomic_write (temp file, fsync,  *)
(* rename, fsync of the directory); the in-memory index answers queries;   *)
(* a boot loads the sidecar, or rebuilds the index from the bodies.        *)
(*                                                                         *)
(* The disk is modelled twice: what the processes see, and what survives   *)
(* a power failure.  A rename or a mkdir is durable once its directory is  *)
(* synced; before that it may or may not survive, but a rename only with   *)
(* what was made in its directory before it (that is the filesystem's      *)
(* part).  A file renamed before its bytes are synced would survive torn.  *)
(***************************************************************************)
EXTENDS Integers, FiniteSets

CONSTANTS
  Records,         \* calls of store_information, each with its RecordId
  TopicOf,         \* the topic each record is stored under
  SlugOf,          \* topic_slug of that topic
  None,            \* no file, no lock holder, no name
  Garbage,         \* an index file that does not parse
  Cancelled,       \* the calls whose caller may drop the future
  MaxFailures, MaxBoots, MaxCorruptions  \* bounds of the model

Topics == {TopicOf[r] : r \in Records}
Slugs  == {SlugOf[r] : r \in Records}

\* What is in the root: an index file, and the topic directories made before it.
Root(list, made) == [list |-> list, made |-> made]

\* What an index lists: a record and the name of its topic, or its slug for want of one.
AnyEntry == [id : Records, topic : Topics \cup Slugs]

ASSUME RecordAssumption ==
  /\ Cancelled \subseteq Records /\ None \notin Records
  /\ None \notin Topics \cup Slugs /\ None # Garbage
  /\ \A list \in SUBSET AnyEntry : list # None /\ list # Garbage
  /\ MaxFailures \in Nat /\ MaxBoots \in Nat \ {0} /\ MaxCorruptions \in Nat

VARIABLES
  stage,     \* where each call is
  dirs,      \* the topic directories
  tmp,       \* temp files of bodies in the topic directories
  synced,    \* the bodies whose bytes are durable
  md,        \* the bodies in place; those whose rename is durable
  mdD,
  file,      \* .index.json
  roots,     \* what a power failure may leave of .index.json and the directories
  snap,      \* what each call has serialised
  afloat,    \* renames whose caller is gone, still with the blocking pool
  overtaken, \* history: the records such a rename took off the index file
  up, boots,
  index,     \* InMemoryIndex: the records and the topic of each
  names,     \* InMemoryIndex::slug_to_topic
  lock,      \* who holds the write lock
  failures, corruptions

disk   == <<dirs, tmp, synced, md, mdD, file, roots>>
memory == <<index, names>>
env    == <<up, boots, failures, corruptions>>
vars   == <<stage, disk, snap, afloat, overtaken, memory, lock, env>>

Stages == {"new", "dir", "temp", "synced", "renamed", "written", "indexed",
           "serialised", "index renamed", "saved", "unsaved",
           "acked", "acked unsaved", "err", "lost"}

Entry(r, topic) == [id |-> r, topic |-> topic]
Ids(entries)    == {e.id : e \in entries}

\* collect_entries: every record under the one name of its slug.
Collect(ix, nm) == {Entry(e.id, nm[SlugOf[e.id]]) : e \in ix}

\* The first topic stored under a slug gives it its name (add_meta).
NamesWith(r, topic) ==
  [names EXCEPT ![SlugOf[r]] = IF @ = None THEN topic ELSE @]

Init ==
  /\ stage = [r \in Records |-> "new"]
  /\ dirs = {} /\ tmp = {} /\ synced = {} /\ md = {} /\ mdD = {}
  /\ file = None /\ roots = {Root(None, {})}
  /\ snap = [r \in Records |-> {}]
  /\ afloat = {} /\ overtaken = {}
  /\ up = TRUE /\ boots = 1
  /\ index = {} /\ names = [s \in Slugs |-> None]
  /\ lock = None
  /\ failures = 0 /\ corruptions = 0

Goto(r, next) == stage' = [stage EXCEPT ![r] = next]

\* A file operation of a call fails.
Fails == failures < MaxFailures /\ failures' = failures + 1
Works == UNCHANGED failures

At(r, s) == up /\ stage[r] = s

-----------------------------------------------------------------------------
(* store_information: the body                                              *)

MakeDir(r) ==
  /\ At(r, "new")
  /\ \/ Works /\ Goto(r, "dir") /\ dirs' = dirs \cup {SlugOf[r]}
     \/ Fails /\ Goto(r, "err") /\ UNCHANGED dirs
  /\ UNCHANGED <<tmp, synced, md, mdD, file, roots, snap, afloat, overtaken,
                 memory, lock, up, boots, corruptions>>

\* A write that fails may leave the temp file behind.
WriteTemp(r) ==
  /\ At(r, "dir")
  /\ \/ Works /\ Goto(r, "temp") /\ tmp' = tmp \cup {r}
     \/ Fails /\ Goto(r, "err") /\ tmp' \in {tmp, tmp \cup {r}}
  /\ UNCHANGED <<dirs, synced, md, mdD, file, roots, snap, afloat, overtaken,
                 memory, lock, up, boots, corruptions>>

SyncTemp(r) ==
  /\ At(r, "temp")
  /\ \/ Works /\ Goto(r, "synced") /\ synced' = synced \cup {r} /\ UNCHANGED tmp
     \/ Fails /\ Goto(r, "err") /\ tmp' = tmp \ {r} /\ UNCHANGED synced
  /\ UNCHANGED <<dirs, md, mdD, file, roots, snap, afloat, overtaken,
                 memory, lock, up, boots, corruptions>>

Rename(r) ==
  /\ At(r, "synced")
  /\ \/ Works /\ Goto(r, "renamed") /\ md' = md \cup {r}
     \/ Fails /\ Goto(r, "err") /\ UNCHANGED md
  /\ tmp' = tmp \ {r}
  /\ UNCHANGED <<dirs, synced, mdD, file, roots, snap, afloat, overtaken,
                 memory, lock, up, boots, corruptions>>

\* Mutant: the directory is not synced.
DirNotSynced(r) == UNCHANGED mdD

\* The sync of a directory takes all of its entries along.
SyncTopicDir(r) == mdD' = mdD \cup {q \in md : SlugOf[q] = SlugOf[r]}

\* When this fails the body is in place although the call returns Err.
SyncDir(r) ==
  /\ At(r, "renamed")
  /\ \/ Works /\ Goto(r, "written") /\ SyncTopicDir(r)
     \/ Fails /\ Goto(r, "err") /\ UNCHANGED mdD
  /\ UNCHANGED <<dirs, tmp, synced, md, file, roots, snap, afloat, overtaken,
                 memory, lock, up, boots, corruptions>>

-----------------------------------------------------------------------------
(* store_information: the index, under the write lock across save            *)

\* Mutant: the index is updated under the lock, which save does not need.
LockForgotten(r) == lock' = None

TakeLock(r) == lock' = r

AddRecord(r) ==
  /\ At(r, "written")
  /\ lock = None
  /\ TakeLock(r)
  /\ index' = index \cup {Entry(r, TopicOf[r])}
  /\ names' = NamesWith(r, TopicOf[r])
  /\ Goto(r, "indexed")
  /\ UNCHANGED <<disk, snap, afloat, overtaken, env>>

\* save serialises the index and writes and syncs the temp file (which nobody
\* looks at before the rename, or removes after a failure: left out).
WriteIndexTemp(r) ==
  /\ At(r, "indexed")
  /\ snap' = [snap EXCEPT ![r] = Collect(index, names)]
  /\ \/ Works /\ Goto(r, "serialised")
     \/ Fails /\ Goto(r, "unsaved")
  /\ UNCHANGED <<dirs, tmp, synced, md, mdD, file, roots, afloat, overtaken,
                 memory, lock, up, boots, corruptions>>

\* Until the root is synced, the file before this one may be back as well.
PutIndex(list) == file' = list /\ roots' = roots \cup {Root(list, dirs)}

RenameIndex(r) ==
  /\ At(r, "serialised")
  /\ \/ Works /\ Goto(r, "index renamed") /\ PutIndex(snap[r])
     \/ Fails /\ Goto(r, "unsaved") /\ UNCHANGED <<file, roots>>
  /\ UNCHANGED <<dirs, tmp, synced, md, mdD, snap, afloat, overtaken,
                 memory, lock, up, boots, corruptions>>

\* Mutant: the root is not synced.
RootNotSynced == UNCHANGED roots

\* The sync of the root makes the topic directories durable too.
SyncRoot == roots' = {Root(file, dirs)}

SyncIndex(r) ==
  /\ At(r, "index renamed")
  /\ \/ Works /\ Goto(r, "saved") /\ SyncRoot
     \/ Fails /\ Goto(r, "unsaved") /\ UNCHANGED roots
  /\ UNCHANGED <<dirs, tmp, synced, md, mdD, file, snap, afloat, overtaken,
                 memory, lock, up, boots, corruptions>>

\* Mutant: a failed save returns with the lock.
KeepsLock(r) == lock' = IF stage[r] = "unsaved" THEN lock ELSE None

Unlock(r) == lock' = IF lock = r THEN None ELSE lock

\* A failed save is logged; the call returns Ok all the same.
Return(r) ==
  /\ At(r, "saved") \/ At(r, "unsaved")
  /\ Unlock(r)
  /\ Goto(r, IF stage[r] = "saved" THEN "acked" ELSE "acked unsaved")
  /\ UNCHANGED <<disk, snap, afloat, overtaken, memory, env>>

\* The caller drops the future at an await.  The guard goes with it; a rename
\* that was handed to the blocking pool does not.  (That of a body only leaves a
\* file nobody lists; that of the index is kept here.)
Cancel(r) ==
  /\ r \in Cancelled
  /\ up /\ stage[r] \in {"dir", "temp", "synced", "renamed", "written",
                         "indexed", "serialised", "index renamed"}
  /\ afloat' \in {afloat, afloat \cup (IF stage[r] = "serialised" THEN {r} ELSE {})}
  /\ Unlock(r)
  /\ Goto(r, "lost")
  /\ UNCHANGED <<disk, snap, overtaken, memory, env>>

\* The records that an index file lists.
Listed(f) == IF f \in {None, Garbage} THEN {} ELSE Ids(f)

LateRename(r) ==
  /\ up /\ r \in afloat
  /\ afloat' = afloat \ {r}
  /\ PutIndex(snap[r])
  /\ overtaken' = overtaken \cup (Listed(file) \ Listed(snap[r]))
  /\ UNCHANGED <<stage, dirs, tmp, synced, md, mdD, snap,
                 memory, lock, env>>

-----------------------------------------------------------------------------
(* The process dies.                                                        *)

Die ==
  /\ up /\ boots < MaxBoots
  /\ up' = FALSE
  /\ stage' = [r \in Records |->
                 IF stage[r] \in {"new", "acked", "acked unsaved", "err"}
                 THEN stage[r] ELSE "lost"]
  /\ index' = {} /\ names' = [s \in Slugs |-> None]
  /\ lock' = None /\ afloat' = {}
  /\ UNCHANGED <<snap, overtaken, boots, failures, corruptions>>

Crash == Die /\ UNCHANGED disk

\* An index is left only together with the directories that were made before it.
RootSurvives ==
  \E root \in roots : file' = root.list /\ dirs' \in {d \in SUBSET dirs : root.made \subseteq d}

PowerFailure ==
  /\ Die
  /\ RootSurvives
  /\ md' \in {m \in SUBSET {r \in md : SlugOf[r] \in dirs'} :
                {r \in mdD : SlugOf[r] \in dirs'} \subseteq m}
  /\ tmp' = {r \in tmp : SlugOf[r] \in dirs'}
  /\ roots' = {Root(file', dirs')} /\ mdD' = md'
  /\ UNCHANGED synced

\* The index file is damaged while nobody looks.
Corrupt ==
  /\ ~up /\ corruptions < MaxCorruptions
  /\ file \notin {None, Garbage}
  /\ file' = Garbage /\ roots' = {Root(Garbage, root.made) : root \in roots}
  /\ corruptions' = corruptions + 1
  /\ UNCHANGED <<stage, dirs, tmp, synced, md, mdD, snap, afloat, overtaken,
                 memory, lock, up, boots, failures>>

(* JsonKnowledgeAdapter::new *)

\* rebuild_from_disk: every body, under its slug for want of a name.
Rebuilt == {Entry(r, SlugOf[r]) : r \in md}

\* load: the file if it parses, the bodies if it does not, nothing without one.
Loaded ==
  IF file = None THEN {} ELSE IF file = Garbage THEN Rebuilt ELSE file

NamesOf(ix) ==
  [s \in Slugs |-> IF \E e \in ix : SlugOf[e.id] = s
                   THEN (CHOOSE e \in ix : SlugOf[e.id] = s).topic ELSE None]

\* cleanup_orphan_temps enters the topic directories only.
Cleanup == tmp' = {} /\ UNCHANGED md

Boot ==
  /\ ~up
  /\ up' = TRUE /\ boots' = boots + 1
  /\ index' = Loaded
  /\ names' = NamesOf(Loaded)
  /\ Cleanup
  /\ UNCHANGED <<stage, dirs, synced, mdD, file, roots, snap, afloat, overtaken,
                 lock, failures, corruptions>>

-----------------------------------------------------------------------------
Store(r) ==
  \/ WriteTemp(r) \/ SyncTemp(r) \/ Rename(r) \/ SyncDir(r)
  \/ AddRecord(r) \/ WriteIndexTemp(r) \/ RenameIndex(r) \/ SyncIndex(r) \/ Return(r)

Next ==
  \/ \E r \in Records : MakeDir(r) \/ Store(r) \/ Cancel(r) \/ LateRename(r)
  \/ Crash \/ PowerFailure \/ Corrupt \/ Boot

Spec == Init /\ [][Next]_vars

\* Calls that have begun are polled, and the lock of tokio is fair to its waiters:
\* the fairness is strong for the sake of the one step that waits for it.
FairSpec == Spec /\ \A r \in Records : SF_vars(Store(r))

-----------------------------------------------------------------------------
\* Types of the state on disk and in memory.
TypeOK ==
  /\ stage \in [Records -> Stages]
  /\ dirs \subseteq Slugs
  /\ tmp \subseteq Records /\ synced \subseteq Records
  /\ md \subseteq Records /\ mdD \subseteq md
  /\ file \in (SUBSET AnyEntry) \cup {None, Garbage}
  /\ roots \subseteq [list : (SUBSET AnyEntry) \cup {None, Garbage}, made : SUBSET dirs]
  /\ snap \in [Records -> SUBSET AnyEntry]
  /\ afloat \subseteq Records /\ overtaken \subseteq Records
  /\ up \in BOOLEAN /\ boots \in 1..MaxBoots
  /\ index \subseteq AnyEntry
  /\ names \in [Slugs -> Topics \cup Slugs \cup {None}]
  /\ lock \in Records \cup {None}
  /\ failures \in 0..MaxFailures /\ corruptions \in 0..MaxCorruptions

\* Whatever fails or dies, a record the index lists has its body in place and
\* whole, so that find_information never meets the MalformedRecord of a listed
\* record (adapter.rs store_information).  Left out are records of calls that never
\* returned Ok, once a rebuild has listed them: nobody synced their directory, and
\* a power failure may take the body after the index that lists it is saved.
Unfinished(r) == corruptions > 0 /\ stage[r] \in {"err", "lost"}

BodyInPlace ==
  up => \A e \in index :
          \/ Unfinished(e.id)
          \/ e.id \in md /\ e.id \in synced /\ SlugOf[e.id] \in dirs

\* A record whose store returned Ok with its index saved is found after any
\* number of crashes, power failures and rebuilds, unless the late rename of a
\* call that was dropped took it off the file (index_file.rs: a clean restart keeps
\* all records discoverable).
AckedIsFound ==
  up => \A r \in Records : stage[r] = "acked" => r \in Ids(index) \cup overtaken

\* A record whose store returned Err is never listed, unless the index had to be
\* rebuilt from the bodies (index.rs add_record: if the write failed, the index is
\* not updated).
ErrIsAbsent ==
  corruptions = 0 => \A r \in Records : stage[r] = "err" => r \notin Ids(index)

\* What a store has answered holds.
OutcomeHolds == AckedIsFound /\ ErrIsAbsent

\* Concurrent stores never write an older index over a newer one: only the late
\* rename of a call that was dropped does (adapter.rs: the lock serializes the
\* snapshot).
IndexFileGrows ==
  [][up /\ up' /\ afloat \subseteq afloat' => Listed(file) \subseteq Listed(file')]_vars

\* A call that has begun returns, or its caller or the process is gone: a save
\* that fails does not keep the lock (adapter.rs store_information).
StoreReturns ==
  \A r \in Records :
    stage[r] = "dir" ~> stage[r] \in {"acked", "acked unsaved", "err", "lost"}
=============================================================================
