--------------------------- MODULE KnowledgeProofs ---------------------------
(***************************************************************************)
(* Proofs about the JSON knowledge adapter.  KnowledgeStore: for any       *)
(* number of records and topics, of failing steps, deaths of the process   *)
(* or the machine, and damages of the index file.  KnowledgeSearch: for    *)
(* any records, requests, finds, failing reads and restarts.               *)
(***************************************************************************)
EXTENDS KnowledgeStore, KnowledgeSearch, FiniteSetTheorems, FunctionTheorems,
        SequenceTheorems, WellFoundedInduction, TLAPS

(***************************************************************************)
(* The lock: who is saving holds it, and a process that is down holds      *)
(* nothing and has nobody at work.                                         *)
(***************************************************************************)
Saving  == {"indexed", "serialised", "index renamed", "saved", "unsaved"}
Storing == {"dir", "temp", "synced", "renamed", "written"} \cup Saving
Resting == {"new", "acked", "acked unsaved", "err", "lost"}

LockInv ==
  /\ \A r \in Records : stage[r] \in Saving => lock = r
  /\ ~up => /\ \A r \in Records : stage[r] \in Resting
            /\ afloat = {} /\ index = {} /\ boots < MaxBoots
  /\ \A e \in index : names[SlugOf[e.id]] # None

(***************************************************************************)
(* The bodies: one in place is whole and in its directory; its rename is   *)
(* durable but for a call that stopped between the rename and the sync.    *)
(***************************************************************************)
BodiesInv ==
  /\ \A r \in md :
       /\ r \in synced /\ SlugOf[r] \in dirs
       /\ stage[r] \in {"renamed", "err", "lost"} \/ r \in mdD
  /\ \A r \in Records :
       /\ stage[r] \in Storing => SlugOf[r] \in dirs
       /\ stage[r] = "synced" => r \in synced
       /\ stage[r] \in {"new", "dir", "temp", "synced"} => r \notin md
       /\ stage[r] \in {"renamed", "written"} \cup Saving => r \in md

(***************************************************************************)
(* The lists of the index: in memory, in the file, in what survives, in    *)
(* what a rename under way will put there.  A listed record has a durable  *)
(* body, in a directory that survives with the list.                       *)
(***************************************************************************)
Pending(x) == up /\ (stage[x] = "serialised" \/ x \in afloat)

Good(r) == Unfinished(r) \/ (r \in mdD /\ SlugOf[r] \in dirs)
Durable(r, made) == Unfinished(r) \/ (r \in mdD /\ SlugOf[r] \in made)

Damaged == file = Garbage \/ \E root \in roots : root.list = Garbage

ListsInv ==
  /\ \A r \in Ids(index) \cup Listed(file) : Good(r)
  /\ \A root \in roots : \A r \in Listed(root.list) : Durable(r, root.made)
  /\ \A x \in Records : Pending(x) => \A r \in Ids(snap[x]) : Good(r)
  /\ Damaged => corruptions > 0

\* The records on a list that may survive.
Lasting == UNION {Listed(root.list) : root \in roots}

Unlisted == {"new", "dir", "temp", "synced", "renamed", "written", "err"}

ErrInv ==
  corruptions = 0 => \A r \in Records : stage[r] \in Unlisted =>
    /\ r \notin Ids(index) \cup Listed(file) \cup Lasting
    /\ \A x \in Records : Pending(x) => r \notin Ids(snap[x])

(***************************************************************************)
(* What was acknowledged is on every list, but for what a late rename took *)
(* off; and no list is ahead of the index in memory.                       *)
(***************************************************************************)
OnList(r, f) == f = Garbage \/ r \in Listed(f) \cup overtaken
OnFile(r)    == OnList(r, file)
OnDisk(r)    == /\ r \in mdD
                /\ \A root \in roots : OnList(r, root.list) /\ SlugOf[r] \in root.made

AckInv ==
  /\ AckedIsFound
  /\ \A r \in Records :
       /\ stage[r] = "serialised" => Ids(snap[r]) = Ids(index)
       /\ stage[r] \in Saving => r \in Ids(index)
       /\ stage[r] \in {"index renamed", "saved", "acked"} => OnFile(r)
       /\ stage[r] \in {"saved", "acked"} => OnDisk(r)
       /\ stage[r] \in {"index renamed", "saved"} => file # Garbage
  /\ up /\ file = Garbage => \A x, r \in Records :
       Pending(x) /\ stage[r] = "acked" => r \in Ids(snap[x]) \cup overtaken
  /\ up => Listed(file) \subseteq Ids(index)
  /\ \A x \in Records : Pending(x) => Ids(snap[x]) \subseteq Ids(index)

StoreInv == TypeOK /\ LockInv /\ BodiesInv /\ ListsInv /\ ErrInv /\ AckInv

-----------------------------------------------------------------------------
LEMMA Sorts ==
  ASSUME NEW r \in Records
  PROVE  /\ SlugOf[r] \in Slugs /\ TopicOf[r] \in Topics
         /\ Entry(r, TopicOf[r]) \in AnyEntry /\ Entry(r, SlugOf[r]) \in AnyEntry
         /\ Entry(r, TopicOf[r]).id = r
  BY DEF Slugs, Topics, Entry, AnyEntry

\* A step of the body: it adds to the disk, and moves one call.
BodyStep(r) == MakeDir(r) \/ WriteTemp(r) \/ SyncTemp(r) \/ Rename(r) \/ SyncDir(r)

BodyMoves(r, s) ==
  /\ up /\ stage[r] \in {"new", "dir", "temp", "synced", "renamed"}
  /\ s \in {"dir", "temp", "synced", "renamed", "written", "err"}
  /\ stage' = [stage EXCEPT ![r] = s]
  /\ UNCHANGED <<file, roots, snap, afloat, overtaken, index, names, lock, up, boots,
                 corruptions>>
  /\ dirs \subseteq dirs' /\ mdD \subseteq mdD' /\ synced \subseteq synced'

LEMMA BodyEffect ==
  ASSUME TypeOK, NEW r \in Records, BodyStep(r)
  PROVE  /\ \E s \in Stages : BodyMoves(r, s)
         /\ dirs' \subseteq Slugs /\ tmp' \subseteq Records /\ synced' \subseteq Records
         /\ md' \subseteq Records /\ mdD' \subseteq md'
         /\ failures' \in 0..MaxFailures
<1>1. ASSUME Works \/ Fails PROVE failures' \in 0..MaxFailures
  BY RecordAssumption, <1>1 DEF Works, Fails, TypeOK
<1>2. Works \/ Fails
  BY DEF BodyStep, MakeDir, WriteTemp, SyncTemp, Rename, SyncDir
<1>3. CASE MakeDir(r)
  <2>1. dirs' \subseteq Slugs /\ dirs \subseteq dirs'
    BY <1>3, Sorts DEF MakeDir, TypeOK
  <2>2. BodyMoves(r, "dir") \/ BodyMoves(r, "err")
    BY <1>3, <2>1 DEF MakeDir, At, Goto, BodyMoves, memory
  <2> QED BY <1>1, <1>2, <1>3, <2>1, <2>2 DEF MakeDir, Stages, TypeOK
<1>4. CASE WriteTemp(r)
  <2>1. BodyMoves(r, "temp") \/ BodyMoves(r, "err")
    BY <1>4 DEF WriteTemp, At, Goto, BodyMoves, memory
  <2> QED BY <1>1, <1>2, <1>4, <2>1 DEF WriteTemp, Stages, TypeOK
<1>5. CASE SyncTemp(r)
  <2>1. BodyMoves(r, "synced") \/ BodyMoves(r, "err")
    BY <1>5 DEF SyncTemp, At, Goto, BodyMoves, memory
  <2> QED BY <1>1, <1>2, <1>5, <2>1 DEF SyncTemp, Stages, TypeOK
<1>6. CASE Rename(r)
  <2>1. BodyMoves(r, "renamed") \/ BodyMoves(r, "err")
    BY <1>6 DEF Rename, At, Goto, BodyMoves, memory
  <2> QED BY <1>1, <1>2, <1>6, <2>1 DEF Rename, Stages, TypeOK
<1>7. CASE SyncDir(r)
  <2>1. mdD' \subseteq md
    BY <1>7 DEF SyncDir, SyncTopicDir, TypeOK
  <2> QED BY <1>1, <1>2, <1>7, <2>1 DEF SyncDir, SyncTopicDir, At, Goto, BodyMoves, memory, Stages, TypeOK
<1> QED BY <1>3, <1>4, <1>5, <1>6, <1>7 DEF BodyStep

\* What a boot makes of the file: entries, and a name for each slug among them.
LEMMA BootLoads ==
  ASSUME TypeOK
  PROVE  /\ Loaded \in SUBSET AnyEntry
         /\ NamesOf(Loaded) \in [Slugs -> Topics \cup Slugs \cup {None}]
         /\ \A e \in Loaded : NamesOf(Loaded)[SlugOf[e.id]] # None
<1>1. Rebuilt \in SUBSET AnyEntry
  BY Sorts DEF Rebuilt, TypeOK
<1>2. Loaded \in SUBSET AnyEntry
  <2>1. file \in SUBSET AnyEntry \/ file = None \/ file = Garbage
    BY DEF TypeOK
  <2> QED BY <1>1, <2>1, Zenon DEF Loaded
<1>3. PICK ix \in SUBSET AnyEntry : ix = Loaded
  BY <1>2
<1>4. ASSUME NEW s \in Slugs, \E e \in ix : SlugOf[e.id] = s
      PROVE  (CHOOSE e \in ix : SlugOf[e.id] = s).topic \in Topics \cup Slugs
  <2>1. (CHOOSE e \in ix : SlugOf[e.id] = s) \in ix
    BY <1>4
  <2> QED BY <2>1 DEF AnyEntry
<1>5. NamesOf(ix) \in [Slugs -> Topics \cup Slugs \cup {None}]
  BY <1>4 DEF NamesOf
<1>6. ASSUME NEW e \in ix PROVE NamesOf(ix)[SlugOf[e.id]] # None
  <2>1. SlugOf[e.id] \in Slugs
    BY Sorts DEF AnyEntry
  <2>2. NamesOf(ix)[SlugOf[e.id]] \in Topics \cup Slugs
    BY <1>4, <2>1 DEF NamesOf
  <2> QED BY RecordAssumption, <2>2
<1> QED BY <1>2, <1>3, <1>5, <1>6

\* What a save writes: the records of the index, each under a name.
LEMMA Collected ==
  ASSUME TypeOK, LockInv
  PROVE  Collect(index, names) \in SUBSET AnyEntry /\ Ids(Collect(index, names)) = Ids(index)
<1>1. ASSUME NEW e \in index
      PROVE  Entry(e.id, names[SlugOf[e.id]]) \in AnyEntry
  <2>1. e.id \in Records /\ SlugOf[e.id] \in Slugs
    BY Sorts DEF TypeOK, AnyEntry
  <2>2. names[SlugOf[e.id]] \in Topics \cup Slugs
    BY <2>1 DEF TypeOK, LockInv
  <2> QED BY <2>1, <2>2 DEF Entry, AnyEntry
<1>2. \A e \in index : Entry(e.id, names[SlugOf[e.id]]).id = e.id
  BY DEF Entry
<1> QED BY <1>1, <1>2 DEF Collect, Ids

\* What may survive of the root: an index file, and directories that there are.
LEMMA RootsType ==
  ASSUME TypeOK, NEW root \in roots
  PROVE  /\ root \in [list : (SUBSET AnyEntry) \cup {None, Garbage}, made : SUBSET dirs]
         /\ root.list \in (SUBSET AnyEntry) \cup {None, Garbage} /\ root.made \subseteq dirs
  BY DEF TypeOK

LEMMA RootIs ==
  ASSUME NEW f, NEW made
  PROVE  \A root \in {Root(f, made)} : root.list = f /\ root.made = made
  BY DEF Root

LEMMA NextType ==
  ASSUME TypeOK, LockInv, [Next]_vars
  PROVE  TypeOK'
<1>1. CASE UNCHANGED vars
  BY <1>1 DEF vars, disk, memory, env, TypeOK
<1>2. ASSUME NEW r \in Records, BodyStep(r)
      PROVE  TypeOK'
  <2>1. PICK s \in Stages : BodyMoves(r, s)
    BY <1>2, BodyEffect
  <2>2. /\ dirs' \subseteq Slugs /\ tmp' \subseteq Records /\ synced' \subseteq Records
        /\ md' \subseteq Records /\ mdD' \subseteq md'
        /\ failures' \in 0..MaxFailures
    BY <1>2, BodyEffect
  <2>3. stage' \in [Records -> Stages]
    BY <2>1 DEF BodyMoves, TypeOK
  <2>4. dirs \subseteq dirs' /\ roots' = roots
    BY <2>1 DEF BodyMoves
  <2>5. roots' \subseteq [list : (SUBSET AnyEntry) \cup {None, Garbage}, made : SUBSET dirs']
    BY <2>4, RootsType
  <2> QED BY <2>1, <2>2, <2>3, <2>5 DEF BodyMoves, TypeOK
<1>3. ASSUME NEW r \in Records, AddRecord(r)
      PROVE  TypeOK'
  <2>1. /\ stage' = [stage EXCEPT ![r] = "indexed"] /\ lock' = r
        /\ index' = index \cup {Entry(r, TopicOf[r])} /\ names' = NamesWith(r, TopicOf[r])
        /\ UNCHANGED <<disk, snap, afloat, overtaken, env>>
    BY <1>3 DEF AddRecord, TakeLock, Goto
  <2>2. names' \in [Slugs -> Topics \cup Slugs \cup {None}]
    BY <2>1, Sorts DEF NamesWith, TypeOK
  <2>3. index' \subseteq AnyEntry /\ stage' \in [Records -> Stages]
    BY <2>1, Sorts DEF TypeOK, Stages
  <2> QED BY <2>1, <2>2, <2>3 DEF disk, env, TypeOK
<1>4. ASSUME NEW r \in Records, WriteIndexTemp(r)
      PROVE  TypeOK'
  <2>1. /\ snap' = [snap EXCEPT ![r] = Collect(index, names)]
        /\ \/ stage' = [stage EXCEPT ![r] = "serialised"]
           \/ stage' = [stage EXCEPT ![r] = "unsaved"]
        /\ Works \/ Fails
        /\ UNCHANGED <<dirs, tmp, synced, md, mdD, file, roots, afloat, overtaken,
                       memory, lock, up, boots, corruptions>>
    BY <1>4 DEF WriteIndexTemp, Goto
  <2>2. snap' \in [Records -> SUBSET AnyEntry]
    BY <2>1, Collected DEF TypeOK
  <2>3. stage' \in [Records -> Stages]
    BY <2>1 DEF TypeOK, Stages
  <2>4. failures' \in 0..MaxFailures
    BY RecordAssumption, <2>1 DEF TypeOK, Works, Fails
  <2> QED BY <2>1, <2>2, <2>3, <2>4 DEF memory, TypeOK
<1>5. ASSUME NEW r \in Records, RenameIndex(r) \/ SyncIndex(r)
      PROVE  TypeOK'
  <2>1. /\ \/ stage' = [stage EXCEPT ![r] = "index renamed"]
           \/ stage' = [stage EXCEPT ![r] = "saved"]
           \/ stage' = [stage EXCEPT ![r] = "unsaved"]
        /\ Works \/ Fails
        /\ UNCHANGED <<dirs, tmp, synced, md, mdD, snap, afloat, overtaken,
                       memory, lock, up, boots, corruptions>>
        /\ file' \in {file, snap[r]}
        /\ roots' \subseteq roots \cup {Root(snap[r], dirs), Root(file, dirs)}
    BY <1>5 DEF RenameIndex, PutIndex, SyncIndex, SyncRoot, Goto
  <2>2. stage' \in [Records -> Stages]
    BY <2>1 DEF TypeOK, Stages
  <2>3. failures' \in 0..MaxFailures
    <3>1. Works \/ Fails
      BY <2>1
    <3> QED BY RecordAssumption, <3>1 DEF TypeOK, Works, Fails
  <2>4. snap[r] \in SUBSET AnyEntry
    BY DEF TypeOK
  <2>5. {Root(snap[r], dirs), Root(file, dirs)}
           \subseteq [list : (SUBSET AnyEntry) \cup {None, Garbage}, made : SUBSET dirs]
    BY <2>4 DEF Root, TypeOK
  <2>6. roots' \subseteq [list : (SUBSET AnyEntry) \cup {None, Garbage}, made : SUBSET dirs]
    BY <2>1, <2>5, RootsType
  <2> QED BY <2>1, <2>2, <2>3, <2>4, <2>6 DEF memory, TypeOK
<1>6. ASSUME NEW r \in Records, Return(r) \/ Cancel(r)
      PROVE  TypeOK'
  <2>1. /\ \/ stage' = [stage EXCEPT ![r] = "acked"]
           \/ stage' = [stage EXCEPT ![r] = "acked unsaved"]
           \/ stage' = [stage EXCEPT ![r] = "lost"]
        /\ UNCHANGED <<disk, snap, overtaken, memory, env>>
        /\ lock' \in {lock, None} /\ afloat' \subseteq afloat \cup {r}
    BY <1>6 DEF Return, Cancel, Unlock, Goto
  <2>2. stage' \in [Records -> Stages]
    BY <2>1 DEF TypeOK, Stages
  <2> QED BY <2>1, <2>2 DEF disk, memory, env, TypeOK
<1>7. ASSUME NEW r \in Records, LateRename(r)
      PROVE  TypeOK'
  <2>1. snap[r] \in SUBSET AnyEntry
    BY DEF TypeOK
  <2>2. Listed(file) \subseteq Records
    <3>1. file \in SUBSET AnyEntry \/ file = None \/ file = Garbage
      BY DEF TypeOK
    <3>2. CASE file \in SUBSET AnyEntry
      BY <3>2 DEF Listed, Ids, AnyEntry
    <3>3. CASE file = None \/ file = Garbage
      BY <3>3 DEF Listed
    <3> QED BY <3>1, <3>2, <3>3
  <2>3. file' = snap[r] /\ roots' = roots \cup {Root(snap[r], dirs)}
    BY <1>7 DEF LateRename, PutIndex
  <2>4. roots' \subseteq [list : (SUBSET AnyEntry) \cup {None, Garbage}, made : SUBSET dirs]
    BY <2>1, <2>3 DEF Root, TypeOK
  <2> QED BY <1>7, <2>1, <2>2, <2>3, <2>4 DEF LateRename, memory, env, TypeOK
<1>8. ASSUME Die
      PROVE  /\ up' = FALSE /\ stage' \in [Records -> Stages] /\ index' = {}
             /\ names' \in [Slugs -> Topics \cup Slugs \cup {None}]
             /\ lock' = None /\ afloat' = {}
             /\ UNCHANGED <<snap, overtaken, boots, failures, corruptions>>
  BY <1>8 DEF Die, TypeOK, Stages
<1>9. CASE Crash
  BY <1>8, <1>9 DEF Crash, disk, TypeOK
<1>10. CASE PowerFailure
  <2>1. dirs' \subseteq Slugs /\ file' \in (SUBSET AnyEntry) \cup {None, Garbage}
    BY <1>10 DEF PowerFailure, RootSurvives, TypeOK
  <2>2. /\ roots' = {Root(file', dirs')}
        /\ md' \subseteq md /\ mdD' = md' /\ tmp' \subseteq tmp /\ synced' = synced
    BY <1>10 DEF PowerFailure, RootSurvives
  <2>3. Die
    BY <1>10 DEF PowerFailure
  <2>4. roots' \subseteq [list : (SUBSET AnyEntry) \cup {None, Garbage}, made : SUBSET dirs']
    BY <2>1, <2>2 DEF Root
  <2> QED BY <1>8, <2>1, <2>2, <2>3, <2>4 DEF TypeOK
<1>11. CASE Corrupt
  <2>1. corruptions' \in 0..MaxCorruptions
    BY RecordAssumption, <1>11 DEF Corrupt, TypeOK
  <2>2. file' = Garbage /\ roots' = {Root(Garbage, root.made) : root \in roots}
    BY <1>11 DEF Corrupt
  <2>3. roots' \subseteq [list : (SUBSET AnyEntry) \cup {None, Garbage}, made : SUBSET dirs]
    BY <2>2, RootsType DEF Root
  <2> QED BY <1>11, <2>1, <2>2, <2>3 DEF Corrupt, memory, TypeOK
<1>12. CASE Boot
  <2>1. boots' \in 1..MaxBoots
    BY RecordAssumption, <1>12 DEF Boot, LockInv, TypeOK
  <2> QED BY <1>12, <2>1, BootLoads DEF Boot, Cleanup, TypeOK
<1> QED BY <1>1, <1>2, <1>3, <1>4, <1>5, <1>6, <1>7, <1>9, <1>10, <1>11, <1>12
        DEF Next, Store, BodyStep

LEMMA NextLock ==
  ASSUME TypeOK, LockInv, [Next]_vars
  PROVE  LockInv'
<1>1. CASE UNCHANGED vars
  BY <1>1 DEF vars, memory, env, LockInv
<1>2. ASSUME NEW r \in Records, NEW s \in Stages, BodyMoves(r, s)
      PROVE  LockInv'
  BY <1>2 DEF BodyMoves, LockInv, Saving, TypeOK
<1>3. ASSUME NEW r \in Records, AddRecord(r)
      PROVE  LockInv'
  <2>1. /\ stage' = [stage EXCEPT ![r] = "indexed"] /\ lock' = r /\ lock = None /\ up
        /\ index' = index \cup {Entry(r, TopicOf[r])} /\ names' = NamesWith(r, TopicOf[r])
        /\ UNCHANGED <<up, boots, afloat>>
    BY <1>3 DEF AddRecord, TakeLock, Goto, At, env
  <2>2. \A q \in Records : stage'[q] \in Saving => q = r
    BY RecordAssumption, <2>1 DEF LockInv, TypeOK
  <2>3. ASSUME NEW e \in index' PROVE names'[SlugOf[e.id]] # None
    <3>1. SlugOf[e.id] \in Slugs
      BY <2>1, Sorts DEF AnyEntry, TypeOK
    <3>2. \A s \in Slugs : names'[s] = (IF s = SlugOf[r] /\ names[s] = None
                                         THEN TopicOf[r] ELSE names[s])
      BY <2>1, Sorts DEF NamesWith, TypeOK
    <3>3. TopicOf[r] # None
      BY RecordAssumption, Sorts
    <3>4. e \in index \/ e.id = r
      BY <2>1, Sorts
    <3> QED BY <3>1, <3>2, <3>3, <3>4 DEF LockInv
  <2> QED BY <2>1, <2>2, <2>3 DEF LockInv
<1>4. ASSUME NEW r \in Records, WriteIndexTemp(r) \/ RenameIndex(r) \/ SyncIndex(r)
      PROVE  LockInv'
  <2>1. /\ stage[r] \in Saving /\ up
        /\ \E s \in Saving : stage' = [stage EXCEPT ![r] = s]
        /\ UNCHANGED <<memory, lock, up, boots, afloat>>
    BY <1>4 DEF WriteIndexTemp, RenameIndex, SyncIndex, At, Goto, Saving
  <2> QED BY <2>1 DEF LockInv, memory, TypeOK
<1>5. ASSUME NEW r \in Records, Return(r) \/ Cancel(r)
      PROVE  LockInv'
  <2>1. /\ stage' \in {[stage EXCEPT ![r] = s] : s \in {"acked", "acked unsaved", "lost"}}
        /\ lock' = (IF lock = r THEN None ELSE lock) /\ up /\ UNCHANGED <<memory, env>>
    BY <1>5 DEF Return, Cancel, Unlock, Goto, At
  <2>2. \A q \in Records : stage'[q] \in Saving => q # r /\ stage[q] \in Saving
    BY <2>1 DEF Saving, TypeOK
  <2> QED BY <2>1, <2>2 DEF LockInv, memory, env
<1>6. ASSUME NEW r \in Records, LateRename(r)
      PROVE  LockInv'
  BY <1>6 DEF LateRename, LockInv, memory, env
<1>7. CASE Die
  BY <1>7 DEF Die, LockInv, Saving, Resting, TypeOK
<1>8. CASE Corrupt
  BY <1>8 DEF Corrupt, LockInv, memory
<1>9. CASE Boot
  <2>1. \A e \in index' : names'[SlugOf[e.id]] # None
    BY <1>9, BootLoads DEF Boot
  <2>2. UNCHANGED <<stage, lock>> /\ up'
    BY <1>9 DEF Boot
  <2> QED BY <2>1, <2>2 DEF LockInv
<1> QED BY <1>1, <1>2, <1>3, <1>4, <1>5, <1>6, <1>7, <1>8, <1>9, BodyEffect
        DEF Next, Store, BodyStep, Crash, PowerFailure

-----------------------------------------------------------------------------
\* A body is renamed when it is whole, and a call goes on to the index only when
\* the directory is synced.
LEMMA NextBodies ==
  ASSUME TypeOK, LockInv, BodiesInv, [Next]_vars
  PROVE  BodiesInv'
<1> USE DEF BodiesInv, Storing, Saving
<1>1. CASE UNCHANGED vars
  BY <1>1 DEF vars, disk
<1>2. ASSUME NEW r \in Records, MakeDir(r)
      PROVE  BodiesInv'
  <2>1. CASE Works /\ Goto(r, "dir") /\ dirs' = dirs \cup {SlugOf[r]}
    BY <1>2, <2>1 DEF MakeDir, At, Goto, TypeOK
  <2>2. CASE Goto(r, "err") /\ UNCHANGED dirs
    BY <1>2, <2>2 DEF MakeDir, At, Goto, TypeOK
  <2> QED BY <1>2, <2>1, <2>2 DEF MakeDir
<1>3. ASSUME NEW r \in Records, WriteTemp(r)
      PROVE  BodiesInv'
  BY <1>3 DEF WriteTemp, At, Goto, TypeOK
<1>4. ASSUME NEW r \in Records, SyncTemp(r)
      PROVE  BodiesInv'
  BY <1>4 DEF SyncTemp, At, Goto, TypeOK
<1>5. ASSUME NEW r \in Records, Rename(r)
      PROVE  BodiesInv'
  <2>1. CASE Goto(r, "renamed") /\ md' = md \cup {r}
    BY <1>5, <2>1 DEF Rename, At, Goto, TypeOK
  <2>2. CASE Goto(r, "err") /\ UNCHANGED md
    BY <1>5, <2>2 DEF Rename, At, Goto, TypeOK
  <2> QED BY <1>5, <2>1, <2>2 DEF Rename
<1>6. ASSUME NEW r \in Records, SyncDir(r)
      PROVE  BodiesInv'
  <2>1. /\ stage[r] = "renamed" /\ r \in md /\ mdD \subseteq mdD'
        /\ UNCHANGED <<dirs, synced, md>>
    BY <1>6 DEF SyncDir, SyncTopicDir, At
  <2>2. \/ stage' = [stage EXCEPT ![r] = "written"] /\ r \in mdD'
        \/ stage' = [stage EXCEPT ![r] = "err"]
    BY <1>6, <2>1 DEF SyncDir, SyncTopicDir, Goto
  <2> QED BY <2>1, <2>2 DEF TypeOK
<1>7. ASSUME NEW r \in Records,
             \/ AddRecord(r) \/ WriteIndexTemp(r) \/ RenameIndex(r) \/ SyncIndex(r)
             \/ Return(r) \/ Cancel(r)
      PROVE  BodiesInv'
  <2>1. UNCHANGED <<dirs, synced, md, mdD>>
    BY <1>7 DEF AddRecord, WriteIndexTemp, RenameIndex, SyncIndex, Return, Cancel, disk
  <2>2. \/ /\ stage[r] \in {"written"} \cup Saving
           /\ \E s \in Saving \cup {"acked", "acked unsaved"} : stage' = [stage EXCEPT ![r] = s]
        \/ stage' = [stage EXCEPT ![r] = "lost"]
    BY <1>7 DEF AddRecord, WriteIndexTemp, RenameIndex, SyncIndex, Return, Cancel, At, Goto
  <2> QED BY <2>1, <2>2 DEF TypeOK
<1>8. ASSUME NEW r \in Records, LateRename(r)
      PROVE  BodiesInv'
  BY <1>8 DEF LateRename
<1>9. ASSUME Die
      PROVE  \A r \in Records : /\ stage'[r] \in Resting
                                /\ stage'[r] \in {"err", "lost"} \/ stage'[r] = stage[r]
  BY <1>9 DEF Die, Resting, TypeOK
<1>10. CASE Crash
  <2>1. UNCHANGED <<dirs, synced, md, mdD>>
    BY <1>10 DEF Crash, disk
  <2> QED BY <1>9, <1>10, <2>1 DEF Crash, Resting, TypeOK
<1>11. CASE PowerFailure
  <2>1. /\ \A r \in md' : r \in md /\ SlugOf[r] \in dirs'
        /\ mdD' = md' /\ synced' = synced
    BY <1>11 DEF PowerFailure
  <2> QED BY <1>9, <1>11, <2>1 DEF PowerFailure, Resting, TypeOK
<1>12. CASE Corrupt \/ Boot
  BY <1>12 DEF Corrupt, Boot, Cleanup
<1> QED BY <1>1, <1>2, <1>3, <1>4, <1>5, <1>6, <1>7, <1>8, <1>10, <1>11, <1>12
        DEF Next, Store

-----------------------------------------------------------------------------
\* But for a power failure the disk only grows, and a call that is over stays so.
Grows ==
  /\ dirs \subseteq dirs' /\ mdD \subseteq mdD'
  /\ corruptions > 0 => corruptions' > 0
  /\ \A r \in Records : stage[r] \in {"err", "lost"} => stage'[r] \in {"err", "lost"}

LEMMA NextGrows ==
  ASSUME TypeOK, [Next]_vars, ~PowerFailure
  PROVE  Grows
<1>1. CASE UNCHANGED vars
  BY <1>1 DEF vars, disk, env, Grows
<1>2. ASSUME NEW r \in Records, MakeDir(r) \/ Store(r) \/ Cancel(r)
      PROVE  Grows
  <2>1. dirs \subseteq dirs' /\ mdD \subseteq mdD'
    BY <1>2 DEF MakeDir, Store, Cancel, WriteTemp, SyncTemp, Rename, SyncDir, AddRecord,
               WriteIndexTemp, RenameIndex, SyncIndex, Return, SyncTopicDir, SyncRoot, disk,
               TypeOK
  <2>2. corruptions' = corruptions
    BY <1>2 DEF MakeDir, Store, Cancel, WriteTemp, SyncTemp, Rename, SyncDir, AddRecord,
               WriteIndexTemp, RenameIndex, SyncIndex, Return, env
  <2>3. stage[r] \notin {"err", "lost"} /\ \E s : stage' = [stage EXCEPT ![r] = s]
    BY <1>2 DEF MakeDir, Store, Cancel, WriteTemp, SyncTemp, Rename, SyncDir, AddRecord,
               WriteIndexTemp, RenameIndex, SyncIndex, Return, At, Goto
  <2> QED BY <2>1, <2>2, <2>3 DEF Grows, TypeOK
<1>3. ASSUME NEW r \in Records, LateRename(r)
      PROVE  Grows
  BY <1>3 DEF LateRename, env, Grows
<1>4. CASE Crash
  BY <1>4 DEF Crash, Die, disk, Grows, TypeOK
<1>5. CASE Corrupt
  BY <1>5 DEF Corrupt, Grows, TypeOK
<1>6. CASE Boot
  BY <1>6 DEF Boot, Grows
<1> QED BY <1>1, <1>2, <1>3, <1>4, <1>5, <1>6 DEF Next

LEMMA GoodStays ==
  ASSUME Grows, NEW r \in Records
  PROVE  (Good(r) => Good(r)') /\ \A made : Durable(r, made) => Durable(r, made)'
  BY DEF Grows, Good, Durable, Unfinished

\* A snapshot of the index is a list and no file that is missing or damaged.
LEMMA SnapListed ==
  ASSUME TypeOK, NEW r \in Records
  PROVE  /\ Listed(snap[r]) = Ids(snap[r]) /\ snap[r] # None /\ snap[r] # Garbage
         /\ Ids(snap[r]) \subseteq Records
<1>1. snap[r] \in SUBSET AnyEntry
  BY DEF TypeOK
<1>2. snap[r] # None /\ snap[r] # Garbage
  BY RecordAssumption, <1>1
<1> QED BY <1>1, <1>2 DEF Listed, Ids, AnyEntry

\* What the boot lists: the file, or the bodies if it is damaged.
LEMMA BootLists ==
  ASSUME TypeOK
  PROVE  /\ file # Garbage => Ids(Loaded) = Listed(file)
         /\ file = Garbage => Ids(Loaded) = md
         /\ Ids(index) \subseteq Records /\ Listed(file) \subseteq Records
         /\ \A root \in roots : Listed(root.list) \subseteq Records
<1>1. Ids({}) = {}
  BY DEF Ids
<1>2. Ids(Rebuilt) = md
  <2>1. \A r \in md : Entry(r, SlugOf[r]).id = r
    BY DEF Entry
  <2> QED BY <2>1 DEF Rebuilt, Ids
<1>3. /\ file # Garbage => Ids(Loaded) = Listed(file)
      /\ file = Garbage => Ids(Loaded) = md
  BY RecordAssumption, <1>1, <1>2 DEF Loaded, Listed
<1>4. ASSUME NEW f \in (SUBSET AnyEntry) \cup {None, Garbage}
      PROVE  Listed(f) \subseteq Records
  BY <1>4 DEF Listed, Ids, AnyEntry
<1>5. Ids(index) \subseteq Records
  BY DEF Ids, AnyEntry, TypeOK
<1>6. \A root \in roots : Listed(root.list) \subseteq Records
  BY <1>4, RootsType
<1> QED BY <1>3, <1>4, <1>5, <1>6 DEF TypeOK

LEMMA Added ==
  ASSUME NEW r \in Records, AddRecord(r)
  PROVE  Ids(index') = Ids(index) \cup {r}
<1>1. index' = index \cup {Entry(r, TopicOf[r])}
  BY DEF AddRecord
<1> QED BY <1>1, Sorts DEF Ids

\* Steps that leave every list as it is.
Lists == <<index, file, roots, snap>>

LEMMA NextLists ==
  ASSUME TypeOK, LockInv, BodiesInv, ListsInv, [Next]_vars
  PROVE  ListsInv'
<1> USE BootLists, SnapListed
<1>1. ASSUME Grows, UNCHANGED Lists, \A x \in Records : Pending(x)' => Pending(x)
      PROVE  ListsInv'
  <2>1. \A r \in Records : (Good(r) => Good(r)') /\ \A made : Durable(r, made) => Durable(r, made)'
    BY <1>1, GoodStays
  <2>2. Damaged' => corruptions' > 0
    BY <1>1 DEF ListsInv, Grows, Lists, Damaged
  <2> QED BY <1>1, <2>1, <2>2 DEF ListsInv, Lists
<1>2. CASE UNCHANGED vars
  <2>1. Grows /\ UNCHANGED Lists /\ \A x \in Records : Pending(x)' => Pending(x)
    BY <1>2 DEF vars, disk, memory, env, Grows, Lists, Pending
  <2> QED BY <1>1, <2>1
<1>3. ASSUME NEW r \in Records, BodyStep(r)
      PROVE  ListsInv'
  <2>1. PICK s \in Stages : BodyMoves(r, s)
    BY <1>3, BodyEffect
  <2>2. Grows
    BY <2>1 DEF BodyMoves, Grows, TypeOK
  <2>3. UNCHANGED Lists /\ \A x \in Records : Pending(x)' => Pending(x)
    BY <2>1 DEF BodyMoves, Lists, Pending, TypeOK
  <2> QED BY <1>1, <2>2, <2>3
<1>4. ASSUME NEW r \in Records, Return(r) \/ Cancel(r)
      PROVE  ListsInv'
  <2>2. UNCHANGED Lists /\ up' = up
    BY <1>4 DEF Return, Cancel, disk, memory, env, Lists
  <2>1. Grows
    BY <1>4 DEF Return, Cancel, disk, env, At, Goto, Grows, TypeOK
  <2>3. ASSUME NEW x \in Records, Pending(x)' PROVE Pending(x)
    <3>1. up /\ (stage'[x] = "serialised" \/ x \in afloat')
      BY <2>2, <2>3 DEF Pending
    <3>2. stage'[x] = "serialised" => stage[x] = "serialised"
      BY <1>4 DEF Return, Cancel, Goto, TypeOK
    <3>3. x \in afloat' => x \in afloat \/ stage[x] = "serialised"
      BY <1>4 DEF Return, Cancel
    <3> QED BY <3>1, <3>2, <3>3 DEF Pending
  <2> QED BY <1>1, <2>1, <2>2, <2>3
<1>5. ASSUME Grows
      PROVE  /\ \A r \in Records : Good(r) => Good(r)'
             /\ \A root \in roots : \A q \in Listed(root.list) : Durable(q, root.made)'
  BY <1>5, GoodStays DEF ListsInv
<1>6. ASSUME NEW r \in Records, AddRecord(r)
      PROVE  ListsInv'
  <2>1. /\ stage[r] = "written" /\ stage' = [stage EXCEPT ![r] = "indexed"]
        /\ index' = index \cup {Entry(r, TopicOf[r])}
        /\ UNCHANGED <<dirs, mdD, file, roots, snap, afloat, up, corruptions>>
    BY <1>6 DEF AddRecord, At, Goto, disk, env
  <2>2. Grows
    BY <2>1 DEF Grows, TypeOK
  <2>3. Ids(index') = Ids(index) \cup {r}
    BY <1>6, Added
  <2>4. Good(r)
    BY <2>1 DEF Good, BodiesInv, Storing
  <2>5. \A x \in Records : Pending(x)' => Pending(x)
    BY <2>1 DEF Pending, TypeOK
  <2>6. \A q \in Ids(index') \cup Listed(file') : Good(q)'
    BY <1>5, <2>1, <2>2, <2>3, <2>4 DEF ListsInv
  <2>7. \A root \in roots' : \A q \in Listed(root.list) : Durable(q, root.made)'
    BY <1>5, <2>1, <2>2 DEF ListsInv
  <2>8. \A x \in Records : Pending(x)' => \A q \in Ids(snap'[x]) : Good(q)'
    BY <1>5, <2>1, <2>2, <2>5 DEF ListsInv
  <2> QED BY <2>1, <2>6, <2>7, <2>8 DEF ListsInv, Damaged
<1>7. ASSUME NEW r \in Records, WriteIndexTemp(r)
      PROVE  ListsInv'
  <2>1. /\ stage[r] = "indexed" /\ snap' = [snap EXCEPT ![r] = Collect(index, names)]
        /\ \E s \in {"serialised", "unsaved"} : stage' = [stage EXCEPT ![r] = s]
        /\ UNCHANGED <<dirs, mdD, file, roots, index, afloat, up, corruptions>>
    BY <1>7 DEF WriteIndexTemp, At, Goto, memory
  <2>2. Grows
    BY <2>1 DEF Grows, TypeOK
  <2>3. Ids(snap'[r]) = Ids(index) /\ \A x \in Records \ {r} : snap'[x] = snap[x]
    BY <2>1, Collected DEF TypeOK
  <2>4. \A x \in Records \ {r} : Pending(x)' => Pending(x)
    BY <2>1 DEF Pending, TypeOK
  <2>5. \A q \in Ids(index') \cup Listed(file') : Good(q)'
    BY <1>5, <2>1, <2>2 DEF ListsInv
  <2>6. \A root \in roots' : \A q \in Listed(root.list) : Durable(q, root.made)'
    BY <1>5, <2>1, <2>2 DEF ListsInv
  <2>7. ASSUME NEW x \in Records, Pending(x)'
        PROVE  \A q \in Ids(snap'[x]) : Good(q)'
    <3>1. CASE x = r
      BY <3>1, <2>1, <2>3, <2>5
    <3>2. CASE x # r
      BY <3>2, <1>5, <2>2, <2>3, <2>4, <2>7 DEF ListsInv
    <3> QED BY <3>1, <3>2
  <2> QED BY <2>1, <2>5, <2>6, <2>7 DEF ListsInv, Damaged
<1>8. ASSUME NEW r \in Records, RenameIndex(r) \/ LateRename(r)
      PROVE  ListsInv'
  <2>1. /\ Pending(r) /\ file' \in {file, snap[r]}
        /\ roots' \subseteq roots \cup {Root(snap[r], dirs)}
        /\ UNCHANGED <<dirs, mdD, index, snap, up, corruptions>>
        /\ afloat' \subseteq afloat
        /\ \A x \in Records : stage'[x] \in {"index renamed", "unsaved"} \/ stage'[x] = stage[x]
        /\ \A x \in Records : stage[x] \in {"err", "lost"} => stage'[x] = stage[x]
    BY <1>8 DEF RenameIndex, LateRename, PutIndex, At, Goto, memory, env, Pending, TypeOK
  <2>2. Grows
    BY <2>1 DEF Grows, TypeOK
  <2>3. \A x \in Records : Pending(x)' => Pending(x)
    BY <2>1 DEF Pending
  <2>4. \A q \in Ids(index') : Good(q)'
    BY <1>5, <2>1, <2>2 DEF ListsInv
  <2>5. \A q \in Listed(file') : Good(q)'
    BY <1>5, <2>1, <2>2 DEF ListsInv
  <2>6. ASSUME NEW root \in roots', NEW q \in Listed(root.list)
        PROVE  Durable(q, root.made)'
    <3>1. CASE root \in roots
      BY <1>5, <2>2, <3>1
    <3>2. CASE root = Root(snap[r], dirs)
      <4>1. q \in Ids(snap[r]) /\ root.made = dirs /\ Good(q) /\ q \in Records
        BY <2>1, <2>6, <3>2 DEF Root, ListsInv
      <4>2. Good(q)'
        BY <1>5, <2>2, <4>1
      <4> QED BY <2>1, <4>1, <4>2 DEF Good, Durable, Unfinished
    <3> QED BY <2>1, <3>1, <3>2
  <2>7. \A x \in Records : Pending(x)' => \A q \in Ids(snap'[x]) : Good(q)'
    BY <1>5, <2>1, <2>2, <2>3 DEF ListsInv
  <2>8. ASSUME Damaged' PROVE corruptions' > 0
    <3>1. snap[r] # Garbage /\ Root(snap[r], dirs).list # Garbage
      BY RootIs
    <3>2. Damaged
      BY <2>1, <2>8, <3>1 DEF Damaged
    <3> QED BY <2>1, <3>2 DEF ListsInv
  <2> QED BY <2>4, <2>5, <2>6, <2>7, <2>8 DEF ListsInv
<1>9. ASSUME NEW r \in Records, SyncIndex(r)
      PROVE  ListsInv'
  <2>1. /\ stage[r] = "index renamed" /\ \E s \in {"saved", "unsaved"} : stage' = [stage EXCEPT ![r] = s]
        /\ UNCHANGED <<dirs, mdD, file, index, snap, afloat, up, corruptions>>
        /\ roots' = {Root(file, dirs)} \/ roots' = roots
    BY <1>9 DEF SyncIndex, SyncRoot, At, Goto, memory
  <2>2. Grows
    BY <2>1 DEF Grows, TypeOK
  <2>3. \A x \in Records : Pending(x)' => Pending(x)
    BY <2>1 DEF Pending, TypeOK
  <2>4. \A q \in Ids(index') \cup Listed(file') : Good(q)'
    BY <1>5, <2>1, <2>2 DEF ListsInv
  <2>5. \A root \in roots' : \A q \in Listed(root.list) : Durable(q, root.made)'
    <3>1. CASE roots' = {Root(file, dirs)}
      <4>1. \A q \in Listed(file) : Good(q)'
        BY <2>1, <2>4
      <4>2. \A q \in Listed(file) : Durable(q, dirs)'
        BY <2>1, <4>1 DEF Good, Durable
      <4>3. \A root \in {Root(file, dirs)} : root.list = file /\ root.made = dirs
        BY RootIs
      <4> QED BY <2>1, <3>1, <4>2, <4>3 DEF Durable
    <3>2. CASE roots' = roots
      BY <1>5, <2>2, <3>2
    <3> QED BY <2>1, <3>1, <3>2
  <2>6. \A x \in Records : Pending(x)' => \A q \in Ids(snap'[x]) : Good(q)'
    BY <1>5, <2>1, <2>2, <2>3 DEF ListsInv
  <2>7. ASSUME Damaged' PROVE corruptions' > 0
    <3>1. Root(file, dirs).list = file
      BY RootIs
    <3>2. Damaged
      BY <2>1, <2>7, <3>1 DEF Damaged
    <3> QED BY <2>1, <3>2 DEF ListsInv
  <2> QED BY <2>1, <2>4, <2>5, <2>6, <2>7 DEF ListsInv
<1>10. ASSUME Crash \/ PowerFailure
       PROVE  /\ Ids(index') = {} /\ \A x \in Records : ~Pending(x)'
              /\ UNCHANGED corruptions
              /\ \A q \in Records : Unfinished(q) => Unfinished(q)'
  <2>1. Die
    BY <1>10 DEF Crash, PowerFailure
  <2>2. index' = {} /\ up' = FALSE /\ UNCHANGED corruptions
    BY <2>1 DEF Die
  <2>3. \A q \in Records : stage[q] \in {"err", "lost"} => stage'[q] \in {"err", "lost"}
    BY <2>1 DEF Die, TypeOK
  <2> QED BY <2>2, <2>3 DEF Ids, Pending, Unfinished
<1>11. CASE Crash
  <2>1. Grows
    BY <1>11, NextGrows DEF Crash, Die, disk, Grows, TypeOK
  <2>2. UNCHANGED <<file, roots>>
    BY <1>11 DEF Crash, disk
  <2> QED BY <1>5, <1>10, <1>11, <2>1, <2>2 DEF ListsInv, Damaged
<1>12. CASE PowerFailure
  <2>1. /\ roots' = {Root(file', dirs')} /\ mdD' = md'
        /\ \A q \in mdD : SlugOf[q] \in dirs' => q \in mdD'
    BY <1>12 DEF PowerFailure
  <2>2. PICK root \in roots : file' = root.list /\ root.made \subseteq dirs'
    BY <1>12 DEF PowerFailure, RootSurvives
  <2>3. ASSUME NEW q \in Listed(file') PROVE Good(q)'
    <3>1. Durable(q, root.made) /\ q \in Records
      BY <2>2, <2>3 DEF ListsInv
    <3> QED BY <1>10, <1>12, <2>1, <2>2, <3>1 DEF Good, Durable
  <2>4. \A kept \in roots' : \A q \in Listed(kept.list) : Durable(q, kept.made)'
    <3> SUFFICES ASSUME NEW kept \in roots', NEW q \in Listed(kept.list)
                 PROVE  Durable(q, kept.made)'
      OBVIOUS
    <3>1. kept.list = file' /\ kept.made = dirs'
      BY <2>1, RootIs
    <3>2. Good(q)'
      BY <2>3, <3>1
    <3> QED BY <3>1, <3>2 DEF Good, Durable
  <2>5. Damaged' => corruptions' > 0
    BY <1>10, <1>12, <2>1, <2>2 DEF ListsInv, Damaged, Root
  <2> QED BY <1>10, <1>12, <2>3, <2>4, <2>5 DEF ListsInv
<1>13. CASE Corrupt
  <2>1. /\ file' = Garbage /\ roots' = {Root(Garbage, root.made) : root \in roots}
        /\ corruptions' > 0 /\ ~up'
        /\ UNCHANGED index
    BY <1>13 DEF Corrupt, memory, TypeOK
  <2>2. Listed(Garbage) = {} /\ Ids(index) = {}
    BY <1>13 DEF Listed, Corrupt, LockInv, Ids
  <2> QED BY <2>1, <2>2 DEF ListsInv, Pending, Root
<1>14. CASE Boot
  <2>1. /\ index' = Loaded /\ ~up
        /\ UNCHANGED <<dirs, md, mdD, file, roots, snap, afloat, stage, corruptions>>
    BY <1>14 DEF Boot, Cleanup
  <2>2. Grows
    BY <2>1 DEF Grows
  <2>3. \A x \in Records : ~Pending(x)'
    BY <2>1 DEF Pending, LockInv, Resting
  <2>4. ASSUME NEW q \in Ids(Loaded) PROVE Good(q)
    <3>1. CASE file # Garbage
      BY <2>4, <3>1 DEF ListsInv
    <3>2. CASE file = Garbage
      <4>1. q \in md /\ corruptions > 0
        BY <2>4, <3>2 DEF ListsInv, Damaged
      <4>2. q \in Records /\ stage[q] \in Resting
        BY <2>1, <4>1 DEF TypeOK, LockInv
      <4> QED BY <4>1, <4>2 DEF BodiesInv, Good, Unfinished, Resting
    <3> QED BY <3>1, <3>2
  <2>5. Ids(Loaded) \subseteq Records
    BY DEF TypeOK
  <2>6. \A q \in Ids(index') \cup Listed(file') : Good(q)'
    BY <1>5, <2>1, <2>2, <2>4, <2>5 DEF ListsInv
  <2>7. \A root \in roots' : \A q \in Listed(root.list) : Durable(q, root.made)'
    BY <1>5, <2>1, <2>2 DEF ListsInv
  <2> QED BY <2>1, <2>3, <2>6, <2>7 DEF ListsInv, Damaged
<1> QED BY <1>2, <1>3, <1>4, <1>6, <1>7, <1>8, <1>9, <1>11, <1>12, <1>13, <1>14
        DEF Next, Store, BodyStep

\* What a call that returned Err left behind is on no list.
LEMMA NextErr ==
  ASSUME TypeOK, LockInv, BodiesInv, ListsInv, ErrInv, [Next]_vars
  PROVE  ErrInv'
<1> USE BootLists, SnapListed
<1> SUFFICES ASSUME corruptions' = 0, NEW q \in Records, stage'[q] \in Unlisted
             PROVE  /\ q \notin Ids(index') \cup Listed(file') \cup Lasting'
                    /\ \A x \in Records : Pending(x)' => q \notin Ids(snap'[x])
  BY DEF ErrInv
<1>1. ASSUME corruptions = 0, stage[q] \in Unlisted
      PROVE  /\ q \notin Ids(index) \cup Listed(file) \cup Lasting
             /\ \A x \in Records : Pending(x) => q \notin Ids(snap[x])
  BY <1>1 DEF ErrInv
<1>2. CASE UNCHANGED vars
  BY <1>1, <1>2 DEF vars, disk, memory, env, Pending, Lasting
<1>3. ASSUME NEW r \in Records, BodyStep(r)
      PROVE  /\ q \notin Ids(index') \cup Listed(file') \cup Lasting'
             /\ \A x \in Records : Pending(x)' => q \notin Ids(snap'[x])
  <2>1. PICK s \in Stages : BodyMoves(r, s)
    BY <1>3, BodyEffect
  <2>2. corruptions = 0 /\ stage[q] \in Unlisted
    BY <2>1 DEF BodyMoves, Unlisted, TypeOK
  <2>3. \A x \in Records : Pending(x)' => Pending(x)
    BY <2>1 DEF BodyMoves, Pending, TypeOK
  <2> QED BY <1>1, <2>1, <2>2, <2>3 DEF BodyMoves, Lasting
<1>4. ASSUME NEW r \in Records, AddRecord(r)
      PROVE  /\ q \notin Ids(index') \cup Listed(file') \cup Lasting'
             /\ \A x \in Records : Pending(x)' => q \notin Ids(snap'[x])
  <2>1. /\ stage' = [stage EXCEPT ![r] = "indexed"]
        /\ UNCHANGED <<file, roots, snap, afloat, up, corruptions>>
    BY <1>4 DEF AddRecord, Goto, disk, env
  <2>2. q # r /\ corruptions = 0 /\ stage[q] \in Unlisted
    BY <2>1 DEF Unlisted, TypeOK
  <2>3. \A x \in Records : Pending(x)' => Pending(x)
    BY <2>1 DEF Pending, TypeOK
  <2> QED BY <1>1, <1>4, <2>1, <2>2, <2>3, Added DEF Lasting
<1>5. ASSUME NEW r \in Records, WriteIndexTemp(r)
      PROVE  /\ q \notin Ids(index') \cup Listed(file') \cup Lasting'
             /\ \A x \in Records : Pending(x)' => q \notin Ids(snap'[x])
  <2>1. /\ snap' = [snap EXCEPT ![r] = Collect(index, names)]
        /\ \E s \in {"serialised", "unsaved"} : stage' = [stage EXCEPT ![r] = s]
        /\ UNCHANGED <<file, roots, index, afloat, up, corruptions>>
    BY <1>5 DEF WriteIndexTemp, Goto, memory
  <2>2. corruptions = 0 /\ stage[q] \in Unlisted
    BY <2>1 DEF Unlisted, TypeOK
  <2>3. Ids(snap'[r]) = Ids(index) /\ \A x \in Records \ {r} : snap'[x] = snap[x]
    BY <2>1, Collected DEF TypeOK
  <2>4. \A x \in Records \ {r} : Pending(x)' => Pending(x)
    BY <2>1 DEF Pending, TypeOK
  <2> QED BY <1>1, <2>1, <2>2, <2>3, <2>4 DEF Lasting
<1>6. ASSUME NEW r \in Records,
             RenameIndex(r) \/ LateRename(r) \/ SyncIndex(r) \/ Return(r) \/ Cancel(r)
      PROVE  /\ q \notin Ids(index') \cup Listed(file') \cup Lasting'
             /\ \A x \in Records : Pending(x)' => q \notin Ids(snap'[x])
  <2>1. /\ UNCHANGED <<index, snap, up, corruptions>>
        /\ file' = file \/ (Pending(r) /\ file' = snap[r])
        /\ roots' \subseteq roots \cup {Root(file, dirs), Root(file', dirs)}
    BY <1>6 DEF RenameIndex, LateRename, PutIndex, SyncIndex, SyncRoot, Return, Cancel, disk,
               memory, env, At, Pending
  <2>2. corruptions = 0 /\ stage[q] \in Unlisted
    BY <1>6, <2>1 DEF RenameIndex, LateRename, SyncIndex, Return, Cancel, Goto, Unlisted, TypeOK
  <2>3. ASSUME NEW x \in Records, Pending(x)' PROVE Pending(x)
    <3>1. up /\ (stage'[x] = "serialised" \/ x \in afloat')
      BY <2>1, <2>3 DEF Pending
    <3>2. stage'[x] = "serialised" => stage[x] = "serialised"
      BY <1>6 DEF RenameIndex, LateRename, SyncIndex, Return, Cancel, Goto, TypeOK
    <3>3. x \in afloat' => x \in afloat \/ stage[x] = "serialised"
      BY <1>6 DEF RenameIndex, LateRename, SyncIndex, Return, Cancel
    <3> QED BY <3>1, <3>2, <3>3 DEF Pending
  <2>4. Lasting' \subseteq Lasting \cup Listed(file) \cup Listed(file')
    BY <2>1 DEF Lasting, Root
  <2> QED BY <1>1, <2>1, <2>2, <2>3, <2>4
<1>7. CASE Crash \/ PowerFailure
  <2>1. Die
    BY <1>7 DEF Crash, PowerFailure
  <2>2. Ids(index') = {} /\ \A x \in Records : ~Pending(x)'
    BY <2>1 DEF Die, Ids, Pending
  <2>3. corruptions = 0 /\ stage[q] \in Unlisted
    BY <2>1 DEF Die, Unlisted, TypeOK
  <2>4. Listed(file') \cup Lasting' \subseteq Listed(file) \cup Lasting
    BY <1>7 DEF Crash, PowerFailure, RootSurvives, Root, Lasting, disk
  <2> QED BY <1>1, <2>2, <2>3, <2>4
<1>8. CASE Corrupt
  BY <1>8 DEF Corrupt, TypeOK
<1>9. CASE Boot
  <2>1. /\ index' = Loaded /\ ~up
        /\ UNCHANGED <<file, roots, snap, afloat, stage, corruptions>>
    BY <1>9 DEF Boot
  <2>2. \A x \in Records : ~Pending(x)'
    BY <2>1 DEF Pending, LockInv, Resting
  <2>3. file # Garbage
    BY <2>1 DEF ListsInv, Damaged, TypeOK
  <2> QED BY <1>1, <2>1, <2>2, <2>3 DEF Lasting
<1> QED BY <1>2, <1>3, <1>4, <1>5, <1>6, <1>7, <1>8, <1>9 DEF Next, Store, BodyStep

-----------------------------------------------------------------------------
(* What was acknowledged stays found.                                       *)

\* Steps that change no list: a saved call may become an acked one.
AckQuiet ==
  /\ UNCHANGED Lists /\ UNCHANGED <<up, overtaken>>
  /\ \A x \in Records : Pending(x)' => Pending(x)
  /\ mdD \subseteq mdD'
  /\ \A q \in Records : stage'[q] \in Saving \cup {"acked"} =>
       stage'[q] = stage[q] \/ (stage[q] = "saved" /\ stage'[q] = "acked")

LEMMA QuietAck ==
  ASSUME AckInv, AckQuiet
  PROVE  AckInv'
<1>1. UNCHANGED <<index, file, roots, snap, up, overtaken>>
  BY DEF AckQuiet, Lists
<1>0. ASSUME NEW q \in Records, stage'[q] = "acked"
      PROVE  stage[q] = "acked" \/ (stage[q] = "saved" /\ q \in Ids(index) /\ file # Garbage)
  <2>1. stage[q] = "acked" \/ stage[q] = "saved"
    BY <1>0 DEF AckQuiet
  <2> QED BY <2>1 DEF AckInv, Saving
<1>2. AckedIsFound'
  <2> SUFFICES ASSUME up', NEW q \in Records, stage'[q] = "acked"
               PROVE  q \in Ids(index') \cup overtaken'
    BY DEF AckedIsFound
  <2> QED BY <1>0, <1>1 DEF AckInv, AckedIsFound
<1>3. ASSUME NEW q \in Records
      PROVE  /\ stage'[q] = "serialised" => Ids(snap'[q]) = Ids(index')
             /\ stage'[q] \in Saving => q \in Ids(index')
             /\ stage'[q] \in {"index renamed", "saved", "acked"} => OnFile(q)'
             /\ stage'[q] \in {"saved", "acked"} => OnDisk(q)'
             /\ stage'[q] \in {"index renamed", "saved"} => file' # Garbage
  <2>1. /\ stage'[q] \in Saving => stage'[q] = stage[q]
        /\ stage'[q] = "acked" => stage[q] \in {"saved", "acked"}
    BY DEF AckQuiet, Saving
  <2>2. (OnFile(q) => OnFile(q)') /\ (OnDisk(q) => OnDisk(q)')
    BY <1>1 DEF AckQuiet, OnFile, OnDisk, OnList
  <2> QED BY <1>1, <2>1, <2>2 DEF AckInv, Saving
<1>4. up' /\ file' = Garbage => \A x, q \in Records :
        Pending(x)' /\ stage'[q] = "acked" => q \in Ids(snap'[x]) \cup overtaken'
  <2> SUFFICES ASSUME up', file' = Garbage, NEW x \in Records, NEW q \in Records,
                      Pending(x)', stage'[q] = "acked"
               PROVE  q \in Ids(snap'[x]) \cup overtaken'
    OBVIOUS
  <2>1. Pending(x) /\ up /\ file = Garbage
    BY <1>1 DEF AckQuiet
  <2>2. stage[q] = "acked"
    BY <1>0, <2>1
  <2> QED BY <1>1, <2>1, <2>2 DEF AckInv
<1>5. up' => Listed(file') \subseteq Ids(index')
  BY <1>1 DEF AckInv
<1>6. \A x \in Records : Pending(x)' => Ids(snap'[x]) \subseteq Ids(index')
  BY <1>1 DEF AckQuiet, AckInv
<1> QED BY <1>2, <1>3, <1>4, <1>5, <1>6 DEF AckInv

LEMMA QuietAckSteps ==
  ASSUME TypeOK, LockInv,
         UNCHANGED vars \/ \E r \in Records : BodyStep(r) \/ Return(r) \/ Cancel(r)
  PROVE  AckQuiet
<1>1. CASE UNCHANGED vars
  BY <1>1 DEF vars, disk, memory, env, AckQuiet, Lists, Pending
<1>2. ASSUME NEW r \in Records, BodyStep(r)
      PROVE  AckQuiet
  <2>1. PICK s \in Stages : BodyMoves(r, s)
    BY <1>2, BodyEffect
  <2>2. \A x \in Records : Pending(x)' => Pending(x)
    BY <2>1 DEF BodyMoves, Pending, TypeOK
  <2> QED BY <2>1, <2>2 DEF BodyMoves, AckQuiet, Lists, Saving, TypeOK
<1>3. ASSUME NEW r \in Records, Return(r) \/ Cancel(r)
      PROVE  AckQuiet
  <2>1. UNCHANGED Lists /\ UNCHANGED <<up, overtaken, mdD>>
    BY <1>3 DEF Return, Cancel, disk, memory, env, Lists
  <2>2. /\ \A q \in Records \ {r} : stage'[q] = stage[q]
        /\ \/ stage'[r] \in {"lost", "acked unsaved"}
           \/ stage'[r] = "acked" /\ stage[r] = "saved"
    BY <1>3 DEF Return, Cancel, Goto, At, TypeOK
  <2>3. ASSUME NEW x \in Records, Pending(x)' PROVE Pending(x)
    <3>1. up /\ (stage'[x] = "serialised" \/ x \in afloat')
      BY <2>1, <2>3 DEF Pending
    <3>2. x \in afloat' => x \in afloat \/ stage[x] = "serialised"
      BY <1>3 DEF Return, Cancel
    <3> QED BY <2>2, <3>1, <3>2 DEF Pending
  <2> QED BY <2>1, <2>2, <2>3 DEF AckQuiet, Saving
<1> QED BY <1>1, <1>2, <1>3

\* While a save is under way its snapshot is the whole index: the lock is taken.
LEMMA AddAck ==
  ASSUME TypeOK, LockInv, AckInv, NEW r \in Records, AddRecord(r)
  PROVE  AckInv'
<1>1. /\ up /\ lock = None /\ stage[r] = "written" /\ stage' = [stage EXCEPT ![r] = "indexed"]
      /\ UNCHANGED <<mdD, file, roots, snap, afloat, overtaken, up>>
  BY DEF AddRecord, At, Goto, disk, env
<1>2. Ids(index') = Ids(index) \cup {r}
  BY Added
<1>3. \A q \in Records : stage[q] \notin Saving
  BY RecordAssumption, <1>1 DEF LockInv
<1>4. \A q \in Records \ {r} : stage'[q] = stage[q] /\ stage'[q] \notin Saving
  BY <1>1, <1>3 DEF TypeOK
<1>5. stage'[r] = "indexed"
  BY <1>1 DEF TypeOK
<1>6. \A x \in Records : Pending(x)' => Pending(x)
  BY <1>1, <1>4, <1>5 DEF Pending
<1>7. \A q \in Records : (OnFile(q) => OnFile(q)') /\ (OnDisk(q) => OnDisk(q)')
  BY <1>1 DEF OnFile, OnDisk, OnList
<1>8. AckedIsFound'
  BY <1>1, <1>2, <1>4, <1>5 DEF AckInv, AckedIsFound
<1>9. \A q \in Records :
        /\ stage'[q] = "serialised" => Ids(snap'[q]) = Ids(index')
        /\ stage'[q] \in Saving => q \in Ids(index')
        /\ stage'[q] \in {"index renamed", "saved", "acked"} => OnFile(q)'
        /\ stage'[q] \in {"saved", "acked"} => OnDisk(q)'
        /\ stage'[q] \in {"index renamed", "saved"} => file' # Garbage
  BY <1>2, <1>4, <1>5, <1>7 DEF AckInv, Saving
<1>10. up' /\ file' = Garbage => \A x, q \in Records :
         Pending(x)' /\ stage'[q] = "acked" => q \in Ids(snap'[x]) \cup overtaken'
  BY <1>1, <1>4, <1>5, <1>6 DEF AckInv
<1>11. up' => Listed(file') \subseteq Ids(index')
  BY <1>1, <1>2 DEF AckInv
<1>12. \A x \in Records : Pending(x)' => Ids(snap'[x]) \subseteq Ids(index')
  BY <1>1, <1>2, <1>6 DEF AckInv
<1> QED BY <1>8, <1>9, <1>10, <1>11, <1>12 DEF AckInv

LEMMA WriteAck ==
  ASSUME TypeOK, LockInv, AckInv, NEW r \in Records, WriteIndexTemp(r)
  PROVE  AckInv'
<1>1. /\ up /\ stage[r] = "indexed" /\ snap' = [snap EXCEPT ![r] = Collect(index, names)]
      /\ \E s \in {"serialised", "unsaved"} : stage' = [stage EXCEPT ![r] = s]
      /\ UNCHANGED <<mdD, file, roots, index, afloat, overtaken, up>>
  BY DEF WriteIndexTemp, At, Goto, memory
<1>2. Ids(snap'[r]) = Ids(index) /\ \A x \in Records \ {r} : snap'[x] = snap[x]
  BY <1>1, Collected DEF TypeOK
<1>3. /\ \A q \in Records \ {r} : stage'[q] = stage[q]
      /\ stage'[r] \in {"serialised", "unsaved"}
  BY <1>1 DEF TypeOK
<1>4. \A x \in Records \ {r} : Pending(x)' => Pending(x)
  BY <1>1, <1>3 DEF Pending
<1>5. \A q \in Records : (OnFile(q) => OnFile(q)') /\ (OnDisk(q) => OnDisk(q)')
  BY <1>1 DEF OnFile, OnDisk, OnList
<1>6. AckedIsFound'
  BY <1>1, <1>3 DEF AckInv, AckedIsFound
<1>7. \A q \in Records :
        /\ stage'[q] = "serialised" => Ids(snap'[q]) = Ids(index')
        /\ stage'[q] \in Saving => q \in Ids(index')
        /\ stage'[q] \in {"index renamed", "saved", "acked"} => OnFile(q)'
        /\ stage'[q] \in {"saved", "acked"} => OnDisk(q)'
        /\ stage'[q] \in {"index renamed", "saved"} => file' # Garbage
  BY <1>1, <1>2, <1>3, <1>5 DEF AckInv, Saving
<1>8. up' /\ file' = Garbage => \A x, q \in Records :
        Pending(x)' /\ stage'[q] = "acked" => q \in Ids(snap'[x]) \cup overtaken'
  <2> SUFFICES ASSUME file = Garbage, NEW x \in Records, NEW q \in Records,
                      Pending(x)', stage'[q] = "acked"
               PROVE  q \in Ids(snap'[x]) \cup overtaken
    BY <1>1
  <2>1. stage[q] = "acked"
    BY <1>3
  <2>2. CASE x = r
    BY <1>1, <1>2, <2>1, <2>2 DEF AckInv, AckedIsFound
  <2>3. CASE x # r
    BY <1>1, <1>2, <1>4, <2>1, <2>3 DEF AckInv
  <2> QED BY <2>2, <2>3
<1>9. up' => Listed(file') \subseteq Ids(index')
  BY <1>1 DEF AckInv
<1>10. \A x \in Records : Pending(x)' => Ids(snap'[x]) \subseteq Ids(index')
  BY <1>1, <1>2, <1>4 DEF AckInv
<1> QED BY <1>6, <1>7, <1>8, <1>9, <1>10 DEF AckInv

\* A save puts the whole index in the file, so that nothing acknowledged is lost.
LEMMA RenameAck ==
  ASSUME TypeOK, LockInv, BodiesInv, AckInv, NEW r \in Records, RenameIndex(r)
  PROVE  AckInv'
<1>1. /\ up /\ stage[r] = "serialised"
      /\ UNCHANGED <<mdD, index, snap, afloat, overtaken, up>>
      /\ roots' \subseteq roots \cup {Root(snap[r], dirs)}
      /\ \/ stage' = [stage EXCEPT ![r] = "index renamed"] /\ file' = snap[r]
         \/ stage' = [stage EXCEPT ![r] = "unsaved"] /\ file' = file
  BY DEF RenameIndex, PutIndex, At, Goto, memory
<1>2. \A q \in Records \ {r} : stage'[q] = stage[q] /\ stage[q] \notin Saving
  BY <1>1 DEF LockInv, Saving, TypeOK
<1>3. Ids(snap[r]) = Ids(index) /\ r \in Ids(index)
  BY <1>1 DEF AckInv, Saving
<1>4. Listed(snap[r]) = Ids(index) /\ snap[r] # Garbage
  BY <1>3, SnapListed
<1>5. /\ stage'[r] \in {"index renamed", "unsaved"}
      /\ stage'[r] = "index renamed" => file' = snap[r]
      /\ stage'[r] = "unsaved" => file' = file
  BY <1>1 DEF TypeOK
<1>6. \A x \in Records : Pending(x)' => Pending(x)
  BY <1>1, <1>2, <1>5 DEF Pending
<1>7. AckedIsFound'
  BY <1>1, <1>2, <1>5 DEF AckInv, AckedIsFound
<1>8. \A q \in Records : stage[q] = "acked" => OnFile(q)' /\ OnDisk(q)'
  <2> SUFFICES ASSUME NEW q \in Records, stage[q] = "acked" PROVE OnFile(q)' /\ OnDisk(q)'
    OBVIOUS
  <2>1. OnFile(q) /\ OnDisk(q) /\ q \in Ids(index) \cup overtaken
    BY <1>1 DEF AckInv, AckedIsFound
  <2>2. OnList(q, snap[r])' /\ SlugOf[q] \in dirs
    BY <1>1, <1>4, <2>1 DEF OnList, OnDisk, BodiesInv, TypeOK
  <2>3. OnDisk(q)'
    <3>1. ASSUME NEW root \in roots' PROVE OnList(q, root.list)' /\ SlugOf[q] \in root.made
      <4>1. CASE root \in roots
        BY <1>1, <2>1, <4>1 DEF OnDisk, OnList
      <4>2. CASE root = Root(snap[r], dirs)
        <5>1. root.list = snap[r] /\ root.made = dirs
          BY <4>2 DEF Root
        <5> QED BY <1>1, <2>2, <5>1 DEF OnList
      <4> QED BY <1>1, <4>1, <4>2
    <3> QED BY <1>1, <2>1, <3>1 DEF OnDisk
  <2> QED BY <1>1, <1>5, <2>1, <2>2, <2>3 DEF OnFile, OnList
<1>9. stage'[r] = "index renamed" => OnFile(r)' /\ file' # Garbage
  BY <1>3, <1>4, <1>5 DEF OnFile, OnList
<1>10. \A q \in Records :
        /\ stage'[q] = "serialised" => Ids(snap'[q]) = Ids(index')
        /\ stage'[q] \in Saving => q \in Ids(index')
        /\ stage'[q] \in {"index renamed", "saved", "acked"} => OnFile(q)'
        /\ stage'[q] \in {"saved", "acked"} => OnDisk(q)'
        /\ stage'[q] \in {"index renamed", "saved"} => file' # Garbage
  BY <1>1, <1>2, <1>3, <1>5, <1>8, <1>9 DEF Saving
<1>11. up' /\ file' = Garbage => \A x, q \in Records :
        Pending(x)' /\ stage'[q] = "acked" => q \in Ids(snap'[x]) \cup overtaken'
  BY <1>1, <1>2, <1>4, <1>5, <1>6 DEF AckInv
<1>12. up' => Listed(file') \subseteq Ids(index')
  BY <1>1, <1>4 DEF AckInv
<1>13. \A x \in Records : Pending(x)' => Ids(snap'[x]) \subseteq Ids(index')
  BY <1>1, <1>6 DEF AckInv
<1> QED BY <1>7, <1>10, <1>11, <1>12, <1>13 DEF AckInv

LEMMA SyncAck ==
  ASSUME TypeOK, LockInv, BodiesInv, AckInv, NEW r \in Records, SyncIndex(r)
  PROVE  AckInv'
<1>1. /\ up /\ stage[r] = "index renamed"
      /\ UNCHANGED <<mdD, dirs, file, index, snap, afloat, overtaken, up>>
      /\ \/ stage' = [stage EXCEPT ![r] = "saved"] /\ roots' = {Root(file, dirs)}
         \/ stage' = [stage EXCEPT ![r] = "unsaved"] /\ roots' = roots
  BY DEF SyncIndex, SyncRoot, At, Goto, memory
<1>2. \A q \in Records \ {r} : stage'[q] = stage[q] /\ stage[q] \notin Saving
  BY <1>1 DEF LockInv, Saving, TypeOK
<1>3. /\ stage'[r] \in {"saved", "unsaved"}
      /\ stage'[r] = "saved" => roots' = {Root(file, dirs)}
  BY <1>1 DEF TypeOK
<1>4. OnFile(r) /\ file # Garbage /\ r \in Ids(index)
  BY <1>1 DEF AckInv, Saving
<1>5. r \in mdD /\ SlugOf[r] \in dirs
  BY <1>1 DEF BodiesInv, Saving
<1>6. \A x \in Records : Pending(x)' => Pending(x)
  BY <1>1, <1>2, <1>3 DEF Pending
<1>7. AckedIsFound'
  BY <1>1, <1>2, <1>3 DEF AckInv, AckedIsFound
<1>8. \A q \in Records : OnFile(q) => OnFile(q)'
  BY <1>1 DEF OnFile, OnList
<1>9. \A q \in Records : stage[q] = "acked" => OnFile(q) /\ OnDisk(q)'
  <2> SUFFICES ASSUME NEW q \in Records, stage[q] = "acked" PROVE OnFile(q) /\ OnDisk(q)'
    OBVIOUS
  <2>1. OnFile(q) /\ OnDisk(q)
    BY DEF AckInv
  <2>2. CASE roots' = {Root(file, dirs)}
    <3>1. SlugOf[q] \in dirs /\ OnList(q, file)'
      BY <1>1, <2>1 DEF OnFile, OnDisk, OnList, BodiesInv, TypeOK
    <3>2. \A root \in {Root(file, dirs)} : root.list = file /\ root.made = dirs
      BY RootIs
    <3> QED BY <1>1, <2>1, <2>2, <3>1, <3>2 DEF OnDisk, OnList
  <2>3. CASE roots' = roots
    BY <1>1, <2>1, <2>3 DEF OnDisk, OnList
  <2> QED BY <1>1, <2>1, <2>2, <2>3
<1>10. stage'[r] = "saved" => OnDisk(r)'
  <2>1. OnList(r, file)'
    BY <1>1, <1>4 DEF OnFile, OnList
  <2>2. \A root \in {Root(file, dirs)} : root.list = file /\ root.made = dirs
    BY RootIs
  <2> QED BY <1>1, <1>3, <1>5, <2>1, <2>2 DEF OnDisk, OnList
<1>11. ASSUME NEW q \in Records
      PROVE  /\ stage'[q] = "serialised" => Ids(snap'[q]) = Ids(index')
             /\ stage'[q] \in Saving => q \in Ids(index')
             /\ stage'[q] \in {"index renamed", "saved", "acked"} => OnFile(q)'
             /\ stage'[q] \in {"saved", "acked"} => OnDisk(q)'
             /\ stage'[q] \in {"index renamed", "saved"} => file' # Garbage
  <2>1. CASE q = r
    BY <1>1, <1>3, <1>4, <1>8, <1>10, <2>1
  <2>2. CASE q # r
    BY <1>2, <1>8, <1>9, <2>2 DEF Saving
  <2> QED BY <2>1, <2>2
<1>12. up' /\ file' = Garbage => \A x, q \in Records :
        Pending(x)' /\ stage'[q] = "acked" => q \in Ids(snap'[x]) \cup overtaken'
  BY <1>1, <1>4
<1>13. up' => Listed(file') \subseteq Ids(index')
  BY <1>1 DEF AckInv
<1>14. \A x \in Records : Pending(x)' => Ids(snap'[x]) \subseteq Ids(index')
  BY <1>1, <1>6 DEF AckInv
<1> QED BY <1>7, <1>11, <1>12, <1>13, <1>14 DEF AckInv

\* A late rename may take records off the file: those are the overtaken.
LEMMA LateAck ==
  ASSUME TypeOK, BodiesInv, AckInv, NEW r \in Records, LateRename(r)
  PROVE  AckInv'
<1>1. /\ up /\ Pending(r) /\ file' = snap[r]
      /\ overtaken' = overtaken \cup (Listed(file) \ Listed(snap[r]))
      /\ roots' = roots \cup {Root(snap[r], dirs)}
      /\ UNCHANGED <<stage, mdD, index, snap, up>>
      /\ afloat' \subseteq afloat
  BY DEF LateRename, PutIndex, Pending, memory, env
<1>2. Listed(snap[r]) = Ids(snap[r]) /\ snap[r] # Garbage
  BY SnapListed
<1>3. Ids(snap[r]) \subseteq Ids(index)
  BY <1>1 DEF AckInv
<1>4. \A x \in Records : Pending(x)' => Pending(x)
  BY <1>1 DEF Pending
<1>5. AckedIsFound'
  BY <1>1 DEF AckInv, AckedIsFound
<1>6. ASSUME NEW q \in Records, stage[q] \in {"index renamed", "saved", "acked"}
      PROVE  OnFile(q)'
  <2>1. OnFile(q) /\ (stage[q] # "acked" => file # Garbage)
    BY <1>6 DEF AckInv
  <2>2. CASE file = Garbage
    <3>1. q \in Ids(snap[r]) \cup overtaken
      BY <1>1, <2>1, <2>2, <1>6 DEF AckInv
    <3> QED BY <1>1, <1>2, <3>1 DEF OnFile, OnList
  <2>3. CASE file # Garbage
    BY <1>1, <2>1, <2>3 DEF OnFile, OnList
  <2> QED BY <2>2, <2>3
<1>7. ASSUME NEW q \in Records, stage[q] \in {"saved", "acked"}
      PROVE  OnDisk(q)'
  <2>1. OnDisk(q) /\ OnFile(q)'
    BY <1>6, <1>7 DEF AckInv
  <2>2. SlugOf[q] \in dirs
    BY <2>1 DEF OnDisk, BodiesInv, TypeOK
  <2> QED BY <1>1, <2>1, <2>2 DEF OnDisk, OnFile, OnList, Root
<1>8. \A q \in Records :
        /\ stage'[q] = "serialised" => Ids(snap'[q]) = Ids(index')
        /\ stage'[q] \in Saving => q \in Ids(index')
        /\ stage'[q] \in {"index renamed", "saved", "acked"} => OnFile(q)'
        /\ stage'[q] \in {"saved", "acked"} => OnDisk(q)'
        /\ stage'[q] \in {"index renamed", "saved"} => file' # Garbage
  BY <1>1, <1>2, <1>6, <1>7 DEF AckInv
<1>9. up' => Listed(file') \subseteq Ids(index')
  BY <1>1, <1>2, <1>3
<1>10. \A x \in Records : Pending(x)' => Ids(snap'[x]) \subseteq Ids(index')
  BY <1>1, <1>4 DEF AckInv
<1> QED BY <1>1, <1>2, <1>5, <1>8, <1>9, <1>10 DEF AckInv

LEMMA DieAck ==
  ASSUME TypeOK, AckInv, Crash \/ PowerFailure
  PROVE  AckInv'
<1>1. Die
  BY DEF Crash, PowerFailure
<1>2. ~up' /\ overtaken' = overtaken /\ \A x \in Records : ~Pending(x)'
  BY <1>1 DEF Die, Pending
<1>3. \A q \in Records : /\ stage'[q] \notin Saving
                         /\ stage'[q] = "acked" => stage[q] = "acked"
  BY <1>1 DEF Die, Saving, TypeOK
<1>4. ASSUME NEW q \in Records, stage[q] = "acked"
      PROVE  OnFile(q)' /\ OnDisk(q)'
  <2>1. OnFile(q) /\ OnDisk(q)
    BY <1>4 DEF AckInv
  <2>2. CASE Crash
    BY <1>2, <2>1, <2>2 DEF Crash, disk, OnFile, OnDisk, OnList
  <2>3. CASE PowerFailure
    <3>1. /\ roots' = {Root(file', dirs')}
          /\ mdD' = md' /\ {x \in mdD : SlugOf[x] \in dirs'} \subseteq md'
      BY <2>3 DEF PowerFailure
    <3>2. PICK root \in roots : file' = root.list /\ root.made \subseteq dirs'
      BY <2>3 DEF PowerFailure, RootSurvives
    <3>3. OnList(q, file') /\ SlugOf[q] \in dirs'
      BY <2>1, <3>2 DEF OnDisk
    <3> QED BY <1>2, <2>1, <3>1, <3>3 DEF OnFile, OnDisk, OnList, Root
  <2> QED BY <2>2, <2>3
<1> QED BY <1>2, <1>3, <1>4 DEF AckInv, AckedIsFound, Saving

LEMMA CorruptAck ==
  ASSUME TypeOK, LockInv, AckInv, Corrupt
  PROVE  AckInv'
<1>1. /\ ~up /\ ~up' /\ file' = Garbage
      /\ roots' = {Root(Garbage, root.made) : root \in roots}
      /\ UNCHANGED <<stage, mdD, overtaken>>
  BY DEF Corrupt
<1>2. \A q \in Records : stage[q] \notin Saving
  BY <1>1 DEF LockInv, Resting, Saving
<1>3. \A q \in Records : stage[q] = "acked" => OnFile(q)' /\ OnDisk(q)'
  <2> SUFFICES ASSUME NEW q \in Records, stage[q] = "acked" PROVE OnFile(q)' /\ OnDisk(q)'
    BY <1>1
  <2>1. OnDisk(q)
    BY DEF AckInv
  <2>2. \A root \in roots' : OnList(q, root.list)' /\ SlugOf[q] \in root.made
    BY <1>1, <2>1, RootIs DEF OnDisk, OnList
  <2> QED BY <1>1, <2>1, <2>2 DEF OnFile, OnDisk, OnList
<1> QED BY <1>1, <1>2, <1>3 DEF AckInv, AckedIsFound, Pending, Saving

\* The file lists them, or the bodies do.
LEMMA BootAck ==
  ASSUME TypeOK, LockInv, AckInv, Boot
  PROVE  AckInv'
<1> USE BootLists
<1>1. /\ ~up /\ index' = Loaded
      /\ UNCHANGED <<stage, md, mdD, file, roots, snap, afloat, overtaken>>
  BY DEF Boot, Cleanup
<1>2. \A q \in Records : stage[q] \notin Saving
  BY <1>1 DEF LockInv, Resting, Saving
<1>3. \A x \in Records : ~Pending(x)'
  BY <1>1, <1>2 DEF LockInv, Pending, Saving
<1>4. ASSUME NEW q \in Records, stage[q] = "acked"
      PROVE  OnFile(q)' /\ OnDisk(q)' /\ q \in Ids(index') \cup overtaken'
  <2>1. OnFile(q) /\ OnDisk(q)
    BY <1>4 DEF AckInv
  <2>2. OnFile(q)' /\ OnDisk(q)'
    BY <1>1, <2>1 DEF OnFile, OnDisk, OnList
  <2>3. q \in Ids(Loaded) \cup overtaken
    BY <2>1 DEF OnFile, OnDisk, OnList, TypeOK
  <2> QED BY <1>1, <2>2, <2>3
<1>5. Listed(file) \subseteq Ids(Loaded)
  BY DEF Listed
<1>6. AckedIsFound'
  BY <1>1, <1>4 DEF AckedIsFound
<1> QED BY <1>1, <1>2, <1>3, <1>4, <1>5, <1>6 DEF AckInv, Saving

LEMMA NextAck ==
  ASSUME TypeOK, LockInv, BodiesInv, AckInv, [Next]_vars
  PROVE  AckInv'
<1>1. CASE UNCHANGED vars \/ \E r \in Records : BodyStep(r) \/ Return(r) \/ Cancel(r)
  BY <1>1, QuietAckSteps, QuietAck
<1>2. ASSUME NEW r \in Records,
             \/ AddRecord(r) \/ WriteIndexTemp(r) \/ RenameIndex(r) \/ SyncIndex(r)
             \/ LateRename(r)
      PROVE  AckInv'
  BY <1>2, AddAck, WriteAck, RenameAck, SyncAck, LateAck
<1>3. CASE Crash \/ PowerFailure \/ Corrupt \/ Boot
  BY <1>3, DieAck, CorruptAck, BootAck
<1> QED BY <1>1, <1>2, <1>3 DEF Next, Store, BodyStep

-----------------------------------------------------------------------------
LEMMA InitInv ==
  ASSUME Init
  PROVE  StoreInv
<1>1. TypeOK
  BY RecordAssumption DEF Init, Root, TypeOK, Stages
<1>2. LockInv
  BY DEF Init, LockInv, Saving
<1>3. BodiesInv
  BY DEF Init, BodiesInv, Storing, Saving
<1>4. /\ Ids(index) = {} /\ Listed(file) = {}
      /\ \A root \in roots : Listed(root.list) = {}
      /\ ~Damaged
  BY RecordAssumption DEF Init, Ids, Listed, Root, Damaged
<1>5. \A x \in Records : stage[x] = "new" /\ ~Pending(x)
  BY DEF Init, Pending
<1>6. ListsInv
  BY <1>4, <1>5 DEF ListsInv
<1>7. ErrInv
  BY <1>4, <1>5 DEF ErrInv, Lasting
<1>8. AckInv
  BY <1>4, <1>5 DEF AckInv, AckedIsFound, Saving
<1> QED BY <1>1, <1>2, <1>3, <1>6, <1>7, <1>8 DEF StoreInv

LEMMA Invariant == Spec => []StoreInv
<1>1. Init => StoreInv
  BY InitInv
<1>2. StoreInv /\ [Next]_vars => StoreInv'
  BY NextType, NextLock, NextBodies, NextLists, NextErr, NextAck DEF StoreInv
<1> QED BY <1>1, <1>2, PTL DEF Spec

\* The types of the store's state on disk and in memory hold in every reachable
\* state (adapter.rs, index.rs, index_file.rs).
THEOREM TypeCorrect == Spec => []TypeOK
<1>1. StoreInv => TypeOK
  BY DEF StoreInv
<1> QED BY <1>1, Invariant, PTL

\* Whatever fails, dies, loses power or is damaged: what the index lists has its body
\* in place and whole (adapter.rs store_information: the body before the index).
THEOREM BodiesCorrect == Spec => []BodyInPlace
<1>1. StoreInv => BodyInPlace
  BY DEF StoreInv, ListsInv, Good, BodiesInv, BodyInPlace, Ids, TypeOK
<1> QED BY <1>1, Invariant, PTL

\* What was acknowledged with its index saved is found after any number of deaths and
\* restarts unless a late rename took it off, and what failed is not listed unless the
\* index had to be rebuilt (adapter.rs store_information, index_file.rs).
THEOREM OutcomeCorrect == Spec => []OutcomeHolds
<1>1. StoreInv => AckedIsFound
  BY DEF StoreInv, AckInv
<1>2. StoreInv => ErrIsAbsent
  BY DEF StoreInv, ErrInv, ErrIsAbsent, Unlisted
<1>3. StoreInv => OutcomeHolds
  BY <1>1, <1>2 DEF OutcomeHolds
<1> QED BY <1>3, Invariant, PTL

\* No save writes an older index over a newer one: while the process is up and no
\* late rename strikes, the file only gains records (adapter.rs: the lock is held
\* across save).
THEOREM GrowsCorrect == Spec => IndexFileGrows
<1>1. ASSUME StoreInv, [Next]_vars
      PROVE  [up /\ up' /\ afloat \subseteq afloat' => Listed(file) \subseteq Listed(file')]_vars
  <2>1. CASE UNCHANGED vars
    BY <2>1
  <2> SUFFICES ASSUME Next, up, up', afloat \subseteq afloat'
               PROVE  Listed(file) \subseteq Listed(file')
    BY <1>1, <2>1
  <2>2. ASSUME NEW r \in Records, RenameIndex(r)
        PROVE  Listed(file) \subseteq Listed(file')
    <3>1. Ids(snap[r]) = Ids(index) /\ Listed(file) \subseteq Ids(index)
      BY <1>1, <2>2 DEF StoreInv, AckInv, RenameIndex, At
    <3>2. Listed(snap[r]) = Ids(snap[r])
      BY <1>1, SnapListed DEF StoreInv
    <3> QED BY <2>2, <3>1, <3>2 DEF RenameIndex, PutIndex
  <2>3. ASSUME NEW r \in Records, LateRename(r)
        PROVE  FALSE
    BY <2>3 DEF LateRename
  <2>4. ASSUME NEW r \in Records,
               \/ MakeDir(r) \/ WriteTemp(r) \/ SyncTemp(r) \/ Rename(r) \/ SyncDir(r)
               \/ AddRecord(r) \/ WriteIndexTemp(r) \/ SyncIndex(r) \/ Return(r) \/ Cancel(r)
        PROVE  file' = file
    BY <2>4 DEF MakeDir, WriteTemp, SyncTemp, Rename, SyncDir, AddRecord, WriteIndexTemp,
               SyncIndex, Return, Cancel, disk
  <2>5. CASE Crash \/ PowerFailure \/ Corrupt \/ Boot
    BY <2>5 DEF Crash, PowerFailure, Die, Corrupt, Boot
  <2> QED BY <2>2, <2>3, <2>4, <2>5 DEF Next, Store
<1> QED BY <1>1, Invariant, PTL DEF Spec, IndexFileGrows

-----------------------------------------------------------------------------
(* KnowledgeSearch: what the search is made of.                             *)

\* A set of numbers has a least one.
LEMMA NatMin ==
  ASSUME NEW T \in SUBSET Nat, T # {}
  PROVE  \E x \in T : \A y \in T : x <= y
<1> DEFINE R == {p \in Nat \X Nat : p[1] < p[2]}
<1>1. IsWellFoundedOn(R, Nat)
  BY NatLessThanWellFounded, Zenon DEF OpToRel
<1> HIDE DEF R
<1>2. PICK x \in T : \A y \in T : ~ (<<y, x>> \in R)
  BY <1>1, WFMin
<1>3. \A y \in T : ~(y < x)
  BY <1>2 DEF R, OpToRel
<1> QED BY <1>3

\* What holds of 0 and is passed on holds up to n.
LEMMA UpTo ==
  ASSUME NEW n \in Nat, NEW S, 0 \in S, \A i \in 1..n : i - 1 \in S => i \in S
  PROVE  n \in S
<1> DEFINE T == {i \in 0..n : i \notin S}
<1> SUFFICES ASSUME T # {} PROVE FALSE
  OBVIOUS
<1>1. T \in SUBSET Nat
  OBVIOUS
<1>2. PICK k \in T : \A j \in T : k <= j
  BY <1>1, NatMin
<1>3. k \in 1..n /\ k \notin S /\ k - 1 \in 0..n
  OBVIOUS
<1>4. k - 1 \notin T
  <2> HIDE DEF T
  <2> QED BY <1>2, <1>3
<1> QED BY <1>3, <1>4

-----------------------------------------------------------------------------
(* topic_slug.                                                             *)

\* One step of the loop that collapses runs of dashes.
Walked(s, f, i) ==
  IF i = 0 THEN <<>>
  ELSE IF i > 1 /\ s[i] = Dash /\ s[i - 1] = Dash THEN f[i - 1]
  ELSE Append(f[i - 1], s[i])

LEMMA WalkIs ==
  ASSUME NEW s
  PROVE  Collapsed(s) = (CHOOSE f : f = [i \in 0..Len(s) |-> Walked(s, f, i)])[Len(s)]
  BY DEF Collapsed, Walked

LEMMA WalkExists ==
  ASSUME NEW s, NEW n \in Nat
  PROVE  \E f : f = [i \in 0..n |-> Walked(s, f, i)]
<1> DEFINE S == {k \in Nat : \E f : f = [i \in 0..k |-> Walked(s, f, i)]}
<1>1. 0 \in S
  <2> DEFINE f == [i \in 0..0 |-> <<>>]
  <2>1. f = [i \in 0..0 |-> Walked(s, f, i)]
    BY DEF Walked
  <2> HIDE DEF f
  <2> QED BY <2>1
<1>2. ASSUME NEW k \in 1..n, k - 1 \in S
      PROVE  k \in S
  <2>1. PICK f : f = [i \in 0..(k - 1) |-> Walked(s, f, i)]
    BY <1>2
  <2> DEFINE g == [i \in 0..k |-> IF i = k THEN Walked(s, f, i) ELSE f[i]]
  <2>2. \A i \in 0..(k - 1) : f[i] = Walked(s, f, i)
    BY <2>1, Zenon
  <2>3. \A i \in 0..k : i # 0 => g[i - 1] = f[i - 1]
    OBVIOUS
  <2>4. \A i \in 0..k : Walked(s, g, i) = Walked(s, f, i)
    <3> HIDE DEF g
    <3> QED BY <2>3 DEF Walked
  <2>5. \A i \in 0..k : g[i] = Walked(s, f, i)
    <3> SUFFICES ASSUME NEW i \in 0..k PROVE g[i] = Walked(s, f, i)
      OBVIOUS
    <3>1. i # k => i \in 0..(k - 1)
      OBVIOUS
    <3> QED BY <2>2, <3>1
  <2>6. g = [i \in 0..k |-> g[i]]
    OBVIOUS
  <2> HIDE DEF g
  <2>7. g = [i \in 0..k |-> Walked(s, g, i)]
    BY <2>4, <2>5, <2>6
  <2> QED BY <2>7
<1> HIDE DEF S
<1>3. n \in S
  BY <1>1, <1>2, UpTo
<1> QED BY <1>3 DEF S

\* So that the loop can be followed.
LEMMA Walk ==
  ASSUME NEW C, NEW s \in Seq(C)
  PROVE  \E f : /\ Collapsed(s) = f[Len(s)] /\ f[0] = <<>>
                /\ \A i \in 1..Len(s) :
                     f[i] = IF i > 1 /\ s[i] = Dash /\ s[i - 1] = Dash THEN f[i - 1]
                            ELSE Append(f[i - 1], s[i])
<1> DEFINE f == CHOOSE g : g = [i \in 0..Len(s) |-> Walked(s, g, i)]
<1>1. Len(s) \in Nat
  OBVIOUS
<1>2. f = [i \in 0..Len(s) |-> Walked(s, f, i)]
  BY <1>1, WalkExists
<1>3. Collapsed(s) = f[Len(s)]
  BY WalkIs
<1> HIDE DEF f
<1>4. \A i \in 0..Len(s) : f[i] = Walked(s, f, i)
  BY <1>2, Zenon
<1>5. 0 \in 0..Len(s) /\ \A i \in 1..Len(s) : i \in 0..Len(s) /\ i # 0
  BY <1>1
<1>6. f[0] = <<>> /\ \A i \in 1..Len(s) : f[i] = IF i > 1 /\ s[i] = Dash /\ s[i - 1] = Dash
                                                 THEN f[i - 1] ELSE Append(f[i - 1], s[i])
  BY <1>4, <1>5 DEF Walked
<1> QED BY <1>3, <1>6

\* No dash follows a dash.
Single(s) == \A i \in 1..(Len(s) - 1) : ~(s[i] = Dash /\ s[i + 1] = Dash)

LEMMA CollapsedSingle ==
  ASSUME NEW C, NEW s \in Seq(C)
  PROVE  Collapsed(s) \in Seq(C) /\ Single(Collapsed(s))
<1>1. PICK f : /\ Collapsed(s) = f[Len(s)] /\ f[0] = <<>>
               /\ \A i \in 1..Len(s) :
                    f[i] = IF i > 1 /\ s[i] = Dash /\ s[i - 1] = Dash THEN f[i - 1]
                           ELSE Append(f[i - 1], s[i])
  BY Walk
<1>0. Len(s) \in Nat /\ \A i \in 1..Len(s) : s[i] \in C
  OBVIOUS
<1> DEFINE Ok(i) == /\ f[i] \in Seq(C) /\ Single(f[i])
                    /\ Len(f[i]) > 0 /\ f[i][Len(f[i])] = Dash => i > 0 /\ s[i] = Dash
           S == {i \in 0..Len(s) : Ok(i)}
<1>2. 0 \in S
  <2>1. f[0] \in Seq(C) /\ Len(f[0]) = 0 /\ 0 \in 0..Len(s)
    BY <1>0, <1>1
  <2>2. Single(f[0])
    BY <2>1 DEF Single
  <2> QED BY <2>1, <2>2
<1>3. ASSUME NEW i \in 1..Len(s), i - 1 \in S
      PROVE  i \in S
  <2>0. i \in Nat /\ i \in 0..Len(s) /\ s[i] \in C
    BY <1>0
  <2>1. /\ f[i - 1] \in Seq(C) /\ Single(f[i - 1])
        /\ Len(f[i - 1]) > 0 /\ f[i - 1][Len(f[i - 1])] = Dash => i - 1 > 0 /\ s[i - 1] = Dash
    BY <1>3
  <2>2. CASE i > 1 /\ s[i] = Dash /\ s[i - 1] = Dash
    <3>1. f[i] = f[i - 1]
      BY <1>1, <2>2
    <3> QED BY <2>0, <2>1, <2>2, <3>1
  <2>3. CASE ~(i > 1 /\ s[i] = Dash /\ s[i - 1] = Dash)
    <3>1. PICK r, t : r = f[i] /\ t = f[i - 1]
      OBVIOUS
    <3>2. r = Append(t, s[i]) /\ t \in Seq(C)
      BY <1>1, <2>1, <2>3, <3>1
    <3>3. /\ r \in Seq(C) /\ Len(r) = Len(t) + 1 /\ Len(t) \in Nat /\ r[Len(r)] = s[i]
          /\ \A j \in 1..Len(t) : r[j] = t[j]
      BY <2>0, <3>2
    <3>4. Single(r)
      <4> SUFFICES ASSUME NEW j \in 1..(Len(r) - 1), r[j] = Dash, r[j + 1] = Dash PROVE FALSE
        BY DEF Single
      <4>1. CASE j = Len(t)
        BY <2>0, <2>1, <2>3, <3>1, <3>3, <4>1
      <4>2. CASE j # Len(t)
        <5>1. j \in 1..(Len(t) - 1) /\ t[j] = Dash /\ t[j + 1] = Dash
          BY <3>3, <4>2
        <5> QED BY <2>1, <3>1, <5>1 DEF Single
      <4> QED BY <4>1, <4>2
    <3> QED BY <2>0, <3>1, <3>3, <3>4
  <2> QED BY <2>2, <2>3
<1> HIDE DEF S
<1>4. Len(s) \in S
  BY <1>0, <1>2, <1>3, UpTo
<1> QED BY <1>1, <1>4 DEF S

LEMMA CollapsedSame ==
  ASSUME NEW C, NEW s \in Seq(C), Single(s)
  PROVE  Collapsed(s) = s
<1>1. PICK f : /\ Collapsed(s) = f[Len(s)] /\ f[0] = <<>>
               /\ \A i \in 1..Len(s) :
                    f[i] = IF i > 1 /\ s[i] = Dash /\ s[i - 1] = Dash THEN f[i - 1]
                           ELSE Append(f[i - 1], s[i])
  BY Walk
<1>0. Len(s) \in Nat /\ \A i \in 1..Len(s) : s[i] \in C
  OBVIOUS
<1> DEFINE Ok(i) == /\ f[i] \in Seq(C) /\ Len(f[i]) = i
                    /\ \A j \in 1..i : f[i][j] = s[j]
           S == {i \in 0..Len(s) : Ok(i)}
<1>2. 0 \in S
  <2>1. f[0] \in Seq(C) /\ Len(f[0]) = 0 /\ 0 \in 0..Len(s)
    BY <1>0, <1>1
  <2> QED BY <2>1
<1>3. ASSUME NEW i \in 1..Len(s), i - 1 \in S
      PROVE  i \in S
  <2>0. i \in Nat /\ i \in 0..Len(s) /\ s[i] \in C
    BY <1>0
  <2>1. /\ f[i - 1] \in Seq(C) /\ Len(f[i - 1]) = i - 1
        /\ \A j \in 1..(i - 1) : f[i - 1][j] = s[j]
    BY <1>3
  <2>2. ~(i > 1 /\ s[i] = Dash /\ s[i - 1] = Dash)
    <3> SUFFICES ASSUME i > 1, s[i] = Dash, s[i - 1] = Dash PROVE FALSE
      OBVIOUS
    <3>1. i - 1 \in 1..(Len(s) - 1) /\ (i - 1) + 1 = i
      BY <2>0, <1>0
    <3> QED BY <3>1 DEF Single
  <2>3. PICK r, t : r = f[i] /\ t = f[i - 1]
    OBVIOUS
  <2>4. r = Append(t, s[i]) /\ t \in Seq(C)
    BY <1>1, <2>1, <2>2, <2>3
  <2>5. /\ r \in Seq(C) /\ Len(r) = i /\ r[i] = s[i]
        /\ \A j \in 1..(i - 1) : r[j] = s[j]
    BY <2>0, <2>1, <2>3, <2>4
  <2> QED BY <2>0, <2>3, <2>5
<1> HIDE DEF S
<1>4. Len(s) \in S
  BY <1>0, <1>2, <1>3, UpTo
<1>5. PICK r : r = Collapsed(s) /\ r \in Seq(C) /\ Len(r) = Len(s)
               /\ \A j \in 1..Len(s) : r[j] = s[j]
  BY <1>1, <1>4 DEF S
<1> QED BY <1>5

\* The least and the greatest of the places of a sequence.
LEMMA PlacesBounds ==
  ASSUME NEW C, NEW s \in Seq(C), Places(s) # {}
  PROVE  /\ Min(Places(s)) \in Places(s) /\ Max(Places(s)) \in Places(s)
         /\ \A i \in Places(s) : Min(Places(s)) <= i /\ i <= Max(Places(s))
<1>1. Places(s) \in SUBSET Nat /\ \A i \in Places(s) : i \in 1..Len(s)
  BY DEF Places
<1>2. \E x \in Places(s) : \A y \in Places(s) : x <= y
  BY <1>1, NatMin
<1>3. \E x \in Places(s) : \A y \in Places(s) : x >= y
  <2> DEFINE T == {Len(s) - i : i \in Places(s)}
  <2>0. Len(s) \in Nat
    OBVIOUS
  <2>1. T \in SUBSET Nat /\ T # {}
    BY <1>1, <2>0
  <2>2. PICK x \in T : \A y \in T : x <= y
    BY <2>1, NatMin
  <2>3. PICK i \in Places(s) : x = Len(s) - i
    OBVIOUS
  <2>4. \A j \in Places(s) : Len(s) - i <= Len(s) - j
    BY <2>2, <2>3
  <2> QED BY <1>1, <2>0, <2>4
<1>4. Min(Places(s)) \in Places(s) /\ \A y \in Places(s) : Min(Places(s)) <= y
  BY <1>2 DEF Min
<1>5. Max(Places(s)) \in Places(s) /\ \A y \in Places(s) : Max(Places(s)) >= y
  BY <1>3 DEF Max
<1> QED BY <1>1, <1>4, <1>5

\* A part of a sequence without runs of dashes has none.
LEMMA SubSingle ==
  ASSUME NEW C, NEW s \in Seq(C), Single(s), NEW m \in 1..Len(s), NEW n \in m..Len(s)
  PROVE  LET t == SubSeq(s, m, n)
         IN  /\ t \in Seq(C) /\ Len(t) = n - m + 1 /\ Single(t)
             /\ \A i \in 1..(n - m + 1) : t[i] = s[m + i - 1]
<1>1. Len(s) \in Nat /\ \A i \in m..n : s[i] \in C
  OBVIOUS
<1>2. PICK t : t = SubSeq(s, m, n)
  OBVIOUS
<1>3. /\ t \in Seq(C) /\ Len(t) = n - m + 1
      /\ \A i \in 1..(n - m + 1) : t[i] = s[m + i - 1]
  <2>1. m \in Int /\ n \in Int /\ m <= n
    BY <1>1
  <2> QED BY <1>1, <1>2, <2>1, SubSeqProperties
<1>4. Single(t)
  <2> SUFFICES ASSUME NEW i \in 1..(Len(t) - 1), t[i] = Dash, t[i + 1] = Dash PROVE FALSE
    BY DEF Single
  <2>1. /\ i \in 1..(n - m + 1) /\ i + 1 \in 1..(n - m + 1)
        /\ m + i - 1 \in 1..(Len(s) - 1) /\ m + (i + 1) - 1 = (m + i - 1) + 1
    BY <1>1, <1>3
  <2>2. s[m + i - 1] = Dash /\ s[(m + i - 1) + 1] = Dash
    BY <1>3, <2>1
  <2> QED BY <2>1, <2>2 DEF Single
<1> QED BY <1>2, <1>3, <1>4

\* A slug: single dashes, none at its ends.
Sluggish(s, C) ==
  /\ s \in Seq(C) /\ Len(s) \in 1..SlugLength /\ Single(s)
  /\ s[1] # Dash /\ s[Len(s)] # Dash

SlugChars == {c \in DOMAIN Plain : Plain[c] = c}

\* The loop and the trims leave a slug, or nothing of the topic.
LEMMA SlugShape ==
  ASSUME NEW topic \in Text
  PROVE  Slug(topic) = Underscore \/ Sluggish(Slug(topic), SlugChars)
<1> DEFINE p == [i \in DOMAIN topic |-> Plain[topic[i]]]
           w == Collapsed(p)
           t == Trim(w)
           u == SubSeq(t, 1, Min({Len(t), SlugLength}))
           cut == TrimEnd(u)
<1>1. p \in Seq(SlugChars)
  <2>1. topic \in Seq(DOMAIN Plain) /\ DOMAIN topic = 1..Len(topic) /\ Len(topic) \in Nat
    BY DEF Text
  <2>2. \A i \in 1..Len(topic) : Plain[topic[i]] \in SlugChars
    <3> SUFFICES ASSUME NEW i \in 1..Len(topic) PROVE Plain[topic[i]] \in SlugChars
      OBVIOUS
    <3>1. PICK c \in DOMAIN Plain : c = topic[i]
      BY <2>1
    <3>2. Plain[c] \in DOMAIN Plain /\ Plain[Plain[c]] = Plain[c]
      BY PlainAssumption
    <3> QED BY <3>1, <3>2 DEF SlugChars
  <2>3. p = [i \in 1..Len(topic) |-> Plain[topic[i]]]
    BY <2>1
  <2> HIDE DEF p
  <2> QED BY <2>1, <2>2, <2>3
<1>2. Slug(topic) = IF cut = <<>> THEN Underscore ELSE cut
  BY DEF Slug
<1> HIDE DEF p
<1>3. w \in Seq(SlugChars) /\ Single(w)
  BY <1>1, CollapsedSingle
<1> HIDE DEF w
<1>4. SlugLength \in Nat \ {0}
  BY SearchAssumption
<1>5. t = <<>> \/ (t \in Seq(SlugChars) /\ Len(t) \in Nat \ {0} /\ Single(t) /\ t[1] # Dash)
  <2>1. CASE Places(w) = {}
    BY <2>1 DEF Trim
  <2>2. CASE Places(w) # {}
    <3>1. PICK a, b : a = Min(Places(w)) /\ b = Max(Places(w))
      OBVIOUS
    <3>2. a \in Places(w) /\ b \in Places(w) /\ a <= b
      BY <1>3, <2>2, <3>1, PlacesBounds
    <3>3. a \in 1..Len(w) /\ b \in a..Len(w) /\ w[a] # Dash
      BY <1>3, <3>2 DEF Places
    <3>4. t = SubSeq(w, a, b)
      BY <2>2, <3>1 DEF Trim
    <3>5. /\ t \in Seq(SlugChars) /\ Len(t) = b - a + 1 /\ Single(t)
          /\ \A i \in 1..(b - a + 1) : t[i] = w[a + i - 1]
      BY <1>3, <3>3, <3>4, SubSingle
    <3>6. 1 \in 1..(b - a + 1) /\ a + 1 - 1 = a
      BY <1>3, <3>3
    <3> QED BY <3>3, <3>5, <3>6
  <2> QED BY <2>1, <2>2
<1> HIDE DEF t
<1>6. CASE t = <<>>
  <2>1. u = <<>>
    <3>1. Len(t) = 0 /\ Min({0, SlugLength}) = 0
      BY <1>4, <1>6 DEF Min
    <3> QED BY <1>6, <3>1, SubSeqEmpty
  <2> HIDE DEF u
  <2>2. cut = <<>>
    <3>1. Places(u) = {}
      BY <2>1 DEF Places
    <3> QED BY <3>1 DEF TrimEnd
  <2> QED BY <1>2, <2>2
<1>7. CASE t # <<>>
  <2>1. PICK n : n = Min({Len(t), SlugLength})
    OBVIOUS
  <2>2. n \in 1..Len(t) /\ n <= SlugLength
    BY <1>4, <1>5, <1>7, <2>1 DEF Min
  <2>3. /\ u \in Seq(SlugChars) /\ Len(u) = n /\ Single(u)
        /\ \A i \in 1..n : u[i] = t[i]
    <3>1. 1 \in 1..Len(t) /\ n \in 1..Len(t) /\ n - 1 + 1 = n /\ \A i \in 1..n : 1 + i - 1 = i
      BY <1>5, <1>7, <2>2
    <3>2. u = SubSeq(t, 1, n)
      BY <2>1
    <3> HIDE DEF u
    <3>3. /\ u \in Seq(SlugChars) /\ Len(u) = n - 1 + 1 /\ Single(u)
          /\ \A i \in 1..(n - 1 + 1) : u[i] = t[1 + i - 1]
      BY <1>5, <1>7, <3>1, <3>2, SubSingle
    <3> QED BY <3>1, <3>3
  <2> HIDE DEF u
  <2>4. 1 \in Places(u)
    BY <1>5, <1>7, <2>2, <2>3 DEF Places
  <2>5. PICK b : b = Max(Places(u))
    OBVIOUS
  <2>6. b \in 1..n /\ u[b] # Dash
    <3>1. b \in Places(u)
      BY <2>3, <2>4, <2>5, PlacesBounds
    <3> QED BY <2>3, <3>1 DEF Places
  <2>7. cut = SubSeq(u, 1, b)
    BY <2>4, <2>5 DEF TrimEnd
  <2>8. /\ cut \in Seq(SlugChars) /\ Len(cut) = b /\ Single(cut)
        /\ \A i \in 1..b : cut[i] = u[i]
    <3>1. 1 \in 1..Len(u) /\ b \in 1..Len(u) /\ b - 1 + 1 = b /\ \A i \in 1..b : 1 + i - 1 = i
      BY <2>2, <2>3, <2>6
    <3> HIDE DEF cut
    <3>3. /\ cut \in Seq(SlugChars) /\ Len(cut) = b - 1 + 1 /\ Single(cut)
          /\ \A i \in 1..(b - 1 + 1) : cut[i] = u[1 + i - 1]
      BY <2>3, <2>7, <3>1, SubSingle
    <3> QED BY <3>1, <3>3
  <2> HIDE DEF cut
  <2>9. Sluggish(cut, SlugChars)
    BY <1>4, <1>5, <1>7, <2>2, <2>3, <2>6, <2>8 DEF Sluggish
  <2> QED BY <1>2, <2>8, <2>9, <2>6
<1> QED BY <1>6, <1>7

\* They leave a slug as it is.
LEMMA SlugSame ==
  ASSUME NEW s, Sluggish(s, SlugChars)
  PROVE  Slug(s) = s
<1>1. s \in Seq(SlugChars) /\ Len(s) \in 1..SlugLength /\ Single(s) /\ s # <<>>
  BY DEF Sluggish
<1>2. [i \in DOMAIN s |-> Plain[s[i]]] = s
  <2>1. \A i \in DOMAIN s : Plain[s[i]] = s[i]
    BY <1>1 DEF SlugChars
  <2> QED BY <1>1, <2>1
<1>3. Collapsed(s) = s
  BY <1>1, CollapsedSame
<1>4. 1 \in Places(s) /\ Len(s) \in Places(s) /\ \A i \in Places(s) : i \in 1..Len(s)
  BY <1>1 DEF Sluggish, Places
<1>5. Min(Places(s)) = 1 /\ Max(Places(s)) = Len(s)
  <2>1. PICK a, b : a = Min(Places(s)) /\ b = Max(Places(s))
    OBVIOUS
  <2>2. a \in Places(s) /\ b \in Places(s) /\ a <= 1 /\ Len(s) <= b
    BY <1>1, <1>4, <2>1, PlacesBounds
  <2> QED BY <1>1, <1>4, <2>1, <2>2
<1>6. SubSeq(s, 1, Len(s)) = s
  BY <1>1, SubSeqFull
<1>7. Trim(s) = s /\ TrimEnd(s) = s
  BY <1>4, <1>5, <1>6 DEF Trim, TrimEnd
<1>8. Min({Len(s), SlugLength}) = Len(s)
  BY <1>1, SearchAssumption DEF Min
<1>9. PICK p : p = [i \in DOMAIN s |-> Plain[s[i]]]
  OBVIOUS
<1>10. Slug(s) = LET t == Trim(Collapsed(p))
                     cut == TrimEnd(SubSeq(t, 1, Min({Len(t), SlugLength})))
                 IN  IF cut = <<>> THEN Underscore ELSE cut
  BY <1>9 DEF Slug
<1>11. p = s
  BY <1>2, <1>9
<1> QED BY <1>1, <1>3, <1>6, <1>7, <1>8, <1>10, <1>11

\* The slug of a slug is itself (topic_slug.rs): so a topic rebuilt from its directory
\* is found under the name it then has.
THEOREM SlugOfSlug ==
  ASSUME NEW topic \in Text
  PROVE  Slug(topic) \in Text /\ Slug(Slug(topic)) = Slug(topic)
<1>1. CASE Slug(topic) = Underscore
  <2>0. PICK c \in DOMAIN Plain : c = "_" /\ Plain[c] = Dash
    BY PlainAssumption
  <2>7. PICK u : u = <<c>>
    OBVIOUS
  <2>8. Underscore = u
    BY <2>0, <2>7 DEF Underscore
  <2>9. u \in Seq(DOMAIN Plain) /\ DOMAIN u = 1..1 /\ u[1] = c
    <3>1. \A S : \A e \in S : <<e>> \in Seq(S)
      OBVIOUS
    <3>2. u \in Seq(DOMAIN Plain)
      BY <2>7, <3>1, Zenon
    <3>3. DOMAIN u = 1..1 /\ u[1] = c
      BY ONLY <2>7
    <3> QED BY <3>2, <3>3
  <2>1. Underscore \in Text
    BY <2>8, <2>9 DEF Text
  <2>2. [i \in DOMAIN Underscore |-> Plain[Underscore[i]]] = <<Dash>>
    <3>1. \A i \in 1..1 : i = 1
      OBVIOUS
    <3>3. \A i \in 1..1 : Plain[u[i]] = Dash
      BY <2>0, <2>9, <3>1, Zenon
    <3>2. [i \in DOMAIN u |-> Plain[u[i]]] = <<Dash>>
      BY <2>9, <3>3
    <3> QED BY <2>8, <3>2
  <2>3. Collapsed(<<Dash>>) = <<Dash>>
    <3>1. <<Dash>> \in Seq({Dash}) /\ Single(<<Dash>>)
      BY DEF Single
    <3> QED BY <3>1, CollapsedSame
  <2>4. Trim(<<Dash>>) = <<>> /\ TrimEnd(<<>>) = <<>>
    BY DEF Trim, TrimEnd, Places
  <2>5. SubSeq(<<>>, 1, Min({Len(<<>>), SlugLength})) = <<>>
    <3>1. Len(<<>>) = 0 /\ Min({0, SlugLength}) = 0
      BY SearchAssumption DEF Min
    <3> QED BY <3>1, SubSeqEmpty
  <2>6. Slug(Underscore) = Underscore
    BY <2>2, <2>3, <2>4, <2>5 DEF Slug
  <2> QED BY <1>1, <2>1, <2>6
<1>2. CASE Sluggish(Slug(topic), SlugChars)
  <2>1. Slug(topic) \in Seq(SlugChars)
    BY <1>2 DEF Sluggish
  <2>2. Slug(topic) \in Text
    BY <2>1 DEF Text, SlugChars
  <2> QED BY <1>2, <2>2, SlugSame
<1> QED BY <1>1, <1>2, SlugShape

\* In a strict total order of a finite set, given by what is below each element, every
\* rank is taken, once.
LEMMA Ranks ==
  ASSUME NEW S, IsFiniteSet(S), NEW below \in [S -> SUBSET S],
         \A a \in S : a \notin below[a],
         \A a, b \in S : a # b => a \in below[b] \/ b \in below[a],
         \A a, b \in S : a \in below[b] => below[a] \subseteq below[b]
  PROVE  /\ \A a \in S : Cardinality(below[a]) \in 0..(Cardinality(S) - 1)
         /\ \A k \in 0..(Cardinality(S) - 1) : \E a \in S : Cardinality(below[a]) = k
         /\ \A a, b \in S : a \in below[b] => Cardinality(below[a]) < Cardinality(below[b])
<1> DEFINE n == Cardinality(S)
           rank == [a \in S |-> Cardinality(below[a])]
<1>1. \A a \in S : IsFiniteSet(below[a]) /\ Cardinality(below[a]) \in Nat
  BY FS_Subset, FS_CardinalityType
<1>2. n \in Nat
  BY FS_CardinalityType
<1>3. ASSUME NEW a \in S, NEW b \in S, a \in below[b]
      PROVE  Cardinality(below[a]) < Cardinality(below[b])
  <2>1. below[a] \in SUBSET below[b] /\ below[a] # below[b]
    BY <1>3
  <2>2. /\ Cardinality(below[a]) <= Cardinality(below[b])
        /\ Cardinality(below[a]) # Cardinality(below[b])
    BY <1>1, <2>1, FS_Subset
  <2> QED BY <1>1, <2>2
<1>4. ASSUME NEW a \in S PROVE Cardinality(below[a]) \in 0..(n - 1)
  <2>1. below[a] \in SUBSET S /\ below[a] # S
    OBVIOUS
  <2>2. Cardinality(below[a]) <= n /\ Cardinality(below[a]) # n
    BY <2>1, FS_Subset
  <2> HIDE DEF n
  <2> QED BY <1>1, <1>2, <2>2
<1> HIDE DEF n
<1>5. rank \in [S -> 0..(n - 1)] /\ \A a \in S : rank[a] = Cardinality(below[a])
  BY <1>4
<1>6. \A a, b \in S : rank[a] = rank[b] => a = b
  <2> SUFFICES ASSUME NEW a \in S, NEW b \in S, rank[a] = rank[b], a # b PROVE FALSE
    OBVIOUS
  <2>1. Cardinality(below[a]) = Cardinality(below[b])
    BY <1>5
  <2>2. a \in below[b] \/ b \in below[a]
    OBVIOUS
  <2>3. Cardinality(below[a]) \in Nat
    BY <1>1
  <2>4. Cardinality(below[a]) < Cardinality(below[b])
        \/ Cardinality(below[b]) < Cardinality(below[a])
    BY <2>2, <1>3
  <2> QED BY <2>1, <2>3, <2>4
<1> HIDE DEF rank
<1>7. rank \in Injection(S, 0..(n - 1))
  BY <1>5, <1>6, Fun_IsInj
<1>8. IsFiniteSet(0..(n - 1)) /\ Cardinality(0..(n - 1)) = n
  <2>1. 0 \in Int /\ n - 1 \in Int
    BY <1>2
  <2>2. /\ IsFiniteSet(0..(n - 1))
        /\ Cardinality(0..(n - 1)) = IF 0 > n - 1 THEN 0 ELSE (n - 1) - 0 + 1
    BY <2>1, FS_Interval
  <2> QED BY <1>2, <2>2
<1>9. rank \in Surjection(S, 0..(n - 1))
  BY <1>7, <1>8, FS_Injection DEF n
<1>10. \A k \in 0..(n - 1) : \E a \in S : rank[a] = k
  BY <1>9 DEF Surjection
<1> QED BY <1>3, <1>4, <1>5, <1>10 DEF n

\* What a request may ask, and the records a find may see.
LEMMA RequestIs ==
  ASSUME NEW q \in Requests
  PROVE  /\ q.tags \in Seq(Tags) /\ q.limit \in Nat
         /\ q.topic # Absent => q.topic \in Text /\ q.topic \in DOMAIN TopicSlug
         /\ q.text # Absent => IsFiniteSet(q.text)
<1>1. q \in FindInformationRequest
  BY SearchAssumption
<1>2. q.tags \in Seq(Tags) /\ q.limit \in Nat /\ q.topic \in {Absent} \cup Text
  BY <1>1 DEF FindInformationRequest
<1>3. q.topic # Absent => q.topic \in DOMAIN TopicSlug
  BY DEF TopicSlug
<1>4. q.text # Absent => IsFiniteSet(q.text)
  BY SearchAssumption
<1> QED BY <1>2, <1>3, <1>4

LEMMA InputIs ==
  ASSUME NEW r \in RecordIds
  PROVE  /\ Input[r].topic \in Text /\ Input[r].tags \in SUBSET Tags /\ Input[r].time \in Nat
         /\ Input[r].topic \in Stored /\ r \in Nat
<1>1. r \in Nat /\ Input[r] \in KnowledgeRecordInput
  BY InputAssumption
<1>2. Input[r].topic \in Text /\ Input[r].tags \in SUBSET Tags /\ Input[r].time \in Nat
  BY <1>1 DEF KnowledgeRecordInput
<1> QED BY <1>1, <1>2 DEF Stored

\* Every stored topic, and the slug of one, has its slug.
LEMMA SlugOfStored ==
  ASSUME NEW r \in RecordIds, NEW topic, topic = Input[r].topic
  PROVE  /\ topic \in DOMAIN TopicSlug /\ TopicSlug[topic] \in UsedSlugs
         /\ TopicSlug[topic] \in DOMAIN TopicSlug
         /\ TopicSlug[TopicSlug[topic]] = TopicSlug[topic]
<1>1. topic \in Text /\ topic \in Stored
  BY InputIs
<1>2. Slug(topic) \in UsedSlugs
  BY <1>1 DEF UsedSlugs
<1>3. topic # Absent /\ Slug(topic) # Absent
  BY <1>1, <1>2, AbsentAssumption
<1>4. topic \in DOMAIN TopicSlug /\ Slug(topic) \in DOMAIN TopicSlug
  BY <1>1, <1>2, <1>3 DEF TopicSlug
<1>5. TopicSlug[topic] = Slug(topic) /\ TopicSlug[Slug(topic)] = Slug(Slug(topic))
  BY <1>4, Zenon DEF TopicSlug
<1>6. Slug(Slug(topic)) = Slug(topic)
  BY <1>1, SlugOfSlug
<1> QED BY <1>2, <1>4, <1>5, <1>6

-----------------------------------------------------------------------------
(* The order of an answer.                                                 *)

RecordMeta == [id : RecordIds, topic : DOMAIN TopicSlug, slug : UsedSlugs,
               tags : SUBSET Tags, created : Nat]

\* The records of an index: one of each id, under the slug of the topic it was stored with.
MetasOk(M) ==
  /\ IsFiniteSet(M) /\ M \subseteq RecordMeta
  /\ \A m \in M : m.slug = TopicSlug[Input[m.id].topic] /\ TopicSlug[m.topic] = m.slug
  /\ \A m, n \in M : m.id = n.id => m = n

LEMMA Positive ==
  ASSUME NEW a \in Nat \ {0}, NEW b \in Nat \ {0}, NEW c \in Nat \ {0}, NEW d \in Nat,
         NEW e \in Nat
  PROVE  2 * a * b + 2 * d * c + e * c * b \in Nat \ {0}
<1>1. a * b \in Nat /\ a * b > 0
  OBVIOUS
<1>2. d * c \in Nat /\ e * c \in Nat
  OBVIOUS
<1>3. (e * c) * b \in Nat
  BY <1>2
<1>4. 2 * a * b = 2 * (a * b) /\ 2 * d * c = 2 * (d * c)
  OBVIOUS
<1>5. \A x, y, z \in Nat : x > 0 => 2 * x + 2 * y + z \in Nat \ {0}
  OBVIOUS
<1> QED BY ONLY <1>1, <1>2, <1>3, <1>4, <1>5

\* No candidate scores nothing: it has the tags, if any are asked for.
LEMMA ScorePositive ==
  ASSUME NEW q \in Requests, NEW m \in RecordMeta, Range(q.tags) \subseteq m.tags, NEW tokens
  PROVE  Score(q, m, tokens) \in Nat \ {0}
<1> DEFINE query == IF q.text = Absent THEN {} ELSE Tokens(q.text)
           given == Cardinality(m.tags \cap Range(q.tags))
           nT == IF q.tags = <<>> THEN 1 ELSE Len(q.tags)
           nQ == IF query = {} THEN 1 ELSE Cardinality(query)
           tag  == IF q.tags = <<>> THEN 1 ELSE given
           text == IF query = {} THEN 1 ELSE Cardinality(tokens \cap query)
           same == IF q.topic \in {Absent, m.topic} THEN 1 ELSE 0
<1>1. q.tags \in Seq(Tags) /\ (q.text # Absent => IsFiniteSet(q.text))
  BY RequestIs
<1>2. IsFiniteSet(query)
  <2>1. IsFiniteSet({})
    BY FS_EmptySet
  <2>2. q.text # Absent => IsFiniteSet(Tokens(q.text))
    BY <1>1, FS_Difference DEF Tokens
  <2> QED BY <2>1, <2>2
<1>3. nQ \in Nat \ {0} /\ text \in Nat
  <2> HIDE DEF query
  <2>1. IsFiniteSet(tokens \cap query)
    BY <1>2, FS_Subset
  <2>2. Cardinality(query) \in Nat /\ (query # {} => Cardinality(query) # 0)
    BY <1>2, FS_CardinalityType, FS_EmptySet
  <2>3. Cardinality(tokens \cap query) \in Nat
    BY <2>1, FS_CardinalityType
  <2> QED BY <2>2, <2>3
<1>4. nT \in Nat \ {0}
  BY <1>1
<1>5. tag \in Nat \ {0}
  <2>1. CASE q.tags = <<>>
    BY <2>1
  <2>2. CASE q.tags # <<>>
    <3>1. DOMAIN q.tags = 1..Len(q.tags) /\ Len(q.tags) \in Nat \ {0}
      BY <1>1, <2>2
    <3>2. Range(q.tags) = {q.tags[i] : i \in 1..Len(q.tags)}
      BY <3>1 DEF Range
    <3>3. IsFiniteSet(1..Len(q.tags))
      BY <3>1, FS_Interval
    <3>4. IsFiniteSet(Range(q.tags))
      <4> PICK f : f = [i \in 1..Len(q.tags) |-> q.tags[i]]
        OBVIOUS
      <4>1. f \in Surjection(1..Len(q.tags), Range(q.tags))
        BY <3>2, Fun_IsSurj
      <4> QED BY <3>3, <4>1, FS_Surjection
    <3>5. Range(q.tags) # {}
      <4>1. q.tags[1] \in Range(q.tags)
        BY <3>1, <3>2
      <4> QED BY <4>1
    <3>6. m.tags \cap Range(q.tags) = Range(q.tags)
      OBVIOUS
    <3>7. Cardinality(Range(q.tags)) \in Nat /\ Cardinality(Range(q.tags)) # 0
      BY <3>4, <3>5, FS_CardinalityType, FS_EmptySet
    <3> QED BY <2>2, <3>6, <3>7
  <2> QED BY <2>1, <2>2
<1>6. same \in Nat
  OBVIOUS
<1>7. Score(q, m, tokens) = 2 * tag * nQ + 2 * text * nT + same * nT * nQ
  BY DEF Score
<1> HIDE DEF query, given, nT, nQ, tag, text, same
<1> QED BY <1>3, <1>4, <1>5, <1>6, <1>7, Positive

\* Of two candidates one comes first.
LEMMA BetterOrders ==
  ASSUME NEW M, MetasOk(M), NEW sc \in [M -> Nat]
  PROVE  /\ \A m, n \in M : m # n => Better(sc[m], m, sc[n], n) \/ Better(sc[n], n, sc[m], m)
         /\ \A m \in M : ~Better(sc[m], m, sc[m], m)
         /\ \A l, m, n \in M : Better(sc[l], l, sc[m], m) /\ Better(sc[m], m, sc[n], n)
                                 => Better(sc[l], l, sc[n], n)
<1>1. \A m \in M : m.created \in Nat /\ m.id \in Nat /\ sc[m] \in Nat
  BY InputAssumption DEF MetasOk, RecordMeta
<1>2. \A m, n \in M : m # n => m.id # n.id
  BY DEF MetasOk
<1>3. ASSUME NEW m \in M, NEW n \in M, m # n
      PROVE  Better(sc[m], m, sc[n], n) \/ Better(sc[n], n, sc[m], m)
  BY <1>1, <1>2, <1>3 DEF Better, Before
<1>4. ASSUME NEW m \in M PROVE ~Better(sc[m], m, sc[m], m)
  BY <1>1 DEF Better, Before
<1>5. ASSUME NEW l \in M, NEW m \in M, NEW n \in M,
             Better(sc[l], l, sc[m], m), Better(sc[m], m, sc[n], n)
      PROVE  Better(sc[l], l, sc[n], n)
  BY <1>1, <1>5 DEF Better, Before
<1> QED BY <1>3, <1>4, <1>5

\* The ranking puts each candidate in its place.
LEMMA RankedIs ==
  ASSUME NEW q, NEW M, MetasOk(M), NEW tokensOf,
         \A m \in M : Score(q, m, tokensOf[m.id]) \in Nat \ {0}
  PROVE  \E rk \in [1..Cardinality(M) -> M] :
           /\ Ranked(q, M, tokensOf) = rk
           /\ \A i \in 1..Cardinality(M) : \A m \in M :
                m # rk[i] => \/ \E j \in 1..(i - 1) : rk[j] = m
                             \/ Better(Score(q, rk[i], tokensOf[rk[i].id]), rk[i],
                                       Score(q, m, tokensOf[m.id]), m)
<1> DEFINE n == Cardinality(M)
           sc == [m \in M |-> Score(q, m, tokensOf[m.id])]
           above == [m \in M |-> {o \in M : o # m /\ Better(sc[o], o, sc[m], m)}]
           rk == [i \in 1..n |-> CHOOSE m \in M : Cardinality(above[m]) = i - 1]
<1>1. sc \in [M -> Nat] /\ \A m \in M : sc[m] = Score(q, m, tokensOf[m.id])
  OBVIOUS
<1>2. IsFiniteSet(M) /\ n \in Nat
  BY FS_CardinalityType DEF MetasOk
<1>3. Ranked(q, M, tokensOf) = rk
  <2> DEFINE score(m) == Score(q, m, tokensOf[m.id])
             hits == {m \in M : score(m) > 0}
             better(m) == {o \in hits : o # m /\ Better(score(o), o, score(m), m)}
  <2>1. hits = M
    OBVIOUS
  <2>2. \A m \in M : better(m) = above[m]
    BY <1>1, <2>1
  <2>3. Ranked(q, M, tokensOf)
          = [i \in 1..Cardinality(hits) |-> CHOOSE m \in hits : Cardinality(better(m)) = i - 1]
    BY DEF Ranked
  <2> HIDE DEF hits, better, above
  <2>4. \A i \in 1..n : (CHOOSE m \in M : Cardinality(better(m)) = i - 1)
                          = (CHOOSE m \in M : Cardinality(above[m]) = i - 1)
    BY <2>2
  <2> QED BY <2>1, <2>3, <2>4
<1> HIDE DEF sc
<1>4. above \in [M -> SUBSET M]
      /\ \A m, o \in M : o \in above[m] <=> o # m /\ Better(sc[o], o, sc[m], m)
  OBVIOUS
<1> HIDE DEF above
<1>5. /\ \A a \in M : a \notin above[a]
      /\ \A a, b \in M : a # b => a \in above[b] \/ b \in above[a]
      /\ \A a, b \in M : a \in above[b] => above[a] \subseteq above[b]
  <2>1. \A a \in M : a \notin above[a]
    BY <1>4
  <2>2. \A a, b \in M : a # b => a \in above[b] \/ b \in above[a]
    BY <1>1, <1>4, BetterOrders
  <2>3. ASSUME NEW a \in M, NEW b \in M, a \in above[b], NEW d \in above[a]
        PROVE  d \in above[b]
    <3>1. d \in M /\ Better(sc[d], d, sc[a], a) /\ Better(sc[a], a, sc[b], b)
      BY <1>4, <2>3
    <3>2. Better(sc[d], d, sc[b], b)
      BY <1>1, <3>1, BetterOrders
    <3>3. d # b
      BY <1>1, <3>2, BetterOrders
    <3> QED BY <1>4, <3>1, <3>2, <3>3
  <2> QED BY <2>1, <2>2, <2>3
<1>6. /\ \A a \in M : Cardinality(above[a]) \in 0..(n - 1)
      /\ \A k \in 0..(n - 1) : \E a \in M : Cardinality(above[a]) = k
      /\ \A a, b \in M : a \in above[b] => Cardinality(above[a]) < Cardinality(above[b])
  BY <1>2, <1>4, <1>5, Ranks
<1> HIDE DEF n
<1>7. \A i \in 1..n : rk[i] \in M /\ Cardinality(above[rk[i]]) = i - 1
  <2> SUFFICES ASSUME NEW i \in 1..n
               PROVE  rk[i] \in M /\ Cardinality(above[rk[i]]) = i - 1
    OBVIOUS
  <2>1. i - 1 \in 0..(n - 1)
    BY <1>2
  <2>2. \E a \in M : Cardinality(above[a]) = i - 1
    BY <1>6, <2>1
  <2>3. rk[i] = CHOOSE m \in M : Cardinality(above[m]) = i - 1
    OBVIOUS
  <2> HIDE DEF rk
  <2> QED BY <2>2, <2>3
<1>8. rk \in [1..n -> M]
  BY <1>7
<1> HIDE DEF rk
<1>9. ASSUME NEW i \in 1..n, NEW m \in M, m # rk[i]
      PROVE  \/ \E j \in 1..(i - 1) : rk[j] = m
             \/ Better(sc[rk[i]], rk[i], sc[m], m)
  <2>1. rk[i] \in M /\ Cardinality(above[rk[i]]) = i - 1
    BY <1>7
  <2>2. CASE rk[i] \in above[m]
    BY <1>4, <2>1, <2>2
  <2>3. CASE m \in above[rk[i]]
    <3>1. PICK k : k = Cardinality(above[m])
      OBVIOUS
    <3>2. k \in 0..(n - 1) /\ k < i - 1
      BY <1>6, <2>1, <2>3, <3>1
    <3>6. PICK j : j = k + 1
      OBVIOUS
    <3>3. j \in 1..n /\ j \in 1..(i - 1) /\ j - 1 = k
      BY <1>2, <3>2, <3>6
    <3>4. rk[j] \in M /\ Cardinality(above[rk[j]]) = k
      BY <1>7, <3>3
    <3>5. rk[j] = m
      <4> SUFFICES ASSUME rk[j] # m PROVE FALSE
        OBVIOUS
      <4>1. rk[j] \in above[m] \/ m \in above[rk[j]]
        BY <1>5, <3>4
      <4>2. k < k
        BY <1>6, <3>1, <3>4, <4>1
      <4> QED BY <3>2, <4>2
    <3> QED BY <3>3, <3>5
  <2> QED BY <1>5, <1>9, <2>1, <2>2, <2>3
<1>10. \A i \in 1..n : rk[i] \in M /\ sc[rk[i]] = Score(q, rk[i], tokensOf[rk[i].id])
  BY <1>1, <1>7
<1>11. \A i \in 1..n : \A m \in M :
         m # rk[i] => \/ \E j \in 1..(i - 1) : rk[j] = m
                      \/ Better(Score(q, rk[i], tokensOf[rk[i].id]), rk[i],
                                Score(q, m, tokensOf[m.id]), m)
  BY <1>1, <1>9, <1>10
<1> QED BY <1>3, <1>8, <1>11 DEF n

LEMMA LesserOfTwo ==
  ASSUME NEW a \in Nat, NEW b \in Nat
  PROVE  Min({a, b}) \in 0..a /\ Min({a, b}) \in 0..b
<1>1. \E x \in {a, b} : \A y \in {a, b} : x <= y
  OBVIOUS
<1>2. Min({a, b}) \in {a, b} /\ \A y \in {a, b} : Min({a, b}) <= y
  BY <1>1 DEF Min
<1> QED BY <1>2

\* What FindIsExact asks of an answer.
Exact(q, best, metas) ==
  LET wanted == Wanted(q, metas)
      score(m) == Score(q, m, IF q.text = Absent THEN {} ELSE TrueTokens[m.id])
  IN  /\ Range(best) \subseteq wanted
      /\ Len(best) = Min({q.limit, Cardinality(wanted)})
      /\ \A i \in DOMAIN best : \A m \in wanted :
           m # best[i] =>
             \/ \E j \in 1..(i - 1) : best[j] = m
             \/ Better(score(best[i]), best[i], score(m), m)

\* An answer ranked by the right tokens is exact.
LEMMA TopExact ==
  ASSUME NEW q \in Requests, NEW metas, MetasOk(metas), NEW tokensOf,
         \A m \in Wanted(q, metas) :
           tokensOf[m.id] = IF q.text = Absent THEN {} ELSE TrueTokens[m.id]
  PROVE  Exact(q, Top(q, Wanted(q, metas), tokensOf), metas)
<1>1. PICK M : M = Wanted(q, metas)
  OBVIOUS
<1>2. M \subseteq metas /\ \A m \in M : Range(q.tags) \subseteq m.tags
  BY <1>1 DEF Wanted
<1>3. MetasOk(M)
  BY <1>2, FS_Subset DEF MetasOk
<1>4. \A m \in M : Score(q, m, tokensOf[m.id]) \in Nat \ {0}
  BY <1>2, ScorePositive DEF MetasOk
<1>5. PICK n : n = Cardinality(M)
  OBVIOUS
<1>6. n \in Nat
  BY <1>3, <1>5, FS_CardinalityType DEF MetasOk
<1>7. PICK rk \in [1..n -> M] :
        /\ Ranked(q, M, tokensOf) = rk
        /\ \A i \in 1..n : \A m \in M :
             m # rk[i] => \/ \E j \in 1..(i - 1) : rk[j] = m
                          \/ Better(Score(q, rk[i], tokensOf[rk[i].id]), rk[i],
                                    Score(q, m, tokensOf[m.id]), m)
  BY <1>3, <1>4, <1>5, RankedIs
<1>8. rk \in Seq(M) /\ Len(rk) = n
  BY <1>6, <1>7
<1>9. PICK k : k = Min({q.limit, n})
  OBVIOUS
<1>10. k \in 0..n
  <2>1. PICK l : l = q.limit
    OBVIOUS
  <2>2. l \in Nat
    BY <2>1, RequestIs
  <2>3. k = Min({l, n})
    BY <1>9, <2>1
  <2> QED BY <1>6, <2>2, <2>3, LesserOfTwo
<1>11. PICK best : best = SubSeq(rk, 1, k)
  OBVIOUS
<1>12. /\ best \in Seq(M) /\ Len(best) = k /\ DOMAIN best = 1..k
       /\ \A i \in 1..k : best[i] = rk[i]
  <2>1. CASE k = 0
    BY <1>8, <1>11, <2>1, SubSeqEmpty
  <2>2. CASE k # 0
    <3>1. 1 \in 1..Len(rk) /\ k \in 1..Len(rk) /\ 1 \in Int /\ k \in Int
      BY <1>6, <1>8, <1>10, <2>2
    <3>2. /\ best \in Seq(M) /\ Len(best) = k - 1 + 1
          /\ \A i \in 1..(k - 1 + 1) : best[i] = rk[1 + i - 1]
      BY <1>8, <1>10, <1>11, <3>1, SubSeqProperties
    <3>3. k - 1 + 1 = k /\ \A i \in 1..k : 1 + i - 1 = i
      BY <3>1
    <3> QED BY <3>2, <3>3
  <2> QED BY <2>1, <2>2
<1>13. Top(q, M, tokensOf) = best
  BY <1>7, <1>8, <1>9, <1>11 DEF Top, First
<1>14. Range(best) \subseteq M
  BY <1>12 DEF Range
<1>15. ASSUME NEW i \in 1..k, NEW m \in M, m # best[i]
       PROVE  \/ \E j \in 1..(i - 1) : best[j] = m
              \/ Better(Score(q, best[i], tokensOf[best[i].id]), best[i],
                        Score(q, m, tokensOf[m.id]), m)
  <2>1. i \in 1..n /\ best[i] = rk[i] /\ \A j \in 1..(i - 1) : best[j] = rk[j]
    BY <1>6, <1>10, <1>12
  <2> QED BY <1>7, <1>15, <2>1
<1>16. \A i \in 1..k : best[i] \in M
  BY <1>12
<1>17. \A m \in M : tokensOf[m.id] = IF q.text = Absent THEN {} ELSE TrueTokens[m.id]
  BY <1>1
<1>18. \A i \in 1..k : \A m \in M : m # best[i] =>
         \/ \E j \in 1..(i - 1) : best[j] = m
         \/ Better(Score(q, best[i], IF q.text = Absent THEN {} ELSE TrueTokens[best[i].id]),
                   best[i],
                   Score(q, m, IF q.text = Absent THEN {} ELSE TrueTokens[m.id]), m)
  BY <1>15, <1>16, <1>17
<1> QED BY <1>1, <1>5, <1>9, <1>12, <1>13, <1>14, <1>18 DEF Exact

-----------------------------------------------------------------------------
(***************************************************************************)
(* The index: its three maps hold the same records, each under the slug of *)
(* its topic, whose name has that slug; and a slug with records has a name.*)
(***************************************************************************)
MapsOk(tops, nms, tgs, M) ==
  /\ DOMAIN tops = UsedSlugs /\ DOMAIN nms = UsedSlugs
  /\ M = UNION {tops[s] : s \in UsedSlugs}
  /\ \A s \in UsedSlugs : \A m \in tops[s] : m.slug = s
  /\ \A s \in UsedSlugs : tops[s] # {} => nms[s] # Absent
  /\ \A s \in UsedSlugs : nms[s] # Absent => nms[s] \in DOMAIN TopicSlug /\ TopicSlug[nms[s]] = s
  /\ tgs = [t \in Tags |-> {m.id : m \in {n \in M : t \in n.tags}}]

IdsOf(M) == {m.id : m \in M}
StoredIds == {r \in RecordIds : bodies[r] # Absent}

SameTags(M, N) == \A m \in M, n \in N : m.id = n.id => m.tags = n.tags

(***************************************************************************)
(* It holds the records that were stored, and so does the file, with their *)
(* tags; the names in the file may differ.                                 *)
(***************************************************************************)
IndexInv ==
  /\ MapsOk(topics, slugToTopic, tagIndex, All) /\ MetasOk(All)
  /\ IdsOf(All) = StoredIds
  /\ DOMAIN bodies = RecordIds /\ IsFiniteSet(StoredIds)
  /\ \A r \in RecordIds : bodies[r] \in Nat \cup {Absent}
  /\ sidecar # Absent => /\ MetasOk(sidecar) /\ IdsOf(sidecar) = StoredIds
                         /\ SameTags(sidecar, All)

(***************************************************************************)
(* A call of find_information.  Whatever it has read, or found in the      *)
(* cache, are the words of that record, unless a read failed; its          *)
(* candidates are what its request is for, of the records it saw.          *)
(***************************************************************************)
Known(ws) == \A r \in RecordIds : ws[r] \in {Absent, TrueTokens[r]}

CallOk(c, ph, q, cd, ws, rd, best, seen, broken, events) ==
  /\ DOMAIN ws = RecordIds
  /\ rd = <<>> \/ \E r \in RecordIds : rd = <<r, TrueTokens[r]>>
  /\ ph \in {"load", "rank"} =>
       /\ q \in Requests /\ MetasOk(seen) /\ cd = Wanted(q, seen)
       /\ ~broken => Known(ws)
       /\ q.text = Absent => ph = "rank" /\ \A r \in RecordIds : ws[r] = Absent
       /\ ph = "rank" /\ q.text # Absent => \A m \in cd : ws[m.id] # Absent
  /\ ph = "ok" /\ ~broken => Exact(q, best, seen) /\ KnowledgeQueried(c, Len(best)) \in events

Call(c) == CallOk(c, phase[c], request[c], cands[c], words[c], reading[c], answer[c], asOf[c],
                  hurt[c], published)

LocalsOk ==
  /\ DOMAIN phase = Finds /\ DOMAIN request = Finds /\ DOMAIN cands = Finds
  /\ DOMAIN words = Finds /\ DOMAIN reading = Finds /\ DOMAIN answer = Finds
  /\ DOMAIN asOf = Finds /\ DOMAIN hurt = Finds

FindsInv ==
  /\ LocalsOk
  /\ DOMAIN cache = RecordIds /\ Known(cache)
  /\ \A c \in Finds : Call(c)

SearchInv == IndexInv /\ FindsInv

-----------------------------------------------------------------------------
(* The index.                                                              *)

LEMMA InitIndex == ASSUME SInit PROVE IndexInv
<1>1. All = {}
  BY DEF SInit, Nothing, All
<1>2. StoredIds = {}
  BY DEF SInit, Unread, StoredIds
<1>3. IsFiniteSet({})
  BY FS_EmptySet
<1>4. MapsOk(topics, slugToTopic, tagIndex, All)
  <2>1. /\ topics = [s \in UsedSlugs |-> {}] /\ slugToTopic = [s \in UsedSlugs |-> Absent]
        /\ tagIndex = [t \in Tags |-> {}]
    BY DEF SInit, Nothing, Unnamed
  <2> HIDE DEF All
  <2>2. UNION {topics[s] : s \in UsedSlugs} = {}
    BY <2>1
  <2>3. [t \in Tags |-> {}] = [t \in Tags |-> {m.id : m \in {n \in {} : t \in n.tags}}]
    OBVIOUS
  <2> QED BY <1>1, <2>1, <2>2, <2>3 DEF MapsOk
<1>5. MetasOk({})
  BY <1>3 DEF MetasOk
<1>6. bodies = [r \in RecordIds |-> Absent] /\ sidecar = {}
  BY DEF SInit, Unread
<1>7. IdsOf({}) = {} /\ SameTags({}, {})
  BY DEF IdsOf, SameTags
<1> HIDE DEF All, StoredIds
<1> QED BY <1>1, <1>2, <1>3, <1>4, <1>5, <1>6, <1>7 DEF IndexInv

\* The record a store makes.
NewMeta(r) == Meta(r, Input[r].topic, TopicSlug[Input[r].topic], Input[r].tags, Input[r].time)

LEMMA NewMetaIs ==
  ASSUME NEW r \in RecordIds, NEW m, m = NewMeta(r)
  PROVE  /\ m \in RecordMeta /\ m.id = r /\ m.slug = TopicSlug[Input[r].topic]
         /\ m.topic = Input[r].topic /\ m.topic # Absent /\ m.tags = Input[r].tags
<1>1. /\ m.id = r /\ m.slug = TopicSlug[Input[r].topic] /\ m.topic = Input[r].topic
      /\ m.tags = Input[r].tags
  BY DEF NewMeta, Meta
<1>2. /\ Input[r].topic \in DOMAIN TopicSlug /\ TopicSlug[Input[r].topic] \in UsedSlugs
      /\ Input[r].tags \in SUBSET Tags /\ Input[r].time \in Nat
  BY InputIs, SlugOfStored
<1>3. m \in RecordMeta
  BY <1>2 DEF NewMeta, Meta, RecordMeta
<1>4. Input[r].topic # Absent
  BY InputIs, AbsentAssumption
<1> QED BY <1>1, <1>3, <1>4

\* add_record
LEMMA Adds ==
  ASSUME NEW tops, NEW nms, NEW tgs, NEW M, MapsOk(tops, nms, tgs, M), MetasOk(M),
         NEW r \in RecordIds, r \notin IdsOf(M), NEW m, m = NewMeta(r),
         NEW tops2, tops2 = [tops EXCEPT ![m.slug] = tops[m.slug] \cup {m}]
  PROVE  /\ MapsOk(tops2, Named(nms, m), Tagged(tgs, m), M \cup {m})
         /\ MetasOk(M \cup {m})
<1>1. /\ m \in RecordMeta /\ m.id = r /\ m.slug = TopicSlug[Input[r].topic]
      /\ m.topic = Input[r].topic /\ m.topic # Absent /\ m.tags = Input[r].tags
  BY NewMetaIs
<1>2. m.slug \in UsedSlugs /\ m.topic \in DOMAIN TopicSlug /\ TopicSlug[m.topic] = m.slug
  BY <1>1, SlugOfStored
<1>3. \A s \in UsedSlugs : tops2[s] = IF s = m.slug THEN tops[s] \cup {m} ELSE tops[s]
  BY DEF MapsOk
<1>4. DOMAIN tops2 = UsedSlugs /\ DOMAIN Named(nms, m) = UsedSlugs
  BY DEF MapsOk, Named
<1>5. \A s \in UsedSlugs : Named(nms, m)[s]
        = IF s = m.slug /\ nms[s] = Absent THEN m.topic ELSE nms[s]
  BY DEF MapsOk, Named
<1>6. M \cup {m} = UNION {tops2[s] : s \in UsedSlugs}
  <2>1. M = UNION {tops[s] : s \in UsedSlugs}
    BY DEF MapsOk
  <2> QED BY <1>2, <1>3, <2>1
<1>7. \A s \in UsedSlugs : \A n \in tops2[s] : n.slug = s
  BY <1>3 DEF MapsOk
<1>8. \A s \in UsedSlugs : tops2[s] # {} => Named(nms, m)[s] # Absent
  BY <1>1, <1>3, <1>5 DEF MapsOk
<1>9. \A s \in UsedSlugs : Named(nms, m)[s] # Absent =>
        Named(nms, m)[s] \in DOMAIN TopicSlug /\ TopicSlug[Named(nms, m)[s]] = s
  BY <1>2, <1>5 DEF MapsOk
<1>10. Tagged(tgs, m) = [t \in Tags |-> {n.id : n \in {o \in M \cup {m} : t \in o.tags}}]
  <2>1. ASSUME NEW t \in Tags
        PROVE  tgs[t] \cup (IF t \in m.tags THEN {m.id} ELSE {})
                 = {n.id : n \in {o \in M \cup {m} : t \in o.tags}}
    <3>1. tgs[t] = {n.id : n \in {o \in M : t \in o.tags}}
      BY DEF MapsOk
    <3> QED BY <3>1
  <2> QED BY <2>1 DEF Tagged
<1>11. MetasOk(M \cup {m})
  <2>1. IsFiniteSet(M \cup {m})
    BY FS_AddElement DEF MetasOk
  <2>2. \A n \in M : n.id # m.id
    BY <1>1 DEF IdsOf
  <2> QED BY <1>1, <1>2, <2>1, <2>2 DEF MetasOk
<1> QED BY <1>4, <1>6, <1>7, <1>8, <1>9, <1>10, <1>11 DEF MapsOk

\* The file lists the records of the index.
LEMMA Collects ==
  ASSUME NEW tops, NEW nms, NEW tgs, NEW M, MapsOk(tops, nms, tgs, M), MetasOk(M),
         NEW list, list = CollectEntries(tops, nms)
  PROVE  MetasOk(list) /\ IdsOf(list) = IdsOf(M) /\ SameTags(list, M)
<1>1. PICK f : f = [m \in M |-> [m EXCEPT !.topic = nms[m.slug]]]
  OBVIOUS
<1>2. \A m \in M : /\ m \in RecordMeta /\ m.slug \in UsedSlugs /\ m \in tops[m.slug]
                   /\ nms[m.slug] \in DOMAIN TopicSlug /\ TopicSlug[nms[m.slug]] = m.slug
  BY DEF MapsOk, MetasOk, RecordMeta
<1>3. \A m \in M : /\ f[m] \in RecordMeta /\ f[m].id = m.id /\ f[m].slug = m.slug
                   /\ f[m].tags = m.tags /\ f[m].topic = nms[m.slug]
  BY <1>1, <1>2 DEF RecordMeta
<1>4. list = {f[m] : m \in M}
  <2>1. ASSUME NEW e \in list PROVE e \in {f[m] : m \in M}
    <3>1. PICK s \in UsedSlugs : \E m \in tops[s] : e = [m EXCEPT !.topic = nms[s]]
      BY DEF CollectEntries
    <3>2. PICK m \in tops[s] : e = [m EXCEPT !.topic = nms[s]]
      BY <3>1
    <3>3. m \in M /\ m.slug = s
      BY DEF MapsOk
    <3>4. e = f[m]
      BY <1>1, <3>2, <3>3
    <3> QED BY <3>3, <3>4
  <2>2. ASSUME NEW m \in M PROVE f[m] \in list
    <3>1. f[m] = [m EXCEPT !.topic = nms[m.slug]]
      BY <1>1
    <3>2. PICK s \in UsedSlugs : s = m.slug /\ m \in tops[s]
      BY <1>2
    <3>3. f[m] \in {[n EXCEPT !.topic = nms[s]] : n \in tops[s]}
      BY <3>1, <3>2
    <3> QED BY <3>3 DEF CollectEntries
  <2> QED BY <2>1, <2>2
<1>5. IsFiniteSet(list)
  <2>1. f \in Surjection(M, list)
    BY <1>1, <1>4, Fun_IsSurj
  <2> QED BY <2>1, FS_Surjection DEF MetasOk
<1>6. \A e \in list : \E m \in M : e = f[m]
  BY <1>4
<1>7. \A m, n \in M : f[m].id = f[n].id => m = n
  BY <1>3 DEF MetasOk
<1>8. MetasOk(list)
  <2>1. list \subseteq RecordMeta
    BY <1>3, <1>6
  <2>2. \A e \in list : e.slug = TopicSlug[Input[e.id].topic] /\ TopicSlug[e.topic] = e.slug
    BY <1>2, <1>3, <1>6 DEF MetasOk
  <2>3. \A d, e \in list : d.id = e.id => d = e
    BY <1>6, <1>7
  <2> QED BY <1>5, <2>1, <2>2, <2>3 DEF MetasOk
<1>9. IdsOf(list) = IdsOf(M)
  BY <1>3, <1>4 DEF IdsOf
<1>10. SameTags(list, M)
  <2> SUFFICES ASSUME NEW e \in list, NEW n \in M, e.id = n.id PROVE e.tags = n.tags
    BY DEF SameTags
  <2>1. PICK m \in M : e = f[m]
    BY <1>6
  <2>2. m = n
    BY <1>3, <2>1 DEF MetasOk
  <2> QED BY <1>3, <2>1, <2>2
<1> QED BY <1>8, <1>9, <1>10

\* ingest_file
LEMMA Ingests ==
  ASSUME NEW M, MetasOk(M), NEW tops, NEW nms, NEW tgs,
         tops = [s \in UsedSlugs |-> {m \in M : m.slug = s}],
         nms = [s \in UsedSlugs |-> IF \E m \in M : m.slug = s
                                    THEN (CHOOSE m \in M : m.slug = s).topic ELSE Absent],
         tgs = [t \in Tags |-> {m.id : m \in {n \in M : t \in n.tags}}]
  PROVE  MapsOk(tops, nms, tgs, M)
<1>1. \A m \in M : /\ m.slug \in UsedSlugs /\ m.topic \in DOMAIN TopicSlug
                   /\ TopicSlug[m.topic] = m.slug
  BY DEF MetasOk, RecordMeta
<1>2. M = UNION {tops[s] : s \in UsedSlugs}
  BY <1>1
<1>3. Absent \notin DOMAIN TopicSlug
  BY DEF TopicSlug
<1>4. ASSUME NEW s \in UsedSlugs, \E m \in M : m.slug = s
      PROVE  nms[s] \in DOMAIN TopicSlug /\ TopicSlug[nms[s]] = s
  <2>1. PICK m : m = CHOOSE n \in M : n.slug = s
    OBVIOUS
  <2>2. m \in M /\ m.slug = s
    BY <1>4, <2>1
  <2>3. nms[s] = m.topic
    BY <1>4, <2>1
  <2> QED BY <1>1, <2>2, <2>3
<1>5. \A s \in UsedSlugs : nms[s] # Absent => \E m \in M : m.slug = s
  OBVIOUS
<1>6. \A s \in UsedSlugs : tops[s] # {} => \E m \in M : m.slug = s
  OBVIOUS
<1>7. \A s \in UsedSlugs : tops[s] # {} => nms[s] # Absent
  BY <1>3, <1>4, <1>6
<1>8. \A s \in UsedSlugs : nms[s] # Absent => nms[s] \in DOMAIN TopicSlug /\ TopicSlug[nms[s]] = s
  BY <1>4, <1>5
<1>9. /\ DOMAIN tops = UsedSlugs /\ DOMAIN nms = UsedSlugs
      /\ \A s \in UsedSlugs : \A m \in tops[s] : m.slug = s
  OBVIOUS
<1> QED BY <1>2, <1>7, <1>8, <1>9 DEF MapsOk

\* rebuild_from_disk
LEMMA Rebuilds ==
  ASSUME IndexInv
  PROVE  MetasOk(RebuildFromDisk) /\ IdsOf(RebuildFromDisk) = StoredIds
<1> DEFINE From(r) == Meta(r, TopicSlug[Input[r].topic], TopicSlug[Input[r].topic], {},
                           (bodies[r] \div Second) * Second)
<1>1. PICK I : I = StoredIds
  OBVIOUS
<1>2. PICK f : f = [r \in I |-> From(r)]
  OBVIOUS
<1>3. PICK M : M = RebuildFromDisk
  OBVIOUS
<1>4. M = {f[r] : r \in I}
  BY <1>1, <1>2, <1>3 DEF RebuildFromDisk, StoredIds
<1>5. \A r \in I : r \in RecordIds /\ bodies[r] \in Nat
  BY <1>1 DEF StoredIds, IndexInv
<1>6. Second \in Nat \ {0}
  BY SearchAssumption
<1>7. \A n \in Nat : (n \div Second) * Second \in Nat
  BY <1>6
<1>8. \A r \in I : /\ f[r].id = r /\ f[r].slug = TopicSlug[Input[r].topic]
                   /\ f[r].topic = TopicSlug[Input[r].topic]
  BY <1>2 DEF Meta
<1>9. ASSUME NEW r \in I PROVE f[r] \in RecordMeta
  <2>1. /\ TopicSlug[Input[r].topic] \in UsedSlugs
        /\ TopicSlug[Input[r].topic] \in DOMAIN TopicSlug
    BY <1>5, SlugOfStored
  <2>2. (bodies[r] \div Second) * Second \in Nat /\ r \in RecordIds
    BY <1>5, <1>7
  <2>3. f[r] = From(r)
    BY <1>2
  <2> QED BY <2>1, <2>2, <2>3 DEF Meta, RecordMeta
<1>10. IsFiniteSet(M)
  <2>1. f \in Surjection(I, M)
    BY <1>2, <1>4, Fun_IsSurj
  <2> QED BY <1>1, <2>1, FS_Surjection DEF IndexInv
<1>11. \A r \in I : TopicSlug[TopicSlug[Input[r].topic]] = TopicSlug[Input[r].topic]
  BY <1>5, SlugOfStored
<1>12. \A m \in M : \E r \in I : m = f[r]
  BY <1>4
<1>13. \A m \in M : m.slug = TopicSlug[Input[m.id].topic] /\ TopicSlug[m.topic] = m.slug
  BY <1>8, <1>11, <1>12
<1>14. M \subseteq RecordMeta /\ \A m, n \in M : m.id = n.id => m = n
  BY <1>8, <1>9, <1>12
<1>15. IdsOf(M) = I
  BY <1>4, <1>8 DEF IdsOf
<1> QED BY <1>1, <1>3, <1>10, <1>13, <1>14, <1>15 DEF MetasOk

LEMMA StoreIndex ==
  ASSUME IndexInv, NEW r \in RecordIds, StoreInformation(r)
  PROVE  IndexInv'
<1>1. PICK m : m = NewMeta(r)
  OBVIOUS
<1>2. PICK M, I : M = All /\ I = StoredIds
  OBVIOUS
<1>3. /\ MapsOk(topics, slugToTopic, tagIndex, M) /\ MetasOk(M) /\ IdsOf(M) = I
      /\ DOMAIN bodies = RecordIds /\ IsFiniteSet(I)
      /\ \A x \in RecordIds : bodies[x] \in Nat \cup {Absent}
  BY <1>2 DEF IndexInv
<1>4. /\ bodies[r] = Absent /\ bodies' = [bodies EXCEPT ![r] = Input[r].time]
      /\ topics' = [topics EXCEPT ![m.slug] = @ \cup {m}]
      /\ slugToTopic' = Named(slugToTopic, m) /\ tagIndex' = Tagged(tagIndex, m)
      /\ sidecar' = CollectEntries(topics', slugToTopic')
  BY <1>1 DEF StoreInformation, AddMeta, NewMeta
<1>5. Input[r].time \in Nat /\ Input[r].time # Absent
  BY InputIs, AbsentAssumption
<1>6. r \notin I
  BY <1>2, <1>4 DEF StoredIds
<1>7. StoredIds' = I \cup {r}
  <2>1. \A x \in RecordIds : bodies'[x] = IF x = r THEN Input[r].time ELSE bodies[x]
    BY <1>3, <1>4
  <2> QED BY <1>2, <1>5, <2>1 DEF StoredIds
<1>8. PICK t2, n2, g2 : t2 = topics' /\ n2 = slugToTopic' /\ g2 = tagIndex'
  OBVIOUS
<1>15. PICK t1, n1, g1 : t1 = topics /\ n1 = slugToTopic /\ g1 = tagIndex
  OBVIOUS
<1>16. /\ t2 = [t1 EXCEPT ![m.slug] = t1[m.slug] \cup {m}]
       /\ n2 = Named(n1, m) /\ g2 = Tagged(g1, m)
  BY <1>4, <1>8, <1>15
<1>17. MapsOk(t1, n1, g1, M) /\ r \notin IdsOf(M)
  BY <1>3, <1>6, <1>15
<1>9. /\ MapsOk(t2, n2, g2, M \cup {m})
      /\ MetasOk(M \cup {m}) /\ IdsOf(M \cup {m}) = I \cup {r}
  <2>1. /\ MapsOk(t2, Named(n1, m), Tagged(g1, m), M \cup {m})
        /\ MetasOk(M \cup {m}) /\ IdsOf(M \cup {m}) = IdsOf(M) \cup {r}
    <3>1. MapsOk(t1, n1, g1, M) /\ MetasOk(M) /\ r \notin IdsOf(M) /\ m = NewMeta(r)
      BY <1>1, <1>3, <1>17
    <3>2. t2 = [t1 EXCEPT ![m.slug] = t1[m.slug] \cup {m}]
      BY <1>16
    <3>3. MapsOk(t2, Named(n1, m), Tagged(g1, m), M \cup {m})
      BY ONLY <3>1, <3>2, r \in RecordIds, Adds, Zenon
    <3>4. MetasOk(M \cup {m})
      BY ONLY <3>1, <3>2, r \in RecordIds, Adds, Zenon
    <3>5. IdsOf(M \cup {m}) = IdsOf(M) \cup {r}
      <4>1. m.id = r
        BY <1>1, NewMetaIs
      <4> QED BY ONLY <4>1 DEF IdsOf
    <3> QED BY <3>3, <3>4, <3>5
  <2> QED BY <1>3, <1>16, <2>1
<1>10. All' = M \cup {m}
  <2>1. M \cup {m} = UNION {t2[s] : s \in UsedSlugs}
    BY <1>9 DEF MapsOk
  <2> QED BY <1>8, <2>1 DEF All
<1>11. PICK list : list = sidecar'
  OBVIOUS
<1>12. MetasOk(list) /\ IdsOf(list) = I \cup {r} /\ SameTags(list, M \cup {m})
  <2>1. PICK N : N = M \cup {m}
    OBVIOUS
  <2>2. list = CollectEntries(t2, n2) /\ MapsOk(t2, n2, g2, N) /\ MetasOk(N)
    BY <1>4, <1>8, <1>9, <1>11, <2>1
  <2>3. MetasOk(list) /\ IdsOf(list) = IdsOf(N) /\ SameTags(list, N)
    BY ONLY <2>2, Collects
  <2> QED BY <1>9, <2>1, <2>3
<1>13. DOMAIN bodies' = RecordIds /\ \A x \in RecordIds : bodies'[x] \in Nat \cup {Absent}
  BY <1>3, <1>4, <1>5
<1>14. IsFiniteSet(I \cup {r})
  BY <1>3, FS_AddElement
<1> QED BY <1>7, <1>8, <1>9, <1>10, <1>11, <1>12, <1>13, <1>14 DEF IndexInv

LEMMA KeptIs ==
  ASSUME IndexInv
  PROVE  /\ MetasOk(Kept) /\ IdsOf(Kept) = StoredIds
         /\ sidecar # Absent => Kept = sidecar /\ SameTags(Kept, All)
<1>1. CASE sidecar = Absent
  BY <1>1, Rebuilds DEF Kept
<1>2. CASE sidecar # Absent
  BY <1>2 DEF IndexInv, Kept
<1> QED BY <1>1, <1>2

LEMMA RestartIndex ==
  ASSUME IndexInv, Restart
  PROVE  IndexInv' /\ All' = Kept
<1>1. PICK M, I : M = Kept /\ I = StoredIds
  OBVIOUS
<1>2. MetasOk(M) /\ IdsOf(M) = I /\ (sidecar # Absent => M = sidecar)
  BY <1>1, KeptIs
<1>3. PICK t2, n2, g2 : t2 = topics' /\ n2 = slugToTopic' /\ g2 = tagIndex'
  OBVIOUS
<1>4. /\ t2 = [s \in UsedSlugs |-> {m \in M : m.slug = s}]
      /\ n2 = [s \in UsedSlugs |-> IF \E m \in M : m.slug = s
                                   THEN (CHOOSE m \in M : m.slug = s).topic ELSE Absent]
      /\ g2 = [t \in Tags |-> {m.id : m \in {n \in M : t \in n.tags}}]
  BY <1>1, <1>3 DEF Restart, Ingest
<1>5. MapsOk(t2, n2, g2, M)
  BY <1>2, <1>4, Ingests
<1>6. All' = M
  <2>1. M = UNION {t2[s] : s \in UsedSlugs}
    BY <1>5 DEF MapsOk
  <2> QED BY <1>3, <2>1 DEF All
<1>7. bodies' = bodies /\ sidecar' = sidecar
  BY DEF Restart
<1>8. StoredIds' = I
  BY <1>1, <1>7 DEF StoredIds
<1>9. SameTags(M, M)
  BY <1>2 DEF MetasOk, SameTags
<1>10. DOMAIN bodies = RecordIds /\ IsFiniteSet(I)
       /\ \A r \in RecordIds : bodies[r] \in Nat \cup {Absent}
  BY <1>1 DEF IndexInv
<1>11. MapsOk(t2, n2, g2, M)' /\ MapsOk(topics, slugToTopic, tagIndex, All)'
  BY <1>3, <1>5, <1>6
<1> QED BY <1>1, <1>2, <1>6, <1>7, <1>8, <1>9, <1>10, <1>11 DEF IndexInv

LEMMA NextIndex ==
  ASSUME IndexInv, [SNext]_searchVars
  PROVE  IndexInv'
<1>1. CASE \E r \in RecordIds : StoreInformation(r)
  BY <1>1, StoreIndex
<1>2. CASE Restart
  BY <1>2, RestartIndex
<1>3. ASSUME UNCHANGED <<bodies, topics, slugToTopic, tagIndex>>,
             sidecar' = sidecar \/ sidecar' = Absent
      PROVE  IndexInv'
  <2>1. All' = All /\ StoredIds' = StoredIds
    BY <1>3 DEF All, StoredIds
  <2> QED BY <1>3, <2>1 DEF IndexInv
<1>4. CASE \/ \E r \in RecordIds : RefuseStore(r)
           \/ ProcessDies \/ UNCHANGED searchVars
  BY <1>3, <1>4 DEF RefuseStore, ProcessDies, searchVars, searchDisk, searchIndex
<1>5. ASSUME NEW c \in Finds,
             \/ \E q \in Requests : Look(c, q)
             \/ \E r \in RecordIds : ReadBody(c, r) \/ ReadFails(c, r)
             \/ CacheTokens(c) \/ AllRead(c) \/ Respond(c) \/ Unreadable(c)
      PROVE  IndexInv'
  <2>1. UNCHANGED <<bodies, topics, slugToTopic, tagIndex, sidecar>>
    BY <1>5 DEF Look, ReadBody, ReadFails, CacheTokens, AllRead, Respond, Unreadable,
                searchDisk, searchIndex
  <2> QED BY <1>3, <2>1
<1>6. CASE Damage
  BY <1>3, <1>6 DEF Damage, searchIndex
<1> QED BY <1>1, <1>2, <1>4, <1>5, <1>6 DEF SNext

-----------------------------------------------------------------------------
(* What the index answers.                                                 *)

LEMMA InTopicIs ==
  ASSUME IndexInv, NEW topic \in DOMAIN TopicSlug
  PROVE  /\ InTopic(topic) = {m \in All : m.slug = TopicSlug[topic]}
         /\ TopicSlug[topic] \in UsedSlugs => InTopic(topic) = topics[TopicSlug[topic]]
<1>1. PICK M, z : M = All /\ z = TopicSlug[topic]
  OBVIOUS
<1>2. MapsOk(topics, slugToTopic, tagIndex, M)
  BY <1>1 DEF IndexInv
<1>3. topic # Absent
  BY DEF TopicSlug
<1>4. InTopic(topic) = UNION {topics[s] : s \in UsedSlugs \cap {z}}
  BY <1>1, <1>3 DEF InTopic
<1>5. InTopic(topic) = {m \in M : m.slug = z}
  BY <1>2, <1>4 DEF MapsOk
<1>6. z \in UsedSlugs => InTopic(topic) = topics[z]
  BY <1>4
<1> QED BY <1>1, <1>5, <1>6

\* The maps give the candidates that the records themselves give.
LEMMA CandidatesIs ==
  ASSUME IndexInv, NEW q \in Requests
  PROVE  Candidates(q) = Wanted(q, All)
<1>1. PICK M : M = All
  OBVIOUS
<1>2. MapsOk(topics, slugToTopic, tagIndex, M) /\ MetasOk(M)
  BY <1>1 DEF IndexInv
<1>3. /\ q.tags \in Seq(Tags)
      /\ q.topic # Absent => q.topic \in DOMAIN TopicSlug
  BY RequestIs
<1>4. InTopic(q.topic) = {m \in M : q.topic # Absent => m.slug = TopicSlug[q.topic]}
  <2>1. CASE q.topic = Absent
    BY <1>1, <2>1 DEF InTopic
  <2>2. CASE q.topic # Absent
    <3>1. InTopic(q.topic) = {m \in All : m.slug = TopicSlug[q.topic]}
      BY <1>3, <2>2, InTopicIs
    <3> QED BY <1>1, <2>2, <3>1
  <2> QED BY <2>1, <2>2
<1>5. Range(q.tags) \subseteq Tags
  BY <1>3 DEF Range
<1>6. q.tags = <<>> => Range(q.tags) = {}
  BY DEF Range
<1>7. ASSUME NEW m \in M, NEW t \in Tags
      PROVE  m.id \in tagIndex[t] <=> t \in m.tags
  <2>1. tagIndex[t] = {n.id : n \in {o \in M : t \in o.tags}}
    BY <1>2 DEF MapsOk
  <2>2. \A n \in M : n.id = m.id => n = m
    BY <1>2 DEF MetasOk
  <2> QED BY <2>1, <2>2
<1>8. \A m \in M : m.id \in RecordIds
  BY <1>2 DEF MetasOk, RecordMeta
<1>9. \A m \in M : m.id \in WithAllTags(q.tags) <=> Range(q.tags) \subseteq m.tags
  <2> SUFFICES ASSUME NEW m \in M
               PROVE  m.id \in WithAllTags(q.tags) <=> Range(q.tags) \subseteq m.tags
    OBVIOUS
  <2>1. m.id \in WithAllTags(q.tags) <=> \A t \in Range(q.tags) : m.id \in tagIndex[t]
    BY <1>8 DEF WithAllTags
  <2> QED BY <1>5, <1>7, <2>1
<1>10. Candidates(q) = {m \in InTopic(q.topic) :
                          q.tags # <<>> => m.id \in WithAllTags(q.tags)}
  BY DEF Candidates
<1>11. Wanted(q, M) = {m \in M : /\ q.topic # Absent => m.slug = TopicSlug[q.topic]
                                 /\ Range(q.tags) \subseteq m.tags}
  BY DEF Wanted
<1>12. Candidates(q) = Wanted(q, M)
  BY <1>4, <1>6, <1>9, <1>10, <1>11
<1> QED BY <1>1, <1>12

LEMMA CandidatesAll == IndexInv => \A q \in Requests : Candidates(q) = Wanted(q, All)
  BY CandidatesIs

LEMMA CandidatesNext == (IndexInv => \A q \in Requests : Candidates(q) = Wanted(q, All))'
  BY CandidatesAll, PTL

LEMMA ListMatches == ASSUME IndexInv PROVE ListMatchesFind
<1>1. PICK M : M = All
  OBVIOUS
<1>2. MapsOk(topics, slugToTopic, tagIndex, M) /\ MetasOk(M)
  BY <1>1 DEF IndexInv
<1>3. ASSUME NEW z \in UsedSlugs, slugToTopic[z] # Absent
      PROVE  InTopic(slugToTopic[z]) = topics[z]
  <2>1. slugToTopic[z] \in DOMAIN TopicSlug /\ TopicSlug[slugToTopic[z]] = z
    BY <1>2, <1>3 DEF MapsOk
  <2>2. PICK topic \in DOMAIN TopicSlug : topic = slugToTopic[z]
    BY <2>1
  <2> QED BY <2>1, <2>2, InTopicIs
<1>4. ASSUME NEW s \in Summaries PROVE Cardinality(InTopic(s.name)) = s.count
  <2>1. PICK z \in UsedSlugs :
          /\ slugToTopic[z] # Absent
          /\ s = [name |-> slugToTopic[z], count |-> Cardinality(topics[z]),
                  tags |-> Cardinality(UNION {m.tags : m \in topics[z]})]
    BY DEF Summaries
  <2>2. s.name = slugToTopic[z] /\ s.count = Cardinality(topics[z])
    BY <2>1
  <2> QED BY <1>3, <2>1, <2>2
<1>5. ASSUME NEW m \in M PROVE \E s \in Summaries : m \in InTopic(s.name)
  <2>1. PICK z \in UsedSlugs : m \in topics[z]
    BY <1>2 DEF MapsOk
  <2>2. slugToTopic[z] # Absent /\ topics[z] # {}
    BY <1>2, <2>1 DEF MapsOk
  <2>3. PICK s : s = [name |-> slugToTopic[z], count |-> Cardinality(topics[z]),
                      tags |-> Cardinality(UNION {n.tags : n \in topics[z]})]
    OBVIOUS
  <2>4. s \in Summaries
    BY <2>2, <2>3 DEF Summaries
  <2>5. s.name = slugToTopic[z]
    BY <2>3
  <2> QED BY <1>3, <2>1, <2>2, <2>4, <2>5
<1> QED BY <1>1, <1>4, <1>5 DEF ListMatchesFind

-----------------------------------------------------------------------------
\* The same records, with or without their tags, answer alike.
LEMMA SameIds ==
  ASSUME NEW M, MetasOk(M), NEW N, MetasOk(N), IdsOf(M) = IdsOf(N), NEW q \in Requests,
         SameTags(M, N) \/ q.tags = <<>>
  PROVE  {m.id : m \in Wanted(q, M)} = {n.id : n \in Wanted(q, N)}
<1>1. ASSUME NEW A, MetasOk(A), NEW B, MetasOk(B), IdsOf(A) = IdsOf(B),
             (\A a \in A, b \in B : a.id = b.id => a.tags = b.tags) \/ q.tags = <<>>,
             NEW a \in Wanted(q, A)
      PROVE  \E b \in Wanted(q, B) : b.id = a.id
  <2>1. a \in A /\ (q.topic # Absent => a.slug = TopicSlug[q.topic])
        /\ Range(q.tags) \subseteq a.tags
    BY DEF Wanted
  <2>2. PICK b \in B : b.id = a.id
    BY <1>1, <2>1 DEF IdsOf
  <2>3. b.slug = a.slug
    BY <1>1, <2>1, <2>2 DEF MetasOk
  <2>4. Range(q.tags) \subseteq b.tags
    <3>1. q.tags = <<>> => Range(q.tags) = {}
      BY DEF Range
    <3> QED BY <1>1, <2>1, <2>2, <3>1
  <2>5. b \in Wanted(q, B)
    BY <2>1, <2>3, <2>4 DEF Wanted
  <2> QED BY <2>2, <2>5
<1>2. \A m \in Wanted(q, M) : \E n \in Wanted(q, N) : n.id = m.id
  BY <1>1 DEF SameTags
<1>3. \A n \in Wanted(q, N) : \E m \in Wanted(q, M) : m.id = n.id
  BY <1>1 DEF SameTags
<1> QED BY <1>2, <1>3

LEMMA RestartAnswers ==
  ASSUME IndexInv, Restart, NEW q \in Requests, sidecar # Absent \/ q.tags = <<>>
  PROVE  CandidateIds(q)' = CandidateIds(q)
<1>1. PICK M, N : M = All /\ N = Kept
  OBVIOUS
<1>2. IndexInv' /\ All' = N
  BY <1>1, RestartIndex
<1>3. Candidates(q) = Wanted(q, M)
  BY <1>1, CandidatesIs
<1>4. Candidates(q)' = Wanted(q, N)
  BY <1>2, CandidatesNext
<1>5. MetasOk(M) /\ MetasOk(N) /\ IdsOf(M) = IdsOf(N)
  BY <1>1, KeptIs DEF IndexInv
<1>6. SameTags(N, M) \/ q.tags = <<>>
  BY <1>1, KeptIs
<1>7. {m.id : m \in Wanted(q, N)} = {n.id : n \in Wanted(q, M)}
  BY <1>5, <1>6, SameIds
<1>8. CandidateIds(q) = {m.id : m \in Wanted(q, M)}
  BY <1>3 DEF CandidateIds
<1>9. CandidateIds(q)' = {m.id : m \in Wanted(q, N)}
  BY <1>4 DEF CandidateIds
<1> QED BY <1>7, <1>8, <1>9

-----------------------------------------------------------------------------
(* The calls of find_information.                                          *)

\* A call that nothing has touched, while events are published.
Untouched(d) ==
  /\ phase'[d] = phase[d] /\ request'[d] = request[d] /\ cands'[d] = cands[d]
  /\ words'[d] = words[d] /\ reading'[d] = reading[d] /\ answer'[d] = answer[d]
  /\ asOf'[d] = asOf[d] /\ hurt'[d] = hurt[d]

LEMMA UntouchedOk ==
  ASSUME NEW d \in Finds, Call(d), Untouched(d), published \subseteq published'
  PROVE  Call(d)'
<1>1. PICK ph, q, cd, ws, rd, best, seen, broken :
        /\ ph = phase[d] /\ q = request[d] /\ cd = cands[d] /\ ws = words[d]
        /\ rd = reading[d] /\ best = answer[d] /\ seen = asOf[d] /\ broken = hurt[d]
  OBVIOUS
<1>2. CallOk(d, ph, q, cd, ws, rd, best, seen, broken, published)
  BY <1>1 DEF Call
<1>3. CallOk(d, ph, q, cd, ws, rd, best, seen, broken, published')
  BY <1>2 DEF CallOk
<1> QED BY <1>1, <1>3 DEF Untouched, Call

FindStep(c) ==
  \/ \E q \in Requests : Look(c, q)
  \/ \E r \in RecordIds : ReadBody(c, r) \/ ReadFails(c, r)
  \/ CacheTokens(c) \/ AllRead(c) \/ Respond(c) \/ Unreadable(c)

\* A step of one call is its own.
LEMMA OthersUntouched ==
  ASSUME LocalsOk, NEW c \in Finds, FindStep(c)
  PROVE  /\ LocalsOk' /\ published \subseteq published'
         /\ \A d \in Finds : d # c => Untouched(d)
<1> USE DEF LocalsOk, Untouched
<1>1. CASE \E q \in Requests : Look(c, q)
  BY <1>1 DEF Look, searchDisk
<1>2. CASE \E r \in RecordIds : ReadBody(c, r)
  BY <1>2 DEF ReadBody, searchDisk
<1>3. CASE \E r \in RecordIds : ReadFails(c, r)
  <2>1. PICK r \in RecordIds : ReadFails(c, r)
    BY <1>3
  <2>2. PICK x : words' = [words EXCEPT ![c][r] = x]
    BY <2>1 DEF ReadFails, Take
  <2> QED BY <2>1, <2>2 DEF ReadFails, searchDisk
<1>4. CASE CacheTokens(c)
  <2>1. PICK r, x : words' = [words EXCEPT ![c][r] = x]
    BY <1>4 DEF CacheTokens, Take
  <2> QED BY <1>4, <2>1 DEF CacheTokens, searchDisk
<1>5. CASE AllRead(c)
  BY <1>5 DEF AllRead, searchDisk
<1>6. CASE Respond(c)
  BY <1>6 DEF Respond, Forget, Audit
<1>7. CASE Unreadable(c)
  BY <1>7 DEF Unreadable, Forget, searchDisk
<1> QED BY <1>1, <1>2, <1>3, <1>4, <1>5, <1>6, <1>7 DEF FindStep

LEMMA CacheStays ==
  ASSUME FindsInv, NEW c \in Finds, FindStep(c)
  PROVE  DOMAIN cache' = RecordIds /\ Known(cache')
<1>1. DOMAIN cache = RecordIds /\ Known(cache)
  BY DEF FindsInv
<1>2. CASE CacheTokens(c)
  <2>1. PICK r, x : r = reading[c][1] /\ x = reading[c][2]
    OBVIOUS
  <2>2. reading[c] # <<>> /\ cache' = [cache EXCEPT ![r] = x]
    BY <1>2, <2>1 DEF CacheTokens, CacheOne
  <2>3. PICK k \in RecordIds : reading[c] = <<k, TrueTokens[k]>>
    BY <2>2 DEF FindsInv, Call, CallOk
  <2>4. r = k /\ x = TrueTokens[k]
    BY <2>1, <2>3
  <2> QED BY <1>1, <2>2, <2>4 DEF Known
<1>3. CASE UNCHANGED cache
  BY <1>1, <1>3 DEF Known
<1> QED BY <1>2, <1>3 DEF FindStep, Look, ReadBody, ReadFails, AllRead, Respond, Unreadable,
                          searchIndex

LEMMA LookOk ==
  ASSUME IndexInv, FindsInv, NEW c \in Finds, NEW q \in Requests, Look(c, q)
  PROVE  Call(c)'
<1>1. PICK M, cd : M = All /\ cd = Candidates(q)
  OBVIOUS
<1>2. MetasOk(M) /\ cd = Wanted(q, M)
  BY <1>1, CandidatesIs DEF IndexInv
<1>3. PICK ws : ws = [r \in RecordIds |-> IF q.text # Absent /\ \E m \in cd : m.id = r
                                          THEN cache[r] ELSE Absent]
  OBVIOUS
<1>4. /\ phase'[c] = IF q.text = Absent THEN "rank" ELSE "load"
      /\ request'[c] = q /\ cands'[c] = cd /\ words'[c] = ws /\ reading'[c] = reading[c]
      /\ answer'[c] = answer[c] /\ asOf'[c] = M /\ hurt'[c] = hurt[c]
  BY <1>1, <1>3 DEF Look, FindsInv, LocalsOk
<1>5. /\ DOMAIN ws = RecordIds /\ Known(ws)
      /\ q.text = Absent => \A r \in RecordIds : ws[r] = Absent
  BY <1>3 DEF FindsInv, Known
<1>6. reading[c] = <<>> \/ \E r \in RecordIds : reading[c] = <<r, TrueTokens[r]>>
  BY DEF FindsInv, Call, CallOk
<1>7. PICK ph : ph = phase'[c]
  OBVIOUS
<1>8. ph = IF q.text = Absent THEN "rank" ELSE "load"
  BY <1>4, <1>7
<1>9. CallOk(c, ph, q, cd, ws, reading[c], answer[c], M, hurt[c], published')
  BY <1>2, <1>5, <1>6, <1>8 DEF CallOk
<1> QED BY <1>4, <1>7, <1>9 DEF Call

LEMMA ReadOk ==
  ASSUME FindsInv, NEW c \in Finds, NEW r \in RecordIds, ReadBody(c, r)
  PROVE  Call(c)'
<1>1. PICK x : x = IF cache[r] # Absent THEN cache[r] ELSE Tokens(Input[r].words)
  OBVIOUS
<1>2. x = TrueTokens[r]
  BY <1>1 DEF FindsInv, Known, TrueTokens
<1>3. reading'[c] = <<r, TrueTokens[r]>>
  BY <1>1, <1>2 DEF ReadBody, FindsInv, LocalsOk
<1>4. UNCHANGED <<phase, request, cands, words, answer, asOf, hurt, published>>
  BY DEF ReadBody, searchDisk
<1>5. PICK rd : rd = reading'[c]
  OBVIOUS
<1>6. CallOk(c, phase[c], request[c], cands[c], words[c], rd, answer[c], asOf[c], hurt[c],
             published)
  BY <1>3, <1>5 DEF FindsInv, Call, CallOk
<1> QED BY <1>4, <1>5, <1>6 DEF Call

\* The words of one record come in.
LEMMA TakeOk ==
  ASSUME LocalsOk, NEW c \in Finds, DOMAIN words[c] = RecordIds, NEW r \in RecordIds, NEW x,
         Take(c, r, x)
  PROVE  /\ DOMAIN words'[c] = RecordIds
         /\ \A k \in RecordIds : words'[c][k] = IF k = r THEN x ELSE words[c][k]
  BY DEF LocalsOk, Take

LEMMA CacheTokensOk ==
  ASSUME FindsInv, NEW c \in Finds, CacheTokens(c)
  PROVE  Call(c)'
<1>1. CallOk(c, "load", request[c], cands[c], words[c], reading[c], answer[c], asOf[c],
             hurt[c], published)
  BY DEF FindsInv, Call, CacheTokens
<1>2. PICK r \in RecordIds : reading[c] = <<r, TrueTokens[r]>>
  BY <1>1 DEF CallOk, CacheTokens
<1>3. Take(c, r, TrueTokens[r])
  BY <1>2 DEF CacheTokens
<1>4. /\ DOMAIN words'[c] = RecordIds
      /\ \A k \in RecordIds : words'[c][k] = IF k = r THEN TrueTokens[r] ELSE words[c][k]
  BY <1>1, <1>3, TakeOk DEF FindsInv, CallOk
<1>5. PICK ws : ws = words'[c]
  OBVIOUS
<1>6. Known(words[c]) => Known(ws)
  BY <1>4, <1>5 DEF Known
<1>7. /\ UNCHANGED <<phase, request, cands, answer, asOf, hurt, published>>
      /\ reading'[c] = <<>> /\ phase[c] = "load"
  BY DEF CacheTokens, searchDisk, FindsInv, LocalsOk
<1>8. CallOk(c, "load", request[c], cands[c], ws, <<>>, answer[c], asOf[c], hurt[c],
             published)
  BY <1>1, <1>4, <1>5, <1>6 DEF CallOk
<1> QED BY <1>5, <1>7, <1>8 DEF Call

LEMMA ReadFailsOk ==
  ASSUME FindsInv, NEW c \in Finds, NEW r \in RecordIds, ReadFails(c, r)
  PROVE  Call(c)'
<1>1. CallOk(c, "load", request[c], cands[c], words[c], reading[c], answer[c], asOf[c],
             hurt[c], published)
  BY DEF FindsInv, Call, ReadFails
<1>2. PICK x : Take(c, r, x)
  BY DEF ReadFails
<1>3. DOMAIN words'[c] = RecordIds
  BY <1>1, <1>2, TakeOk DEF FindsInv, CallOk
<1>4. PICK ws : ws = words'[c]
  OBVIOUS
<1>5. /\ UNCHANGED <<phase, request, cands, reading, answer, asOf, published>>
      /\ hurt'[c] = TRUE /\ phase[c] = "load"
  BY DEF ReadFails, searchDisk, FindsInv, LocalsOk
<1>6. CallOk(c, "load", request[c], cands[c], ws, reading[c], answer[c], asOf[c], TRUE,
             published)
  BY <1>1, <1>3, <1>4 DEF CallOk
<1> QED BY <1>4, <1>5, <1>6 DEF Call

LEMMA AllReadOk ==
  ASSUME FindsInv, NEW c \in Finds, AllRead(c)
  PROVE  Call(c)'
<1>1. CallOk(c, "load", request[c], cands[c], words[c], reading[c], answer[c], asOf[c],
             hurt[c], published)
  BY DEF FindsInv, Call, AllRead
<1>2. \A m \in cands[c] : words[c][m.id] # Absent
  <2>1. {m.id : m \in {n \in cands[c] : words[c][n.id] = Absent}} = {}
    BY DEF AllRead, Lacking
  <2> QED BY <2>1
<1>3. /\ UNCHANGED <<request, cands, words, reading, answer, asOf, hurt, published>>
      /\ phase'[c] = "rank"
  BY DEF AllRead, searchDisk, FindsInv, LocalsOk
<1>4. CallOk(c, "rank", request[c], cands[c], words[c], reading[c], answer[c], asOf[c],
             hurt[c], published)
  BY <1>1, <1>2 DEF CallOk
<1> QED BY <1>3, <1>4 DEF Call

LEMMA RespondOk ==
  ASSUME FindsInv, NEW c \in Finds, Respond(c)
  PROVE  Call(c)'
<1>1. PICK q, cd, ws, rd, seen, broken :
        /\ q = request[c] /\ cd = cands[c] /\ ws = words[c] /\ rd = reading[c]
        /\ seen = asOf[c] /\ broken = hurt[c]
  OBVIOUS
<1>2. CallOk(c, "rank", q, cd, ws, rd, answer[c], seen, broken, published)
  BY <1>1 DEF FindsInv, Call, Respond
<1>3. PICK tokensOf : tokensOf = [r \in RecordIds |-> IF ws[r] = Absent THEN {} ELSE ws[r]]
  OBVIOUS
<1>4. PICK best : best = Top(q, cd, tokensOf)
  OBVIOUS
<1>5. /\ answer'[c] = best /\ phase'[c] = "ok" /\ asOf'[c] = seen /\ request'[c] = q
      /\ hurt'[c] = broken /\ cands'[c] = {} /\ words'[c] = Unread /\ reading'[c] = <<>>
  <2>1. TokensOf(c) = tokensOf
    BY <1>1, <1>3 DEF TokensOf
  <2> QED BY <1>1, <1>4, <2>1 DEF Respond, Forget, FindsInv, LocalsOk
<1>6. KnowledgeQueried(c, Len(best)) \in published'
  BY <1>5 DEF Respond, Audit
<1>7. ASSUME ~broken PROVE Exact(q, best, seen)
  <2>1. /\ q \in Requests /\ MetasOk(seen) /\ cd = Wanted(q, seen) /\ Known(ws)
        /\ q.text = Absent => \A r \in RecordIds : ws[r] = Absent
        /\ q.text # Absent => \A m \in cd : ws[m.id] # Absent
    BY <1>2, <1>7 DEF CallOk
  <2>2. ASSUME NEW m \in cd
        PROVE  tokensOf[m.id] = IF q.text = Absent THEN {} ELSE TrueTokens[m.id]
    <3>1. m.id \in RecordIds
      BY <2>1 DEF Wanted, MetasOk, RecordMeta
    <3> QED BY <1>3, <2>1, <3>1 DEF Known
  <2> QED BY <1>4, <2>1, <2>2, TopExact
<1>8. CallOk(c, "ok", q, {}, Unread, <<>>, best, seen, broken, published')
  BY <1>6, <1>7 DEF CallOk, Unread
<1> QED BY <1>5, <1>8 DEF Call

LEMMA UnreadableOk ==
  ASSUME FindsInv, NEW c \in Finds, Unreadable(c)
  PROVE  Call(c)'
<1>1. /\ phase'[c] = "err" /\ words'[c] = Unread /\ reading'[c] = <<>>
  BY DEF Unreadable, Forget, FindsInv, LocalsOk
<1> QED BY <1>1 DEF Call, CallOk, Unread

LEMMA FindOk ==
  ASSUME IndexInv, FindsInv, NEW c \in Finds, FindStep(c)
  PROVE  Call(c)'
  BY LookOk, ReadOk, CacheTokensOk, ReadFailsOk, AllReadOk, RespondOk, UnreadableOk
     DEF FindStep

LEMMA DieOk ==
  ASSUME FindsInv, ProcessDies
  PROVE  FindsInv'
<1>1. /\ phase' = [c \in Finds |-> IF phase[c] \in {"load", "rank"} THEN "gone" ELSE phase[c]]
      /\ cands' = [c \in Finds |-> IF c \in Finds THEN {} ELSE cands[c]]
      /\ words' = [c \in Finds |-> IF c \in Finds THEN Unread ELSE words[c]]
      /\ reading' = [c \in Finds |-> IF c \in Finds THEN <<>> ELSE reading[c]]
      /\ UNCHANGED <<published, cache, request, answer, asOf, hurt>>
  BY DEF ProcessDies, Forget, searchDisk, searchIndex
<1>2. LocalsOk'
  BY <1>1 DEF FindsInv, LocalsOk
<1>3. ASSUME NEW c \in Finds PROVE Call(c)'
  <2>1. CallOk(c, phase[c], request[c], cands[c], words[c], reading[c], answer[c], asOf[c],
               hurt[c], published)
    BY DEF FindsInv, Call
  <2>2. PICK ph : ph = phase'[c]
    OBVIOUS
  <2>3. ph = IF phase[c] \in {"load", "rank"} THEN "gone" ELSE phase[c]
    BY <1>1, <2>2
  <2>4. words'[c] = Unread /\ reading'[c] = <<>>
    BY <1>1
  <2>5. CallOk(c, ph, request[c], cands'[c], Unread, <<>>, answer[c], asOf[c], hurt[c], published)
    BY <2>1, <2>3 DEF CallOk, Unread
  <2> QED BY <1>1, <2>2, <2>4, <2>5 DEF Call
<1> QED BY <1>1, <1>2, <1>3 DEF FindsInv, Known

LEMMA InitFinds == ASSUME SInit PROVE FindsInv
<1>1. LocalsOk
  BY DEF SInit, LocalsOk
<1>2. DOMAIN cache = RecordIds /\ Known(cache)
  BY DEF SInit, Unread, Known
<1>3. ASSUME NEW c \in Finds PROVE Call(c)
  <2>1. phase[c] = "idle" /\ words[c] = Unread /\ reading[c] = <<>>
    BY DEF SInit
  <2> QED BY <2>1 DEF Call, CallOk, Unread
<1> QED BY <1>1, <1>2, <1>3 DEF FindsInv

LEMMA NextFinds ==
  ASSUME IndexInv, FindsInv, [SNext]_searchVars
  PROVE  FindsInv'
<1>1. ASSUME NEW c \in Finds, FindStep(c) PROVE FindsInv'
  <2>1. /\ LocalsOk' /\ published \subseteq published'
        /\ \A d \in Finds : d # c => Untouched(d)
    BY <1>1, OthersUntouched DEF FindsInv
  <2>2. ASSUME NEW d \in Finds PROVE Call(d)'
    <3>1. CASE d = c
      BY <1>1, <3>1, FindOk
    <3>2. CASE d # c
      BY <2>1, <3>2, UntouchedOk DEF FindsInv
    <3> QED BY <3>1, <3>2
  <2> QED BY <1>1, <2>1, <2>2, CacheStays DEF FindsInv
<1>2. ASSUME UNCHANGED finding, published \subseteq published', DOMAIN cache' = RecordIds,
             Known(cache')
      PROVE  FindsInv'
  <2>1. LocalsOk' /\ \A d \in Finds : Untouched(d)
    BY <1>2 DEF finding, FindsInv, LocalsOk, Untouched
  <2>2. ASSUME NEW d \in Finds PROVE Call(d)'
    BY <1>2, <2>1, UntouchedOk DEF FindsInv
  <2> QED BY <1>2, <2>1, <2>2 DEF FindsInv
<1>3. DOMAIN cache = RecordIds /\ Known(cache)
  BY DEF FindsInv
<1>4. CASE \E r \in RecordIds : StoreInformation(r)
  <2>1. PICK r \in RecordIds : StoreInformation(r)
    BY <1>4
  <2>2. cache' = [cache EXCEPT ![r] = Absent]
    BY <2>1 DEF StoreInformation
  <2>3. DOMAIN cache' = RecordIds /\ Known(cache')
    BY <1>3, <2>2 DEF Known
  <2>4. UNCHANGED finding /\ published \subseteq published'
    BY <2>1 DEF StoreInformation, Audit
  <2> QED BY <1>2, <2>3, <2>4
<1>5. CASE UNCHANGED <<finding, published, cache>>
  BY <1>2, <1>3, <1>5 DEF Known
<1>6. CASE Damage \/ (\E r \in RecordIds : RefuseStore(r)) \/ UNCHANGED searchVars
  BY <1>5, <1>6 DEF Damage, RefuseStore, searchVars, searchDisk, searchIndex
<1>7. CASE Restart
  <2>1. UNCHANGED finding /\ published' = published /\ cache' = Unread
    BY <1>7 DEF Restart
  <2>2. DOMAIN cache' = RecordIds /\ Known(cache')
    BY <2>1 DEF Unread, Known
  <2> QED BY <1>2, <2>1, <2>2
<1> QED BY <1>1, <1>4, <1>6, <1>7, DieOk DEF SNext, FindStep

LEMMA InvariantOfSearch == SearchSpec => []SearchInv
<1>1. SInit => SearchInv
  BY InitIndex, InitFinds DEF SearchInv
<1>2. SearchInv /\ [SNext]_searchVars => SearchInv'
  BY NextIndex, NextFinds DEF SearchInv
<1> QED BY <1>1, <1>2, PTL DEF SearchSpec

\* A find none of whose reads failed is exact, whatever is stored, cached or restarted
\* beside it, for any records and requests; and every topic listed can be searched by its
\* name (adapter.rs find_information, index.rs topic_summary).
THEOREM SearchCorrect == SearchSpec => []SearchIsRight
<1>1. SearchInv => SearchIsRight
  <2> SUFFICES ASSUME SearchInv PROVE SearchIsRight
    OBVIOUS
  <2>1. ListMatchesFind
    BY ListMatches DEF SearchInv
  <2>2. ASSUME NEW c \in Finds, phase[c] = "ok", ~hurt[c]
        PROVE  /\ Exact(request[c], answer[c], asOf[c])
               /\ KnowledgeQueried(c, Len(answer[c])) \in published
    <3>1. CallOk(c, phase[c], request[c], cands[c], words[c], reading[c], answer[c], asOf[c],
                 hurt[c], published)
      BY DEF SearchInv, FindsInv, Call
    <3> QED BY <2>2, <3>1 DEF CallOk
  <2>3. FindIsExact
    BY <2>2 DEF FindIsExact, Exact
  <2> QED BY <2>1, <2>3 DEF SearchIsRight
<1> QED BY <1>1, InvariantOfSearch, PTL

\* A start from the index file answers every request with the records it had before, one
\* from the bodies every request that names no tags (index_file.rs).
THEOREM RestartCorrect == SearchSpec => RestartKeepsAnswers
<1>1. SearchInv /\ [SNext]_searchVars =>
        [~running /\ running' => \A q \in Requests :
           (sidecar # Absent \/ q.tags = <<>>) => CandidateIds(q)' = CandidateIds(q)]_searchVars
  <2> SUFFICES ASSUME SearchInv, [SNext]_searchVars, ~running, running',
                      NEW q \in Requests, sidecar # Absent \/ q.tags = <<>>
               PROVE  CandidateIds(q)' = CandidateIds(q) \/ UNCHANGED searchVars
    OBVIOUS
  <2>1. Restart \/ UNCHANGED searchVars
    BY DEF SNext, StoreInformation, RefuseStore, Look, ReadBody, ReadFails, CacheTokens,
           AllRead, Respond, Unreadable, ProcessDies, Damage, process, searchVars
  <2> QED BY <2>1, RestartAnswers DEF SearchInv
<1> QED BY <1>1, InvariantOfSearch, PTL DEF SearchSpec, RestartKeepsAnswers
=============================================================================
