---------------------------- MODULE LocalModel ----------------------------
(***************************************************************************)
(* The local embedding adapter: its constructor decides by the files on    *)
(* disk, the first calls of embed download the model (strategy Lazy) and   *)
(* load it, and nothing but the change of the adapter's state is under a   *)
(* lock.  A download writes <file>.tmp, checks the SHA-256 of what came    *)
(* over the network and renames; two downloads share the names, and a file *)
(* renamed by one is still open in the other.                              *)
(***************************************************************************)
EXTENDS Integers, FiniteSets, Sequences

CONSTANTS
  ModelCalls,   \* calls of embed
  Operator,     \* who placed files before the first start
  None,
  Files,        \* the files in the order of the download, the config first
  Parts,        \* the pieces a file comes in
  Manifest,     \* the operator placed a checksums.txt
  MaxStarts     \* bound: constructions of the adapter

Names == {Files[i] : i \in DOMAIN Files}
Inodes == (ModelCalls \cup {Operator}) \X Names

\* The files of a model have names of their own.
ASSUME ModelAssumption ==
  /\ Operator \notin ModelCalls /\ None \notin Inodes
  /\ Files \in Seq(STRING) /\ Files # <<>>
  /\ \A i, j \in DOMAIN Files : Files[i] = Files[j] => i = j
  /\ Parts \in Nat \ {0}
  /\ Manifest \in BOOLEAN
  /\ MaxStarts \in Nat

Contents == [1..Parts -> {"empty", "good", "bad"}]
Empty == [p \in 1..Parts |-> "empty"]
Good == [p \in 1..Parts |-> "good"]

VARIABLES
  strategy,  \* DownloadStrategy; Eager does not download in the adapter
  mode,      \* OfflineMode
  state,     \* AdapterState, "down" without a process, "refused" by new
  sound,     \* the loaded model was read from whole files
  place,     \* the inode of each file at its place
  tmp,       \* ... and of its temporary file
  data,      \* what the inodes hold
  modelPc,   \* where each call is
  at,        \* the file it is busy with
  out,       \* the inode it writes
  pos,       \* how much of it is written
  intact,    \* the hash of what it received is right
  pass,      \* the model is loaded twice, and the first one dropped
  whole,     \* what it has read was whole
  left,      \* the caller is gone, the blocking task goes on
  answer,    \* what the call returned
  crossed,   \* history: a download has opened the file another was writing
  starts

disk == <<place, tmp, data>>
io   == <<at, out, pos, intact>>
mem  == <<state, sound>>
load == <<pass, whole, left>>
cfg  == <<strategy, mode>>
modelVars == <<cfg, mem, disk, modelPc, io, load, answer, crossed, starts>>

Ended == {"idle", "ok", "err", "gone"}

ModelInit ==
  /\ strategy \in {"Lazy", "Never"}
  /\ mode \in {"Strict", "Degraded"}
  /\ state = "down" /\ sound = FALSE
  /\ \E n \in 0..Len(Files) :
       place = [f \in Names |->
                  IF \E i \in 1..n : Files[i] = f THEN <<Operator, f>> ELSE None]
  /\ tmp = [f \in Names |-> None]
  /\ data = [i \in Inodes |-> IF i[1] = Operator THEN Good ELSE Empty]
  /\ modelPc = [c \in ModelCalls |-> "idle"]
  /\ at = [c \in ModelCalls |-> 1]
  /\ out = [c \in ModelCalls |-> None]
  /\ pos = [c \in ModelCalls |-> 0]
  /\ intact = [c \in ModelCalls |-> TRUE]
  /\ pass = [c \in ModelCalls |-> 1]
  /\ whole = [c \in ModelCalls |-> TRUE]
  /\ left = [c \in ModelCalls |-> FALSE]
  /\ answer = [c \in ModelCalls |-> "none"]
  /\ crossed = FALSE
  /\ starts = 0

\* Offline::decide: the config file stands for all.
Decide ==
  IF place[Files[1]] # None THEN "Unloaded"
  ELSE IF mode = "Strict" THEN "refused" ELSE "Degraded"

\* LocalEmbeddingAdapter::new
Construct ==
  /\ state = "down"
  /\ starts < MaxStarts
  /\ starts' = starts + 1
  /\ state' = Decide
  /\ UNCHANGED <<cfg, sound, disk, modelPc, io, load, answer, crossed>>

ModelGoto(c, next) == modelPc' = [modelPc EXCEPT ![c] = next]

\* A call that is over has no locals.
Forget(calls) ==
  /\ at' = [c \in ModelCalls |-> IF c \in calls THEN 1 ELSE at[c]]
  /\ out' = [c \in ModelCalls |-> IF c \in calls THEN None ELSE out[c]]
  /\ pos' = [c \in ModelCalls |-> IF c \in calls THEN 0 ELSE pos[c]]
  /\ intact' = [c \in ModelCalls |-> c \in calls \/ intact[c]]
  /\ pass' = [c \in ModelCalls |-> IF c \in calls THEN 1 ELSE pass[c]]
  /\ whole' = [c \in ModelCalls |-> c \in calls \/ whole[c]]
  /\ left' = [c \in ModelCalls |-> c \notin calls /\ left[c]]

End(c, stage) == ModelGoto(c, stage) /\ Forget({c})

Error(c, kind) ==
  /\ End(c, "err")
  /\ answer' = [answer EXCEPT ![c] = kind]

\* A blank text is refused, and a batch of none is answered, before anything is
\* loaded or fetched.
Unembedded(c) ==
  /\ modelPc[c] = "idle"
  /\ state \in {"Unloaded", "Degraded", "Real"}
  /\ \/ Error(c, "InvalidInput")
     \/ End(c, "ok") /\ UNCHANGED answer
  /\ UNCHANGED <<cfg, mem, disk, crossed, starts>>

\* ensure_loaded looks at the state and lets go of the lock.
Begin(c) ==
  /\ modelPc[c] = "idle"
  /\ state \in {"Unloaded", "Degraded", "Real"}
  /\ ModelGoto(c, IF state # "Unloaded" THEN "run"
                  ELSE IF strategy = "Lazy" THEN "fetch" ELSE "load")
  /\ UNCHANGED <<cfg, mem, disk, io, load, answer, crossed, starts>>

File(c) == Files[at[c]]

\* Mutant: written straight to its place.
CreateInPlace(c) ==
  LET f == File(c)
      i == IF place[f] = None THEN <<c, f>> ELSE place[f]
  IN /\ place' = [place EXCEPT ![f] = i]
     /\ tmp' = [tmp EXCEPT ![f] = i]
     /\ data' = [data EXCEPT ![i] = Empty]
     /\ out' = [out EXCEPT ![c] = i]

\* File::create of <file>.tmp: one that is there is truncated.
Create(c) ==
  LET f == File(c)
      i == IF tmp[f] = None THEN <<c, f>> ELSE tmp[f]
  IN /\ tmp' = [tmp EXCEPT ![f] = i]
     /\ data' = [data EXCEPT ![i] = Empty]
     /\ out' = [out EXCEPT ![c] = i]
     /\ UNCHANGED place

Found(c) ==
  /\ modelPc[c] = "fetch"
  /\ Create(c)
  /\ crossed' = (crossed \/ \E d \in ModelCalls \ {c} :
                              modelPc[d] = "read" /\ out[d] = tmp[File(c)])
  /\ pos' = [pos EXCEPT ![c] = 0]
  /\ intact' = [intact EXCEPT ![c] = TRUE]
  /\ ModelGoto(c, "read")
  /\ UNCHANGED <<cfg, mem, at, load, answer, starts>>

\* No network, an error status (ureq's call makes an error of every 4xx: the test
\* for 404 after it is dead), or the body breaks off; what is in the temporary file
\* stays.
NetworkFails(c) ==
  /\ modelPc[c] \in {"fetch", "read"}
  /\ Error(c, "AdapterUnavailable")
  /\ UNCHANGED <<cfg, mem, disk, crossed, starts>>

\* The next piece, as sent or damaged on the way, goes to the hasher and the file.
Read(c) ==
  /\ modelPc[c] = "read"
  /\ pos[c] < Parts
  /\ pos' = [pos EXCEPT ![c] = @ + 1]
  /\ \E q \in {"good", "bad"} :
       /\ data' = [data EXCEPT ![out[c]][pos[c] + 1] = q]
       /\ intact' = [intact EXCEPT ![c] = @ /\ q = "good"]
  /\ UNCHANGED <<cfg, mem, place, tmp, modelPc, at, out, load, answer, crossed, starts>>

\* The hash of the bytes received, if a manifest names it.
Verified(c) == pos[c] = Parts /\ (Manifest => intact[c])

Mismatch(c) ==
  /\ modelPc[c] = "read"
  /\ pos[c] = Parts
  /\ ~Verified(c)
  /\ tmp' = [tmp EXCEPT ![File(c)] = None]
  /\ Error(c, "ModelUnavailable")
  /\ UNCHANGED <<cfg, mem, place, data, crossed, starts>>

NextFile(c) ==
  IF at[c] < Len(Files)
  THEN at' = [at EXCEPT ![c] = @ + 1] /\ ModelGoto(c, "fetch")
  ELSE at' = [at EXCEPT ![c] = 1] /\ ModelGoto(c, "load")

\* The rename by name, whoever wrote the file; it fails when another took it away.
Rename(c) ==
  /\ modelPc[c] = "read"
  /\ Verified(c)
  /\ IF tmp[File(c)] # None
     THEN /\ place' = [place EXCEPT ![File(c)] = tmp[File(c)]]
          /\ tmp' = [tmp EXCEPT ![File(c)] = None]
          /\ NextFile(c)
          /\ UNCHANGED <<out, pos, intact, load, answer>>
     ELSE Error(c, "AdapterUnavailable") /\ UNCHANGED <<place, tmp>>
  /\ UNCHANGED <<cfg, mem, data, crossed, starts>>

AllThere == \A f \in Names : place[f] # None

\* BertEmbedder::load: all files exist, then they are read one after the other.
\* A file that is not whole may be noticed, or not (a hole is zeros).
LoadFails(c) ==
  /\ modelPc[c] = "load"
  /\ \/ at[c] = 1 /\ ~AllThere
     \/ place[File(c)] # None /\ data[place[File(c)]] # Good
  /\ Error(c, "ModelUnavailable")
  /\ UNCHANGED <<cfg, mem, disk, crossed, starts>>

LoadFile(c) ==
  /\ modelPc[c] = "load" /\ ~(left[c] /\ pass[c] = 2)
  /\ at[c] = 1 => AllThere
  /\ whole' = [whole EXCEPT ![c] =
                 (at[c] > 1 => @) /\ place[File(c)] # None /\ data[place[File(c)]] = Good]
  /\ IF at[c] < Len(Files)
     THEN at' = [at EXCEPT ![c] = @ + 1] /\ UNCHANGED <<modelPc, pass>>
     ELSE /\ at' = [at EXCEPT ![c] = 1]
          /\ IF pass[c] = 1 THEN pass' = [pass EXCEPT ![c] = 2] /\ UNCHANGED modelPc
             ELSE ModelGoto(c, "promote") /\ UNCHANGED pass
  /\ UNCHANGED <<cfg, mem, disk, out, pos, intact, left, answer, crossed, starts>>

\* The blocking task of a call nobody waits for ends with the first load.
LoadForNobody(c) ==
  /\ modelPc[c] = "load" /\ left[c] /\ pass[c] = 2
  /\ End(c, "gone")
  /\ UNCHANGED <<cfg, mem, disk, answer, crossed, starts>>

Keep(c) ==
  /\ state' = "Real"
  /\ sound' = whole[c]

Promote(c) ==
  /\ modelPc[c] = "promote"
  /\ Keep(c)
  /\ End(c, "run")
  /\ UNCHANGED <<cfg, disk, answer, crossed, starts>>

\* BertEmbedder::embed_batch: one vector for each text, as good as the weights.
Inferred == IF sound THEN "vector" ELSE "nonsense"

\* The vectors: of the model in the state by now, or zeros.
Run(c) ==
  /\ modelPc[c] = "run"
  /\ answer' = [answer EXCEPT ![c] = IF state = "Degraded" THEN "zeros" ELSE Inferred]
  /\ End(c, "ok")
  /\ UNCHANGED <<cfg, mem, disk, crossed, starts>>

\* The tokenizer fails, or the forward pass; a text of more tokens than the model has
\* places for is not cut.
InferenceErrors == {"InvalidInput", "Internal"}

RunFails(c) ==
  /\ modelPc[c] = "run" /\ state = "Real"
  /\ \E kind \in InferenceErrors : Error(c, kind)
  /\ UNCHANGED <<cfg, mem, disk, crossed, starts>>

\* The caller drops the future: the blocking task goes on to its end.
DropModelCall(c) ==
  /\ modelPc[c] \in {"fetch", "read", "load", "promote", "run"}
  /\ ~left[c]
  /\ IF modelPc[c] \in {"promote", "run"} THEN End(c, "gone")
     ELSE left' = [left EXCEPT ![c] = TRUE] /\ UNCHANGED <<modelPc, io, pass, whole>>
  /\ UNCHANGED <<cfg, mem, disk, crossed, answer, starts>>

Crash ==
  /\ state # "down"
  /\ state' = "down" /\ sound' = FALSE
  /\ modelPc' = [c \in ModelCalls |-> IF modelPc[c] \in Ended THEN modelPc[c] ELSE "gone"]
  /\ Forget(ModelCalls)
  /\ UNCHANGED <<cfg, disk, answer, crossed, starts>>

ModelNext ==
  \/ Construct \/ Crash
  \/ \E c \in ModelCalls :
       \/ Unembedded(c) \/ Begin(c) \/ Found(c) \/ NetworkFails(c) \/ Read(c)
       \/ Mismatch(c) \/ Rename(c) \/ LoadFails(c) \/ LoadFile(c) \/ LoadForNobody(c)
       \/ Promote(c)
       \/ Run(c) \/ RunFails(c) \/ DropModelCall(c)

ModelSpec == ModelInit /\ [][ModelNext]_modelVars

-----------------------------------------------------------------------------
Kinds == {"none", "vector", "nonsense", "zeros", "AdapterUnavailable", "ModelUnavailable",
          "InvalidInput", "Internal"}

\* Types of the files, the adapter and the calls.
ModelTypeOK ==
  /\ strategy \in {"Lazy", "Never"} /\ mode \in {"Strict", "Degraded"}
  /\ state \in {"down", "refused", "Unloaded", "Degraded", "Real"}
  /\ sound \in BOOLEAN
  /\ place \in [Names -> Inodes \cup {None}] /\ tmp \in [Names -> Inodes \cup {None}]
  /\ data \in [Inodes -> Contents]
  /\ modelPc \in [ModelCalls -> Ended \cup {"fetch", "read", "load", "promote", "run"}]
  /\ at \in [ModelCalls -> 1..Len(Files)]
  /\ out \in [ModelCalls -> Inodes \cup {None}]
  /\ pos \in [ModelCalls -> 0..Parts]
  /\ intact \in [ModelCalls -> BOOLEAN] /\ whole \in [ModelCalls -> BOOLEAN]
  /\ pass \in [ModelCalls -> 1..2] /\ left \in [ModelCalls -> BOOLEAN]
  /\ crossed \in BOOLEAN
  /\ answer \in [ModelCalls -> Kinds]
  /\ starts \in 0..MaxStarts

\* A file at its place is whole, whatever the network damages, wherever a download
\* breaks off or the process dies, as long as no download opens the temporary file
\* that another is writing (download.rs fetch_and_verify).
PlacedIsWhole == ~crossed => \A f \in Names : place[f] # None => data[place[f]] = Good

\* With the same proviso a call that returns vectors got them from the model and not
\* from what is left of one (adapter.rs ensure_loaded, embed; download.rs: the courier
\* refuses to hand the box to the kitchen).
NoNonsense == ~crossed => \A c \in ModelCalls : answer[c] # "nonsense"

\* Both, on the way from the network to the vectors.
AnswersSound == PlacedIsWhole /\ NoNonsense

=============================================================================
