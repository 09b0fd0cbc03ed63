-------------------------- MODULE EmbeddingProofs ---------------------------
(***************************************************************************)
(* Proofs about the embedding adapters: LocalModel, for any number of      *)
(* calls, files and pieces, and OllamaClient, for any number of calls and  *)
(* texts.                                                                  *)
(***************************************************************************)
EXTENDS LocalModel, OllamaClient, FiniteSetTheorems, FunctionTheorems, TLAPS

\* A call stands at one of the files.
LEMMA FilesNamed ==
  /\ Len(Files) \in Nat \ {0} /\ DOMAIN Files = 1..Len(Files)
  /\ \A i \in 1..Len(Files) : Files[i] \in Names
  BY ModelAssumption DEF Names

\* The call at c is over, the others go on.
LEMMA EndEffect ==
  ASSUME ModelTypeOK, NEW c \in ModelCalls, NEW next, End(c, next)
  PROVE  /\ modelPc' = [modelPc EXCEPT ![c] = next]
         /\ at' = [at EXCEPT ![c] = 1] /\ out' = [out EXCEPT ![c] = None]
         /\ pos' = [pos EXCEPT ![c] = 0] /\ intact' = [intact EXCEPT ![c] = TRUE]
         /\ pass' = [pass EXCEPT ![c] = 1] /\ whole' = [whole EXCEPT ![c] = TRUE]
         /\ left' = [left EXCEPT ![c] = FALSE]
<1>1. \A d \in ModelCalls : (d \in {c}) <=> (d = c)
  OBVIOUS
<1>2. modelPc' = [modelPc EXCEPT ![c] = next]
  BY DEF End, ModelGoto
<1>3. at' = [at EXCEPT ![c] = 1] /\ out' = [out EXCEPT ![c] = None]
  BY DEF End, Forget, ModelTypeOK
<1>4. pos' = [pos EXCEPT ![c] = 0] /\ pass' = [pass EXCEPT ![c] = 1]
  BY DEF End, Forget, ModelTypeOK
<1>5. intact' = [intact EXCEPT ![c] = TRUE] /\ whole' = [whole EXCEPT ![c] = TRUE]
  BY DEF End, Forget, ModelTypeOK
<1>6. left' = [left EXCEPT ![c] = FALSE]
  BY DEF End, Forget, ModelTypeOK
<1> QED BY <1>2, <1>3, <1>4, <1>5, <1>6

LEMMA ModelInitType == ASSUME ModelInit PROVE ModelTypeOK
<1>1. /\ strategy \in {"Lazy", "Never"} /\ mode \in {"Strict", "Degraded"}
      /\ state = "down" /\ sound \in BOOLEAN /\ crossed \in BOOLEAN
      /\ starts \in 0..MaxStarts
  <2>1. MaxStarts \in Nat
    BY ModelAssumption
  <2>2. /\ strategy \in {"Lazy", "Never"} /\ mode \in {"Strict", "Degraded"}
        /\ state = "down" /\ sound = FALSE /\ crossed = FALSE /\ starts = 0
    BY Zenon DEF ModelInit
  <2>3. starts \in 0..MaxStarts
    BY <2>1, <2>2
  <2> QED BY <2>2, <2>3, Zenon
<1>2. /\ place \in [Names -> Inodes \cup {None}] /\ tmp \in [Names -> Inodes \cup {None}]
  BY DEF ModelInit, Inodes
<1>3. data \in [Inodes -> Contents]
  BY DEF ModelInit, Contents, Good, Empty
<1>4. /\ modelPc \in [ModelCalls -> Ended \cup {"fetch", "read", "load", "promote", "run"}]
      /\ at \in [ModelCalls -> 1..Len(Files)]
      /\ out \in [ModelCalls -> Inodes \cup {None}]
      /\ pos \in [ModelCalls -> 0..Parts]
  BY ModelAssumption, FilesNamed DEF ModelInit, Ended
<1>5. /\ intact \in [ModelCalls -> BOOLEAN] /\ whole \in [ModelCalls -> BOOLEAN]
      /\ pass \in [ModelCalls -> 1..2] /\ left \in [ModelCalls -> BOOLEAN]
      /\ answer \in [ModelCalls -> Kinds]
  BY DEF ModelInit, Kinds
<1> QED BY <1>1, <1>2, <1>3, <1>4, <1>5 DEF ModelTypeOK

LEMMA ModelNextType ==
  ASSUME ModelTypeOK, [ModelNext]_modelVars
  PROVE  ModelTypeOK'
<1> USE FilesNamed
<1>1. CASE Construct
  <2>1. Decide \in {"Unloaded", "refused", "Degraded"}
    BY DEF Decide
  <2>2. starts' \in 0..MaxStarts
    BY ModelAssumption, <1>1 DEF Construct, ModelTypeOK
  <2> QED BY <1>1, <2>1, <2>2
          DEF Construct, cfg, disk, io, load, ModelTypeOK
<1>2. CASE Crash
  <2>1. UNCHANGED <<cfg, disk, answer, crossed, starts>> /\ state' = "down" /\ sound' = FALSE
    BY <1>2 DEF Crash
  <2>2. modelPc' \in [ModelCalls -> Ended \cup {"fetch", "read", "load", "promote", "run"}]
    BY <1>2 DEF Crash, ModelTypeOK, Ended
  <2>3. /\ at' \in [ModelCalls -> 1..Len(Files)] /\ out' \in [ModelCalls -> Inodes \cup {None}]
        /\ pos' \in [ModelCalls -> 0..Parts] /\ intact' \in [ModelCalls -> BOOLEAN]
    BY ModelAssumption, <1>2 DEF Crash, Forget, ModelTypeOK
  <2>4. /\ whole' \in [ModelCalls -> BOOLEAN]
        /\ pass' \in [ModelCalls -> 1..2] /\ left' \in [ModelCalls -> BOOLEAN]
    BY <1>2 DEF Crash, Forget, ModelTypeOK
  <2> QED BY <2>1, <2>2, <2>3, <2>4 DEF cfg, disk, ModelTypeOK
<1>3. CASE UNCHANGED modelVars
  BY <1>3 DEF modelVars, cfg, mem, disk, io, load, ModelTypeOK
<1>4. ASSUME NEW c \in ModelCalls, NEW next \in {"ok", "err", "gone", "run"}, End(c, next)
      PROVE  /\ modelPc' \in [ModelCalls ->
                                 Ended \cup {"fetch", "read", "load", "promote", "run"}]
             /\ at' \in [ModelCalls -> 1..Len(Files)]
             /\ out' \in [ModelCalls -> Inodes \cup {None}]
             /\ pos' \in [ModelCalls -> 0..Parts] /\ intact' \in [ModelCalls -> BOOLEAN]
             /\ whole' \in [ModelCalls -> BOOLEAN]
             /\ pass' \in [ModelCalls -> 1..2] /\ left' \in [ModelCalls -> BOOLEAN]
  <2>1. /\ modelPc' = [modelPc EXCEPT ![c] = next]
        /\ at' = [at EXCEPT ![c] = 1] /\ out' = [out EXCEPT ![c] = None]
        /\ pos' = [pos EXCEPT ![c] = 0] /\ intact' = [intact EXCEPT ![c] = TRUE]
        /\ pass' = [pass EXCEPT ![c] = 1] /\ whole' = [whole EXCEPT ![c] = TRUE]
        /\ left' = [left EXCEPT ![c] = FALSE]
    BY <1>4, EndEffect, Zenon
  <2>2. modelPc' \in [ModelCalls -> Ended \cup {"fetch", "read", "load", "promote", "run"}]
    BY <2>1 DEF ModelTypeOK, Ended
  <2>3. /\ at' \in [ModelCalls -> 1..Len(Files)] /\ out' \in [ModelCalls -> Inodes \cup {None}]
    BY <2>1 DEF ModelTypeOK
  <2>4. Parts \in Nat
    BY ModelAssumption
  <2>5. pos' \in [ModelCalls -> 0..Parts] /\ pass' \in [ModelCalls -> 1..2]
    BY <2>1, <2>4 DEF ModelTypeOK
  <2>6. /\ intact' \in [ModelCalls -> BOOLEAN] /\ whole' \in [ModelCalls -> BOOLEAN]
        /\ left' \in [ModelCalls -> BOOLEAN]
    BY <2>1 DEF ModelTypeOK
  <2> QED BY <2>2, <2>3, <2>5, <2>6
<1>5. ASSUME NEW c \in ModelCalls,
             Unembedded(c) \/ NetworkFails(c) \/ LoadFails(c) \/ Run(c) \/ RunFails(c)
      PROVE  ModelTypeOK'
  <2>1. UNCHANGED <<cfg, mem, disk, crossed, starts>>
    BY <1>5 DEF Unembedded, NetworkFails, LoadFails, Run, RunFails
  <2>2. End(c, "ok") \/ End(c, "err")
    BY <1>5 DEF Unembedded, NetworkFails, LoadFails, Run, RunFails, Error
  <2>3. answer' \in [ModelCalls -> Kinds]
    BY <1>5 DEF Unembedded, NetworkFails, LoadFails, Run, RunFails, Error, ModelTypeOK, Kinds,
               Inferred, InferenceErrors
  <2> QED BY <1>4, <2>1, <2>2, <2>3 DEF cfg, mem, disk, ModelTypeOK
<1>6. ASSUME NEW c \in ModelCalls, Begin(c)
      PROVE  ModelTypeOK'
  BY <1>6 DEF Begin, ModelGoto, cfg, mem, disk, io, load, ModelTypeOK
<1>7. ASSUME NEW c \in ModelCalls, Found(c)
      PROVE  ModelTypeOK'
  <2>1. File(c) \in Names
    BY DEF File, ModelTypeOK
  <2>2. <<c, File(c)>> \in Inodes
    BY <2>1 DEF Inodes
  <2>3. PICK i \in Inodes : /\ tmp' = [tmp EXCEPT ![File(c)] = i]
                            /\ data' = [data EXCEPT ![i] = Empty]
                            /\ out' = [out EXCEPT ![c] = i]
    <3>1. CASE tmp[File(c)] = None
      BY <1>7, <2>2, <3>1 DEF Found, Create
    <3>2. CASE tmp[File(c)] # None
      <4>1. tmp[File(c)] \in Inodes
        BY <2>1, <3>2 DEF ModelTypeOK
      <4> QED BY <1>7, <3>2, <4>1 DEF Found, Create
    <3> QED BY <3>1, <3>2
  <2>4. Empty \in Contents
    BY DEF Empty, Contents
  <2>5. tmp' \in [Names -> Inodes \cup {None}] /\ data' \in [Inodes -> Contents]
        /\ out' \in [ModelCalls -> Inodes \cup {None}]
    BY <2>3, <2>4 DEF ModelTypeOK
  <2>6. /\ modelPc' = [modelPc EXCEPT ![c] = "read"] /\ pos' = [pos EXCEPT ![c] = 0]
        /\ intact' = [intact EXCEPT ![c] = TRUE] /\ crossed' \in BOOLEAN
        /\ UNCHANGED <<cfg, mem, place, at, load, answer, starts>>
    BY <1>7 DEF Found, Create, ModelGoto, ModelTypeOK
  <2> QED BY ModelAssumption, <2>5, <2>6 DEF cfg, mem, load, ModelTypeOK
<1>8. ASSUME NEW c \in ModelCalls, Read(c)
      PROVE  ModelTypeOK'
  <2>1. /\ pos' = [pos EXCEPT ![c] = @ + 1] /\ pos[c] < Parts
        /\ UNCHANGED <<cfg, mem, place, tmp, modelPc, at, out, load, answer, crossed, starts>>
    BY <1>8 DEF Read
  <2>2. PICK q \in {"good", "bad"} :
          /\ data' = [data EXCEPT ![out[c]][pos[c] + 1] = q]
          /\ intact' = [intact EXCEPT ![c] = @ /\ q = "good"]
    BY <1>8 DEF Read
  <2>3. pos[c] + 1 \in 1..Parts /\ pos' \in [ModelCalls -> 0..Parts]
    BY ModelAssumption, <2>1 DEF ModelTypeOK
  <2>4. data' \in [Inodes -> Contents]
    BY <2>2, <2>3 DEF ModelTypeOK, Contents
  <2>5. intact' \in [ModelCalls -> BOOLEAN]
    BY <2>2 DEF ModelTypeOK
  <2> QED BY <2>1, <2>3, <2>4, <2>5 DEF cfg, mem, load, ModelTypeOK
<1>9. ASSUME NEW c \in ModelCalls, Mismatch(c)
      PROVE  ModelTypeOK'
  <2>1. /\ tmp' = [tmp EXCEPT ![File(c)] = None] /\ End(c, "err")
        /\ answer' = [answer EXCEPT ![c] = "ModelUnavailable"]
        /\ UNCHANGED <<cfg, mem, place, data, crossed, starts>>
    BY <1>9 DEF Mismatch, Error
  <2> QED BY <1>4, <2>1 DEF cfg, mem, ModelTypeOK, Kinds
<1>10. ASSUME NEW c \in ModelCalls, Rename(c)
       PROVE  ModelTypeOK'
  <2>1. File(c) \in Names /\ UNCHANGED <<cfg, mem, data, crossed, starts>>
    BY <1>10 DEF Rename, File, ModelTypeOK
  <2>2. CASE tmp[File(c)] # None
    <3>1. /\ place' = [place EXCEPT ![File(c)] = tmp[File(c)]]
          /\ tmp' = [tmp EXCEPT ![File(c)] = None]
          /\ NextFile(c)
          /\ UNCHANGED <<out, pos, intact, load, answer>>
      BY <1>10, <2>2 DEF Rename
    <3>2. place' \in [Names -> Inodes \cup {None}] /\ tmp' \in [Names -> Inodes \cup {None}]
      BY <2>1, <3>1 DEF ModelTypeOK
    <3>3. /\ modelPc' \in [ModelCalls -> Ended \cup {"fetch", "read", "load", "promote", "run"}]
          /\ at' \in [ModelCalls -> 1..Len(Files)]
      <4>1. CASE at[c] < Len(Files)
        <5>1. at[c] + 1 \in 1..Len(Files)
          BY <4>1 DEF ModelTypeOK
        <5>2. at' = [at EXCEPT ![c] = @ + 1] /\ modelPc' = [modelPc EXCEPT ![c] = "fetch"]
          BY <3>1, <4>1 DEF NextFile, ModelGoto
        <5> QED BY <5>1, <5>2 DEF ModelTypeOK
      <4>2. CASE ~(at[c] < Len(Files))
        <5>1. at' = [at EXCEPT ![c] = 1] /\ modelPc' = [modelPc EXCEPT ![c] = "load"]
          BY <3>1, <4>2 DEF NextFile, ModelGoto
        <5> QED BY <5>1 DEF ModelTypeOK
      <4> QED BY <4>1, <4>2
    <3> QED BY <2>1, <3>1, <3>2, <3>3 DEF cfg, mem, load, ModelTypeOK
  <2>3. CASE tmp[File(c)] = None
    <3>1. /\ End(c, "err") /\ answer' = [answer EXCEPT ![c] = "AdapterUnavailable"]
          /\ UNCHANGED <<place, tmp>>
      BY <1>10, <2>3 DEF Rename, Error
    <3> QED BY <1>4, <2>1, <3>1 DEF cfg, mem, ModelTypeOK, Kinds
  <2> QED BY <2>2, <2>3
<1>11. ASSUME NEW c \in ModelCalls, LoadFile(c)
       PROVE  ModelTypeOK'
  <2>1. UNCHANGED <<cfg, mem, disk, out, pos, intact, left, answer, crossed, starts>>
    BY <1>11 DEF LoadFile
  <2>2. whole' \in [ModelCalls -> BOOLEAN]
    BY <1>11 DEF LoadFile, ModelTypeOK
  <2>3. /\ modelPc' \in [ModelCalls -> Ended \cup {"fetch", "read", "load", "promote", "run"}]
        /\ at' \in [ModelCalls -> 1..Len(Files)] /\ pass' \in [ModelCalls -> 1..2]
    <3>1. CASE at[c] < Len(Files)
      <4>1. at[c] + 1 \in 1..Len(Files)
        BY <3>1 DEF ModelTypeOK
      <4>2. at' = [at EXCEPT ![c] = @ + 1] /\ UNCHANGED <<modelPc, pass>>
        BY <1>11, <3>1 DEF LoadFile
      <4> QED BY <4>1, <4>2 DEF ModelTypeOK
    <3>2. CASE ~(at[c] < Len(Files))
      <4>1. at' = [at EXCEPT ![c] = 1]
        BY <1>11, <3>2 DEF LoadFile
      <4>2. \/ pass' = [pass EXCEPT ![c] = 2] /\ UNCHANGED modelPc
            \/ modelPc' = [modelPc EXCEPT ![c] = "promote"] /\ UNCHANGED pass
        BY <1>11, <3>2 DEF LoadFile, ModelGoto
      <4>3. modelPc' \in [ModelCalls -> Ended \cup {"fetch", "read", "load", "promote", "run"}]
        <5>1. modelPc \in [ModelCalls -> Ended \cup {"fetch", "read", "load", "promote", "run"}]
          BY DEF ModelTypeOK
        <5>2. CASE UNCHANGED modelPc
          BY <5>1, <5>2
        <5>3. CASE modelPc' = [modelPc EXCEPT ![c] = "promote"]
          BY <5>1, <5>3
        <5> QED BY <4>2, <5>2, <5>3
      <4>4. pass \in [ModelCalls -> 1..2] /\ 2 \in 1..2
        BY DEF ModelTypeOK
      <4>5. pass' \in [ModelCalls -> 1..2]
        <5>1. CASE UNCHANGED pass
          BY <4>4, <5>1
        <5>2. CASE pass' = [pass EXCEPT ![c] = 2]
          BY <4>4, <5>2
        <5> QED BY <4>2, <5>1, <5>2
      <4>6. at' \in [ModelCalls -> 1..Len(Files)]
        BY <4>1 DEF ModelTypeOK
      <4> QED BY <4>3, <4>5, <4>6
    <3> QED BY <3>1, <3>2
  <2> QED BY <2>1, <2>2, <2>3 DEF cfg, mem, disk, ModelTypeOK
<1>12. ASSUME NEW c \in ModelCalls, LoadForNobody(c) \/ Promote(c) \/ DropModelCall(c)
       PROVE  ModelTypeOK'
  <2>1. UNCHANGED <<cfg, disk, answer, crossed, starts>>
    BY <1>12 DEF LoadForNobody, Promote, DropModelCall
  <2>2. state' \in {"down", "refused", "Unloaded", "Degraded", "Real"} /\ sound' \in BOOLEAN
    BY <1>12 DEF LoadForNobody, Promote, Keep, DropModelCall, mem, ModelTypeOK
  <2>3. CASE End(c, "gone") \/ End(c, "run")
    BY <1>4, <2>1, <2>2, <2>3 DEF cfg, disk, ModelTypeOK
  <2>4. CASE left' = [left EXCEPT ![c] = TRUE] /\ UNCHANGED <<modelPc, io, pass, whole>>
    BY <2>1, <2>2, <2>4 DEF cfg, disk, io, ModelTypeOK
  <2> QED BY <1>12, <2>3, <2>4 DEF LoadForNobody, Promote, DropModelCall
<1> QED BY <1>1, <1>2, <1>3, <1>5, <1>6, <1>7, <1>8, <1>9, <1>10, <1>11, <1>12 DEF ModelNext

\* Types of the files, the adapter and the calls.
THEOREM ModelTypeCorrect == ModelSpec => []ModelTypeOK
<1>1. ModelInit => ModelTypeOK
  BY ModelInitType
<1>2. ModelTypeOK /\ [ModelNext]_modelVars => ModelTypeOK'
  BY ModelNextType
<1> QED BY <1>1, <1>2, PTL DEF ModelSpec
-----------------------------------------------------------------------------
(***************************************************************************)
(* Why a file at its place is whole.  An inode carries the name of its     *)
(* file; a call makes each of its inodes once (NotYetMade); what is a      *)
(* temporary file is at no place; and unless downloads crossed each writer *)
(* is alone with the inode that its temporary file names, which holds the  *)
(* pieces it has hashed (Writes).                                          *)
(***************************************************************************)
OfItsName ==
  \A f \in Names : /\ place[f] # None => place[f][2] = f
                   /\ tmp[f] # None => tmp[f][2] = f

Unused(i) ==
  /\ \A f \in Names : place[f] # i /\ tmp[f] # i
  /\ \A d \in ModelCalls : out[d] # i

Ahead(c, j) ==
  \/ modelPc[c] = "idle"
  \/ modelPc[c] = "fetch" /\ at[c] <= j
  \/ modelPc[c] = "read" /\ at[c] < j

NotYetMade ==
  \A c \in ModelCalls, j \in 1..Len(Files) : Ahead(c, j) => Unused(<<c, Files[j]>>)

Apart == \A f, g \in Names : tmp[f] # None => place[g] # tmp[f]

NamesInv ==
  /\ OfItsName /\ NotYetMade /\ Apart
  /\ \A c \in ModelCalls : modelPc[c] = "idle" => at[c] = 1

Writes(c) ==
  modelPc[c] = "read" =>
         /\ out[c] # None /\ tmp[File(c)] = out[c]
         /\ intact[c] => \A p \in 1..pos[c] : data[out[c]][p] = "good"

Alone ==
  \A c, d \in ModelCalls :
    modelPc[c] = "read" /\ modelPc[d] = "read" /\ c # d => out[c] # out[d]

FilesInv == ~crossed => (\A c \in ModelCalls : Writes(c)) /\ Alone /\ PlacedIsWhole

(* What is loaded from whole files is sound: the files stay where they are *)
(* once all are there, and the state is Real by a Promote alone.           *)
LoadsInv ==
  /\ \A c \in ModelCalls :
       /\ modelPc[c] = "load" /\ at[c] > 1 => AllThere
       /\ modelPc[c] = "run" => state \in {"Degraded", "Real"}
       /\ state = "down" => modelPc[c] \in Ended
  /\ ~crossed =>
       /\ state = "Real" => sound
       /\ \A c \in ModelCalls : whole[c] /\ answer[c] # "nonsense"

ModelInv == ModelTypeOK /\ NamesInv /\ FilesInv /\ LoadsInv
-----------------------------------------------------------------------------
\* Steps that touch no file: a call keeps what it writes, or forgets all of it.
Quiet ==
  /\ UNCHANGED <<place, tmp, data, crossed>>
  /\ \A d \in ModelCalls :
       /\ out'[d] \in {out[d], None}
       /\ modelPc'[d] = "idle" => modelPc[d] = "idle" /\ at'[d] \in {1, at[d]}
       /\ modelPc'[d] = "fetch" => modelPc[d] = "idle" \/ (modelPc[d] = "fetch" /\ at'[d] = at[d])
       /\ modelPc'[d] = "read" => /\ modelPc[d] = "read" /\ at'[d] = at[d] /\ out'[d] = out[d]
                                  /\ pos'[d] = pos[d] /\ intact'[d] = intact[d]

Touching(c) == Found(c) \/ Read(c) \/ Mismatch(c) \/ Rename(c)

LEMMA QuietSteps ==
  ASSUME ModelTypeOK, [ModelNext]_modelVars, \A c \in ModelCalls : ~Touching(c)
  PROVE  Quiet
<1>1. CASE UNCHANGED modelVars
  BY <1>1 DEF modelVars, disk, io, Quiet
<1>2. CASE Construct
  BY <1>2 DEF Construct, disk, io, Quiet
<1>3. CASE Crash
  <2>1. UNCHANGED <<place, tmp, data, crossed>>
    BY <1>3 DEF Crash, disk
  <2>2. ASSUME NEW d \in ModelCalls
        PROVE  /\ out'[d] = None
               /\ modelPc'[d] = "idle" => modelPc[d] = "idle" /\ at'[d] = 1
               /\ modelPc'[d] \in Ended
    BY <1>3 DEF Crash, Forget, Ended, ModelTypeOK
  <2> QED BY <2>1, <2>2 DEF Quiet, Ended
<1>4. ASSUME NEW c \in ModelCalls, NEW next \in {"ok", "err", "gone", "run"}, End(c, next),
             UNCHANGED <<place, tmp, data, crossed>>
      PROVE  Quiet
  <2>1. /\ modelPc' = [modelPc EXCEPT ![c] = next] /\ at' = [at EXCEPT ![c] = 1]
        /\ out' = [out EXCEPT ![c] = None] /\ pos' = [pos EXCEPT ![c] = 0]
        /\ intact' = [intact EXCEPT ![c] = TRUE]
    BY <1>4, EndEffect, Zenon
  <2> QED BY <1>4, <2>1 DEF Quiet, ModelTypeOK
<1>5. ASSUME NEW c \in ModelCalls,
             Unembedded(c) \/ NetworkFails(c) \/ LoadFails(c) \/ LoadForNobody(c)
               \/ Promote(c) \/ Run(c) \/ RunFails(c)
      PROVE  Quiet
  <2>1. UNCHANGED <<place, tmp, data, crossed>>
    BY <1>5 DEF Unembedded, NetworkFails, LoadFails, LoadForNobody, Promote, Run, RunFails,
               disk
  <2>2. \E next \in {"ok", "err", "gone", "run"} : End(c, next)
    BY <1>5 DEF Unembedded, NetworkFails, LoadFails, LoadForNobody, Promote, Run, RunFails,
               Error
  <2> QED BY <1>4, <2>1, <2>2
<1>6. ASSUME NEW c \in ModelCalls, Begin(c)
      PROVE  Quiet
  BY <1>6 DEF Begin, ModelGoto, disk, io, Quiet, ModelTypeOK
<1>7. ASSUME NEW c \in ModelCalls, LoadFile(c)
      PROVE  Quiet
  <2>1. /\ UNCHANGED <<place, tmp, data, out, pos, intact, crossed>> /\ modelPc[c] = "load"
        /\ \A d \in ModelCalls \ {c} : at'[d] = at[d] /\ modelPc'[d] = modelPc[d]
        /\ modelPc'[c] \in {"load", "promote"}
    BY <1>7 DEF LoadFile, ModelGoto, disk, ModelTypeOK
  <2> QED BY <2>1 DEF Quiet
<1>8. ASSUME NEW c \in ModelCalls, DropModelCall(c)
      PROVE  Quiet
  <2>1. UNCHANGED <<place, tmp, data, crossed>>
    BY <1>8 DEF DropModelCall, disk
  <2>2. End(c, "gone") \/ UNCHANGED <<modelPc, io>>
    BY <1>8 DEF DropModelCall
  <2>3. CASE UNCHANGED <<modelPc, io>>
    BY <2>1, <2>3 DEF io, Quiet
  <2> QED BY <1>4, <2>1, <2>2, <2>3
<1> QED BY <1>1, <1>2, <1>3, <1>5, <1>6, <1>7, <1>8 DEF ModelNext, Touching

\* ... leave the names of the inodes as they are.
LEMMA QuietNames ==
  ASSUME ModelTypeOK, NamesInv, Quiet
  PROVE  NamesInv'
<1>1. OfItsName' /\ Apart'
  BY DEF Quiet, NamesInv, OfItsName, Apart
<1>2. \A c \in ModelCalls : modelPc'[c] = "idle" => at'[c] = 1
  BY DEF Quiet, NamesInv
<1>3. NotYetMade'
  <2> SUFFICES ASSUME NEW c \in ModelCalls, NEW j \in 1..Len(Files), Ahead(c, j)'
               PROVE  Unused(<<c, Files[j]>>)'
    BY DEF NotYetMade
  <2>1. Ahead(c, j)
    BY DEF Ahead, Quiet
  <2>2. Unused(<<c, Files[j]>>)
    BY <2>1 DEF NamesInv, NotYetMade
  <2>3. <<c, Files[j]>> # None
    BY ModelAssumption, FilesNamed DEF Inodes
  <2> QED BY <2>2, <2>3 DEF Unused, Quiet
<1> QED BY <1>1, <1>2, <1>3 DEF NamesInv

\* ... and what they hold.
LEMMA QuietFiles ==
  ASSUME ModelTypeOK, FilesInv, Quiet
  PROVE  FilesInv'
<1> SUFFICES ASSUME ~crossed'
             PROVE  (\A c \in ModelCalls : Writes(c)') /\ Alone' /\ PlacedIsWhole'
  BY DEF FilesInv
<1>1. ~crossed
  BY DEF Quiet
<1>2. PlacedIsWhole'
  BY <1>1 DEF FilesInv, PlacedIsWhole, Quiet
<1>3. Alone'
  BY <1>1 DEF FilesInv, Alone, Quiet
<1>4. ASSUME NEW c \in ModelCalls PROVE Writes(c)'
  <2> SUFFICES ASSUME modelPc'[c] = "read"
               PROVE  /\ out'[c] # None /\ tmp'[File(c)'] = out'[c]
                      /\ intact'[c] => \A p \in 1..pos'[c] : data'[out'[c]][p] = "good"
    BY DEF Writes
  <2>1. /\ modelPc[c] = "read" /\ out'[c] = out[c]
        /\ pos'[c] = pos[c] /\ intact'[c] = intact[c]
        /\ tmp' = tmp /\ data' = data /\ File(c)' = File(c)
    BY DEF Quiet, File
  <2>2. Writes(c)
    BY <1>1 DEF FilesInv
  <2> QED BY <2>1, <2>2 DEF Writes
<1> QED BY <1>2, <1>3, <1>4

-----------------------------------------------------------------------------
\* The temporary file a download opens: the one that is there, or one of its own
\* that nothing knows yet.  Nobody is writing it, or downloads cross.
LEMMA FoundEffect ==
  ASSUME ModelTypeOK, NamesInv, NEW c \in ModelCalls, Found(c)
  PROVE  \E i \in Inodes :
           /\ tmp' = [tmp EXCEPT ![File(c)] = i] /\ data' = [data EXCEPT ![i] = Empty]
           /\ out' = [out EXCEPT ![c] = i]
           /\ i[2] = File(c)
           /\ \A f \in Names : place[f] # i
           /\ \/ i = tmp[File(c)]
              \/ i = <<c, File(c)>> /\ Unused(i) /\ tmp[File(c)] = None
           /\ ~crossed' =>
                ~crossed /\ \A d \in ModelCalls \ {c} : modelPc[d] = "read" => out[d] # i
<1> USE FilesNamed
<1>1. at[c] \in 1..Len(Files) /\ File(c) = Files[at[c]] /\ File(c) \in Names
  BY DEF File, ModelTypeOK
<1>2. <<c, File(c)>> \in Inodes
  BY <1>1 DEF Inodes
<1>3. CASE tmp[File(c)] = None
  <2>1. Unused(<<c, File(c)>>)
    BY <1>1 DEF Found, NamesInv, NotYetMade, Ahead
  <2>2. /\ tmp' = [tmp EXCEPT ![File(c)] = <<c, File(c)>>]
        /\ data' = [data EXCEPT ![<<c, File(c)>>] = Empty]
        /\ out' = [out EXCEPT ![c] = <<c, File(c)>>]
        /\ ~crossed' => ~crossed
    BY <1>3 DEF Found, Create
  <2> WITNESS <<c, File(c)>> \in Inodes
  <2> QED BY <1>3, <2>1, <2>2 DEF Unused
<1>4. CASE tmp[File(c)] # None
  <2>1. tmp[File(c)] \in Inodes /\ tmp[File(c)][2] = File(c)
    BY <1>1, <1>4 DEF ModelTypeOK, NamesInv, OfItsName
  <2>2. \A f \in Names : place[f] # tmp[File(c)]
    BY <1>1, <1>4 DEF NamesInv, Apart
  <2>3. /\ tmp' = [tmp EXCEPT ![File(c)] = tmp[File(c)]]
        /\ data' = [data EXCEPT ![tmp[File(c)]] = Empty]
        /\ out' = [out EXCEPT ![c] = tmp[File(c)]]
        /\ ~crossed' =>
             ~crossed /\ \A d \in ModelCalls \ {c} : modelPc[d] = "read" => out[d] # tmp[File(c)]
    BY <1>4 DEF Found, Create
  <2> USE <2>1
  <2> WITNESS tmp[File(c)] \in Inodes
  <2> QED BY <2>2, <2>3
<1> QED BY <1>3, <1>4

LEMMA FoundKeeps ==
  ASSUME ModelTypeOK, NamesInv, FilesInv, NEW c \in ModelCalls, Found(c)
  PROVE  NamesInv' /\ FilesInv'
<1> USE FilesNamed
<1>1. PICK i \in Inodes :
           /\ tmp' = [tmp EXCEPT ![File(c)] = i] /\ data' = [data EXCEPT ![i] = Empty]
           /\ out' = [out EXCEPT ![c] = i]
           /\ i[2] = File(c)
           /\ \A f \in Names : place[f] # i
           /\ \/ i = tmp[File(c)]
              \/ i = <<c, File(c)>> /\ Unused(i) /\ tmp[File(c)] = None
           /\ ~crossed' =>
                ~crossed /\ \A d \in ModelCalls \ {c} : modelPc[d] = "read" => out[d] # i
  BY FoundEffect
<1>2. /\ modelPc[c] = "fetch" /\ modelPc' = [modelPc EXCEPT ![c] = "read"]
      /\ pos' = [pos EXCEPT ![c] = 0] /\ UNCHANGED <<place, at>>
  BY DEF Found, Create, ModelGoto
<1>3. File(c) \in Names /\ File(c) = Files[at[c]] /\ at[c] \in 1..Len(Files)
  BY DEF File, ModelTypeOK
<1>4. i # None
  BY ModelAssumption
<1>5. tmp'[File(c)] = i /\ \A f \in Names \ {File(c)} : tmp'[f] = tmp[f]
  BY <1>1, <1>3 DEF ModelTypeOK
<1>6. OfItsName'
  BY <1>1, <1>2, <1>5 DEF NamesInv, OfItsName
<1>7. Apart'
  BY <1>1, <1>2, <1>5 DEF NamesInv, Apart
<1>8. \A d \in ModelCalls : modelPc'[d] = "idle" => at'[d] = 1
  BY <1>2 DEF NamesInv, ModelTypeOK
<1>9. NotYetMade'
  <2> SUFFICES ASSUME NEW d \in ModelCalls, NEW j \in 1..Len(Files), Ahead(d, j)'
               PROVE  Unused(<<d, Files[j]>>)'
    BY DEF NotYetMade
  <2>1. Ahead(d, j) /\ (d = c => at[c] < j)
    BY <1>2 DEF Ahead, ModelTypeOK
  <2>2. Unused(<<d, Files[j]>>)
    BY <2>1 DEF NamesInv, NotYetMade
  <2>3. <<d, Files[j]>> # i
    <3>1. CASE i = tmp[File(c)]
      BY <2>2, <3>1, <1>3 DEF Unused
    <3>2. CASE i = <<c, File(c)>>
      <4>1. d = c => Files[j] # File(c)
        BY ModelAssumption, <2>1, <1>3
      <4> QED BY <4>1, <3>2
    <3> QED BY <1>1, <3>1, <3>2
  <2>4. \A e \in ModelCalls : out'[e] \in {out[e], i}
    BY <1>1 DEF ModelTypeOK
  <2> QED BY <2>2, <2>3, <2>4, <1>2, <1>5 DEF Unused
<1>10. FilesInv'
  <2> SUFFICES ASSUME ~crossed'
               PROVE  (\A d \in ModelCalls : Writes(d)') /\ Alone' /\ PlacedIsWhole'
    BY DEF FilesInv
  <2>1. ~crossed /\ \A d \in ModelCalls \ {c} : modelPc[d] = "read" => out[d] # i
    BY <1>1
  <2>2. /\ out'[c] = i /\ modelPc'[c] = "read" /\ pos'[c] = 0
        /\ \A d \in ModelCalls \ {c} : out'[d] = out[d] /\ modelPc'[d] = modelPc[d]
    BY <1>1, <1>2 DEF ModelTypeOK
  <2>3. \A k \in Inodes \ {i} : data'[k] = data[k]
    BY <1>1 DEF ModelTypeOK
  <2>4. Alone'
    BY <2>1, <2>2 DEF FilesInv, Alone
  <2>5. PlacedIsWhole'
    BY <1>1, <1>2, <2>1, <2>3 DEF FilesInv, PlacedIsWhole, ModelTypeOK
  <2>6. Writes(c)'
    <3>1. File(c)' = File(c)
      BY <1>2 DEF File
    <3> QED BY <1>4, <1>5, <2>2, <3>1 DEF Writes
  <2>7. ASSUME NEW d \in ModelCalls \ {c} PROVE Writes(d)'
    <3> SUFFICES ASSUME modelPc[d] = "read"
                 PROVE  /\ out[d] # None /\ tmp'[File(d)] = out[d]
                        /\ intact[d] => \A p \in 1..pos[d] : data'[out[d]][p] = "good"
      <4>1. /\ File(d)' = File(d) /\ intact'[d] = intact[d] /\ pos'[d] = pos[d]
            /\ out'[d] = out[d] /\ modelPc'[d] = modelPc[d]
        BY <1>2, <2>2 DEF Found, File, ModelTypeOK
      <4> QED BY <4>1 DEF Writes
    <3>1. Writes(d)
      BY <2>1 DEF FilesInv
    <3>2. out[d] # i /\ out[d] \in Inodes
      BY <2>1, <3>1 DEF Writes, ModelTypeOK
    <3>3. File(d) \in Names
      BY DEF File, ModelTypeOK
    <3>4. File(d) # File(c)
      <4> SUFFICES ASSUME File(d) = File(c) PROVE FALSE
        OBVIOUS
      <4>1. tmp[File(c)] = out[d]
        BY <3>1 DEF Writes
      <4> QED BY <1>1, <3>1, <3>2, <4>1 DEF Writes
    <3>5. tmp'[File(d)] = tmp[File(d)]
      BY <1>5, <3>3, <3>4
    <3> QED BY <3>1, <3>2, <3>5, <2>3 DEF Writes
  <2> QED BY <2>4, <2>5, <2>6, <2>7
<1> QED BY <1>6, <1>7, <1>8, <1>9, <1>10 DEF NamesInv

\* Two downloads that did not cross write different files.
LEMMA OthersFile ==
  ASSUME ModelTypeOK, FilesInv, ~crossed, NEW c \in ModelCalls, modelPc[c] = "read",
         NEW d \in ModelCalls \ {c}, modelPc[d] = "read"
  PROVE  File(d) # File(c) /\ out[d] # out[c] /\ out[c] = tmp[File(c)] /\ out[c] # None
  BY DEF FilesInv, Writes, Alone

LEMMA ReadKeeps ==
  ASSUME ModelTypeOK, NamesInv, FilesInv, NEW c \in ModelCalls, Read(c)
  PROVE  NamesInv' /\ FilesInv'
<1>1. /\ modelPc[c] = "read" /\ pos[c] < Parts /\ pos' = [pos EXCEPT ![c] = @ + 1]
      /\ UNCHANGED <<place, tmp, modelPc, at, out, crossed>>
  BY DEF Read
<1>2. NamesInv'
  BY <1>1 DEF NamesInv, OfItsName, NotYetMade, Ahead, Unused, Apart
<1>3. ASSUME ~crossed'
      PROVE  (\A d \in ModelCalls : Writes(d)') /\ Alone' /\ PlacedIsWhole'
  <2>1. ~crossed /\ Alone'
    BY <1>1, <1>3 DEF FilesInv, Alone
  <2>2. PICK q \in {"good", "bad"} :
          /\ data' = [data EXCEPT ![out[c]][pos[c] + 1] = q]
          /\ intact' = [intact EXCEPT ![c] = @ /\ q = "good"]
    BY DEF Read
  <2>3. File(c) \in Names /\ out[c] \in Inodes /\ out[c] = tmp[File(c)] /\ out[c] # None
    BY <2>1, <1>1, FilesNamed DEF FilesInv, Writes, File, ModelTypeOK
  <2>4. \A k \in Inodes \ {out[c]} : data'[k] = data[k]
    BY <2>2 DEF ModelTypeOK
  <2>5. PlacedIsWhole'
    <3>1. \A f \in Names : place[f] # out[c]
      BY <2>3 DEF NamesInv, Apart
    <3>2. \A f \in Names : place[f] # None => place[f] \in Inodes
      BY DEF ModelTypeOK
    <3> QED BY <3>1, <3>2, <2>1, <2>4, <1>1 DEF FilesInv, PlacedIsWhole
  <2>6. Writes(c)'
    <3>1. File(c)' = File(c) /\ out'[c] = out[c] /\ tmp' = tmp
      BY <1>1 DEF File
    <3>2. pos'[c] = pos[c] + 1 /\ intact'[c] = (intact[c] /\ q = "good")
      BY <1>1, <2>2 DEF ModelTypeOK
    <3>3. ASSUME intact'[c], NEW p \in 1..pos'[c]
          PROVE  data'[out'[c]][p] = "good"
      <4>1. intact[c] /\ q = "good"
        BY <3>2, <3>3
      <4>2. pos[c] \in Nat /\ Parts \in Nat
        BY ModelAssumption DEF ModelTypeOK
      <4>3. data[out[c]] \in Contents /\ p \in 1..Parts
        BY <1>1, <2>3, <3>2, <4>2 DEF ModelTypeOK
      <4>4. data'[out[c]] = [data[out[c]] EXCEPT ![pos[c] + 1] = q]
        BY <2>2, <2>3 DEF ModelTypeOK
      <4>5. p # pos[c] + 1 => data[out[c]][p] = "good"
        BY <4>1, <4>2, <3>2, <1>1, <2>1 DEF FilesInv, Writes
      <4>6. p \in DOMAIN data[out[c]]
        BY <4>3 DEF Contents
      <4>7. data'[out[c]][p] = IF p = pos[c] + 1 THEN q ELSE data[out[c]][p]
        BY <4>4, <4>6
      <4> QED BY <3>1, <4>1, <4>5, <4>7
    <3> QED BY <2>3, <3>1, <3>3 DEF Writes
  <2>7. ASSUME NEW d \in ModelCalls \ {c} PROVE Writes(d)'
    <3> SUFFICES ASSUME modelPc'[d] = "read"
                 PROVE  /\ out[d] # None /\ tmp[File(d)] = out[d]
                        /\ intact[d] => \A p \in 1..pos[d] : data'[out[d]][p] = "good"
      <4>1. /\ File(d)' = File(d) /\ intact'[d] = intact[d] /\ pos'[d] = pos[d]
            /\ UNCHANGED <<out, tmp>>
        BY <1>1, <2>2 DEF File, ModelTypeOK
      <4> QED BY <4>1 DEF Writes
    <3>1. Writes(d) /\ modelPc[d] = "read"
      BY <2>1, <1>1 DEF FilesInv
    <3>2. out[d] # out[c] /\ out[d] \in Inodes
      BY <3>1, <2>1, <1>1, OthersFile DEF Writes, ModelTypeOK
    <3> QED BY <3>1, <3>2, <2>4 DEF Writes
  <2> QED BY <2>1, <2>5, <2>6, <2>7
<1> QED BY <1>2, <1>3 DEF FilesInv

LEMMA MismatchKeeps ==
  ASSUME ModelTypeOK, NamesInv, FilesInv, NEW c \in ModelCalls, Mismatch(c)
  PROVE  NamesInv' /\ FilesInv'
<1>1. /\ modelPc[c] = "read" /\ tmp' = [tmp EXCEPT ![File(c)] = None]
      /\ UNCHANGED <<place, data, crossed>>
  BY DEF Mismatch
<1>2. /\ modelPc' = [modelPc EXCEPT ![c] = "err"] /\ at' = [at EXCEPT ![c] = 1]
      /\ out' = [out EXCEPT ![c] = None] /\ pos' = [pos EXCEPT ![c] = 0]
      /\ intact' = [intact EXCEPT ![c] = TRUE]
  BY EndEffect, Zenon DEF Mismatch, Error
<1>3. File(c) \in Names
  BY FilesNamed DEF File, ModelTypeOK
<1>4. \A f \in Names : tmp'[f] = (IF f = File(c) THEN None ELSE tmp[f])
  BY <1>1 DEF ModelTypeOK
<1>5. \A d \in ModelCalls : /\ d # c => /\ modelPc'[d] = modelPc[d] /\ at'[d] = at[d]
                                        /\ out'[d] = out[d]
                                        /\ pos'[d] = pos[d] /\ intact'[d] = intact[d]
                            /\ d = c => modelPc'[d] = "err" /\ at'[d] = 1 /\ out'[d] = None
  BY <1>2 DEF ModelTypeOK
<1>6. OfItsName' /\ Apart'
  BY <1>1, <1>4 DEF NamesInv, OfItsName, Apart
<1>7. \A d \in ModelCalls : modelPc'[d] = "idle" => at'[d] = 1
  BY <1>5 DEF NamesInv
<1>8. NotYetMade'
  <2> SUFFICES ASSUME NEW d \in ModelCalls, NEW j \in 1..Len(Files), Ahead(d, j)'
               PROVE  Unused(<<d, Files[j]>>)'
    BY DEF NotYetMade
  <2>1. Ahead(d, j)
    BY <1>5 DEF Ahead
  <2>2. Unused(<<d, Files[j]>>)
    BY <2>1 DEF NamesInv, NotYetMade
  <2>3. <<d, Files[j]>> # None
    BY ModelAssumption, FilesNamed DEF Inodes
  <2>4. \A e \in ModelCalls : out'[e] = out[e] \/ out'[e] = None
    BY <1>5
  <2>5. \A f \in Names : place'[f] = place[f] /\ (tmp'[f] = tmp[f] \/ tmp'[f] = None)
    BY <1>1, <1>4
  <2>6. ASSUME NEW i, i # None, Unused(i) PROVE Unused(i)'
    BY <2>4, <2>5, <2>6 DEF Unused
  <2> QED BY <2>2, <2>3, <2>6
<1>9. ASSUME ~crossed'
      PROVE  (\A d \in ModelCalls : Writes(d)') /\ Alone' /\ PlacedIsWhole'
  <2>1. ~crossed /\ PlacedIsWhole'
    BY <1>1, <1>9 DEF FilesInv, PlacedIsWhole
  <2>2. Alone'
    BY <1>5, <2>1 DEF FilesInv, Alone
  <2>3. ASSUME NEW d \in ModelCalls PROVE Writes(d)'
    <3> SUFFICES ASSUME modelPc'[d] = "read" PROVE Writes(d)'
      BY DEF Writes
    <3>1. d \in ModelCalls \ {c} /\ modelPc[d] = "read" /\ File(d)' = File(d) /\ Writes(d)
      BY <1>5, <2>1 DEF File, FilesInv
    <3>2. File(d) # File(c) /\ File(d) \in Names
      BY <3>1, <2>1, <1>1, OthersFile, FilesNamed DEF File, ModelTypeOK
    <3> QED BY <3>1, <3>2, <1>1, <1>4, <1>5 DEF Writes
  <2> QED BY <2>1, <2>2, <2>3
<1> QED BY <1>6, <1>7, <1>8, <1>9 DEF NamesInv, FilesInv

\* The rename of what it wrote itself, and verified.
LEMMA RenameKeeps ==
  ASSUME Manifest = TRUE, ModelTypeOK, NamesInv, FilesInv,
         NEW c \in ModelCalls, Rename(c)
  PROVE  NamesInv' /\ FilesInv'
<1>1. /\ modelPc[c] = "read" /\ pos[c] = Parts /\ intact[c] /\ UNCHANGED <<data, crossed>>
  BY DEF Rename, Verified
<1>2. File(c) \in Names /\ File(c) = Files[at[c]] /\ at[c] \in 1..Len(Files)
  BY FilesNamed DEF File, ModelTypeOK
<1>3. CASE tmp[File(c)] = None
  <2>1. /\ modelPc' = [modelPc EXCEPT ![c] = "err"] /\ at' = [at EXCEPT ![c] = 1]
        /\ out' = [out EXCEPT ![c] = None] /\ pos' = [pos EXCEPT ![c] = 0]
        /\ intact' = [intact EXCEPT ![c] = TRUE]
    BY <1>3, EndEffect, Zenon DEF Rename, Error
  <2>2. UNCHANGED <<place, tmp>>
    BY <1>3 DEF Rename
  <2>3. Quiet
    BY <1>1, <2>1, <2>2 DEF Quiet, ModelTypeOK
  <2> QED BY <2>3, QuietNames, QuietFiles
<1>4. CASE tmp[File(c)] # None
  <2>1. /\ place' = [place EXCEPT ![File(c)] = tmp[File(c)]]
        /\ tmp' = [tmp EXCEPT ![File(c)] = None]
        /\ UNCHANGED <<out, pos, intact>>
        /\ NextFile(c)
    BY <1>4 DEF Rename
  <2>2. \A f \in Names :
          /\ place'[f] = (IF f = File(c) THEN tmp[File(c)] ELSE place[f])
          /\ tmp'[f] = (IF f = File(c) THEN None ELSE tmp[f])
    BY <2>1 DEF ModelTypeOK
  <2>3. /\ \A d \in ModelCalls \ {c} : modelPc'[d] = modelPc[d] /\ at'[d] = at[d]
        /\ \/ modelPc'[c] = "fetch" /\ at'[c] = at[c] + 1
           \/ modelPc'[c] = "load"
    BY <2>1 DEF NextFile, ModelGoto, ModelTypeOK
  <2>4. OfItsName'
    BY <1>2, <2>2 DEF NamesInv, OfItsName
  <2>5. Apart'
    <3> SUFFICES ASSUME NEW f \in Names, NEW g \in Names, tmp'[f] # None
                 PROVE  place'[g] # tmp'[f]
      BY DEF Apart
    <3>1. tmp'[f] = tmp[f] /\ f # File(c) /\ tmp[f][2] = f
      BY <2>2 DEF NamesInv, OfItsName
    <3>2. CASE g = File(c)
      BY <1>2, <1>4, <2>2, <3>1, <3>2 DEF NamesInv, OfItsName
    <3>3. CASE g # File(c)
      BY <2>2, <3>1, <3>3 DEF NamesInv, Apart
    <3> QED BY <3>2, <3>3
  <2>6. \A d \in ModelCalls : modelPc'[d] = "idle" => at'[d] = 1
    BY <2>3 DEF NamesInv
  <2>7. NotYetMade'
    <3> SUFFICES ASSUME NEW d \in ModelCalls, NEW j \in 1..Len(Files), Ahead(d, j)'
                 PROVE  Unused(<<d, Files[j]>>)'
      BY DEF NotYetMade
    <3>1. Ahead(d, j)
      BY <1>1, <1>2, <2>3, FilesNamed DEF Ahead
    <3>2. Unused(<<d, Files[j]>>)
      BY <3>1 DEF NamesInv, NotYetMade
    <3>3. <<d, Files[j]>> # None
      BY ModelAssumption, FilesNamed DEF Inodes
    <3>4. ASSUME NEW i, i # None, Unused(i) PROVE Unused(i)'
      BY <1>2, <2>1, <2>2, <3>4 DEF Unused
    <3> QED BY <3>2, <3>3, <3>4
  <2>8. ASSUME ~crossed'
        PROVE  (\A d \in ModelCalls : Writes(d)') /\ Alone' /\ PlacedIsWhole'
    <3>1. ~crossed
      BY <1>1, <2>8
    <3>2. Alone'
      BY <2>1, <2>3, <3>1 DEF FilesInv, Alone
    <3>3. data[tmp[File(c)]] = Good
      <4>1. tmp[File(c)] \in Inodes /\ tmp[File(c)] = out[c]
        BY <1>1, <1>2, <1>4, <3>1 DEF FilesInv, Writes, ModelTypeOK
      <4>2. \A p \in 1..Parts : data[tmp[File(c)]][p] = "good"
        BY <1>1, <3>1, <4>1 DEF FilesInv, Writes
      <4>3. data[tmp[File(c)]] \in Contents
        BY <4>1 DEF ModelTypeOK
      <4> QED BY <4>2, <4>3 DEF Contents, Good
    <3>4. PlacedIsWhole'
      BY <1>1, <2>2, <3>1, <3>3 DEF FilesInv, PlacedIsWhole
    <3>5. ASSUME NEW d \in ModelCalls PROVE Writes(d)'
      <4> SUFFICES ASSUME modelPc'[d] = "read" PROVE Writes(d)'
        BY DEF Writes
      <4>1. d \in ModelCalls \ {c} /\ modelPc[d] = "read" /\ File(d)' = File(d) /\ Writes(d)
        BY <2>3, <3>1 DEF File, FilesInv
      <4>2. File(d) # File(c) /\ File(d) \in Names
        BY <4>1, <3>1, <1>1, OthersFile, FilesNamed DEF File, ModelTypeOK
      <4>3. tmp'[File(d)] = tmp[File(d)]
        BY <2>2, <4>2
      <4> QED BY <1>1, <2>1, <4>1, <4>3 DEF Writes
    <3> QED BY <3>2, <3>4, <3>5
  <2> QED BY <2>4, <2>5, <2>6, <2>7, <2>8 DEF NamesInv, FilesInv
<1> QED BY <1>3, <1>4

LEMMA NextFiles ==
  ASSUME Manifest = TRUE, ModelTypeOK, NamesInv, FilesInv, [ModelNext]_modelVars
  PROVE  NamesInv' /\ FilesInv'
<1>1. ASSUME NEW c \in ModelCalls, Touching(c) PROVE NamesInv' /\ FilesInv'
  BY <1>1, FoundKeeps, ReadKeeps, MismatchKeeps, RenameKeeps, Zenon DEF Touching
<1>2. CASE \A c \in ModelCalls : ~Touching(c)
  BY <1>2, QuietSteps, QuietNames, QuietFiles, Zenon
<1> QED BY <1>1, <1>2

-----------------------------------------------------------------------------
\* What the steps leave of the calls: for LoadsInv.
LEMMA NextLoads ==
  ASSUME Manifest = TRUE, ModelTypeOK, NamesInv, FilesInv, LoadsInv,
         [ModelNext]_modelVars
  PROVE  LoadsInv'
<1> USE FilesNamed
<1>1. CASE UNCHANGED modelVars
  BY <1>1 DEF modelVars, mem, disk, io, load, LoadsInv, AllThere
<1>2. CASE Construct
  <2>1. UNCHANGED <<place, modelPc, at, whole, answer, sound, crossed>> /\ state = "down"
    BY <1>2 DEF Construct, disk, io, load
  <2>2. state' \in {"Unloaded", "refused", "Degraded"}
    BY <1>2 DEF Construct, Decide
  <2> QED BY <2>1, <2>2 DEF LoadsInv, AllThere, Ended
<1>3. CASE Crash
  <2>1. UNCHANGED <<answer, crossed>> /\ state' = "down"
    BY <1>3 DEF Crash
  <2>2. \A c \in ModelCalls : modelPc'[c] \in Ended /\ whole'[c]
    BY <1>3 DEF Crash, Forget, Ended
  <2> QED BY <2>1, <2>2 DEF LoadsInv, Ended
<1>4. ASSUME NEW c \in ModelCalls, NEW next \in {"ok", "err", "gone", "run"}, End(c, next),
             UNCHANGED <<place, crossed>>,
             \/ state' = state /\ sound' = sound
             \/ state' = "Real" /\ sound' = whole[c],
             ~crossed' => \A d \in ModelCalls : answer'[d] # "nonsense",
             next = "run" => state' = "Real"
      PROVE  LoadsInv'
  <2>1. /\ modelPc' = [modelPc EXCEPT ![c] = next] /\ at' = [at EXCEPT ![c] = 1]
        /\ whole' = [whole EXCEPT ![c] = TRUE]
    BY <1>4, EndEffect, Zenon
  <2>2. \A d \in ModelCalls : /\ d # c => /\ modelPc'[d] = modelPc[d]
                                          /\ at'[d] = at[d] /\ whole'[d] = whole[d]
                              /\ d = c => modelPc'[d] = next /\ at'[d] = 1 /\ whole'[d]
    BY <2>1 DEF ModelTypeOK
  <2>3. ASSUME NEW d \in ModelCalls
        PROVE  /\ modelPc'[d] = "load" /\ at'[d] > 1 => AllThere'
               /\ modelPc'[d] = "run" => state' \in {"Degraded", "Real"}
               /\ state' = "down" => modelPc'[d] \in Ended
    BY <1>4, <2>2 DEF LoadsInv, AllThere, Ended
  <2>4. ~crossed' => /\ state' = "Real" => sound'
                     /\ \A d \in ModelCalls : whole'[d] /\ answer'[d] # "nonsense"
    BY <1>4, <2>2 DEF LoadsInv
  <2> QED BY <2>3, <2>4 DEF LoadsInv
<1>5. ASSUME NEW c \in ModelCalls,
             Unembedded(c) \/ NetworkFails(c) \/ LoadFails(c) \/ Mismatch(c) \/ RunFails(c)
               \/ LoadForNobody(c)
      PROVE  LoadsInv'
  <2>1. UNCHANGED <<place, state, sound, crossed>>
    BY <1>5 DEF Unembedded, NetworkFails, LoadFails, Mismatch, RunFails, LoadForNobody,
               mem, disk
  <2>2. End(c, "ok") \/ End(c, "err") \/ End(c, "gone")
    BY <1>5 DEF Unembedded, NetworkFails, LoadFails, Mismatch, RunFails, LoadForNobody,
               Error
  <2>3. \A d \in ModelCalls : answer'[d] = answer[d] \/ answer'[d] # "nonsense"
    BY <1>5 DEF Unembedded, NetworkFails, LoadFails, Mismatch, RunFails, LoadForNobody,
               Error, InferenceErrors, ModelTypeOK
  <2>4. ~crossed' => \A d \in ModelCalls : answer'[d] # "nonsense"
    BY <2>1, <2>3 DEF LoadsInv
  <2> QED BY <1>4, <2>1, <2>2, <2>4
<1>6. ASSUME NEW c \in ModelCalls, Run(c)
      PROVE  LoadsInv'
  <2>1. /\ modelPc[c] = "run" /\ End(c, "ok") /\ UNCHANGED <<place, state, sound, crossed>>
        /\ answer' = [answer EXCEPT ![c] = IF state = "Degraded" THEN "zeros" ELSE Inferred]
    BY <1>6 DEF Run, mem, disk
  <2>2. ~crossed => (state = "Degraded" \/ sound)
    BY <2>1 DEF LoadsInv
  <2>3. ~crossed' => \A d \in ModelCalls : answer'[d] # "nonsense"
    BY <2>1, <2>2 DEF LoadsInv, Inferred, ModelTypeOK
  <2> QED BY <1>4, <2>1, <2>3
<1>7. ASSUME NEW c \in ModelCalls, Promote(c)
      PROVE  LoadsInv'
  <2>1. /\ End(c, "run") /\ state' = "Real" /\ sound' = whole[c]
        /\ UNCHANGED <<place, answer, crossed>>
    BY <1>7 DEF Promote, Keep, disk
  <2>2. ~crossed' => \A d \in ModelCalls : answer'[d] # "nonsense"
    BY <2>1 DEF LoadsInv
  <2> QED BY <1>4, <2>1, <2>2
<1>8. ASSUME NEW c \in ModelCalls, DropModelCall(c)
      PROVE  LoadsInv'
  <2>1. UNCHANGED <<place, state, sound, answer, crossed>>
    BY <1>8 DEF DropModelCall, mem, disk
  <2>2. CASE End(c, "gone")
    <3>1. ~crossed' => \A d \in ModelCalls : answer'[d] # "nonsense"
      BY <2>1 DEF LoadsInv
    <3> QED BY <1>4, <2>1, <2>2, <3>1
  <2>3. CASE UNCHANGED <<modelPc, io, pass, whole>>
    BY <2>1, <2>3 DEF io, LoadsInv, AllThere
  <2> QED BY <1>8, <2>2, <2>3 DEF DropModelCall
<1>9. ASSUME NEW c \in ModelCalls, Begin(c)
      PROVE  LoadsInv'
  <2>1. /\ UNCHANGED <<place, at, whole, state, sound, answer, crossed>>
        /\ modelPc[c] = "idle" /\ state \in {"Unloaded", "Degraded", "Real"}
        /\ \A d \in ModelCalls \ {c} : modelPc'[d] = modelPc[d]
        /\ modelPc'[c] = (IF state # "Unloaded" THEN "run"
                          ELSE IF strategy = "Lazy" THEN "fetch" ELSE "load")
    BY <1>9 DEF Begin, ModelGoto, mem, disk, io, load, ModelTypeOK
  <2>2. at[c] = 1
    BY <2>1 DEF NamesInv
  <2> QED BY <2>1, <2>2 DEF LoadsInv, AllThere
<1>10. ASSUME NEW c \in ModelCalls, Found(c) \/ Read(c)
       PROVE  LoadsInv'
  <2>1. /\ UNCHANGED <<place, at, whole, state, sound, answer>>
        /\ modelPc[c] \in {"fetch", "read"}
    BY <1>10 DEF Found, Create, Read, mem, load
  <2>2. ~crossed' => ~crossed
    BY <1>10 DEF Found, Read
  <2>3. UNCHANGED modelPc \/ modelPc' = [modelPc EXCEPT ![c] = "read"]
    BY <1>10 DEF Found, Read, ModelGoto
  <2>4. state # "down"
    BY <2>1 DEF LoadsInv, Ended
  <2>5. ASSUME NEW d \in ModelCalls
        PROVE  /\ modelPc'[d] = "load" => modelPc[d] = "load"
               /\ modelPc'[d] = "run" => modelPc[d] = "run"
    BY <2>3 DEF ModelTypeOK
  <2> QED BY <2>1, <2>2, <2>4, <2>5 DEF LoadsInv, AllThere
<1>11. ASSUME NEW c \in ModelCalls, Rename(c)
       PROVE  LoadsInv'
  <2>1. /\ modelPc[c] = "read" /\ UNCHANGED <<state, sound, crossed>>
    BY <1>11 DEF Rename, mem
  <2>2. CASE tmp[File(c)] = None
    <3>1. End(c, "err") /\ UNCHANGED place
          /\ answer' = [answer EXCEPT ![c] = "AdapterUnavailable"]
      BY <1>11, <2>2 DEF Rename, Error
    <3>2. ~crossed' => \A d \in ModelCalls : answer'[d] # "nonsense"
      BY <2>1, <3>1 DEF LoadsInv, ModelTypeOK
    <3> QED BY <1>4, <2>1, <3>1, <3>2
  <2>3. CASE tmp[File(c)] # None
    <3>1. /\ place' = [place EXCEPT ![File(c)] = tmp[File(c)]] /\ NextFile(c)
          /\ UNCHANGED <<whole, answer>>
      BY <1>11, <2>3 DEF Rename, load
    <3>2. AllThere => AllThere'
      BY <2>3, <3>1 DEF AllThere, ModelTypeOK
    <3>3. /\ \A d \in ModelCalls \ {c} : modelPc'[d] = modelPc[d] /\ at'[d] = at[d]
          /\ modelPc'[c] = "fetch" \/ (modelPc'[c] = "load" /\ at'[c] = 1)
      <4>1. CASE at[c] < Len(Files)
        <5>1. at' = [at EXCEPT ![c] = @ + 1] /\ modelPc' = [modelPc EXCEPT ![c] = "fetch"]
          BY <3>1, <4>1 DEF NextFile, ModelGoto
        <5>2. modelPc'[c] = "fetch" /\ \A d \in ModelCalls \ {c} : modelPc'[d] = modelPc[d]
          BY <5>1 DEF ModelTypeOK
        <5>3. \A d \in ModelCalls \ {c} : at'[d] = at[d]
          BY <5>1 DEF ModelTypeOK
        <5> QED BY <5>2, <5>3
      <4>2. CASE ~(at[c] < Len(Files))
        <5>1. at' = [at EXCEPT ![c] = 1] /\ modelPc' = [modelPc EXCEPT ![c] = "load"]
          BY <3>1, <4>2 DEF NextFile, ModelGoto
        <5> QED BY <5>1 DEF ModelTypeOK
      <4> QED BY <4>1, <4>2
    <3>4. state # "down"
      BY <2>1 DEF LoadsInv, Ended
    <3> QED BY <2>1, <3>1, <3>2, <3>3, <3>4 DEF LoadsInv
  <2> QED BY <2>2, <2>3
<1>12. ASSUME NEW c \in ModelCalls, LoadFile(c)
       PROVE  LoadsInv'
  <2>1. /\ modelPc[c] = "load" /\ UNCHANGED <<place, data, state, sound, answer, crossed>>
        /\ at[c] = 1 => AllThere
        /\ whole' = [whole EXCEPT ![c] =
             (at[c] > 1 => @) /\ place[File(c)] # None /\ data[place[File(c)]] = Good]
    BY <1>12 DEF LoadFile, mem, disk
  <2>2. AllThere
    BY <2>1 DEF LoadsInv, ModelTypeOK
  <2>3. /\ \A d \in ModelCalls \ {c} : modelPc'[d] = modelPc[d] /\ at'[d] = at[d]
        /\ modelPc'[c] = "load" \/ modelPc'[c] = "promote"
    BY <1>12 DEF LoadFile, ModelGoto, ModelTypeOK
  <2>4. state # "down"
    BY <2>1 DEF LoadsInv, Ended
  <2>5. ~crossed => \A d \in ModelCalls : whole'[d]
    <3>1. File(c) \in Names
      BY DEF File, ModelTypeOK
    <3>2. ~crossed => whole'[c]
      BY <2>1, <2>2, <3>1 DEF AllThere, FilesInv, PlacedIsWhole, LoadsInv, ModelTypeOK
    <3> QED BY <2>1, <3>2 DEF LoadsInv, ModelTypeOK
  <2> QED BY <2>1, <2>2, <2>3, <2>4, <2>5 DEF LoadsInv, AllThere
<1> QED BY <1>1, <1>2, <1>3, <1>5, <1>6, <1>7, <1>8, <1>9, <1>10, <1>11, <1>12 DEF ModelNext

LEMMA InitInv ==
  ASSUME ModelInit
  PROVE  ModelInv
<1> USE FilesNamed
<1>1. ModelTypeOK
  BY ModelInitType
<1>2. /\ \A f \in Names : tmp[f] = None /\ (place[f] = None \/ place[f] = <<Operator, f>>)
      /\ \A c \in ModelCalls : /\ modelPc[c] = "idle" /\ at[c] = 1 /\ out[c] = None
                               /\ whole[c] /\ answer[c] = "none"
      /\ \A i \in Inodes : i[1] = Operator => data[i] = Good
      /\ state = "down"
  BY DEF ModelInit
<1>3. NamesInv
  <2>1. OfItsName /\ Apart
    BY <1>2 DEF OfItsName, Apart
  <2>2. ASSUME NEW c \in ModelCalls, NEW j \in 1..Len(Files) PROVE Unused(<<c, Files[j]>>)
    <3>1. <<c, Files[j]>> \in Inodes /\ c # Operator
      BY ModelAssumption DEF Inodes
    <3>2. <<c, Files[j]>> # None
      BY ModelAssumption, <3>1
    <3>3. \A f \in Names : <<c, Files[j]>> # <<Operator, f>>
      BY <3>1
    <3>4. \A f \in Names : tmp[f] # <<c, Files[j]>> /\ place[f] # <<c, Files[j]>>
      BY <1>2, <3>2, <3>3
    <3>5. \A d \in ModelCalls : out[d] # <<c, Files[j]>>
      BY <1>2, <3>2
    <3> QED BY <3>4, <3>5 DEF Unused
  <2> QED BY <1>2, <2>1, <2>2 DEF NamesInv, NotYetMade
<1>4. FilesInv
  <2>1. PlacedIsWhole
    <3> SUFFICES ASSUME NEW f \in Names, place[f] = <<Operator, f>> PROVE data[place[f]] = Good
      BY <1>2 DEF PlacedIsWhole
    <3>1. <<Operator, f>> \in Inodes /\ <<Operator, f>>[1] = Operator
      BY DEF Inodes
    <3> QED BY <1>2, <3>1
  <2>2. \A c \in ModelCalls : modelPc[c] # "read"
    BY <1>2
  <2> QED BY <2>1, <2>2 DEF FilesInv, Writes, Alone
<1>5. LoadsInv
  BY <1>2 DEF LoadsInv, Ended
<1> QED BY <1>1, <1>3, <1>4, <1>5 DEF ModelInv

\* With a manifest: unless two downloads opened one temporary file, a file at its
\* place is whole, and a call answers with vectors of a model read from whole files,
\* for any number of calls and files, damages of the network and deaths.
THEOREM WholeCorrect ==
  ASSUME Manifest = TRUE
  PROVE  ModelSpec => []AnswersSound
<1>1. ModelInit => ModelInv
  BY InitInv
<1>2. ModelInv /\ [ModelNext]_modelVars => ModelInv'
  <2> SUFFICES ASSUME ModelInv, [ModelNext]_modelVars PROVE ModelInv'
    OBVIOUS
  <2> QED BY ModelNextType, NextFiles, NextLoads, Zenon DEF ModelInv
<1>3. ModelInv => AnswersSound
  BY DEF ModelInv, FilesInv, LoadsInv, AnswersSound, NoNonsense, PlacedIsWhole
<1> QED BY <1>1, <1>2, <1>3, PTL DEF ModelSpec

-----------------------------------------------------------------------------
(* The embedding client.                                                   *)

\* In a strict total order of a finite set, given by what is below each element, every
\* rank is taken, once.
LEMMA Ranks ==
  ASSUME NEW S, IsFiniteSet(S), NEW below \in [S -> SUBSET S],
         \A a \in S : a \notin below[a],
         \A a, b \in S : a # b => a \in below[b] \/ b \in below[a],
         \A a, b \in S : a \in below[b] => below[a] \subseteq below[b]
  PROVE  /\ \A a \in S : Cardinality(below[a]) \in 0..(Cardinality(S) - 1)
         /\ \A k \in 0..(Cardinality(S) - 1) : \E a \in S : Cardinality(below[a]) = k
         /\ \A a, b \in S : a \in below[b] => Cardinality(below[a]) < Cardinality(below[b])
<1> DEFINE n == Cardinality(S)
           rank == [a \in S |-> Cardinality(below[a])]
<1>1. \A a \in S : IsFiniteSet(below[a]) /\ Cardinality(below[a]) \in Nat
  BY FS_Subset, FS_CardinalityType
<1>2. n \in Nat
  BY FS_CardinalityType
<1>3. ASSUME NEW a \in S, NEW b \in S, a \in below[b]
      PROVE  Cardinality(below[a]) < Cardinality(below[b])
  <2>1. below[a] \in SUBSET below[b] /\ below[a] # below[b]
    BY <1>3
  <2>2. /\ Cardinality(below[a]) <= Cardinality(below[b])
        /\ Cardinality(below[a]) # Cardinality(below[b])
    BY <1>1, <2>1, FS_Subset
  <2> QED BY <1>1, <2>2
<1>4. ASSUME NEW a \in S PROVE Cardinality(below[a]) \in 0..(n - 1)
  <2>1. below[a] \in SUBSET S /\ below[a] # S
    OBVIOUS
  <2>2. Cardinality(below[a]) <= n /\ Cardinality(below[a]) # n
    BY <2>1, FS_Subset
  <2> HIDE DEF n
  <2> QED BY <1>1, <1>2, <2>2
<1> HIDE DEF n
<1>5. rank \in [S -> 0..(n - 1)] /\ \A a \in S : rank[a] = Cardinality(below[a])
  BY <1>4
<1>6. \A a, b \in S : rank[a] = rank[b] => a = b
  <2> SUFFICES ASSUME NEW a \in S, NEW b \in S, rank[a] = rank[b], a # b PROVE FALSE
    OBVIOUS
  <2>1. Cardinality(below[a]) = Cardinality(below[b])
    BY <1>5
  <2>2. a \in below[b] \/ b \in below[a]
    OBVIOUS
  <2>3. Cardinality(below[a]) \in Nat
    BY <1>1
  <2>4. Cardinality(below[a]) < Cardinality(below[b])
        \/ Cardinality(below[b]) < Cardinality(below[a])
    BY <2>2, <1>3
  <2> QED BY <2>1, <2>3, <2>4
<1> HIDE DEF rank
<1>7. rank \in Injection(S, 0..(n - 1))
  BY <1>5, <1>6, Fun_IsInj
<1>8. IsFiniteSet(0..(n - 1)) /\ Cardinality(0..(n - 1)) = n
  <2>1. 0 \in Int /\ n - 1 \in Int
    BY <1>2
  <2>2. /\ IsFiniteSet(0..(n - 1))
        /\ Cardinality(0..(n - 1)) = IF 0 > n - 1 THEN 0 ELSE (n - 1) - 0 + 1
    BY <2>1, FS_Interval
  <2> QED BY <1>2, <2>2
<1>9. rank \in Surjection(S, 0..(n - 1))
  BY <1>7, <1>8, FS_Injection DEF n
<1>10. \A k \in 0..(n - 1) : \E a \in S : rank[a] = k
  BY <1>9 DEF Surjection
<1> QED BY <1>3, <1>4, <1>5, <1>10 DEF n

\* What may be said of an answer the sort has put in order: its items, each once.
LEMMA SortedItems ==
  ASSUME NEW n \in Nat, NEW items, DOMAIN items = 1..n,
         \A i \in 1..n : items[i].index \in Nat
  PROVE  /\ DOMAIN SortByIndex(items) = 1..n
         /\ \A k \in 1..n : \E i \in 1..n :
              /\ SortByIndex(items)[k] = items[i].vector
              /\ Before(items, i) = k - 1
         /\ \A i, j \in 1..n : Before(items, i) = Before(items, j) => i = j
<1> DEFINE Less(a, b) == \/ items[a].index < items[b].index
                         \/ items[a].index = items[b].index /\ a < b
           below == [a \in 1..n |-> {b \in 1..n : Less(b, a)}]
<1>1. IsFiniteSet(1..n) /\ Cardinality(1..n) = n
  BY FS_Interval
<1>2. /\ \A a \in 1..n : ~Less(a, a)
      /\ \A a, b \in 1..n : a # b => Less(a, b) \/ Less(b, a)
      /\ \A a, b, c \in 1..n : Less(a, b) /\ Less(b, c) => Less(a, c)
  OBVIOUS
<1>3. \A a \in 1..n : Before(items, a) = Cardinality(below[a])
  BY DEF Before
<1> HIDE DEF Less
<1>4. /\ below \in [1..n -> SUBSET (1..n)]
      /\ \A a, b \in 1..n : b \in below[a] <=> Less(b, a)
  OBVIOUS
<1> HIDE DEF below
<1>5. /\ \A k \in 0..(n - 1) : \E a \in 1..n : Before(items, a) = k
      /\ \A a, b \in 1..n : Before(items, a) = Before(items, b) => a = b
  <2>1. /\ \A a \in 1..n : a \notin below[a]
        /\ \A a, b \in 1..n : a # b => a \in below[b] \/ b \in below[a]
    BY ONLY <1>2, <1>4, Zenon
  <2>3. \A a, b \in 1..n : a \in below[b] => below[a] \subseteq below[b]
    <3> SUFFICES ASSUME NEW a \in 1..n, NEW b \in 1..n, a \in below[b], NEW c \in below[a]
                 PROVE  c \in below[b]
      OBVIOUS
    <3>1. c \in 1..n
      BY <1>4
    <3> QED BY ONLY <1>2, <1>4, <3>1, a \in 1..n, b \in 1..n, a \in below[b], c \in below[a],
                    Zenon
  <2>2. /\ \A a \in 1..n : Cardinality(below[a]) \in 0..(Cardinality(1..n) - 1)
        /\ \A k \in 0..(Cardinality(1..n) - 1) : \E a \in 1..n : Cardinality(below[a]) = k
        /\ \A a, b \in 1..n : a \in below[b] => Cardinality(below[a]) < Cardinality(below[b])
    BY <1>1, <1>4, <2>1, <2>3, Ranks
  <2>4. ASSUME NEW a \in 1..n, NEW b \in 1..n, Before(items, a) = Before(items, b) PROVE a = b
    <3>1. Cardinality(below[a]) = Cardinality(below[b])
      BY <1>3, <2>4
    <3>2. Cardinality(below[a]) \in Int
      BY <1>1, <2>2
    <3>3. a # b => a \in below[b] \/ b \in below[a]
      BY <2>1, Zenon
    <3>4. a \notin below[b]
      <4> SUFFICES ASSUME a \in below[b] PROVE FALSE
        OBVIOUS
      <4>1. Cardinality(below[a]) < Cardinality(below[b])
        BY ONLY <2>2, a \in 1..n, b \in 1..n, a \in below[b], Zenon
      <4> QED BY ONLY <3>1, <3>2, <4>1
    <3>5. b \notin below[a]
      <4> SUFFICES ASSUME b \in below[a] PROVE FALSE
        OBVIOUS
      <4>1. Cardinality(below[b]) < Cardinality(below[a])
        BY ONLY <2>2, a \in 1..n, b \in 1..n, b \in below[a], Zenon
      <4> QED BY ONLY <3>1, <3>2, <4>1
    <3> QED BY <3>3, <3>4, <3>5, Zenon
  <2> QED BY <1>1, <1>3, <2>2, <2>4
<1>6. ASSUME NEW k \in 1..n
      PROVE  \E i \in 1..n :
               SortByIndex(items)[k] = items[i].vector /\ Before(items, i) = k - 1
  <2>1. k - 1 \in 0..(n - 1)
    OBVIOUS
  <2>2. \E a \in DOMAIN items : Before(items, a) = k - 1
    BY <1>5, <2>1
  <2> DEFINE i == CHOOSE a \in DOMAIN items : Before(items, a) = k - 1
  <2>3. i \in 1..n /\ Before(items, i) = k - 1
    BY <2>2
  <2>4. SortByIndex(items)[k] = items[i].vector
    BY DEF SortByIndex
  <2> QED BY <2>3, <2>4
<1> QED BY <1>5, <1>6 DEF SortByIndex

\* One item has this index.
IndexOnce(items, k) ==
  \E j \in DOMAIN items :
    items[j].index = k /\ \A a \in DOMAIN items : items[a].index = k => a = j

\* An item stands where its index says if each index up to it was given once.
LEMMA IndexIsPlace ==
  ASSUME NEW n \in Nat, NEW items, DOMAIN items = 1..n,
         \A j \in 1..n : items[j].index \in Nat,
         NEW m \in 1..n, NEW i \in 1..n, items[i].index = m - 1,
         \A k \in 0..(m - 1) : IndexOnce(items, k)
  PROVE  Before(items, i) = m - 1
<1> DEFINE f == [j \in 1..n |-> items[j].index]
           S == {j \in 1..n : f[j] < m - 1}
           g == [j \in S |-> f[j]]
<1>1. /\ \A j \in 1..n : f[j] = items[j].index /\ f[j] \in Nat
      /\ f[i] = m - 1
      /\ \A k \in 0..(m - 1) : \E j \in 1..n :
           f[j] = k /\ \A a \in 1..n : f[a] = k => a = j
  <2>1. \A j \in 1..n : f[j] = items[j].index
    OBVIOUS
  <2> HIDE DEF f
  <2>2. ASSUME NEW k \in 0..(m - 1)
        PROVE  \E j \in 1..n : f[j] = k /\ \A a \in 1..n : f[a] = k => a = j
    <3>1. IndexOnce(items, k)
      OBVIOUS
    <3>3. PICK j \in 1..n : /\ items[j].index = k
                           /\ \A a \in 1..n : items[a].index = k => a = j
      BY ONLY <3>1, DOMAIN items = 1..n, Zenon DEF IndexOnce
    <3> QED BY <2>1, <3>3
  <2> QED BY <2>1, <2>2
<1> HIDE DEF f
<1>2. m - 1 \in Nat /\ m \in Int
  OBVIOUS
<1>3. \A a, b \in 1..n : f[a] = f[b] /\ f[a] \in 0..(m - 1) => a = b
  BY <1>1
<1>4. Before(items, i) = Cardinality(S)
  <2> DEFINE Less(j) == \/ items[j].index < items[i].index
                        \/ items[j].index = items[i].index /\ j < i
  <2>1. \A j \in 1..n : Less(j) <=> f[j] < m - 1
    <3> SUFFICES ASSUME NEW j \in 1..n PROVE Less(j) <=> f[j] < m - 1
      OBVIOUS
    <3>1. items[j].index = f[j] /\ items[i].index = m - 1 /\ f[j] \in Nat
      BY <1>1
    <3>2. f[j] = m - 1 => j = i
      BY <1>1, <1>2, <1>3
    <3> QED BY <1>2, <3>1, <3>2
  <2>2. Before(items, i) = Cardinality({j \in DOMAIN items : Less(j)})
    BY DEF Before
  <2> HIDE DEF Less
  <2>3. {j \in DOMAIN items : Less(j)} = S
    BY <2>1
  <2> QED BY <2>2, <2>3
<1>5. g \in [S -> 0..(m - 2)]
  BY <1>1, <1>2
<1>6. \A a, b \in S : g[a] = g[b] => a = b
  BY <1>1, <1>2, <1>3
<1>7. \A k \in 0..(m - 2) : \E a \in S : g[a] = k
  <2>1. TAKE k \in 0..(m - 2)
  <2>2. k \in 0..(m - 1) /\ k < m - 1
    BY <1>2
  <2>3. PICK a \in 1..n : f[a] = k
    BY <1>1, <2>2
  <2>4. a \in S /\ g[a] = k
    BY <2>2, <2>3
  <2> QED BY <2>4
<1>8. S \in SUBSET (1..n) /\ IsFiniteSet(1..n)
  BY FS_Interval
<1> HIDE DEF S, g
<1>9. IsFiniteSet(S)
  BY <1>8, FS_Subset
<1>10. g \in Bijection(S, 0..(m - 2))
  BY <1>5, <1>6, <1>7, Fun_IsBij
<1>11. Cardinality(0..(m - 2)) = Cardinality(S)
  BY <1>9, <1>10, FS_Bijection DEF ExistsBijection
<1>12. Cardinality(0..(m - 2)) = m - 1
  <2>1. 0 \in Int /\ m - 2 \in Int /\ m - 1 \in Nat
    BY <1>2
  <2>2. Cardinality(0..(m - 2)) = IF 0 > m - 2 THEN 0 ELSE (m - 2) - 0 + 1
    BY <2>1, FS_Interval
  <2> QED BY <2>1, <2>2
<1> QED BY <1>4, <1>11, <1>12

-----------------------------------------------------------------------------
\* What each call of the embedding client is about to do is in step with what it has
\* done; an answer is the sort of what the server sent.
CallInv(c) ==
  /\ batch[c] \in Seq(Texts) /\ attempts[c] \in 0..MaxAttempts
  /\ clientPc[c] = "idle" => batch[c] = <<>> /\ attempts[c] = 0
  /\ clientPc[c] \notin {"ok", "gone"} => vectors[c] = <<>>
  /\ clientPc[c] = "post" => attempts[c] < MaxAttempts
  /\ clientPc[c] = "sleep" => attempts[c] \in 1..(MaxAttempts - 1) /\ last[c] \in Retryable
  /\ clientPc[c] \in {"post", "sleep"} /\ attempts[c] > 0 => last[c] \in Retryable
  /\ clientPc[c] = "err" /\ last[c] \in Retryable => attempts[c] = MaxAttempts
  /\ HasBlank(batch[c]) => attempts[c] = 0 /\ clientPc[c] = "err"
  /\ clientPc[c] = "ok" =>
       \/ batch[c] = <<>> /\ vectors[c] = <<>>
       \/ /\ received[c] \in [1..Len(batch[c]) -> Items(Len(batch[c]))]
          /\ vectors[c] = SortByIndex(received[c])

\* Where a call of the client may be.
Stages == {"idle", "post", "sleep"} \cup Finished

\* The inductive invariant of the client.
ClientInv ==
  /\ clientPc \in [EmbedCalls -> Stages]
  /\ batch \in [EmbedCalls -> Seq(Texts)]
  /\ attempts \in [EmbedCalls -> 0..MaxAttempts]
  /\ last \in [EmbedCalls -> DOMAIN ErrorOf \cup {"none"}]
  /\ DOMAIN vectors = EmbedCalls /\ vectors = [c \in EmbedCalls |-> vectors[c]]
  /\ DOMAIN received = EmbedCalls /\ received = [c \in EmbedCalls |-> received[c]]
  /\ \A c \in EmbedCalls : CallInv(c)

\* The initial states.
LEMMA ClientInitInv == ASSUME ClientInit PROVE ClientInv
<1>1. MaxAttempts \in Nat \ {0}
  BY ClientAssumption
<1>2. \A c \in EmbedCalls : ~HasBlank(batch[c])
  BY DEF ClientInit, HasBlank
<1> QED BY <1>1, <1>2 DEF ClientInit, ClientInv, CallInv, Stages

\* The failures of the client, by name.
LEMMA ErrorsNamed ==
  /\ "blank" \in DOMAIN ErrorOf /\ Failures \subseteq DOMAIN ErrorOf
  /\ Retryable \subseteq DOMAIN ErrorOf /\ "blank" \notin Retryable
<1>1. DOMAIN ErrorOf = {"blank", "timeout", "connect", "status404", "status4xx", "status5xx",
                        "notJson", "count"}
  BY DEF ErrorOf
<1> QED BY <1>1 DEF Failures, Retryable

\* The calls at other places keep what they have.
LEMMA OthersKeep ==
  ASSUME ClientInv, NEW c \in EmbedCalls,
         (\E texts \in Batches : Call(c, texts)) \/ ClientProgress(c) \/ DropEmbedCall(c)
  PROVE  /\ clientPc' \in [EmbedCalls -> Stages]
         /\ batch' \in [EmbedCalls -> Seq(Texts)]
         /\ last' \in [EmbedCalls -> DOMAIN ErrorOf \cup {"none"}]
         /\ DOMAIN vectors' = EmbedCalls /\ vectors' = [d \in EmbedCalls |-> vectors'[d]]
         /\ DOMAIN received' = EmbedCalls /\ received' = [d \in EmbedCalls |-> received'[d]]
         /\ \A d \in EmbedCalls \ {c} :
              /\ clientPc'[d] = clientPc[d] /\ batch'[d] = batch[d]
              /\ attempts'[d] = attempts[d] /\ last'[d] = last[d]
              /\ vectors'[d] = vectors[d] /\ received'[d] = received[d]
<1>1. Batches \subseteq Seq(Texts)
  BY ClientAssumption
<1>2. /\ clientPc' \in [EmbedCalls -> Stages]
      /\ \A d \in EmbedCalls \ {c} : clientPc'[d] = clientPc[d]
  <2>1. \E next \in Stages : clientPc' = [clientPc EXCEPT ![c] = next]
    BY DEF ClientProgress, Call, GiveUp, Backoff, Wake, Answered, DropEmbedCall, EmbedFails,
           ClientGoto, Stages, Finished
  <2> QED BY <2>1 DEF ClientInv
<1>3. /\ last' \in [EmbedCalls -> DOMAIN ErrorOf \cup {"none"}]
      /\ \A d \in EmbedCalls \ {c} : last'[d] = last[d]
  <2>1. \/ last' = last
        \/ \E failure \in DOMAIN ErrorOf : last' = [last EXCEPT ![c] = failure]
    BY ErrorsNamed DEF ClientProgress, Call, GiveUp, Backoff, Wake, Answered, DropEmbedCall,
                       EmbedFails
  <2> QED BY <2>1 DEF ClientInv
<1>4. /\ batch' \in [EmbedCalls -> Seq(Texts)]
      /\ \A d \in EmbedCalls \ {c} : batch'[d] = batch[d] /\ attempts'[d] = attempts[d]
  BY <1>1 DEF ClientProgress, Call, GiveUp, Backoff, Wake, Answered, DropEmbedCall, Attempted,
              ClientInv
<1>5. /\ DOMAIN vectors' = EmbedCalls /\ vectors' = [d \in EmbedCalls |-> vectors'[d]]
      /\ DOMAIN received' = EmbedCalls /\ received' = [d \in EmbedCalls |-> received'[d]]
      /\ \A d \in EmbedCalls \ {c} : vectors'[d] = vectors[d] /\ received'[d] = received[d]
  BY DEF ClientProgress, Call, GiveUp, Backoff, Wake, Answered, DropEmbedCall, ClientInv
<1> QED BY <1>2, <1>3, <1>4, <1>5

\* Each step of a call leaves it with what the next one expects.
LEMMA OneCall ==
  ASSUME ClientInv, NEW c \in EmbedCalls,
         (\E texts \in Batches : Call(c, texts)) \/ ClientProgress(c) \/ DropEmbedCall(c)
  PROVE  CallInv(c)'
<1>1. MaxAttempts \in Nat \ {0} /\ Batches \subseteq Seq(Texts)
  BY ClientAssumption
<1>2. CallInv(c) /\ attempts[c] \in 0..MaxAttempts
  BY DEF ClientInv
<1>3. ASSUME NEW texts \in Batches, Call(c, texts)
      PROVE  CallInv(c)'
  <2>1. /\ clientPc[c] = "idle" /\ batch'[c] = texts /\ texts \in Seq(Texts)
        /\ attempts'[c] = 0 /\ vectors'[c] = <<>>
    BY <1>1, <1>2, <1>3 DEF Call, ClientInv, CallInv
  <2>2. \/ texts = <<>> /\ clientPc'[c] = "ok"
        \/ HasBlank(texts) /\ clientPc'[c] = "err" /\ last'[c] = "blank"
        \/ ~HasBlank(texts) /\ clientPc'[c] = "post"
    BY <1>3 DEF Call, EmbedFails, ClientGoto, ClientInv
  <2>3. texts = <<>> => ~HasBlank(texts)
    BY DEF HasBlank
  <2> QED BY <1>1, <2>1, <2>2, <2>3 DEF CallInv, Retryable
<1>4. ASSUME GiveUp(c)
      PROVE  CallInv(c)'
  <2>1. /\ clientPc[c] = "post" /\ clientPc'[c] = "err" /\ attempts'[c] = attempts[c] + 1
        /\ last'[c] \notin Retryable
        /\ batch'[c] = batch[c] /\ vectors'[c] = vectors[c] /\ received'[c] = received[c]
    BY <1>4 DEF GiveUp, EmbedFails, ClientGoto, Attempted, ClientInv
  <2> QED BY <1>1, <1>2, <2>1 DEF CallInv, HasBlank
<1>5. ASSUME Backoff(c)
      PROVE  CallInv(c)'
  <2>1. /\ clientPc[c] = "post" /\ attempts'[c] = attempts[c] + 1 /\ last'[c] \in Retryable
        /\ clientPc'[c] = IF attempts'[c] < MaxAttempts THEN "sleep" ELSE "err"
        /\ batch'[c] = batch[c] /\ vectors'[c] = vectors[c] /\ received'[c] = received[c]
    BY <1>5 DEF Backoff, ClientGoto, Attempted, MayTryAgain, ClientInv
  <2> QED BY <1>1, <1>2, <2>1 DEF CallInv, HasBlank
<1>6. ASSUME Wake(c)
      PROVE  CallInv(c)'
  <2>1. /\ clientPc[c] = "sleep" /\ clientPc'[c] = "post" /\ attempts'[c] = attempts[c]
        /\ last'[c] = last[c]
        /\ batch'[c] = batch[c] /\ vectors'[c] = vectors[c] /\ received'[c] = received[c]
    BY <1>6 DEF Wake, ClientGoto, ClientInv
  <2> QED BY <1>1, <1>2, <2>1 DEF CallInv, HasBlank
<1>7. ASSUME Answered(c)
      PROVE  CallInv(c)'
  <2>1. PICK items \in [1..Len(batch[c]) -> Items(Len(batch[c]))] :
          received' = [received EXCEPT ![c] = items]
          /\ vectors' = [vectors EXCEPT ![c] = SortByIndex(items)]
    BY <1>7 DEF Answered
  <2>2. /\ clientPc[c] = "post" /\ clientPc'[c] = "ok" /\ attempts'[c] = attempts[c] + 1
        /\ batch'[c] = batch[c] /\ received'[c] = items /\ vectors'[c] = SortByIndex(items)
    BY <1>7, <2>1 DEF Answered, ClientGoto, Attempted, ClientInv
  <2>3. vectors'[c] = SortByIndex(received[c])'
    BY <2>2 DEF SortByIndex, Before
  <2> QED BY <1>1, <1>2, <2>2, <2>3 DEF CallInv, HasBlank, Items
<1>8. ASSUME DropEmbedCall(c)
      PROVE  CallInv(c)'
  <2>1. /\ clientPc[c] \in {"post", "sleep"} /\ clientPc'[c] = "gone"
        /\ attempts'[c] = attempts[c] /\ batch'[c] = batch[c]
    BY <1>8 DEF DropEmbedCall, ClientGoto, ClientInv
  <2> QED BY <1>1, <1>2, <2>1 DEF CallInv, HasBlank
<1> QED BY <1>3, <1>4, <1>5, <1>6, <1>7, <1>8 DEF ClientProgress

\* Every step keeps it.
LEMMA ClientNextInv == ASSUME ClientInv, [ClientNext]_clientVars PROVE ClientInv'
<1>1. CASE UNCHANGED clientVars
  <2>1. ASSUME NEW d \in EmbedCalls PROVE CallInv(d)'
    <3>1. /\ clientPc'[d] = clientPc[d] /\ batch'[d] = batch[d]
          /\ attempts'[d] = attempts[d] /\ last'[d] = last[d]
          /\ vectors'[d] = vectors[d] /\ received'[d] = received[d]
      BY <1>1 DEF clientVars
    <3>2. CallInv(d)
      BY DEF ClientInv
    <3> QED BY ONLY <3>1, <3>2 DEF CallInv, HasBlank, SortByIndex, Before, Items
  <2> QED BY <1>1, <2>1 DEF clientVars, ClientInv
<1>2. ASSUME NEW c \in EmbedCalls,
             (\E texts \in Batches : Call(c, texts)) \/ ClientProgress(c) \/ DropEmbedCall(c)
      PROVE  ClientInv'
  <2>1. CallInv(c)'
    BY <1>2, OneCall
  <2>2. ASSUME NEW d \in EmbedCalls \ {c} PROVE CallInv(d)'
    <3>1. /\ clientPc'[d] = clientPc[d] /\ batch'[d] = batch[d]
          /\ attempts'[d] = attempts[d] /\ last'[d] = last[d]
          /\ vectors'[d] = vectors[d] /\ received'[d] = received[d]
      BY <1>2, OthersKeep
    <3>2. CallInv(d)
      BY DEF ClientInv
    <3> QED BY ONLY <3>1, <3>2 DEF CallInv, HasBlank, SortByIndex, Before, Items
  <2>3. \A d \in EmbedCalls : CallInv(d)'
    BY <2>1, <2>2
  <2>4. \A d \in EmbedCalls : attempts'[d] \in 0..MaxAttempts
    BY <2>3 DEF CallInv
  <2>5. DOMAIN attempts' = EmbedCalls /\ attempts' = [d \in EmbedCalls |-> attempts'[d]]
    BY <1>2 DEF ClientProgress, Call, GiveUp, Backoff, Wake, Answered, DropEmbedCall, Attempted,
                ClientInv
  <2>6. attempts' \in [EmbedCalls -> 0..MaxAttempts]
    BY <2>4, <2>5
  <2> QED BY <1>2, <2>3, <2>6, OthersKeep DEF ClientInv
<1> QED BY <1>1, <1>2 DEF ClientNext

\* It always holds.
LEMMA ClientInvariant == ClientSpec => []ClientInv
<1>1. ClientInv /\ [ClientNext]_clientVars => ClientInv'
  BY ClientNextInv
<1> QED BY <1>1, ClientInitInv, PTL DEF ClientSpec

\* A text keeps its place when the server names it and all before it once.
LEMMA TextInPlace ==
  ASSUME NEW n \in Nat, NEW items, DOMAIN items = 1..n,
         \A i \in 1..n : items[i].index \in Nat, NEW texts, NEW m \in 1..n,
         \A k \in 1..m : NamedOnce(items, texts, k)
  PROVE  SortByIndex(items)[m] = texts[m]
<1>1. ASSUME NEW k \in 1..m
      PROVE  /\ IndexOnce(items, k - 1)
             /\ \E j \in 1..n : items[j].index = k - 1 /\ items[j].vector = texts[k]
  <2>1. NamedOnce(items, texts, k)
    OBVIOUS
  <2>2. PICK j \in DOMAIN items : /\ items[j] = [index |-> k - 1, vector |-> texts[k]]
                                 /\ \A a \in DOMAIN items : items[a].index = k - 1 => a = j
    BY ONLY <2>1, Zenon DEF NamedOnce
  <2>3. items[j].index = k - 1 /\ items[j].vector = texts[k] /\ j \in 1..n
    BY <2>2
  <2>4. IndexOnce(items, k - 1)
    BY ONLY <2>2, <2>3, j \in DOMAIN items, Zenon DEF IndexOnce
  <2> QED BY <2>3, <2>4
<1>2. m \in 1..m
  OBVIOUS
<1>3. PICK j \in 1..n : items[j].index = m - 1 /\ items[j].vector = texts[m]
  BY <1>1, <1>2, Zenon
<1>4. ASSUME NEW k \in 0..(m - 1) PROVE IndexOnce(items, k)
  <2>1. k + 1 \in 1..m /\ (k + 1) - 1 = k
    OBVIOUS
  <2>2. IndexOnce(items, (k + 1) - 1)
    BY ONLY <1>1, <2>1, Zenon
  <2> QED BY ONLY <2>1, <2>2
<1>5. Before(items, j) = m - 1
  BY <1>3, <1>4, IndexIsPlace
<1>6. /\ \E i \in 1..n : SortByIndex(items)[m] = items[i].vector /\ Before(items, i) = m - 1
      /\ \A a, b \in 1..n : Before(items, a) = Before(items, b) => a = b
  BY SortedItems
<1> QED BY <1>3, <1>5, <1>6, Zenon

\* A caller of the embedding client gets as many vectors as it passed texts, each at the
\* place of its text up to the first index the server does not give once, after no more
\* attempts than are allowed and no fewer when the failure may pass (client.rs
\* embed_batch, sort_by_index).
THEOREM InOrderCorrect == ClientSpec => []InOrder
<1>1. ASSUME ClientInv, NEW c \in EmbedCalls, clientPc[c] = "ok"
      PROVE  /\ Len(vectors[c]) = Len(batch[c])
             /\ \A i \in DOMAIN batch[c] :
                  (\A k \in 1..i : NamedOnce(received[c], batch[c], k)) =>
                    vectors[c][i] = batch[c][i]
  <2>1. CASE batch[c] = <<>> /\ vectors[c] = <<>>
    BY <2>1
  <2>2. CASE received[c] \in [1..Len(batch[c]) -> Items(Len(batch[c]))]
             /\ vectors[c] = SortByIndex(received[c])
    <3>1. PICK items, n : items = received[c] /\ n = Len(batch[c])
      OBVIOUS
    <3>2. /\ n \in Nat /\ DOMAIN items = 1..n /\ batch[c] \in Seq(Texts)
          /\ \A i \in 1..n : items[i].index \in Nat
      BY <1>1, <2>2, <3>1 DEF ClientInv, Items
    <3>3. /\ DOMAIN SortByIndex(items) = 1..n
          /\ \A k \in 1..n : \E i \in 1..n :
               SortByIndex(items)[k] = items[i].vector /\ Before(items, i) = k - 1
          /\ \A i, j \in 1..n : Before(items, i) = Before(items, j) => i = j
      BY <3>2, SortedItems
    <3>4. Len(vectors[c]) = Len(batch[c])
      <4>1. PICK V : V = {items[i].vector : i \in 1..n}
        OBVIOUS
      <4>2. \A k \in 1..n : SortByIndex(items)[k] \in V
        BY <3>3, <4>1
      <4>3. SortByIndex(items) = [k \in 1..n |-> SortByIndex(items)[k]]
        BY <3>2 DEF SortByIndex
      <4>4. SortByIndex(items) \in [1..n -> V]
        BY <4>2, <4>3
      <4> QED BY <2>2, <3>1, <3>2, <4>4
    <3>5. ASSUME NEW m \in DOMAIN batch[c], \A k \in 1..m : NamedOnce(received[c], batch[c], k)
          PROVE  vectors[c][m] = batch[c][m]
      <4>1. m \in 1..n
        <5>1. DOMAIN batch[c] = 1..n
          BY <3>1, <3>2
        <5> QED BY <5>1
      <4>2. PICK texts : texts = batch[c]
        OBVIOUS
      <4>3. \A k \in 1..m : NamedOnce(items, texts, k)
        BY ONLY <3>1, <3>5, <4>2
      <4>4. SortByIndex(items)[m] = texts[m]
        BY ONLY <3>2, <4>1, <4>3, TextInPlace
      <4> QED BY ONLY <2>2, <3>1, <4>2, <4>4
    <3> QED BY <3>4, <3>5
  <2> QED BY <1>1, <2>1, <2>2 DEF ClientInv, CallInv
<1>2. ClientInv => VectorsInOrder
  BY <1>1 DEF VectorsInOrder
<1>3. ClientInv => RetriesBounded
  BY ClientAssumption DEF ClientInv, CallInv, RetriesBounded, Retryable
<1> QED BY <1>2, <1>3, ClientInvariant, PTL DEF InOrder
=============================================================================
