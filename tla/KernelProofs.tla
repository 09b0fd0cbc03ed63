---------------------------- MODULE KernelProofs ----------------------------
(***************************************************************************)
(* Proofs about the kernel, part by part.                                  *)
(*                                                                         *)
(* KernelMode: for every set of requests, whichever of them fail,          *)
(* disconnect or panic, and any number of restarts, whatever the lookup of *)
(* each of them answers.                                                   *)
(*                                                                         *)
(* SchemaBoot: for every set of processes, of any releases, that open one  *)
(* file at the same time, fail in between and die.                         *)
(*                                                                         *)
(* Kernel: it implements both of its parts, so that what is proved of them *)
(* holds of the whole; and what the gate of /spans makes of a refused      *)
(* token.                                                                  *)
(*                                                                         *)
(* KernelHandles: for every set of kernels and of adapters.                *)
(***************************************************************************)
EXTENDS Kernel, KernelHandles, SequenceTheorems, FiniteSetTheorems, TLAPS

(***************************************************************************)
(* The mode and the setup.                                                 *)
(***************************************************************************)

(* What a handler knows of the vault and the mode where it is: the row of  *)
(* its seal is in the vault, and is the first one unless a boot was        *)
(* misled; and as long as this boot was not, the mode has found out.       *)
HandlerKnows(r) ==
  /\ Owns(r) => disc = "Sealing"
  /\ pc[r] = "full" => disc = "Full"
  /\ pc[r] \in {"sealed", "full"} \/ answer[r] = "Ok" =>
       /\ \E i \in DOMAIN rows : rows[i] = r
       /\ misled = {} => Head(rows) = r
  /\ answer[r] = "Ok" /\ boots \notin misled => disc = "Full"

(* From here a seal may still come.                                        *)
SealAhead ==
  \/ disc = "PreBootstrap"
  \/ \E r \in Requests : pc[r] \in {"won", "sealing", "failed"}

(* A seal is only ahead while the boots that were misled outnumber the     *)
(* tokens there are, and in a boot that was not there is none.             *)
RoomForOne ==
  SealAhead => Len(rows) <= Cardinality(misled) /\ (boots \notin misled => rows = <<>>)

(***************************************************************************)
(* The inductive invariant: OneToken is not inductive by itself, since it  *)
(* is the mode that keeps a second seal away, and the handler in flight    *)
(* that knows what the mode does not yet say.                              *)
(***************************************************************************)
SetupInv ==
  /\ TypeOK
  /\ \A r \in Requests : HandlerKnows(r)
  /\ OneOwner
  /\ ModeIsHonest
  /\ RoomForOne
  /\ OneToken

(* The boots that were misled are finitely many, and the next is none of   *)
(* them.                                                                   *)
LEMMA MisledCount ==
  ASSUME TypeOK
  PROVE  /\ IsFiniteSet(misled) /\ Cardinality(misled) \in Nat
         /\ misled = {} <=> Cardinality(misled) = 0
         /\ boots + 1 \notin misled
         /\ Cardinality(misled \cup {boots + 1}) = Cardinality(misled) + 1
<1>1. boots \in Nat /\ misled \subseteq 2..boots
  BY BootAssumption DEF TypeOK
<1>2. IsFiniteSet(misled)
  <2>1. IsFiniteSet(2..boots)
    BY <1>1, FS_Interval
  <2>2. QED
    BY <1>1, <2>1, FS_Subset
<1>3. boots + 1 \notin misled
  BY <1>1
<1>4. Cardinality(misled) \in Nat /\ (misled = {} <=> Cardinality(misled) = 0)
  BY <1>2, FS_CardinalityType, FS_EmptySet
<1>5. Cardinality(misled \cup {boots + 1}) = Cardinality(misled) + 1
  BY <1>2, <1>3, FS_AddElement
<1>6. QED
  BY <1>2, <1>3, <1>4, <1>5

(* The invariant holds in the initial states.                              *)
LEMMA InitSetup == Init => SetupInv
<1> SUFFICES ASSUME Init PROVE SetupInv
  OBVIOUS
<1>1. Len(<<>>) = 0 /\ <<>> \in Seq(Requests) /\ Cardinality({}) = 0
  BY FS_EmptySet
<1>2. TypeOK
  BY <1>1, BootAssumption DEF Init, TypeOK, Modes, Stages, Answers, Payload
<1>3. (\A r \in Requests : HandlerKnows(r)) /\ OneOwner /\ ModeIsHonest
  BY DEF Init, HandlerKnows, Owns, OneOwner, ModeIsHonest
<1>4. OneToken /\ RoomForOne
  BY <1>1 DEF Init, OneToken, RoomForOne
<1>5. QED
  BY <1>2, <1>3, <1>4 DEF SetupInv

(* Every step keeps the invariant.                                         *)
LEMMA NextSetup == SetupInv /\ [Next]_vars => SetupInv'
<1> SUFFICES ASSUME SetupInv, [Next]_vars PROVE SetupInv'
  OBVIOUS
<1> USE DEF SetupInv
<1> USE RequestAssumption, BootAssumption
<1>c. Cardinality(misled) \in Nat /\ Len(rows) \in Nat
  BY MisledCount DEF TypeOK
<1>1. ASSUME NEW r \in Requests, RejectName(r) \/ LoseCas(r) PROVE SetupInv'
  <2>1. TypeOK'
    <3>1. CASE RejectName(r)
      BY <3>1 DEF RejectName, Goto, Answered, bootVars, TypeOK, Stages, Answers
    <3>2. CASE LoseCas(r)
      BY <3>2 DEF LoseCas, Goto, Answered, bootVars, TypeOK, Stages, Answers
    <3>3. QED
      BY <1>1, <3>1, <3>2
  <2>2. /\ UNCHANGED <<disc, rows, legacy, boots, misled>>
        /\ \A q \in Requests : pc'[q] = pc[q] \/ pc'[q] = "done"
        /\ \A q \in Requests : answer'[q] = "Ok" => answer[q] = "Ok"
    BY <1>1 DEF RejectName, LoseCas, Goto, Answered, bootVars, TypeOK
  <2>3. QED
    BY <2>1, <2>2 DEF HandlerKnows, Owns, OneOwner, ModeIsHonest, SealAhead, RoomForOne, OneToken
<1>2. ASSUME NEW r \in Requests, WinCas(r) PROVE SetupInv'
  <2>1. TypeOK'
    BY <1>2 DEF WinCas, Goto, bootVars, TypeOK, Stages, Modes
  <2>2. disc = "PreBootstrap" /\ SealAhead /\ \A q \in Requests : ~Owns(q)
    BY <1>2 DEF WinCas, CasSucceeds, HandlerKnows, SealAhead
  <2>3. \A q \in Requests : pc[q] # "full"
    BY <2>2 DEF HandlerKnows
  <2>4. boots \notin misled => \A q \in Requests : answer[q] # "Ok"
    BY <2>2 DEF HandlerKnows
  <2>5. \A q \in Requests : HandlerKnows(q)'
    BY <1>2, <2>1, <2>2, <2>3, <2>4 DEF WinCas, Goto, bootVars, TypeOK, HandlerKnows, Owns
  <2>6. OneOwner' /\ ModeIsHonest' /\ RoomForOne' /\ OneToken'
    BY <1>2, <2>1, <2>2 DEF WinCas, Goto, bootVars, TypeOK, Owns, OneOwner, ModeIsHonest,
       RoomForOne, OneToken
  <2>7. QED
    BY <2>1, <2>5, <2>6
<1>3. ASSUME NEW r \in Requests, MarkSealing(r) \/ SealFails(r) PROVE SetupInv'
  <2>1. TypeOK'
    <3>1. CASE MarkSealing(r)
      BY <3>1 DEF MarkSealing, Goto, Payload, bootVars, TypeOK, Stages, Modes
    <3>2. CASE SealFails(r)
      BY <3>2 DEF SealFails, Goto, bootVars, TypeOK, Stages
    <3>3. QED
      BY <1>3, <3>1, <3>2
  <2>2. /\ UNCHANGED <<disc, rows, answer, legacy, boots, misled>>
        /\ \A q \in Requests : q # r => pc'[q] = pc[q]
        /\ pc[r] \in {"won", "sealing"} /\ pc'[r] \in {"sealing", "failed"}
    BY <1>3 DEF MarkSealing, SealFails, Goto, bootVars, TypeOK
  <2>3. SealAhead
    BY <2>2 DEF SealAhead
  <2>4. QED
    BY <2>1, <2>2, <2>3 DEF HandlerKnows, Owns, OneOwner, ModeIsHonest, RoomForOne, OneToken
<1>4. ASSUME NEW r \in Requests, SealCommits(r) PROVE SetupInv'
  <2>1. disc = "Sealing" /\ SealAhead /\ \A q \in Requests : Owns(q) => q = r
    BY <1>4 DEF SealCommits, HandlerKnows, Owns, OneOwner, SealAhead
  <2>2. /\ rows' = Append(rows, r) /\ Len(rows') = Len(rows) + 1 /\ rows' \in Seq(Requests)
        /\ rows' # <<>> /\ Len(rows) + 1 \in DOMAIN rows' /\ rows'[Len(rows) + 1] = r
        /\ \A i \in DOMAIN rows : i \in DOMAIN rows' /\ rows'[i] = rows[i]
    BY <1>4 DEF SealCommits, TypeOK
  <2>3. TypeOK'
    BY <1>4, <2>2 DEF SealCommits, Goto, bootVars, TypeOK, Stages
  <2>4. boots \notin misled => rows = <<>>
    BY <2>1 DEF RoomForOne
  <2>5. misled = {} => rows = <<>> /\ Head(rows') = r
    BY <2>2, <2>4
  <2>6. \A q \in Requests : q # r => ~Owns(q) /\ pc[q] # "full"
    BY <2>1 DEF HandlerKnows
  <2>7. \A q \in Requests : answer[q] = "Ok" => boots \in misled
    BY <2>1 DEF HandlerKnows
  <2>8. \A q \in Requests : HandlerKnows(q)'
    <3> SUFFICES ASSUME NEW q \in Requests PROVE HandlerKnows(q)'
      OBVIOUS
    <3>1. misled' = misled /\ boots' = boots /\ disc' = disc /\ answer' = answer
      BY <1>4 DEF SealCommits, bootVars
    <3>2. CASE q = r
      <4>1. pc'[q] = "sealed"
        BY <1>4, <3>2 DEF SealCommits, Goto, TypeOK
      <4>2. \E i \in DOMAIN rows' : rows'[i] = q
        BY <2>2, <3>2
      <4>3. QED
        BY <2>1, <2>5, <2>7, <3>1, <3>2, <4>1, <4>2 DEF HandlerKnows, Owns
    <3>3. CASE q # r
      <4>1. pc'[q] = pc[q]
        BY <1>4, <3>3 DEF SealCommits, Goto, TypeOK
      <4>2. answer[q] = "Ok" => \E i \in DOMAIN rows' : rows'[i] = q
        BY <2>2 DEF HandlerKnows
      <4>3. answer[q] = "Ok" => misled # {}
        BY <2>7
      <4>4. QED
        BY <2>6, <2>7, <3>1, <3>3, <4>1, <4>2, <4>3 DEF HandlerKnows, Owns
    <3>4. QED
      BY <3>2, <3>3
  <2>9. OneOwner' /\ ModeIsHonest'
    BY <1>4, <2>1, <2>2, <2>6 DEF SealCommits, Goto, bootVars, TypeOK, Owns, OneOwner, ModeIsHonest
  <2>10. ~SealAhead'
    BY <1>4, <2>1, <2>6 DEF SealCommits, Goto, TypeOK, SealAhead, Owns
  <2>11. OneToken' /\ RoomForOne'
    BY <1>4, <1>c, <2>1, <2>2, <2>10 DEF SealCommits, bootVars, RoomForOne, OneToken
  <2>12. QED
    BY <2>3, <2>8, <2>9, <2>11
<1>5. ASSUME NEW r \in Requests, Abandon(r) PROVE SetupInv'
  <2>1. TypeOK'
    BY <1>5 DEF Abandon, Goto, bootVars, TypeOK, Stages
  <2>2. QED
    BY <1>5, <2>1 DEF Abandon, Goto, bootVars, TypeOK, HandlerKnows, Owns, OneOwner,
       ModeIsHonest, SealAhead, RoomForOne, OneToken
<1>6. ASSUME NEW r \in Requests, StoreFull(r) PROVE SetupInv'
  <2>1. TypeOK'
    BY <1>6 DEF StoreFull, Goto, bootVars, TypeOK, Stages, Modes
  <2>2. disc = "Sealing" /\ \A q \in Requests : Owns(q) => q = r
    BY <1>6 DEF StoreFull, HandlerKnows, Owns, OneOwner
  <2>3. rows # <<>>
    BY <1>6 DEF StoreFull, HandlerKnows, TypeOK
  <2>4. \A q \in Requests : HandlerKnows(q)'
    BY <1>6, <2>1, <2>2 DEF StoreFull, Goto, bootVars, TypeOK, HandlerKnows, Owns
  <2>5. OneOwner' /\ ModeIsHonest' /\ OneToken' /\ ~SealAhead'
    BY <1>6, <2>1, <2>2, <2>3 DEF StoreFull, Goto, bootVars, TypeOK, Owns, OneOwner,
       ModeIsHonest, OneToken, SealAhead
  <2>6. QED
    BY <2>1, <2>4, <2>5 DEF RoomForOne
<1>7. ASSUME NEW r \in Requests, StoreBack(r) PROVE SetupInv'
  <2>1. TypeOK'
    BY <1>7 DEF StoreBack, RollbackMode, Goto, bootVars, TypeOK, Stages, Modes
  <2>2. disc = "Sealing" /\ SealAhead /\ \A q \in Requests : Owns(q) => q = r
    BY <1>7 DEF StoreBack, HandlerKnows, Owns, OneOwner, SealAhead
  <2>3. \A q \in Requests : pc[q] # "full" /\ (boots \notin misled => answer[q] # "Ok")
    BY <2>2 DEF HandlerKnows
  <2>4. Len(rows) <= Cardinality(misled) /\ (boots \notin misled => rows = <<>>)
    BY <2>2 DEF RoomForOne
  <2>5. \A q \in Requests : HandlerKnows(q)'
    BY <1>7, <2>1, <2>2, <2>3 DEF StoreBack, Goto, bootVars, TypeOK, HandlerKnows, Owns
  <2>6. OneOwner' /\ ModeIsHonest' /\ RoomForOne' /\ OneToken'
    BY <1>7, <2>1, <2>2, <2>4 DEF StoreBack, RollbackMode, Goto, bootVars, TypeOK, Owns,
       OneOwner, ModeIsHonest, RoomForOne, OneToken
  <2>7. QED
    BY <2>1, <2>5, <2>6
<1>8. ASSUME NEW r \in Requests, MarkFull(r) PROVE SetupInv'
  <2>1. TypeOK'
    BY <1>8 DEF MarkFull, FullPayload, Payload, Answered, Goto, bootVars, TypeOK, Stages, Modes,
       Answers
  <2>2. QED
    BY <1>8, <2>1 DEF MarkFull, Answered, Goto, bootVars, TypeOK, HandlerKnows, Owns, OneOwner,
       ModeIsHonest, SealAhead, RoomForOne, OneToken
<1>9. ASSUME NEW r \in Requests, MarkBack(r) PROVE SetupInv'
  <2>1. TypeOK'
    BY <1>9 DEF MarkBack, Payload, Answered, Goto, bootVars, TypeOK, Stages, Modes, Answers
  <2>2. QED
    BY <1>9, <2>1 DEF MarkBack, Answered, Goto, bootVars, TypeOK, HandlerKnows, Owns, OneOwner,
       ModeIsHonest, SealAhead, RoomForOne, OneToken
<1>10. CASE Restart
  <2>1. PICK looked \in BootLookup :
          /\ disc' = BootMode(looked)
          /\ payload' = Payload(BootMode(looked), "boot")
          /\ misled' = IF rows # <<>> /\ looked # "found" THEN misled \cup {boots'} ELSE misled
    BY <1>10 DEF Restart
  <2>2. /\ boots' = boots + 1 /\ boots < MaxBoots /\ boots \in 1..MaxBoots /\ MaxBoots \in Nat
        /\ UNCHANGED <<answer, legacy, rows>>
        /\ misled \subseteq 2..boots
    BY <1>10 DEF Restart, TypeOK
  <2>3. /\ boots + 1 \notin misled
        /\ Cardinality(misled \cup {boots + 1}) = Cardinality(misled) + 1
    BY MisledCount
  <2>4. boots' \in misled' <=> rows # <<>> /\ looked # "found"
    BY <2>1, <2>2, <2>3
  <2>5. looked = "found" => rows # <<>> /\ disc' = "Full"
    BY <2>1 DEF BootLookup, BootMode
  <2>6. looked # "found" => disc' = "PreBootstrap"
    BY <2>1 DEF BootMode
  <2>7. TypeOK'
    <3>1. disc' \in Modes /\ payload' \in [mode : Modes, by : Requests \cup {"boot"}]
      BY <2>1 DEF BootMode, Payload, Modes
    <3>2. pc' \in [Requests -> Stages]
      BY <1>10 DEF Restart, TypeOK, Stages
    <3>3. \A r \in Requests : pc'[r] = "done" <=> pc[r] = "done"
      BY <1>10 DEF Restart
    <3>4. misled' \subseteq 2..boots' /\ boots' \in 1..MaxBoots
      BY <2>1, <2>2
    <3>5. answer' \in [Requests -> Answers] /\ legacy' \in BOOLEAN /\ rows' \in Seq(Requests)
      BY <2>2 DEF TypeOK
    <3>6. \A r \in Requests : answer'[r] # "none" <=> pc'[r] = "done"
      BY <2>2, <3>3 DEF TypeOK
    <3>7. QED
      BY <3>1, <3>2, <3>4, <3>5, <3>6 DEF TypeOK
  <2>8. \A r \in Requests : pc'[r] \in {"new", "done", "gone"} /\ ~Owns(r)'
    BY <1>10 DEF Restart, Owns
  <2>9. misled' = {} => misled = {}
    BY <2>1
  <2>10. \A r \in Requests : HandlerKnows(r)'
    <3> SUFFICES ASSUME NEW r \in Requests PROVE HandlerKnows(r)'
      OBVIOUS
    <3>1. answer[r] = "Ok" => rows # <<>>
      BY DEF HandlerKnows, TypeOK
    <3>2. QED
      BY <2>2, <2>4, <2>5, <2>8, <2>9, <3>1 DEF HandlerKnows
  <2>11. ModeIsHonest' /\ OneOwner'
    BY <2>2, <2>4, <2>5, <2>6, <2>8 DEF ModeIsHonest, OneOwner
  <2>12. RoomForOne' /\ OneToken'
    <3>1. SealAhead' => looked # "found"
      BY <2>5, <2>8 DEF SealAhead
    <3>2. CASE rows # <<>> /\ looked # "found"
      BY <1>c, <2>1, <2>2, <2>3, <2>4, <3>2 DEF RoomForOne, OneToken
    <3>3. CASE rows = <<>>
      <4>1. Len(rows) = 0
        BY <3>3
      <4>2. QED
        BY <1>c, <2>1, <2>2, <3>3, <4>1 DEF RoomForOne, OneToken
    <3>4. CASE looked = "found"
      BY <2>1, <2>2, <3>1, <3>4 DEF RoomForOne, OneToken
    <3>5. QED
      BY <3>2, <3>3, <3>4
  <2>13. QED
    BY <2>7, <2>10, <2>11, <2>12
<1>11. CASE UNCHANGED vars
  BY <1>11 DEF vars, bootVars, TypeOK, HandlerKnows, Owns, OneOwner, ModeIsHonest, SealAhead,
     RoomForOne, OneToken
<1>12. QED
  BY <1>1, <1>2, <1>3, <1>4, <1>5, <1>6, <1>7, <1>8, <1>9, <1>10, <1>11
  DEF Next, Handler, Continue

(* The setup of the kernel keeps its invariant (mode.rs, pre_bootstrap.rs, *)
(* kernel.rs Kernel::new).                                                 *)
THEOREM SetupInvariant == Spec => []SetupInv
BY InitSetup, NextSetup, PTL DEF Spec

(* Whatever fails, disconnects, panics or crashes during the setup, and    *)
(* however many requests are made, one token is sealed at most, and one    *)
(* more for each boot whose lookup did not see that there is one.          *)
THEOREM OneTokenCorrect == Spec => []OneToken
BY SetupInvariant, PTL DEF SetupInv

(* Full and PreBootstrap say of the vault what is true, but for the        *)
(* PreBootstrap of a boot whose lookup did not see the token.              *)
THEOREM HonestCorrect == Spec => []ModeIsHonest
BY SetupInvariant, PTL DEF SetupInv

(* A token that was answered with 200 is in the vault and is the one that  *)
(* authenticates, over restarts, until a boot does not see it.             *)
THEOREM AnsweredCorrect == Spec => []AnsweredTokenWorks
<1>1. SetupInv => AnsweredTokenWorks
  BY DEF SetupInv, HandlerKnows, AnsweredTokenWorks
<1>2. QED
  BY <1>1, SetupInvariant, PTL

(* What current() shows is what was stored, once nothing is half done: of  *)
(* the transitions that may overwrite one another only a rollback may      *)
(* leave its payload over the mode of a later one.                         *)
LEMMA NextSettles == SetupInv /\ PayloadSettles /\ [Next]_vars => PayloadSettles'
<1> SUFFICES ASSUME SetupInv, PayloadSettles, [Next]_vars PROVE PayloadSettles'
  OBVIOUS
<1>t. TypeOK /\ \A q \in Requests : HandlerKnows(q)
  BY DEF SetupInv
<1>1. ASSUME NEW r \in Requests,
             RejectName(r) \/ LoseCas(r) \/ SealCommits(r) \/ SealFails(r) \/ Abandon(r)
      PROVE  PayloadSettles'
  <2>1. /\ UNCHANGED <<disc, payload>>
        /\ \A q \in Requests : pc'[q] \notin {"won", "full", "back"}
              => pc[q] \notin {"won", "full", "back"}
    BY <1>1, <1>t DEF RejectName, LoseCas, SealCommits, SealFails, Abandon, Goto, TypeOK
  <2>2. \A q \in Requests : answer[q] = "Engine" => answer'[q] = "Engine"
    BY <1>1, <1>t DEF RejectName, LoseCas, SealCommits, SealFails, Abandon, Answered, TypeOK
  <2>3. QED
    BY <2>1, <2>2 DEF PayloadSettles
<1>2. ASSUME NEW r \in Requests, WinCas(r) \/ StoreFull(r) \/ StoreBack(r)
      PROVE  PayloadSettles'
  <2>1. pc'[r] \in {"won", "full", "back"}
    BY <1>2, <1>t DEF WinCas, StoreFull, StoreBack, Goto, TypeOK
  <2>2. QED
    BY <2>1 DEF PayloadSettles
<1>3. ASSUME NEW r \in Requests, MarkSealing(r) \/ MarkFull(r) PROVE PayloadSettles'
  <2>1. payload'.mode = disc'
    BY <1>3, <1>t DEF MarkSealing, MarkFull, FullPayload, Payload, HandlerKnows, Owns
  <2>2. QED
    BY <2>1 DEF PayloadSettles
<1>4. ASSUME NEW r \in Requests, MarkBack(r) PROVE PayloadSettles'
  <2>1. payload' = Payload("PreBootstrap", r) /\ answer'[r] = "Engine"
    BY <1>4, <1>t DEF MarkBack, Answered, TypeOK
  <2>2. QED
    BY <2>1 DEF PayloadSettles
<1>5. CASE Restart
  <2>1. payload'.mode = disc'
    BY <1>5 DEF Restart, Payload
  <2>2. QED
    BY <2>1 DEF PayloadSettles
<1>6. CASE UNCHANGED vars
  BY <1>6 DEF vars, PayloadSettles
<1>7. QED
  BY <1>1, <1>2, <1>3, <1>4, <1>5, <1>6 DEF Next, Handler, Continue

(* The payload agrees with the discriminant whenever no transition is      *)
(* between its two writes, but for the rollback that was overtaken         *)
(* (mode.rs, the three transitions and current).                           *)
THEOREM PayloadCorrect == Spec => []PayloadSettles
<1>1. Init => PayloadSettles
  BY DEF Init, PayloadSettles, Payload
<1>2. QED
  BY <1>1, NextSettles, SetupInvariant, PTL DEF Spec

-----------------------------------------------------------------------------
(***************************************************************************)
(* The opening of the file.                                                *)
(***************************************************************************)

(* What a process has read or applied is in the file, with all before it:  *)
(* nothing else lets it conclude, from a version, that tables are there.   *)
SeenIsThere(p) ==
  stage[p] = "migrating" =>
    /\ seen[p] > 0 => seen[p] \in file.notebook
    /\ 1..seen[p] \subseteq file.schema \cap file.notebook

WholeWhen(p) ==
  stage[p] \in {"migrated", "open"} =>
    1..Binary[p] \subseteq file.schema \cap file.notebook

(***************************************************************************)
(* The inductive invariant: what a process concludes from the version it   *)
(* read rests on the notebook having no gap, and on no migration being     *)
(* noted without its tables, which every file a release leaves behind has  *)
(* (LeftByRelease) and every step keeps.                                   *)
(***************************************************************************)
BootInv ==
  /\ FileTypeOK
  /\ LeftByRelease(file)
  /\ \A p \in Processes : SeenIsThere(p) /\ WholeWhen(p)

(* The notebook has no gap: a version is noted only after those before it. *)
LEMMA NoGap ==
  ASSUME BootInv, NEW m \in file.notebook
  PROVE  m \in Versions /\ 1..m \subseteq file.notebook
<1>1. m \in Versions /\ m <= file.meta /\ file.meta \in Nat
  BY BinaryAssumption DEF BootInv, FileTypeOK, File, LeftByRelease, Versions
<1>2. CASE m = 1
  BY <1>1, <1>2 DEF Versions
<1>3. CASE m # 1
  BY <1>1, <1>3, BinaryAssumption DEF BootInv, LeftByRelease, Versions
<1>4. QED
  BY <1>2, <1>3

(* The first pending migration is the one after the last that was seen.    *)
LEMMA NextVersion ==
  ASSUME BootInv, NEW p \in Processes, NEW m \in Versions, FirstPending(p, m)
  PROVE  seen[p] \in Nat /\ m = seen[p] + 1 /\ m <= Binary[p]
<1>1. seen[p] \in Nat /\ Binary[p] \in Nat /\ m \in Nat
  BY BinaryAssumption DEF BootInv, FileTypeOK, Versions
<1>2. m \in 1..Binary[p] /\ m > seen[p]
  BY DEF FirstPending, Pending
<1>3. seen[p] + 1 \in Pending(p)
  BY <1>1, <1>2 DEF Pending
<1>4. QED
  BY <1>1, <1>2, <1>3 DEF FirstPending

(* What a migration makes of the file: it grows by one version, which no   *)
(* process has in it yet.                                                  *)
LEMMA MigratedFile ==
  ASSUME BootInv, NEW p \in Processes, stage[p] = "migrating",
         NEW m \in Versions, FirstPending(p, m), Applicable(m)
  PROVE  /\ Migrated(m) \in File
         /\ LeftByRelease(Migrated(m))
         /\ Migrated(m).meta >= file.meta
         /\ Migrated(m).notebook = file.notebook \cup {m}
         /\ Migrated(m).schema = file.schema \cup {m}
         /\ 1..m \subseteq Migrated(m).notebook
<1>1. /\ file \in File /\ LeftByRelease(file) /\ m \in Nat \ {0} /\ file.meta \in Nat
      /\ m <= Latest /\ file.meta <= Latest /\ Latest \in Nat
  BY BinaryAssumption DEF BootInv, FileTypeOK, File, Versions
<1>2. m = seen[p] + 1 /\ seen[p] \in Nat
  BY NextVersion
<1>3. 1..seen[p] \subseteq file.notebook /\ m \notin file.notebook
  BY DEF BootInv, SeenIsThere, Applicable
<1>4. 1..m \subseteq file.notebook \cup {m}
  BY <1>1, <1>2, <1>3
<1>5. \A n \in file.notebook : n \in Nat /\ n < m
  <2> SUFFICES ASSUME NEW n \in file.notebook PROVE n \in Nat /\ n < m
    OBVIOUS
  <2>1. n \in Versions /\ 1..n \subseteq file.notebook
    BY NoGap
  <2>2. QED
    BY <1>1, <1>3, <2>1 DEF Versions
<1>6. file.meta > 1 => file.meta < m
  <2> SUFFICES ASSUME file.meta > 1 PROVE file.meta < m
    OBVIOUS
  <2>1. file.meta \in file.notebook
    BY <1>1 DEF LeftByRelease
  <2>2. QED
    BY <1>5, <2>1
<1>7. m > 1 => file.meta > 0
  <2> SUFFICES ASSUME m > 1 PROVE file.meta > 0
    OBVIOUS
  <2>1. 1 \in file.notebook
    BY <1>1, <1>2, <1>3
  <2>2. QED
    BY <1>1, <2>1 DEF LeftByRelease
<1>8. /\ Migrated(m).meta = VersionAfter(m)
      /\ Migrated(m).notebook = file.notebook \cup {m}
      /\ Migrated(m).schema = file.schema \cup {m}
  BY DEF Migrated
<1>9. VersionAfter(m) = m
  <2>1. CASE m = 1
    BY <1>1, <1>6, <2>1 DEF VersionAfter
  <2>2. CASE m > 1
    BY <1>1, <1>7, <2>2 DEF VersionAfter
  <2>3. QED
    BY <1>1, <2>1, <2>2
<1>10. file.meta <= m
  BY <1>1, <1>6
<1>11. Migrated(m) \in File
  BY <1>1, <1>9 DEF Migrated, File, Versions
<1>12. LeftByRelease(Migrated(m))
  BY <1>1, <1>4, <1>5, <1>8, <1>9 DEF LeftByRelease
<1>13. QED
  BY <1>1, <1>4, <1>8, <1>9, <1>10, <1>11, <1>12

(* The invariant holds in the initial states.                              *)
LEMMA InitBoot == FileInit => BootInv
<1> SUFFICES ASSUME FileInit PROVE BootInv
  OBVIOUS
<1>1. FileTypeOK
  BY FilesAssumption, BinaryAssumption DEF FileInit, FileTypeOK, OpenStages, Versions
<1>2. LeftByRelease(file)
  BY FilesAssumption DEF FileInit
<1>3. \A p \in Processes : SeenIsThere(p) /\ WholeWhen(p)
  BY DEF FileInit, SeenIsThere, WholeWhen
<1>4. QED
  BY <1>1, <1>2, <1>3 DEF BootInv

(* A step that only moves a process on, to a stage that needs nothing of   *)
(* the file, keeps the invariant.                                          *)
LEMMA MoveKeeps ==
  ASSUME BootInv, NEW p \in Processes, NEW s \in OpenStages, To(p, s),
         s # "migrating",
         s \in {"migrated", "open"} => 1..Binary[p] \subseteq file.schema \cap file.notebook,
         faults' \in 0..MaxFaults
  PROVE  BootInv'
<1>1. file' = file
  BY DEF To
<1>2. FileTypeOK'
  BY DEF BootInv, FileTypeOK, To
<1>3. LeftByRelease(file)'
  BY <1>1 DEF BootInv, LeftByRelease
<1>4. ASSUME NEW q \in Processes PROVE SeenIsThere(q)' /\ WholeWhen(q)'
  <2>1. CASE q = p
    BY <1>1, <2>1 DEF BootInv, FileTypeOK, To, SeenIsThere, WholeWhen
  <2>2. CASE q # p
    BY <1>1, <2>2 DEF BootInv, FileTypeOK, To, SeenIsThere, WholeWhen
  <2>3. QED
    BY <2>1, <2>2
<1>5. QED
  BY <1>2, <1>3, <1>4 DEF BootInv

(* Every step keeps the invariant.                                         *)
LEMMA NextBoot == BootInv /\ [FileNext]_fileVars => BootInv'
<1> SUFFICES ASSUME BootInv, [FileNext]_fileVars PROVE BootInv'
  OBVIOUS
<1>t. FileTypeOK /\ faults \in Nat /\ MaxFaults \in Nat
  BY FilesAssumption DEF BootInv, FileTypeOK
<1>1. ASSUME NEW p \in Processes, Open(p) PROVE BootInv'
  BY <1>1, <1>t, MoveKeeps DEF Open, OpenStages, FileTypeOK
<1>2. ASSUME NEW p \in Processes, PreCheck(p) PROVE BootInv'
  <2>1. CASE Readable(p)
    BY <1>2, <1>t, <2>1, MoveKeeps DEF PreCheck, OpenStages, FileTypeOK
  <2>2. CASE ~Readable(p)
    BY <1>2, <1>t, <2>2, MoveKeeps DEF PreCheck, OpenStages, FileTypeOK
  <2>3. QED
    BY <2>1, <2>2
<1>3. ASSUME NEW p \in Processes, ReadNotebook(p) PROVE BootInv'
  <2>1. PICK v \in Versions \cup {0} : LastApplied(v) /\ seen' = [seen EXCEPT ![p] = v]
    BY <1>3 DEF ReadNotebook
  <2>2. stage' = [stage EXCEPT ![p] = "migrating"] /\ UNCHANGED <<file, faults>>
    BY <1>3 DEF ReadNotebook
  <2>3. FileTypeOK'
    BY <1>t, <2>1, <2>2 DEF FileTypeOK, OpenStages
  <2>4. LeftByRelease(file)'
    BY <2>2 DEF BootInv, LeftByRelease
  <2>5. v > 0 => v \in file.notebook /\ 1..v \subseteq file.notebook
    BY <2>1, NoGap, BinaryAssumption DEF LastApplied, Versions
  <2>6. 1..v \subseteq file.schema \cap file.notebook /\ (v > 0 => v \in file.notebook)
    <3>1. file.notebook \subseteq file.schema
      BY DEF BootInv, LeftByRelease
    <3>2. CASE v = 0
      BY <3>2
    <3>3. CASE v # 0
      BY <2>1, <2>5, <3>1, <3>3, BinaryAssumption DEF Versions
    <3>4. QED
      BY <3>2, <3>3
  <2>7. ASSUME NEW q \in Processes PROVE SeenIsThere(q)' /\ WholeWhen(q)'
    <3>1. CASE q = p
      BY <1>t, <2>1, <2>2, <2>6, <3>1 DEF FileTypeOK, SeenIsThere, WholeWhen
    <3>2. CASE q # p
      BY <1>t, <2>1, <2>2, <3>2 DEF BootInv, FileTypeOK, SeenIsThere, WholeWhen
    <3>3. QED
      BY <3>1, <3>2
  <2>8. QED
    BY <2>3, <2>4, <2>7 DEF BootInv
<1>4. ASSUME NEW p \in Processes, Migrate(p) PROVE BootInv'
  <2>1. PICK m \in Versions : /\ FirstPending(p, m)
                              /\ \/ /\ Applicable(m)
                                    /\ file' = Migrated(m)
                                    /\ seen' = [seen EXCEPT ![p] = m]
                                    /\ UNCHANGED stage
                                 \/ ~Applicable(m) /\ To(p, "failed")
    BY <1>4 DEF Migrate
  <2>2. stage[p] = "migrating" /\ faults' = faults
    BY <1>4 DEF Migrate
  <2>3. CASE ~Applicable(m)
    BY <1>t, <2>1, <2>2, <2>3, MoveKeeps DEF OpenStages, FileTypeOK
  <2>4. CASE Applicable(m)
    <3>1. file' = Migrated(m) /\ seen' = [seen EXCEPT ![p] = m] /\ stage' = stage
      BY <2>1, <2>4
    <3>2. /\ Migrated(m) \in File
          /\ LeftByRelease(Migrated(m))
          /\ Migrated(m).notebook = file.notebook \cup {m}
          /\ Migrated(m).schema = file.schema \cup {m}
          /\ 1..m \subseteq Migrated(m).notebook
      BY <2>1, <2>2, <2>4, MigratedFile
    <3>3. FileTypeOK'
      BY <1>t, <2>2, <3>1, <3>2 DEF FileTypeOK
    <3>4. LeftByRelease(file)'
      BY <3>1, <3>2 DEF LeftByRelease
    <3>5. ASSUME NEW q \in Processes PROVE SeenIsThere(q)' /\ WholeWhen(q)'
      <4>1. CASE q = p
        <5>1. m \in file'.notebook /\ 1..m \subseteq file'.schema \cap file'.notebook
          BY <3>1, <3>2 DEF LeftByRelease
        <5>2. QED
          BY <1>t, <2>2, <3>1, <4>1, <5>1 DEF FileTypeOK, SeenIsThere, WholeWhen
      <4>2. CASE q # p
        BY <1>t, <3>1, <3>2, <4>2 DEF BootInv, FileTypeOK, SeenIsThere, WholeWhen
      <4>3. QED
        BY <4>1, <4>2
    <3>6. QED
      BY <3>3, <3>4, <3>5 DEF BootInv
  <2>5. QED
    BY <2>3, <2>4
<1>5. ASSUME NEW p \in Processes, EndMigrate(p) PROVE BootInv'
  <2>1. Pending(p) = {} /\ stage[p] = "migrating" /\ To(p, "migrated") /\ faults' = faults
    BY <1>5 DEF EndMigrate
  <2>2. seen[p] \in Nat /\ Binary[p] \in Nat
    BY <1>t, BinaryAssumption DEF FileTypeOK, Versions
  <2>3. 1..Binary[p] \subseteq 1..seen[p]
    BY <2>1, <2>2 DEF Pending
  <2>4. 1..Binary[p] \subseteq file.schema \cap file.notebook
    BY <2>1, <2>3 DEF BootInv, SeenIsThere
  <2>5. QED
    BY <1>t, <2>1, <2>4, MoveKeeps DEF OpenStages, FileTypeOK
<1>6. ASSUME NEW p \in Processes, PostCheck(p) PROVE BootInv'
  <2>1. 1..Binary[p] \subseteq file.schema \cap file.notebook
    BY <1>6 DEF PostCheck, BootInv, WholeWhen
  <2>2. CASE Current(p)
    BY <1>6, <1>t, <2>1, <2>2, MoveKeeps DEF PostCheck, OpenStages, FileTypeOK
  <2>3. CASE ~Current(p)
    BY <1>6, <1>t, <2>3, MoveKeeps DEF PostCheck, OpenStages, FileTypeOK
  <2>4. QED
    BY <2>2, <2>3
<1>7. ASSUME NEW p \in Processes, StatementFails(p) PROVE BootInv'
  <2>1. faults' \in 0..MaxFaults /\ To(p, "failed")
    BY <1>7, <1>t DEF StatementFails
  <2>2. QED
    BY <2>1, MoveKeeps DEF OpenStages
<1>8. ASSUME NEW p \in Processes, Killed(p) PROVE BootInv'
  <2>1. faults' \in 0..MaxFaults /\ To(p, "down")
    BY <1>8, <1>t DEF Killed
  <2>2. QED
    BY <2>1, MoveKeeps DEF OpenStages
<1>9. CASE UNCHANGED fileVars
  BY <1>9 DEF fileVars, BootInv, FileTypeOK, LeftByRelease, SeenIsThere, WholeWhen
<1>10. QED
  BY <1>1, <1>2, <1>3, <1>4, <1>5, <1>6, <1>7, <1>8, <1>9 DEF FileNext, OpenerStep, Opening

LEMMA BootInvariant == FileSpec => []BootInv
<1>1. QED
  BY InitBoot, NextBoot, PTL DEF FileSpec

(* A process has the file open only with every table and column of its     *)
(* release in it.                                                          *)
THEOREM WholeCorrect == FileSpec => []OpenIsWhole
<1>1. BootInv => OpenIsWhole
  BY DEF BootInv, WholeWhen, OpenIsWhole
<1>2. QED
  BY <1>1, BootInvariant, PTL

(* Nobody takes the file back to an earlier version.                       *)
THEOREM DowngradeCorrect == FileSpec => NeverDowngraded
<1>1. BootInv /\ [FileNext]_fileVars =>
        [/\ file'.meta >= file.meta
         /\ file.notebook \subseteq file'.notebook
         /\ file.schema \subseteq file'.schema]_file
  <2> SUFFICES ASSUME BootInv, [FileNext]_fileVars, file' # file
               PROVE  /\ file'.meta >= file.meta
                      /\ file.notebook \subseteq file'.notebook
                      /\ file.schema \subseteq file'.schema
    OBVIOUS
  <2>1. PICK p \in Processes : Migrate(p)
    BY DEF FileNext, OpenerStep, Opening, Open, PreCheck, ReadNotebook, EndMigrate, PostCheck,
       StatementFails, Killed, To, fileVars
  <2>2. PICK m \in Versions : FirstPending(p, m) /\ Applicable(m) /\ file' = Migrated(m)
    BY <2>1 DEF Migrate, To
  <2>3. stage[p] = "migrating"
    BY <2>1 DEF Migrate
  <2>4. QED
    BY <2>2, <2>3, MigratedFile
<1>2. QED
  BY <1>1, BootInvariant, PTL DEF FileSpec, NeverDowngraded

-----------------------------------------------------------------------------
(***************************************************************************)
(* The whole.                                                              *)
(***************************************************************************)

(* Every step of a kernel is one of the mode, or leaves it alone.          *)
LEMMA ModeStep == [KNext]_kernelVars => [Next]_vars
<1> SUFFICES ASSUME [KNext]_kernelVars PROVE [Next]_vars
  OBVIOUS
<1>1. CASE Construct
  BY <1>1 DEF Construct, modeVars, Next
<1>2. CASE ConstructFails \/ Dies \/ Health
  BY <1>2 DEF ConstructFails, Dies, Health, modeVars
<1>3. ASSUME NEW p \in Processes, OpenStep(p) PROVE [Next]_vars
  BY <1>3 DEF OpenStep, modeVars
<1>4. ASSUME NEW r \in Requests, Setup(r) PROVE [Next]_vars
  BY <1>4 DEF Setup, Next
<1>5. ASSUME NEW r \in Requests, BearerAuth(r) PROVE [Next]_vars
  BY <1>5 DEF BearerAuth, modeVars
<1>6. CASE UNCHANGED kernelVars
  BY <1>6 DEF kernelVars, modeVars
<1>7. QED
  BY <1>1, <1>2, <1>3, <1>4, <1>5, <1>6 DEF KNext

(* ... and one of the processes that open the file, or leaves it alone.    *)
LEMMA FileStep == [KNext]_kernelVars => [FileNext]_fileVars
<1> SUFFICES ASSUME [KNext]_kernelVars PROVE [FileNext]_fileVars
  OBVIOUS
<1>1. CASE Construct
  BY <1>1 DEF Construct
<1>2. CASE ConstructFails \/ Dies
  BY <1>2, MainAssumption DEF ConstructFails, Dies, FileNext, OpenerStep
<1>3. ASSUME NEW p \in Processes, OpenStep(p) PROVE [FileNext]_fileVars
  BY <1>3 DEF OpenStep, FileNext
<1>4. ASSUME NEW r \in Requests, Setup(r) \/ BearerAuth(r) PROVE [FileNext]_fileVars
  BY <1>4 DEF Setup, BearerAuth
<1>5. CASE Health
  BY <1>5 DEF Health
<1>6. CASE UNCHANGED kernelVars
  BY <1>6 DEF kernelVars
<1>7. QED
  BY <1>1, <1>2, <1>3, <1>4, <1>5, <1>6 DEF KNext

(* A kernel that opens a shared file, dies and is constructed again still  *)
(* implements the mode on its own: a construction is its restart.          *)
THEOREM KernelImplementsMode == KSpec => Spec
<1>1. KInit => Init
  BY DEF KInit
<1>2. QED
  BY <1>1, ModeStep, PTL DEF KSpec, Spec

(* The kernel opens its file as any process of SchemaBoot does.            *)
THEOREM KernelImplementsSchema == KSpec => FileSpec
<1>1. KInit => FileInit
  BY DEF KInit
<1>2. QED
  BY <1>1, FileStep, PTL DEF KSpec, FileSpec

(* So the kernel serves only from a file that is whole, whoever else       *)
(* migrates it, and nobody takes it back to an earlier version             *)
(* (kernel.rs Kernel::new, storage.rs open_storage, migrate.rs migrate).   *)
THEOREM KernelFileWhole == KSpec => []OpenIsWhole /\ NeverDowngraded
<1>1. QED
  BY KernelImplementsSchema, WholeCorrect, DowngradeCorrect, PTL

(* One dashboard token is sealed at most, and one more for each boot that  *)
(* did not see it, whoever else opens the file and however often the       *)
(* kernel dies.                                                            *)
THEOREM KernelOneToken == KSpec => []OneToken
<1>1. QED
  BY KernelImplementsMode, OneTokenCorrect, PTL

(* Where the handler of the sealed token may be, and what it answered.     *)
SealedBy(r) ==
  pc[r] \in {"sealed", "full", "done", "abandoned", "gone"} /\ answer[r] \in {"none", "Ok"}

RowIsSealed == rows # <<>> => SealedBy(Head(rows))

(* The gate let in nobody but the bearer of the first row.                 *)
PassIsFirst == reply.answered = "pass" => rows # <<>> /\ Head(rows) = reply.to

(***************************************************************************)
(* The inductive invariant: an answer of the gate is remembered while the  *)
(* setup goes on, so the row it compared with must stay the first, and its *)
(* handler must not have been refused, nor be afterwards.                  *)
(***************************************************************************)
GateInv == SetupInv /\ RowIsSealed /\ PassIsFirst

(* A row stays sealed by the handler it is from.                           *)
LEMMA RowStaysSealed == SetupInv /\ RowIsSealed /\ [Next]_vars => RowIsSealed'
<1> SUFFICES ASSUME SetupInv, RowIsSealed, [Next]_vars PROVE RowIsSealed'
  OBVIOUS
<1>t. /\ TypeOK /\ rows \in Seq(Requests) /\ pc \in [Requests -> Stages]
      /\ answer \in [Requests -> Answers]
      /\ \A r \in Requests : answer[r] # "none" <=> pc[r] = "done"
  BY DEF SetupInv, TypeOK
<1>h. rows # <<>> => Head(rows) \in Requests
  BY <1>t
<1>1. ASSUME NEW r \in Requests, RejectName(r) \/ WinCas(r) \/ LoseCas(r) PROVE RowIsSealed'
  BY <1>1, <1>t, <1>h DEF RejectName, WinCas, LoseCas, Goto, Answered, RowIsSealed, SealedBy
<1>2. ASSUME NEW r \in Requests, MarkSealing(r) \/ SealFails(r) \/ StoreBack(r) \/ MarkBack(r)
      PROVE  RowIsSealed'
  BY <1>2, <1>t, <1>h
     DEF MarkSealing, SealFails, StoreBack, MarkBack, Goto, Answered, RowIsSealed, SealedBy
<1>3. ASSUME NEW r \in Requests, SealCommits(r) PROVE RowIsSealed'
  <2>1. pc[r] = "sealing" /\ pc'[r] = "sealed" /\ answer' = answer /\ answer[r] = "none"
    BY <1>3, <1>t DEF SealCommits, Goto
  <2>2. CASE rows = <<>>
    <3>1. Head(rows') = r
      BY <1>3, <2>2 DEF SealCommits
    <3>2. QED
      BY <2>1, <3>1 DEF RowIsSealed, SealedBy
  <2>3. CASE rows # <<>>
    <3>1. Head(rows') = Head(rows)
      BY <1>3, <1>t, <2>3 DEF SealCommits
    <3>2. Head(rows) # r
      BY <2>1, <2>3 DEF RowIsSealed, SealedBy
    <3>3. pc'[Head(rows)] = pc[Head(rows)]
      BY <1>3, <1>t, <1>h, <2>3, <3>2 DEF SealCommits, Goto
    <3>4. QED
      BY <2>1, <2>3, <3>1, <3>3 DEF RowIsSealed, SealedBy
  <2>4. QED
    BY <2>2, <2>3
<1>4. ASSUME NEW r \in Requests, Abandon(r) \/ StoreFull(r) \/ MarkFull(r) PROVE RowIsSealed'
  BY <1>4, <1>t, <1>h
     DEF Abandon, StoreFull, MarkFull, Goto, Answered, RowIsSealed, SealedBy
<1>5. CASE Restart
  BY <1>5, <1>t, <1>h DEF Restart, RowIsSealed, SealedBy
<1>6. CASE UNCHANGED vars
  BY <1>6 DEF vars, RowIsSealed, SealedBy
<1>7. QED
  BY <1>1, <1>2, <1>3, <1>4, <1>5, <1>6 DEF Next, Handler, Continue

(* The first row stays the first.                                          *)
LEMMA FirstRowStays ==
  ASSUME SetupInv, [Next]_vars, rows # <<>>
  PROVE  rows' # <<>> /\ Head(rows') = Head(rows)
<1>1. ASSUME NEW r \in Requests, SealCommits(r) PROVE rows' # <<>> /\ Head(rows') = Head(rows)
  BY <1>1 DEF SetupInv, TypeOK, SealCommits
<1>2. CASE ~\E r \in Requests : SealCommits(r)
  <2>1. UNCHANGED rows
    BY <1>2 DEF Next, Handler, Continue, vars, Restart, RejectName, WinCas, LoseCas, Abandon,
       MarkSealing, SealFails, StoreFull, StoreBack, MarkFull, MarkBack
  <2>2. QED
    BY <2>1
<1>3. QED
  BY <1>1, <1>2

(* Every step keeps the invariant.                                         *)
LEMMA NextGate == GateInv /\ [KNext]_kernelVars => GateInv'
<1> SUFFICES ASSUME GateInv, [KNext]_kernelVars PROVE GateInv'
  OBVIOUS
<1>1. SetupInv' /\ RowIsSealed' /\ [Next]_vars
  BY ModeStep, NextSetup, RowStaysSealed DEF GateInv
<1>2. PassIsFirst'
  <2>1. CASE UNCHANGED reply
    <3>1. SUFFICES ASSUME reply.answered = "pass"
                   PROVE  rows' # <<>> /\ Head(rows') = reply.to
      BY <2>1 DEF PassIsFirst
    <3>2. rows # <<>> /\ Head(rows) = reply.to
      BY <3>1 DEF GateInv, PassIsFirst
    <3>3. QED
      BY <1>1, <3>2, FirstRowStays DEF GateInv
  <2>2. ASSUME NEW r \in Requests, BearerAuth(r) PROVE PassIsFirst'
    <3>1. rows' = rows
      BY <2>2 DEF BearerAuth, modeVars, vars
    <3>2. PICK verdict \in {IF Accepts(r) THEN "pass" ELSE "refused", "error"} :
            reply' = Reply(r, verdict)
      BY <2>2 DEF BearerAuth
    <3>3. verdict = "pass" => rows # <<>> /\ Head(rows) = r
      BY <3>2 DEF Accepts
    <3>4. QED
      BY <3>1, <3>2, <3>3 DEF PassIsFirst, Reply
  <2>3. CASE Health
    <3>1. PICK status \in EngineHealth : reply' = Reply("/health", HealthAnswer(Overall({status})))
      BY <2>3 DEF Health
    <3>2. HealthAnswer(Overall({status})) # "pass"
      BY DEF HealthAnswer, Overall
    <3>3. QED
      BY <3>1, <3>2 DEF PassIsFirst, Reply
  <2>4. QED
    BY <2>1, <2>2, <2>3
       DEF KNext, Construct, ConstructFails, Dies, OpenStep, Setup, kernelVars
<1>3. QED
  BY <1>1, <1>2 DEF GateInv

(* A token whose request was refused never opens /spans.                   *)
THEOREM RefusedCorrect == KSpec => []RefusedStaysOut
<1>1. KInit => GateInv
  <2>1. KInit => SetupInv
    BY InitSetup DEF KInit
  <2>2. KInit => RowIsSealed /\ PassIsFirst
    BY DEF KInit, Init, RowIsSealed, PassIsFirst, Reply
  <2>3. QED
    BY <2>1, <2>2 DEF GateInv
<1>2. GateInv => RefusedStaysOut
  BY DEF GateInv, RowIsSealed, PassIsFirst, SealedBy, RefusedStaysOut
<1>3. QED
  BY <1>1, <1>2, NextGate, PTL DEF KSpec

(* The routes tell the truth (dashboard/auth.rs, dashboard/health.rs): the *)
(* acknowledged token is refused only by an error, in a vault with a row   *)
(* of the first release (see ResealWorks) or after a boot that did not see *)
(* it; and /health asks for a setup only if there is no token, or if this  *)
(* boot did not see it.                                                    *)
THEOREM RepliesCorrect == KSpec => RepliesTrue
<1> DEFINE Good ==
      /\ reply' # reply /\ reply'.answered = "refused" /\ answer[reply'.to] = "Ok"
           => legacy \/ misled # {}
      /\ reply' # reply /\ reply'.answered = "pre_bootstrap" => rows = <<>> \/ boots \in misled
<1>1. KInit => SetupInv
  BY InitSetup DEF KInit
<1>2. SetupInv /\ [KNext]_kernelVars => SetupInv'
  BY ModeStep, NextSetup
<1>3. SetupInv /\ [KNext]_kernelVars => Good
  <2> SUFFICES ASSUME SetupInv, [KNext]_kernelVars PROVE Good
    OBVIOUS
  <2>1. ASSUME NEW r \in Requests, BearerAuth(r) PROVE Good
    <3>1. PICK verdict \in {IF Accepts(r) THEN "pass" ELSE "refused", "error"} :
            reply' = Reply(r, verdict)
      BY <2>1 DEF BearerAuth
    <3>2. answer[r] = "Ok" /\ ~legacy /\ misled = {} => Accepts(r)
      <4>1. answer[r] = "Ok" /\ misled = {} => rows # <<>> /\ Head(rows) = r
        BY DEF SetupInv, TypeOK, HandlerKnows
      <4>2. QED
        BY <4>1 DEF Accepts
    <3>3. QED
      BY <3>1, <3>2 DEF Reply
  <2>2. CASE Health
    <3>1. PICK status \in EngineHealth :
            reply' = Reply("/health", HealthAnswer(Overall({status})))
      BY <2>2 DEF Health
    <3>2. reply'.answered = "pre_bootstrap" => disc = "PreBootstrap"
      BY <3>1 DEF Reply, HealthAnswer, Overall
    <3>3. reply'.answered # "refused"
      BY <3>1 DEF Reply, HealthAnswer, Overall
    <3>4. QED
      BY <3>2, <3>3 DEF SetupInv, ModeIsHonest
  <2>3. QED
    BY <2>1, <2>2 DEF KNext, Construct, ConstructFails, Dies, OpenStep, Setup, kernelVars
<1>4. SetupInv /\ [KNext]_kernelVars
        => /\ [reply' # reply /\ reply'.answered = "refused" /\ answer[reply'.to] = "Ok"
                 => legacy \/ misled # {}]_kernelVars
           /\ [reply' # reply /\ reply'.answered = "pre_bootstrap"
                 => rows = <<>> \/ boots \in misled]_kernelVars
  BY <1>3
<1>5. QED
  BY <1>1, <1>2, <1>4, PTL DEF KSpec, RepliesTrue, TokenStaysGood, HealthTellsSetup

(***************************************************************************)
(* The handles and their registries.                                       *)
(***************************************************************************)

\* The registries keep their types: every slot holds an adapter or is vacant.
LEMMA HandlesType ==
  ASSUME HTypeOK, [HNext]_handleVars, First \in Kernels, Adapters = DOMAIN SlotOf
  PROVE  HTypeOK'
<1> USE DEF HTypeOK
<1>1. ASSUME NEW k \in Kernels, NEW a \in Adapters, Register(k, a)
      PROVE  HTypeOK'
  <2>1. SlotOf[a] \in Slots
    BY DEF Slots, Range
  <2>2. registry' = [registry EXCEPT ![k][SlotOf[a]] = a] \/ UNCHANGED registry
    BY <1>1 DEF Register
  <2>3. registry' \in [Kernels -> [Slots -> Adapters \cup {Vacant}]]
    BY <2>1, <2>2
  <2> QED BY <1>1, <2>3 DEF Register
<1>2. ASSUME NEW k \in Kernels, NEW new \in Kernels, Clone(k, new)
      PROVE  HTypeOK'
  BY <1>2 DEF Clone, CopiedRegistry
<1>3. ASSUME NEW k \in Kernels, Drop(k)
      PROVE  HTypeOK'
  BY <1>3 DEF Drop, Empty
<1>4. CASE UNCHANGED handleVars
  BY <1>4 DEF handleVars
<1> QED BY <1>1, <1>2, <1>3, <1>4 DEF HNext

\* A step displaces no adapter, and a clone is a copy of a kernel there was.
LEMMA HandlesKeep ==
  ASSUME HTypeOK, HNext, Adapters = DOMAIN SlotOf
  PROVE  AdaptersKept
<1> USE DEF HTypeOK
<1>1. ASSUME NEW k \in Kernels, NEW a \in Adapters, Register(k, a)
      PROVE  AdaptersKept
  <2>1. CASE registry' = [registry EXCEPT ![k][SlotOf[a]] = a] /\ Free(k, SlotOf[a])
    <3>1. ASSUME NEW j \in alive, NEW s \in Slots, registry[j][s] # Vacant
          PROVE  registry'[j][s] = registry[j][s]
      <4>1. CASE j = k /\ s = SlotOf[a]
        BY <2>1, <3>1, <4>1 DEF Free
      <4>2. CASE ~(j = k /\ s = SlotOf[a])
        BY <2>1, <4>2
      <4> QED BY <4>1, <4>2
    <3> QED BY <1>1, <3>1 DEF Register, AdaptersKept
  <2>2. CASE UNCHANGED registry
    BY <1>1, <2>2 DEF Register, AdaptersKept
  <2> QED BY <1>1, <2>1, <2>2 DEF Register
<1>2. ASSUME NEW k \in Kernels, NEW new \in Kernels, Clone(k, new)
      PROVE  AdaptersKept
  <2>1. \A j \in alive : registry'[j] = registry[j]
    BY <1>2 DEF Clone
  <2>2. registry'[new] = registry[k] /\ k \in alive /\ alive' \ alive \subseteq {new}
    BY <1>2 DEF Clone, CopiedRegistry
  <2> QED BY <2>1, <2>2 DEF AdaptersKept
<1>3. ASSUME NEW k \in Kernels, Drop(k)
      PROVE  AdaptersKept
  <2>1. \A j \in alive \ {k} : registry'[j] = registry[j]
    BY <1>3 DEF Drop
  <2> QED BY <1>3, <2>1 DEF Drop, AdaptersKept
<1> QED BY <1>1, <1>2, <1>3 DEF HNext

\* Whatever is registered on whichever of the clones, and whichever are dropped, an
\* adapter stays where it was registered for as long as its kernel lives, and a clone
\* begins with what its original has (capability_registry.rs, kernel.rs).
THEOREM AdaptersStayCorrect ==
  ASSUME First \in Kernels, Adapters = DOMAIN SlotOf
  PROVE  HSpec => [](HTypeOK) /\ AdaptersStay
<1>1. HInit => HTypeOK
  BY DEF HInit, HTypeOK, Empty
<1>2. HTypeOK /\ [HNext]_handleVars => HTypeOK'
  BY HandlesType
<1>3. HTypeOK /\ [HNext]_handleVars => [AdaptersKept]_handleVars
  BY HandlesKeep
<1> QED BY <1>1, <1>2, <1>3, PTL DEF HSpec, AdaptersStay
=============================================================================
