----------------------------- MODULE KernelMode -----------------------------
(***************************************************************************)
(* The lifecycle mode of the kernel: the mode controller, the handler of   *)
(* POST /pre-bootstrap/seal that drives it, and the boot that picks the    *)
(* first mode from the vault.                                              *)
(*                                                                         *)
(* A mode is an atomic discriminant and a payload behind a mutex.  Every   *)
(* transition writes the first and then the second, in two steps; handlers *)
(* run in parallel on the threads of the runtime.  The handler awaits only *)
(* while security.seal waits for the connection's lock, before the insert: *)
(* there its future is dropped when the client goes away.  After the       *)
(* commit the publish of the audit event may still panic (a poisoned bus). *)
(*                                                                         *)
(* A vault of the first release may hold a token without a hash, which     *)
(* migration 2 leaves NULL: its row comes first in the index, and for      *)
(* lookup_hash there is then no secret, whatever is sealed after it.       *)
(***************************************************************************)
EXTENDS Integers, Sequences, FiniteSets

CONSTANTS
  Requests,       \* seal requests, each with its own token
  Invalid,        \* those with another name or an empty value
  Failing,        \* those whose seal may fail
  Disconnecting,  \* those whose client may go away
  Panicking,      \* those whose publish may panic
  LookupErrs,     \* TRUE if the lookup at boot may fail
  LegacyRows,     \* FALSE, TRUE: may there be a token of the first release?
  MaxBoots        \* bound of the model: how often the process is started

ASSUME RequestAssumption ==
  /\ Invalid \cup Failing \cup Disconnecting \cup Panicking \subseteq Requests
  /\ "boot" \notin Requests
ASSUME BootAssumption ==
  /\ LookupErrs \in BOOLEAN /\ LegacyRows \subseteq BOOLEAN
  /\ MaxBoots \in Nat \ {0}

VARIABLES
  disc,      \* ModeController::discriminant
  payload,   \* ModeController::payload: its variant and the request it is from
  pc,        \* where each handler is
  answer,    \* what each handler returned
  legacy,    \* the vault holds a token without a hash
  rows,      \* the tokens sealed as dashboard-token since, by version
  boots,     \* how often the process has been started
  misled     \* history: the boots whose lookup did not see a sealed token

bootVars == <<legacy, boots, misled>>
vars     == <<disc, payload, pc, answer, rows, bootVars>>

Modes   == {"PreBootstrap", "Sealing", "Full"}
Stages  == {"new", "won", "sealing", "sealed", "failed", "full", "back", "done", "abandoned", "gone"}
Answers == {"none", "Ok", "BadName", "AlreadySealing", "AlreadySealed", "Engine"}

Payload(mode, by) == [mode |-> mode, by |-> by]

\* Kernel::new looks the token up under a hash that matches nothing.
BootLookup ==
  (IF legacy \/ rows = <<>> THEN {"not found"} ELSE {"found"})
    \cup (IF LookupErrs THEN {"error"} ELSE {})

\* Mutant: what the vault says at boot does not matter.
AlwaysPreBootstrap(looked) == "PreBootstrap"

\* Any answer means that a token is sealed; any error is taken for SecretNotFound.
BootMode(looked) == IF looked = "found" THEN "Full" ELSE "PreBootstrap"

Init ==
  /\ legacy \in LegacyRows
  /\ rows    = <<>>
  /\ disc    = "PreBootstrap"
  /\ payload = Payload("PreBootstrap", "boot")
  /\ pc      = [r \in Requests |-> "new"]
  /\ answer  = [r \in Requests |-> "none"]
  /\ boots   = 1
  /\ misled  = {}

-----------------------------------------------------------------------------
Answered(r, a) == [answer EXCEPT ![r] = a]

Goto(r, stage) == pc' = [pc EXCEPT ![r] = stage]

\* The request is refused before it touches the mode.
RejectName(r) ==
  /\ pc[r] = "new"
  /\ r \in Invalid
  /\ Goto(r, "done")
  /\ answer' = Answered(r, "BadName")
  /\ UNCHANGED <<disc, payload, rows, bootVars>>

\* Mutant: a plain load and store instead of the compare_exchange.
NotFull == disc # "Full"

CasSucceeds == disc = "PreBootstrap"

(* try_transition_to_sealing: the compare_exchange, then the payload.      *)
WinCas(r) ==
  /\ pc[r] = "new"
  /\ r \notin Invalid
  /\ CasSucceeds
  /\ disc' = "Sealing"
  /\ Goto(r, "won")
  /\ UNCHANGED <<payload, answer, rows, bootVars>>

LoseCas(r) ==
  /\ pc[r] = "new"
  /\ r \notin Invalid
  /\ ~CasSucceeds
  /\ Goto(r, "done")
  /\ answer' = Answered(r, IF disc = "Full" THEN "AlreadySealed" ELSE "AlreadySealing")
  /\ UNCHANGED <<disc, payload, rows, bootVars>>

MarkSealing(r) ==
  /\ pc[r] = "won"
  /\ payload' = Payload("Sealing", r)
  /\ Goto(r, "sealing")
  /\ UNCHANGED <<disc, answer, rows, bootVars>>

(* security.seal returns: the row is committed, or nothing changed.        *)
SealCommits(r) ==
  /\ pc[r] = "sealing"
  /\ rows' = Append(rows, r)
  /\ Goto(r, "sealed")
  /\ UNCHANGED <<disc, payload, answer, bootVars>>

\* Mutant: seal reports a failure of what comes after its commit.
FailsLate(r) ==
  /\ pc[r] = "sealing" /\ r \in Failing
  /\ rows' = Append(rows, r)
  /\ Goto(r, "failed")
  /\ UNCHANGED <<disc, payload, answer, bootVars>>

SealFails(r) ==
  /\ pc[r] = "sealing"
  /\ r \in Failing
  /\ Goto(r, "failed")
  /\ UNCHANGED <<disc, payload, answer, rows, bootVars>>

(* The future is dropped or unwinds, and nothing undoes the transition.    *)
Abandon(r) ==
  /\ \/ pc[r] = "sealing" /\ r \in Disconnecting
     \/ pc[r] = "sealed" /\ r \in Panicking
  /\ Goto(r, "abandoned")
  /\ UNCHANGED <<disc, payload, answer, rows, bootVars>>

\* Mutant: the rollback is forgotten.
StaysSealing == "Sealing"

\* What the rollback stores.
RollbackMode == "PreBootstrap"

(* transition_to_full and transition_to_prebootstrap: the store ...        *)
StoreFull(r) ==
  /\ pc[r] = "sealed"
  /\ disc' = "Full"
  /\ Goto(r, "full")
  /\ UNCHANGED <<payload, answer, rows, bootVars>>

StoreBack(r) ==
  /\ pc[r] = "failed"
  /\ disc' = RollbackMode
  /\ Goto(r, "back")
  /\ UNCHANGED <<payload, answer, rows, bootVars>>

\* Mutant: the payload of a transition to Full is not written.
PayloadKept(r) == payload

FullPayload(r) == Payload("Full", r)

(* ... and then the payload, and the response.                             *)
MarkFull(r) ==
  /\ pc[r] = "full"
  /\ payload' = FullPayload(r)
  /\ Goto(r, "done")
  /\ answer' = Answered(r, "Ok")
  /\ UNCHANGED <<disc, rows, bootVars>>

MarkBack(r) ==
  /\ pc[r] = "back"
  /\ payload' = Payload("PreBootstrap", r)
  /\ Goto(r, "done")
  /\ answer' = Answered(r, "Engine")
  /\ UNCHANGED <<disc, rows, bootVars>>

(* The process dies, every handler with it, and is started again.          *)
Restart ==
  /\ boots < MaxBoots
  /\ boots' = boots + 1
  /\ \E looked \in BootLookup :
       /\ disc' = BootMode(looked)
       /\ payload' = Payload(BootMode(looked), "boot")
       /\ misled' = IF rows # <<>> /\ looked # "found" THEN misled \cup {boots'} ELSE misled
  /\ pc' = [r \in Requests |-> IF pc[r] \in {"new", "done"} THEN pc[r] ELSE "gone"]
  /\ UNCHANGED <<answer, legacy, rows>>

Continue(r) ==
  \/ MarkSealing(r) \/ SealCommits(r) \/ SealFails(r)
  \/ StoreFull(r) \/ StoreBack(r) \/ MarkFull(r) \/ MarkBack(r)

Handler(r) == RejectName(r) \/ WinCas(r) \/ LoseCas(r) \/ Continue(r) \/ Abandon(r)

Next == Restart \/ \E r \in Requests : Handler(r)

Spec == Init /\ [][Next]_vars

-----------------------------------------------------------------------------
TypeOK ==
  /\ disc \in Modes
  /\ payload \in [mode : Modes, by : Requests \cup {"boot"}]
  /\ pc \in [Requests -> Stages]
  /\ answer \in [Requests -> Answers]
  /\ \A r \in Requests : answer[r] # "none" <=> pc[r] = "done"
  /\ legacy \in BOOLEAN
  /\ rows \in Seq(Requests)
  /\ boots \in 1..MaxBoots
  /\ misled \subseteq 2..boots

\* The handlers that moved the mode to Sealing and have not moved it on.
Owns(r) == pc[r] \in {"won", "sealing", "sealed", "failed"}

(* Only one request is ever past the compare_exchange, also when earlier   *)
(* ones failed and rolled back under it.                                   *)
OneOwner ==
  \A r \in Requests : Owns(r) => disc = "Sealing" /\ \A q \in Requests : Owns(q) => q = r

(* The setup seals one token, and one more for each boot whose lookup did  *)
(* not see it (an error of the vault, or a row without a hash before it):  *)
(* whatever fails, disconnects or crashes between the seal and the change  *)
(* of mode, no other row is inserted, of which lookup_hash would compare   *)
(* with the first.                                                         *)
OneToken == Len(rows) <= 1 + Cardinality(misled)

(* A token whose seal was answered with 200 is in the vault, and is the    *)
(* one bearer_auth compares with unless a boot did not see it; and until   *)
(* such a boot /health does not answer 503 pre_bootstrap again.            *)
AnsweredTokenWorks ==
  \A r \in Requests : answer[r] = "Ok" =>
    /\ \E i \in DOMAIN rows : rows[i] = r
    /\ misled = {} => Head(rows) = r
    /\ boots \notin misled => disc = "Full"

(* The mode tells the truth about the vault: Full only when a token is     *)
(* sealed, and PreBootstrap only when none is, or when the lookup of this  *)
(* boot did not see it.                                                    *)
ModeIsHonest ==
  /\ disc = "Full" => rows # <<>>
  /\ disc = "PreBootstrap" => rows = <<>> \/ boots \in misled

(* Once no transition is half done, current() shows what was stored; only  *)
(* a rollback that was overtaken between its two writes may hide it.       *)
PayloadSettles ==
  (\A r \in Requests : pc[r] \notin {"won", "full", "back"}) =>
    \/ payload.mode = disc
    \/ \E r \in Requests : answer[r] = "Engine" /\ payload = Payload("PreBootstrap", r)

(* The comment on transition_to_prebootstrap: the kernel is not stuck in   *)
(* Sealing, with nobody left to leave it and no request able to win.       *)
NeverStuck == disc = "Sealing" => \E r \in Requests : Owns(r)
=============================================================================
