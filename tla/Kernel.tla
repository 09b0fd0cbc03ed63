------------------------------- MODULE Kernel -------------------------------
(***************************************************************************)
(* One kernel from its start to its death: Kernel::new opens and migrates  *)
(* the vault's file next to other processes (SchemaBoot), boots the        *)
(* observability engine, picks the mode from the vault, and then serves    *)
(* the setup (KernelMode), the bearer check of /spans and /health.         *)
(***************************************************************************)
EXTENDS KernelMode, SchemaBoot

CONSTANT Main  \* the process this kernel is in

ASSUME MainAssumption == Main \in Processes

VARIABLES
  up,      \* is the kernel constructed, and was it ever
  reply    \* the last answer to a GET: what for, and the answer

modeVars   == vars
kernelVars == <<modeVars, fileVars, up, reply>>

\* GETs: /spans with the token of a request, or /health.
Reply(to, answered) == [to |-> to, answered |-> answered]

KInit ==
  /\ Init
  /\ FileInit
  /\ legacy => file.meta >= 1
  /\ up    = "never"
  /\ reply = Reply("nobody", "none")

-----------------------------------------------------------------------------
(* open_storage has returned; the rest of Kernel::new.                     *)
Construct ==
  /\ stage[Main] = "open"
  /\ \/ up = "never" /\ UNCHANGED modeVars
     \/ up = "down" /\ Restart
  /\ up' = "up"
  /\ UNCHANGED <<fileVars, reply>>

(* The observability engine cannot open spans.db: new returns the error.   *)
ConstructFails ==
  /\ stage[Main] = "open" /\ up # "up"
  /\ Killed(Main)
  /\ UNCHANGED <<modeVars, up, reply>>

Dies ==
  /\ up = "up"
  /\ boots < MaxBoots
  /\ Killed(Main)
  /\ up' = "down"
  /\ UNCHANGED <<modeVars, reply>>

(* Main before its kernel is up, and the other processes at any time.      *)
OpenStep(p) ==
  /\ p = Main => stage[p] # "open"
  /\ OpenerStep(p)
  /\ UNCHANGED <<modeVars, up, reply>>

(* A step of a seal request.                                               *)
Setup(r) ==
  /\ up = "up"
  /\ Handler(r)
  /\ UNCHANGED <<fileVars, up, reply>>

\* lookup_hash reads the first row and compares; without a hash it finds none.
Accepts(r) == ~legacy /\ rows # <<>> /\ Head(rows) = r

(* bearer_auth: an error of the vault is taken for a wrong token.          *)
BearerAuth(r) ==
  /\ up = "up"
  /\ \E verdict \in {IF Accepts(r) THEN "pass" ELSE "refused", "error"} :
       reply' = Reply(r, verdict)
  /\ UNCHANGED <<modeVars, fileVars, up>>

\* What the one registered engine says of itself: drops, or none.
EngineHealth == {"Healthy", "Degraded"}

\* aggregate_health: the worst of the engines.
Overall(statuses) ==
  IF "Unhealthy" \in statuses THEN "Unhealthy"
  ELSE IF "Degraded" \in statuses THEN "Degraded" ELSE "Healthy"

\* Mutant: a kernel that is sealing says so too.
NotYetFull(overall) == IF disc # "Full" THEN "pre_bootstrap" ELSE overall

HealthAnswer(overall) == IF disc = "PreBootstrap" THEN "pre_bootstrap" ELSE overall

(* GET /health.                                                            *)
Health ==
  /\ up = "up"
  /\ \E status \in EngineHealth : reply' = Reply("/health", HealthAnswer(Overall({status})))
  /\ UNCHANGED <<modeVars, fileVars, up>>

KNext ==
  \/ Construct \/ ConstructFails \/ Dies \/ Health
  \/ \E p \in Processes : OpenStep(p)
  \/ \E r \in Requests : Setup(r) \/ BearerAuth(r)

KSpec == KInit /\ [][KNext]_kernelVars

(* The runtime polls the boot and the handlers; that a process which       *)
(* failed to open the file, or died, is started again is up to its         *)
(* operator, and assumed.                                                  *)
KFairSpec ==
  /\ KSpec
  /\ WF_kernelVars(OpenStep(Main) /\ (Open(Main) \/ Opening(Main)))
  /\ WF_kernelVars(Construct)
  /\ \A r \in Requests : WF_kernelVars(Setup(r) /\ Continue(r))

-----------------------------------------------------------------------------
KTypeOK ==
  /\ TypeOK /\ FileTypeOK
  /\ up \in {"never", "up", "down"}
  /\ up = "up" => stage[Main] = "open"
  /\ \/ reply = Reply("nobody", "none")
     \/ reply \in [to : Requests, answered : {"pass", "refused", "error"}]
     \/ reply \in [to : {"/health"}, answered : {"pre_bootstrap"} \cup EngineHealth]

(* A token whose request was refused (its name, a setup under way, a setup *)
(* that is over, a failed seal) never opens /spans, whatever was sealed by *)
(* the others and however often the kernel died in between.                *)
RefusedStaysOut ==
  reply.answered = "pass" => answer[reply.to] \in {"none", "Ok"}

(* A token that was answered with 200 is never taken for a wrong one, over *)
(* restarts and migrations of the file by others, unless a row without a   *)
(* hash is before it or a boot did not see that a token was sealed; else   *)
(* only an error of the vault refuses it.                                  *)
TokenStaysGood ==
  [][reply' # reply /\ reply'.answered = "refused" /\ answer[reply'.to] = "Ok"
       => legacy \/ misled # {}]_kernelVars

(* /health says pre_bootstrap only of a vault without a token, or after a  *)
(* boot that did not see the token: nobody else is sent to the setup of a  *)
(* kernel that is set up.                                                  *)
HealthTellsSetup ==
  [][reply' # reply /\ reply'.answered = "pre_bootstrap"
       => rows = <<>> \/ boots \in misled]_kernelVars

(* What the routes answer is true of the vault.                            *)
RepliesTrue == TokenStaysGood /\ HealthTellsSetup

(* A setup under way ends, unless its handler was abandoned or the kernel  *)
(* dies.                                                                   *)
SetupEnds ==
  up = "up" /\ disc = "Sealing"
    ~> up # "up" \/ disc # "Sealing" \/ \E r \in Requests : pc[r] = "abandoned"

(* A boot that lost the race for a migration, failed in the middle of one  *)
(* or died is not lost for good: started again, the kernel comes up,       *)
(* unless a newer release has taken the file.                              *)
ComesUp == []<>(up = "up" \/ file.meta > Binary[Main])

(* Neither the boot nor the setup is stuck.                                *)
SetupComesToAnEnd == SetupEnds /\ ComesUp

(* The doc of lookup_hash on a row without a hash: "The operator must      *)
(* re-seal the secret to populate the column".  So a token that is sealed  *)
(* again, and answered with 200, is accepted.                              *)
ResealWorks == \A r \in Requests : answer[r] = "Ok" => Accepts(r)
=============================================================================
