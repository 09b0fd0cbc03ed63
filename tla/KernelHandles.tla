---------------------------- MODULE KernelHandles ----------------------------
(***************************************************************************)
(* The adapters a kernel knows: the capability registry behind the mutex   *)
(* of one Kernel value, and the clones of a kernel, each with a registry   *)
(* copied from its original's when it was cloned.  There is one slot for   *)
(* an LLM, one for an embedding, and one for every key of a knowledge      *)
(* adapter.                                                                *)
(***************************************************************************)
EXTENDS Naturals, FiniteSets, Functions

CONSTANTS
  Kernels,   \* the Kernel values there may be
  First,     \* the one of them that Kernel::new returned
  Adapters,  \* what is registered: DOMAIN SlotOf
  SlotOf,    \* the slot each adapter is for
  Vacant     \* an empty slot, no adapter: Option::None

Slots == Range(SlotOf)

VARIABLES
  alive,     \* the Kernel values that exist
  registry,  \* Kernel::capabilities of each
  result     \* the last outcome of a registration

handleVars == <<alive, registry, result>>

Empty == [s \in Slots |-> Vacant]

HInit ==
  /\ alive    = {First}
  /\ registry = [k \in Kernels |-> Empty]
  /\ result   = "none"

Free(k, s) == registry[k][s] = Vacant

(* register_llm, register_embedding, register_knowledge                    *)
Register(k, a) ==
  LET s == SlotOf[a]
  IN  /\ k \in alive
      /\ \/ /\ Free(k, s)
            /\ registry' = [registry EXCEPT ![k][s] = a]
            /\ result' = "Ok"
         \/ /\ ~Free(k, s)
            /\ result' = "AlreadyRegistered"
            /\ UNCHANGED registry
      /\ UNCHANGED alive

\* llm, embedding, knowledge: what a caller with kernel k is given.
Lookup(k, s) == registry[k][s]

CopiedRegistry(k) == registry[k]

(* Clone for Kernel                                                        *)
Clone(k, new) ==
  /\ k \in alive /\ new \notin alive
  /\ alive' = alive \cup {new}
  /\ registry' = [registry EXCEPT ![new] = CopiedRegistry(k)]
  /\ UNCHANGED result

Drop(k) ==
  /\ k \in alive \ {First}
  /\ alive' = alive \ {k}
  /\ registry' = [registry EXCEPT ![k] = Empty]
  /\ UNCHANGED result

HNext ==
  \/ \E k \in Kernels, a \in Adapters : Register(k, a)
  \/ \E k, new \in Kernels : Clone(k, new)
  \/ \E k \in Kernels : Drop(k)

HSpec == HInit /\ [][HNext]_handleVars

-----------------------------------------------------------------------------
\* Types of the handles.
HTypeOK ==
  /\ alive \subseteq Kernels
  /\ registry \in [Kernels -> [Slots -> Adapters \cup {Vacant}]]
  /\ result \in {"none", "Ok", "AlreadyRegistered"}

\* No registration and no clone ever displaces an adapter, on any kernel, so that the
\* callers of one kernel never see two adapters in one slot, and a clone begins with
\* the adapters of its original (capability_registry.rs register_llm,
\* register_embedding, register_knowledge; kernel.rs Clone for Kernel).
AdaptersKept ==
  /\ \A k \in alive \cap alive', s \in Slots :
       registry[k][s] # Vacant => registry'[k][s] = registry[k][s]
  /\ \A new \in alive' \ alive : \E k \in alive : registry'[new] = registry[k]

AdaptersStay == [][AdaptersKept]_handleVars

\* The doc of Clone for Kernel: "a `register_llm` on one clone is visible to the
\* other immediately".
ClonesAgree == \A j, k \in alive, s \in Slots : Lookup(j, s) = Lookup(k, s)
=============================================================================
