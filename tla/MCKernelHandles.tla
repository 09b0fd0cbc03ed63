--------------------------- MODULE MCKernelHandles ---------------------------
(* Instances of KernelHandles for TLC: two language models for one slot.    *)
EXTENDS KernelHandles, TLC

CONSTANTS k1, k2, llmA, llmB, faq  \* model values

Slot == (llmA :> "llm" @@ llmB :> "llm" @@ faq :> "knowledge.faq")
=============================================================================
