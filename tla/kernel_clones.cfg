SPECIFICATION HSpec
CONSTANTS
  k1 = k1
  k2 = k2
  llmA = llmA
  llmB = llmB
  faq = faq
  Kernels = {k1, k2}
  First = k1
  Adapters = {llmA, llmB, faq}
  SlotOf <- Slot
  Vacant = Vacant
INVARIANT ClonesAgree
CHECK_DEADLOCK FALSE
