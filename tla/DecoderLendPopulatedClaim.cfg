SPECIFICATION LendingSpec
CONSTANTS
  t1 = t1 t2 = t2 t3 = t3 NoThread = NoThread
  Threads = {t1}
  Lendable <- OneDecoder
  Policies = {"Auto", "CpuOnly"}
  VulkanSession = FALSE
  HuffmanKernel = TRUE
INVARIANTS SlotsPopulatedBetweenPages
