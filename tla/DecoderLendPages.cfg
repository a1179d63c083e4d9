SPECIFICATION LendingFairSpec
CONSTANTS
  t1 = t1 t2 = t2 t3 = t3 NoThread = NoThread
  Threads = {t1, t2}
  Lendable <- VulkanAndNvjpeg
  Policies = {"Auto", "CpuOnly", "ForceCuda", "ForceVulkan"}
  VulkanSession = TRUE
  HuffmanKernel = TRUE
INVARIANTS LentIsReturnable
PROPERTIES FailureRemembered PageEnds
