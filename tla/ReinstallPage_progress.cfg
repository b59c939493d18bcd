SPECIFICATION ReinstallPageFairSpec
CONSTANTS
  Eggs = {"paper", "fabric"}
  MaxReinstalls = 2
PROPERTY TrackedToItsEnd
CHECK_DEADLOCK FALSE
