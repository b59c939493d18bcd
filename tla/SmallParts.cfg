SPECIFICATION PartsSpec
CONSTANTS
  Procs = {p1, p2, p3}
  Keys = {u1, u2}
  Locks = {l1, l2, l3}
  Nothing = Nothing
  e1 = e1
  e2 = e2
  Nil = Nil
  Envelopes = {e1, e2}
  Stamp <- MCStamp
  Res = 2
  Skew = 1
  TTL = 8
  MaxDrift = 1
  MaxDelay = 1
  MaxClock = 20
  MaxConsoleLines = 2
  MaxPrinted = 4
  Eggs = {"paper", "fabric"}
  MaxReinstalls = 2
INVARIANTS MutualExclusion NoLeak AcceptedOnce ConsoleInOrder
PROPERTIES ImplementsPerKeyLock EveryoneGetsTheLock
  StreamResumes InstallingShownEnds
CHECK_DEADLOCK FALSE
