SPECIFICATION FairSpec
CONSTANTS
  Jobs = {j1, j2}
  MaxEvents = 3
  MaxLate = 1
INVARIANTS SuspendedStaysStopped StatusHonest NoOrphan
PROPERTIES EditsKeepRunning InstallingEnds
CHECK_DEADLOCK FALSE
