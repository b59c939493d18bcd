SPECIFICATION Spec
CONSTANTS
  Jobs = {j1, j2}
  MaxEvents = 3
  MaxLate = 1
PROPERTY ReinstallKeepsRunning
CHECK_DEADLOCK FALSE
