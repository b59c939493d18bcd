SPECIFICATION LiveServerSpec
CONSTANTS
  MaxConsoleLines = 2
  MaxPrinted = 4
INVARIANT ConsoleKeepsUp
CHECK_DEADLOCK FALSE
