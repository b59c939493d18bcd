SPECIFICATION AfkPageSpec
CONSTANTS
  AfkTabs = {t1}
  MaxMounts = 4
INVARIANT RetryRearms
CHECK_DEADLOCK FALSE
