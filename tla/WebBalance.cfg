SPECIFICATION WebBalanceSpec
CONSTANTS
  Acts = {a1}
  Amounts = {1}
  MaxBalance = 2
  MaxChanges = 2
INVARIANT BalanceSettles
CHECK_DEADLOCK FALSE
