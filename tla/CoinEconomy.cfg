SPECIFICATION PartsSpec
CONSTANTS
  ann = ann
  bob = bob
  limited = limited
  unlimited = unlimited
  cpu = cpu
  db = db
  None = None
  Users = {ann, bob}
  Codes = {limited, unlimited}
  Items = {cpu, db}
  Handlers = {h1, h2}
  MaxBalance = 4
  CodeCoins <- MCCodeCoins
  CodeMax <- MCCodeMax
  Price <- MCPrice
  DailyAmount = 1
  DailyInterval = 2
  AfkCoins = 1
  GiftAmounts <- MCGiftAmounts
  Adjustments <- MCAdjustments
  Kinds <- AllKinds
  MaxTime = 3
  MaxColumn = 3
CHECK_DEADLOCK FALSE
INVARIANTS TypeOK BalanceMatchesLedger GiftsConserve RedeemBounded
  DailyRate PurchasesAccounted
