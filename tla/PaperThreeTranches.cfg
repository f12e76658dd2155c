CONSTANTS
  Symbols = {"a"}
  Prices <- WidePrices
  Entries <- Both
  Splits <- ThreeTranches
  Trails <- MCTrails
  MaxTick = 2
  MaxOpenPositions = 1
  MaxTrades = 1
SPECIFICATION Spec
INVARIANTS NoTwins
CHECK_DEADLOCK FALSE
