CONSTANTS
  Symbols = {a, b}
  Prices <- NearPrices
  Entries <- Longs
  Splits <- OneTranche
  Trails <- MCTrails
  MaxTick = 2
  MaxOpenPositions = 1
  MaxTrades = 2
SYMMETRY Swap
SPECIFICATION Spec
INVARIANTS OpenLimit
PROPERTIES KeepsLedger
CHECK_DEADLOCK FALSE
