CONSTANTS
  Prices <- Falling
  Entries <- MCEntries
  Splits <- OneShare
  Trails <- MCTrails
  MaxTick = 1
  MaxOpenPositions = 2
  MaxTrades = 2
  MaxOrders = 3
  Lossy = TRUE
  Busy = FALSE
SPECIFICATION Spec
INVARIANTS TypeOK
PROPERTIES TradeOnlyShrinks KeepsLedger
CHECK_DEADLOCK FALSE
