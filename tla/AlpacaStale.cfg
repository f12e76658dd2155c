CONSTANTS
  Prices <- Falling
  Entries <- MCEntries
  Splits <- TwoShares
  Trails <- MCTrails
  MaxTick = 1
  MaxOpenPositions = 1
  MaxTrades = 2
  MaxOrders = 6
  Lossy = TRUE
  Busy = FALSE
SPECIFICATION Spec
INVARIANTS CanceledIsDone
CHECK_DEADLOCK FALSE
