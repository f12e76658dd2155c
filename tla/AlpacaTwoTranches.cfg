CONSTANTS
  Prices <- StandStill
  Entries <- MCEntries
  Splits <- TwoShares
  Trails <- MCTrails
  MaxTick = 0
  MaxOpenPositions = 1
  MaxTrades = 1
  MaxOrders = 3
  Lossy = FALSE
  Busy = TRUE
SPECIFICATION FairSpec
INVARIANTS ClosedIffFlat
PROPERTIES SoldOnlyByFill PendingOpensOnFill EntrySeen ExitsSeen
CHECK_DEADLOCK FALSE
