CONSTANTS
  Symbols = {"a"}
  Prices <- MCPrices
  Entries <- Longs
  Splits <- TwoTranches
  Trails <- MCTrails
  MaxTick = 2
  MaxOpenPositions = 1
  MaxTrades = 2
SPECIFICATION Spec
INVARIANTS TypeOK ClosedIffFlat PendingIsQuiet AlwaysReconciled StaysCovered FillsApplied
PROPERTIES TradeOnlyShrinks TradeOrdersFinal SoldOnlyByFill
CHECK_DEADLOCK FALSE
