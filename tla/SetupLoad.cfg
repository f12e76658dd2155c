CONSTANTS
  Symbols = {a, b}
  MaxRequests = 1
SPECIFICATION FairSpec
INVARIANTS SetupMatches CatchesUp
 
