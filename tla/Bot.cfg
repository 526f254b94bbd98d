CONSTANTS
  Stocks = {"AAPL"}
  Cryptos = {"SOL"}
  MaxApprovals = 2
  Qty = 2
  Faults = {"crash", "net", "read", "partial"}
  MaxFaults = 1
  Passes = {"p"}
  MaxOpen = 2
SPECIFICATION FairSpec
INVARIANTS NoPhantomCloseOfWhole NoSecondExposure SafeMeansBacked SafeMeansCovered
PROPERTIES ErrorIsSafe BookedEventually
