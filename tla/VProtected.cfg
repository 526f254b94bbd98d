CONSTANTS
  Stocks = {"AAPL"}
  Cryptos = {}
  MaxApprovals = 1
  Qty = 1
  Faults = {"net"}
  MaxFaults = 1
  Passes = {"p"}
  MaxOpen = 2
SPECIFICATION Spec
INVARIANT SafeMeansProtected
