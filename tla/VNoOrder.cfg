CONSTANTS
  Symbols = {a}
  NoSymbol = NoSymbol
  Qty = 2
  MaxReplaces = 1
  Faults = {"net", "partial", "expire"}
  MaxFaults = 3
  MaxSignals = 1
  MaxEntries = 1
  MaxPositions = 1
SPECIFICATION FairSpec
PROPERTY NoOrderMeansNeverFilled
