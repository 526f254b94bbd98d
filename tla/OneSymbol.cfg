CONSTANTS
  Symbols = {a}
  NoSymbol = NoSymbol
  Qty = 2
  MaxReplaces = 2
  Faults = {"crash", "net", "read", "partial", "expire", "noleg", "race"}
  MaxFaults = 3
  MaxSignals = 2
  MaxEntries = 2
  MaxPositions = 2
SPECIFICATION FairSpec
INVARIANTS TypeOK RowNeverUnderstates ClosedMeansExited
PROPERTIES ExitOnlyForOwned FlatCoversTracked LedgerSpec UnresolvedIsResolved
