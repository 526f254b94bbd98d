CONSTANTS
  Symbols = {a, b, c}
  NoSymbol = NoSymbol
  Qty = 2
  MaxReplaces = 1
  Faults = {"crash", "net", "read", "partial", "expire", "noleg", "race"}
  MaxFaults = 1
  MaxSignals = 1
  MaxEntries = 2
  MaxPositions = 2
SPECIFICATION Spec
INVARIANT EntrySlotsHold
PROPERTY EntriesOnlyWhenClean
SYMMETRY Symmetry
