CONSTANTS
  Symbols = {a}
  NoSymbol = NoSymbol
  Qty = 2
  MaxReplaces = 2
  Faults = {"noleg"}
  MaxFaults = 1
  MaxSignals = 2
  MaxEntries = 2
  MaxPositions = 2
SPECIFICATION FairSpec
INVARIANT OpenHasStop
PROPERTY GuardianFinishes
